--------------------------------- MODULE View ---------------------------------
(***************************************************************************)
(* One view of tig: its cursor and window (navigation), the incremental    *)
(* loading of its lines from a command's output, and the restoring of the  *)
(* position the view had before it was reloaded.  See view.c.              *)
(*                                                                         *)
(* The main loop is single threaded, but loading is not: between any two   *)
(* key presses update_view() adds the lines that have arrived, the         *)
(* terminal may be resized, and the view may be hidden behind others and   *)
(* shown again in a window of another height.                              *)
(*                                                                         *)
(* An operator marked "Mutant" is the one below it with a plausible bug;   *)
(* nothing uses it but PROJECT.json's mutants.                             *)
(***************************************************************************)
EXTENDS ViewPosition

CONSTANTS
  MaxLines,     \* bound: the longest output a command may have
  Heights,      \* bound: the window heights the terminal can give the view
  MaxCol,       \* bound: how far the view can be scrolled sideways, in steps
  MaxHeader,    \* bound: lines a view adds itself before its command prints
  MaxChained,   \* bound: follow-up commands of one load (OPEN_EXTRA)
  MouseScroll,  \* opt_mouse_scroll
  GotoLineno,   \* argv_env.goto_lineno: the line asked for on the command line
  Readers,      \* bound: what the read() of the view may do, see below
  MaxJumps      \* bound: lines a load may be asked to go to

\* The read() that a view's ops give to update_view adds lines.  Those of some
\* views also move the cursor or the window themselves:
\*   jumps     main: to the commit or the changes it was asked for, as soon as
\*             their line is added (goto_id, start-on-head, goto_line_type)
\*   returns   diff, stage, blame, blob: at the end of the output to the line
\*             it was asked for (diff_restore_line, goto_lineno)
\*   follows   pager: scrolls with the output (pager-autoscroll)
\*   descends  tree: from the first line to the first entry
OneShots == {"jumps", "returns"}
Habits == {"adds", "follows", "descends"}

ASSUME ViewAssumption ==
  /\ MaxLines \in Nat /\ MaxCol \in Nat /\ MaxHeader \in Nat /\ MaxChained \in Nat
  /\ Heights \subseteq Nat \ {0}
  /\ MouseScroll \in Nat
  /\ GotoLineno \in Nat
  /\ Readers \subseteq OneShots \cup Habits
  /\ MaxJumps \in Nat

VARIABLES
  lines,      \* view->lines
  arriving,   \* lines the running command has yet to print
  loading,    \* view->pipe is set
  chained,    \* follow-up commands the view may still start
  reader,     \* what the read() of the load that runs does besides
  jumps,      \* how often it may still go to a line it was asked for
  height,     \* view->height
  displayed,  \* view_is_displayed(view)
  first,      \* view->prev is NULL: this is the first view opened
  pos,        \* view->pos
  prevPos,    \* view->prev_pos, the position to return to after loading
  aborted     \* an assert() failed and the process is gone

vars == <<lines, arriving, loading, chained, reader, jumps, height, displayed,
          first, pos, prevPos, aborted>>

window == <<height, displayed>>
content == <<lines, arriving, loading, chained, reader, jumps>>

Init ==
  /\ lines = 0 /\ arriving = 0 /\ loading = FALSE /\ chained = 0
  /\ reader = "adds" /\ jumps = 0
  /\ height \in Heights
  /\ displayed = FALSE
  /\ first \in BOOLEAN
  /\ pos = Origin /\ prevPos = Origin
  /\ aborted = FALSE

-------------------------------------------------------------------------------
(* User requests that move the cursor or the window.                       *)

\* A request that takes the position to p, unless an assertion fails.
Navigate(p, asserts) ==
  /\ ~aborted
  /\ pos' = IF asserts THEN p ELSE pos
  /\ aborted' = ~asserts
  /\ UNCHANGED <<content, window, first, prevPos>>

\* move_view; also called for the hidden parent of a split view.
Move(request) ==
  LET steps == MoveSteps(pos, lines, height, MouseScroll, request)
  IN  Navigate(MoveBy(pos, lines, height, displayed, steps),
               MoveByAsserts(pos, lines, height, displayed, steps))

\* scroll_view, up and down.
Scroll(request) ==
  /\ displayed
  /\ Navigate(ScrollView(pos, lines, height, MouseScroll, request),
              ScrollViewAsserts(pos, lines, height, MouseScroll, request))

\* scroll_view, sideways: right, left and back to the first column.
ScrollCol ==
  /\ displayed
  /\ \E col \in {0, pos.col - 1, pos.col + 1} \cap 0..MaxCol :
       Navigate([pos EXCEPT !.col = col], TRUE)

\* select_view_line: jump to a search match, a line number, a commit.
SelectViewLine(lineno) ==
  Navigate(GotoViewLine(pos, lines, height, pos.offset, lineno), TRUE)

-------------------------------------------------------------------------------
(* What a view's read() does to the position, when the lines it has read   *)
(* make the view n lines long.                                             *)

\* k calls of do_scroll_view(view, 1): the first one brings the cursor into
\* the window, the others take it along.
Followed(k) == DoScrollView(DoScrollView(pos, height, 1), height, k - 1)

\* pager_read scrolls before a line if the window ends one line above the last
\* one: k times, while up to n lines are added one or several at a time.
MayFollow(k, n) ==
  /\ reader = "follows"
  /\ lines <= pos.offset + height + 1
  /\ pos.offset + height + k <= n

\* tree_read, when an entry has been added after the others.
MayDescend(n) ==
  /\ reader = "descends"
  /\ ~CheckPosition(prevPos) /\ ~CheckPosition(pos)
  /\ 1 < n /\ lines < n

\* Where read() leaves the position without being asked.
Moved(n) ==
  {pos}
    \cup {Followed(k) : k \in {i \in 1..n : MayFollow(i, n)}}
    \cup (IF MayDescend(n) THEN {GotoViewLine(pos, n, height, 0, 1)} ELSE {})

\* main_add_commit and main_add_changes_commit, when line t has been added.
\* The commit's own number counts from the lines of uncommitted changes: after
\* three of them it is the line above.
AsAdded(n) ==
  {GotoViewLine(pos, t + 1, height, pos.offset, t) : t \in lines..(n - 1)}
    \cup {GotoViewLine(pos, t + 1, height, pos.offset, t - 1) :
            t \in {i \in lines..(n - 1) : 2 < i}}

\* diff_restore_line, blame_read and blob_read, at the end of the output: any
\* line in any row of the window.
AtEnd(n) ==
  UNION {{GotoViewLine(pos, n, height, top, line) : top \in 0..(line + 1)} :
           line \in 0..(n - 1)}

\* Where a load that was asked to go somewhere leaves it.
Asked(n, atEnd) ==
  {p \in AsAdded(n) : jumps > 0 /\ reader = "jumps"}
    \cup {p \in AtEnd(n) : jumps > 0 /\ reader = "returns" /\ atEnd}

\* read() has been told that the output has ended.
LeftAtEnd(n) == Moved(n) \cup Asked(n, TRUE)

-------------------------------------------------------------------------------
(* Loading.                                                                *)

\* reset_view: the position p to return to.  A view that has no previous view
\* is the first one and starts at the line asked for.
PositionBeforeReset(p, isFirst) ==
  IF isFirst /\ lines = 0 /\ p.lineno = 0
    THEN [p EXCEPT !.lineno = GotoLineno] ELSE p

\* begin_update ends a load that is still running by force and resets the
\* view; the view's open() adds `header' lines; the command will print `total'
\* more.  `keep' says that it is a reload or a refresh.
Begin(header, total, isFirst, keep) ==
  /\ lines' = header /\ arriving' = total /\ loading' = TRUE
  /\ chained' = MaxChained
  /\ reader' \in Readers
  /\ jumps' = IF reader' \in OneShots THEN MaxJumps ELSE 0
  /\ \E p \in IF loading THEN LeftAtEnd(lines) ELSE {pos} :
       LET old == PositionBeforeReset(p, isFirst)
       IN  /\ pos' = RestoredPosition(Origin, old, header, height', TRUE)
           /\ prevPos' = IF header = 0 /\ ~isFirst /\ ~keep THEN Origin
                         ELSE RestoredPrev(Origin, old, header, TRUE)

\* open_view of a view that must be loaded; fromOther says that the request
\* was made in another view, which becomes its previous view.
Open(header, total, keep, fromOther, h) ==
  /\ ~aborted
  /\ first' = (first /\ ~fromOther)
  /\ displayed' = TRUE
  /\ height' = h
  /\ UNCHANGED aborted
  /\ Begin(header, total, first', keep)

\* reload_view and refresh_view: the window stays as it is.
Reload(header, total) ==
  /\ ~aborted
  /\ UNCHANGED <<window, first, aborted>>
  /\ Begin(header, total, first, TRUE)

\* The load that ran has ended.
Ended == loading' = FALSE /\ reader' = "adds" /\ jumps' = 0

\* A refresh of a view whose open() reads everything there and then, like
\* that of the status view, which no command loads.
ReloadAtOnce(total) ==
  LET old == PositionBeforeReset(pos, first)
  IN  /\ ~aborted
      /\ ~loading
      /\ lines' = total /\ arriving' = 0
      /\ pos' = RestoredPosition(Origin, old, total, height, FALSE)
      /\ prevPos' = RestoredPrev(Origin, old, total, FALSE)
      /\ UNCHANGED <<loading, reader, jumps, chained, window, first, aborted>>

\* restore_view_position after read() has left the position p and n lines.
Restore(p, n, stillLoading) ==
  /\ pos' = RestoredPosition(p, prevPos, n, height, stillLoading)
  /\ prevPos' = RestoredPrev(p, prevPos, n, stillLoading)

\* update_view: n more lines have arrived and the command goes on; n is 0 when
\* what has arrived is not yet a whole line.
ReadLines(n) ==
  /\ ~aborted
  /\ loading
  /\ n \in 0..arriving
  /\ lines' = lines + n
  /\ arriving' = arriving - n
  /\ \/ jumps' = jumps /\ \E p \in Moved(lines') : Restore(p, lines', TRUE)
     \/ jumps' = jumps - 1 /\ \E p \in Asked(lines', FALSE) : Restore(p, lines', TRUE)
  /\ UNCHANGED <<loading, reader, chained, window, first, aborted>>

\* update_view: the last n lines have arrived with the end of the output
\* (io_eof), and the view has no use for another command.
ReadLastLines ==
  /\ ~aborted
  /\ loading
  /\ lines' = lines + arriving
  /\ arriving' = 0
  /\ Ended
  /\ \E p \in LeftAtEnd(lines') : Restore(p, lines', FALSE)
  /\ UNCHANGED <<chained, window, first, aborted>>

\* Mutant: the view does not remember that it has started its last command.
ReadAndContinueForever(total) ==
  /\ ~aborted
  /\ loading
  /\ chained > 0
  /\ lines' = arriving
  /\ arriving' = total
  /\ jumps' = 0
  /\ Restore(pos, lines', TRUE)
  /\ UNCHANGED <<loading, reader, chained, window, first, aborted>>

\* update_view: the same, but the view's read() answers the end of the output
\* by starting a follow-up command, and end_update leaves the pipe open.
ReadAndContinue(total) ==
  /\ ~aborted
  /\ loading
  /\ chained > 0
  /\ chained' = chained - 1
  /\ lines' = lines + arriving
  /\ arriving' = total
  /\ jumps' = 0
  /\ \E p \in LeftAtEnd(lines') : Restore(p, lines', TRUE)
  /\ UNCHANGED <<loading, reader, window, first, aborted>>

\* update_view: reading fails after n lines; the command is killed.
ReadError(n) ==
  /\ ~aborted
  /\ loading
  /\ n \in 0..arriving
  /\ lines' = lines + n
  /\ arriving' = 0
  /\ Ended
  /\ \E p \in LeftAtEnd(lines') : Restore(p, lines', FALSE)
  /\ UNCHANGED <<chained, window, first, aborted>>

\* end_update by force, without restoring a position.
EndByForce(n) ==
  /\ ~aborted
  /\ loading
  /\ lines' = lines + n
  /\ arriving' = 0
  /\ Ended
  /\ pos' \in LeftAtEnd(lines')
  /\ UNCHANGED <<chained, window, first, prevPos, aborted>>

\* update_view: after n more lines read() cannot take another one.
ReadFails(n) == n \in 0..arriving /\ EndByForce(n)

\* REQ_STOP_LOADING
StopLoading == EndByForce(0)

-------------------------------------------------------------------------------
(* The window.                                                             *)

\* KEY_RESIZE, or another view opening or closing: resize_display gives the
\* view a new height and leaves its position alone.
Resize(h) ==
  /\ ~aborted
  /\ displayed
  /\ height' = h
  /\ UNCHANGED <<content, displayed, first, pos, prevPos, aborted>>

\* Another view takes the whole display.
Hide ==
  /\ ~aborted
  /\ displayed
  /\ displayed' = FALSE
  /\ UNCHANGED <<content, height, first, pos, prevPos, aborted>>

\* REQ_VIEW_CLOSE of the view above: maximize_view, and nothing else.
Uncover(h) ==
  /\ ~aborted
  /\ ~displayed
  /\ displayed' = TRUE
  /\ height' = h
  /\ UNCHANGED <<content, first, pos, prevPos, aborted>>

\* load_view of a view that needs no loading: it is put on the display and
\* restore_view_position brings its cursor into the new window.
Reopen(fromOther, h) ==
  /\ ~aborted
  /\ first' = (first /\ ~fromOther)
  /\ displayed' = TRUE
  /\ height' = h
  /\ pos' = RestoredPosition(pos, prevPos, lines, h, loading)
  /\ prevPos' =
       IF loading /\ lines = 0 /\ ~first' THEN Origin
       ELSE RestoredPrev(pos, prevPos, lines, loading)
  /\ UNCHANGED <<content, aborted>>

\* split_view(view, child): the view makes room for a child and scrolls its
\* cursor back into what is left of its window.
Split(h) ==
  LET n == pos.lineno - pos.offset - h + 1
      asserts == n > 0 => DoScrollAsserts(pos, lines, h, n)
  IN  /\ ~aborted
      /\ displayed
      /\ height' = h
      /\ pos' = IF n > 0 /\ asserts THEN DoScrollView(pos, h, n) ELSE pos
      /\ aborted' = ~asserts
      /\ UNCHANGED <<content, displayed, first, prevPos>>

-------------------------------------------------------------------------------
Load ==
  \E header \in 0..MaxHeader, total \in 0..MaxLines :
    \/ \E keep, fromOther \in BOOLEAN, h \in Heights :
         Open(header, total, keep, fromOther, h)
    \/ Reload(header, total)
    \/ ReloadAtOnce(total)

Read ==
  \/ \E n \in 0..MaxLines : ReadLines(n)
  \/ ReadLastLines
  \/ \E n \in 0..MaxLines : ReadAndContinue(n)
  \/ \E n \in 0..MaxLines : ReadError(n)
  \/ \E n \in 0..MaxLines : ReadFails(n)

UserRequest ==
  \/ \E request \in MoveRequests : Move(request)
  \/ \E request \in ScrollRequests : Scroll(request)
  \/ ScrollCol
  \/ \E lineno \in 0..MaxLines : SelectViewLine(lineno)

NewWindow ==
  \/ \E h \in Heights : Resize(h)
  \/ Hide
  \/ \E h \in Heights : Uncover(h)
  \/ \E fromOther \in BOOLEAN, h \in Heights : Reopen(fromOther, h)
  \/ \E h \in Heights : Split(h)

Next == UserRequest \/ Load \/ Read \/ StopLoading \/ NewWindow

Spec == Init /\ [][Next]_vars

\* A read that makes progress: a whole line, or the end of the output.
Progress ==
  \/ \E n \in 1..MaxLines : ReadLines(n)
  \/ ReadLastLines
  \/ \E n \in 0..MaxLines : ReadAndContinue(n)
  \/ \E n \in 0..MaxLines : ReadError(n)

\* The input loop polls every loading view without waiting for a key
\* (get_input: delay = 0), and git commands end: reading goes on.
FairSpec == Spec /\ WF_vars(Progress)

-------------------------------------------------------------------------------
(* Properties.                                                             *)

TypeOK ==
  /\ lines \in Nat /\ arriving \in Nat /\ chained \in Nat
  /\ reader \in OneShots \cup Habits /\ jumps \in Nat
  /\ jumps > 0 => loading /\ reader \in OneShots
  /\ loading \in BOOLEAN /\ displayed \in BOOLEAN
  /\ first \in BOOLEAN /\ aborted \in BOOLEAN
  /\ height \in Heights
  /\ pos \in Position /\ prevPos \in Position

\* The cursor is on a line the view holds and not above its window, whatever
\* was reloaded, cut short, resized or hidden before.  view->line[pos.lineno]
\* is dereferenced all over tig on the strength of this.
PositionValid ==
  /\ pos.offset <= pos.lineno
  /\ lines = 0 => pos.lineno = 0
  /\ lines > 0 => pos.lineno < lines

\* No assert() of do_scroll_view or move_view fails, in whatever window a
\* resize or a split left the cursor, nor when the pager scrolls with lines
\* that have just been read.
NoAssertionFailure ==
  /\ ~aborted
  /\ \A k \in 1..(lines + arriving) :
       loading /\ MayFollow(k, lines + arriving) =>
         DoScrollAsserts(IF k = 1 THEN pos ELSE Followed(k - 1),
                         pos.offset + height + k, height, 1)

\* A position waiting to be restored is restored as soon as the line it names
\* has been read, not at the end of loading (update_view).
RestoreIsPrompt ==
  loading /\ CheckPosition(prevPos) => lines <= prevPos.lineno

\* The read has made the view end where it was asked to go: at a line that has
\* been added just now (or above it, AsAdded), or when the output has ended.
WentWhereAsked ==
  /\ jumps > 0
  /\ \/ reader = "jumps" /\ lines <= pos'.lineno + 1
     \/ reader = "returns" /\ (loading' => chained' < chained)

\* Lines that arrive never move a cursor the user has put somewhere, and never
\* scroll a window that shows it: "Changing the view position cancels the
\* restoring" (restore_view_position).  There are two exceptions, in the views
\* whose read() moves it: a load that was asked to go to a line goes there when
\* that line is added, or at the end; and the pager that scrolls with its output
\* takes along a cursor that would leave the window at the top, and no other.
ReadKeepsUserPosition ==
  [][Read /\ CheckPosition(pos) =>
       \/ /\ pos'.lineno = pos.lineno /\ pos'.col = pos.col
          /\ Visible(pos, height) => pos' = pos
       \/ /\ reader = "follows" /\ pos.offset < pos'.offset
          /\ pos'.offset + height <= lines'
          /\ Visible(pos, height) =>
               pos'.lineno = IF pos.lineno < pos'.offset THEN pos'.offset ELSE pos.lineno
       \/ WentWhereAsked]_vars

\* A load that runs to its end while the user leaves the cursor at the origin
\* ends on the line the view was on before, or on its last line if it has
\* become shorter, in the window (restore_view_position); unless it was asked
\* to go to another line, or the pager has scrolled because the last lines did
\* not fit into the window.
RestoredAtEnd ==
  [][ReadLastLines /\ CheckPosition(prevPos) /\ pos = Origin =>
       \/ /\ pos'.lineno = ClampLine(prevPos.lineno, lines')
          /\ pos'.col = prevPos.col
          /\ Visible(pos', height)
       \/ reader = "follows" /\ lines <= height + 1 /\ height < lines'
       \/ WentWhereAsked]_vars

\* Scrolling takes a visible cursor along: it stays on its row of the window.
\* scroll_view moves it back line by line with move_view, whose own scrolling
\* must not undo the scroll.
ScrollKeepsRow ==
  [][(\E request \in ScrollRequests : Scroll(request)) /\ Visible(pos, height) =>
       pos'.lineno - pos'.offset = pos.lineno - pos.offset]_vars

\* A cursor that is visible stays visible as long as the window keeps its
\* height, whatever is requested, read or loaded.
CursorStaysVisible ==
  [][Visible(pos, height) /\ height' = height => Visible(pos', height)]_vars

\* Loading ends, follow-up commands included, unless the user keeps loading
\* the view anew.
LoadingEnds == []<><<Load>>_vars \/ (loading ~> ~loading)

\* scroll_view's loop of single move_view calls: the position after i of the
\* |n| moves.
Looped(p, n) ==
  LET step == IF n < 0 THEN -1 ELSE 1
      at[i \in Nat] == IF i = 0 THEN p
                       ELSE MoveBy(at[i - 1], lines, height, TRUE, step)
  IN  at

\* MoveLines, the closed form the model uses, is what the loop computes, and no
\* assertion fails on the way.
MoveLinesIsTheLoop ==
  lines > 0 /\ Visible(pos, height) =>
    \A n \in (-lines)..lines :
      LET dist == IF n < 0 THEN -n ELSE n
          step == IF n < 0 THEN -1 ELSE 1
      IN  /\ MoveLines(pos, lines, height, n) = Looped(pos, n)[dist]
          /\ \A i \in 0..(dist - 1) :
               MoveByAsserts(Looped(pos, n)[i], lines, height, TRUE, step)
===============================================================================
