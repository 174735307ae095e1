----------------------------- MODULE ViewPosition -----------------------------
(***************************************************************************)
(* The arithmetic of a tig view's position (view.c, "Navigation").         *)
(*                                                                         *)
(* A position is the record [offset, col, lineno]: the first line shown in *)
(* the window, the first column shown and the cursor line.  `lines' is the *)
(* number of lines the view holds and `height' the number of rows of its   *)
(* window.  The C code mixes unsigned longs with ints; a difference that   *)
(* would wrap below zero there is a negative integer here, and fails the   *)
(* assertions the code makes (0 <= x < lines) just as the wrapped value    *)
(* does.                                                                   *)
(*                                                                         *)
(* The operators are pure: each one returns the position a function leaves *)
(* behind, and the operators named ...Asserts say whether the assert()s    *)
(* it passes through hold.  An operator marked "Mutant" is the one below   *)
(* it with a plausible bug; nothing uses it but PROJECT.json's mutants.    *)
(***************************************************************************)
EXTENDS Integers

Position == [offset : Nat, col : Nat, lineno : Nat]

\* clear_position
Origin == [offset |-> 0, col |-> 0, lineno |-> 0]

\* check_position: a position is "set" when any of its fields is not zero.
CheckPosition(pos) == pos # Origin

\* The cursor line lies in the window.
Visible(pos, height) ==
  pos.offset <= pos.lineno /\ pos.lineno < pos.offset + height

-------------------------------------------------------------------------------
(* Going to a line.                                                        *)

\* Mutant: an off-by-one in the test against the number of lines.
ClampLineOffByOne(lineno, lines) ==
  IF lineno <= lines THEN lineno ELSE IF lines > 0 THEN lines - 1 ELSE 0

ClampLine(lineno, lines) ==
  IF lineno < lines THEN lineno ELSE IF lines > 0 THEN lines - 1 ELSE 0

\* The window top that shows `lineno': the old one if it does, otherwise the
\* one that puts the line in the middle of the window.
ShowLine(offset, lineno, height) ==
  IF offset > lineno \/ offset + height <= lineno
    THEN IF lineno > height \div 2 THEN lineno - (height \div 2) ELSE 0
    ELSE offset

GotoViewLine(pos, lines, height, offset, lineno) ==
  LET line == ClampLine(lineno, lines)
  IN  [pos EXCEPT !.offset = ShowLine(offset, line, height), !.lineno = line]

-------------------------------------------------------------------------------
(* Scrolling the window by n lines takes the cursor along when it would    *)
(* leave the window.                                                       *)

DoScrollView(pos, height, n) ==
  LET top == pos.offset + n
      line == IF pos.lineno < top THEN top
              ELSE IF pos.lineno >= top + height THEN top + height - 1
              ELSE pos.lineno
  IN  [pos EXCEPT !.offset = top, !.lineno = line]

DoScrollAsserts(pos, lines, height, n) ==
  LET after == DoScrollView(pos, height, n)
  IN  /\ 0 <= after.offset /\ after.offset < lines
      /\ n # 0
      /\ after.offset <= after.lineno /\ after.lineno < lines

-------------------------------------------------------------------------------
(* Moving the cursor.                                                      *)

UpRequests == {"UP", "PAGE_UP", "HALF_PAGE_UP", "WHEEL_UP", "FIRST_LINE"}
DownRequests == {"DOWN", "PAGE_DOWN", "HALF_PAGE_DOWN", "WHEEL_DOWN", "LAST_LINE"}
MoveRequests == UpRequests \cup DownRequests

\* How far a paging or wheel request asks to go; mouse is opt_mouse_scroll.
Jump(request, height, mouse) ==
  CASE request \in {"PAGE_UP", "PAGE_DOWN"} -> height
    [] request \in {"HALF_PAGE_UP", "HALF_PAGE_DOWN"} -> height \div 2
    [] request \in {"WHEEL_UP", "WHEEL_DOWN"} -> mouse
    [] OTHER -> 1

\* Mutant: paging down is not cut at the last line.
MoveStepsUncut(pos, lines, height, mouse, request) ==
  LET n == Jump(request, height, mouse)
  IN  IF request = "FIRST_LINE" THEN -pos.lineno
      ELSE IF request = "LAST_LINE" THEN lines - pos.lineno - 1
      ELSE IF request \in DownRequests THEN n
      ELSE IF n > pos.lineno THEN -pos.lineno
      ELSE -n

\* The signed number of lines move_view decides to move.
MoveSteps(pos, lines, height, mouse, request) ==
  LET n == Jump(request, height, mouse)
  IN  CASE request = "FIRST_LINE" -> -pos.lineno
        [] request = "LAST_LINE" -> lines - pos.lineno - 1
        [] request = "UP" -> -1
        [] request = "DOWN" -> 1
        [] request \in {"PAGE_UP", "HALF_PAGE_UP", "WHEEL_UP"} ->
             IF n > pos.lineno THEN -pos.lineno ELSE -n
        [] OTHER ->
             IF pos.lineno + n >= lines THEN lines - pos.lineno - 1 ELSE n

\* "Cannot move beyond the first/last line".
AtEdge(pos, lines, steps) ==
  \/ steps <= 0 /\ pos.lineno = 0
  \/ steps >= 0 /\ pos.lineno + 1 >= lines

\* Mutant: the row below the window counts as part of it.
ScrollStepsOneRowLate(pos, lines, height, steps) ==
  LET line == pos.lineno + steps
  IN  IF pos.offset <= line /\ line <= pos.offset + height THEN 0
      ELSE IF steps < 0 /\ -steps > pos.offset THEN -pos.offset
      ELSE steps

\* Mutant: > for >= in the test that makes the last line the lowest row.
ScrollStepsLastLine(pos, lines, height, steps) ==
  LET line == pos.lineno + steps
      rest == lines - pos.offset - 1
  IN  IF pos.offset <= line /\ line < pos.offset + height THEN 0
      ELSE IF steps < 0 /\ -steps > pos.offset THEN -pos.offset
      ELSE IF steps > 0 /\ line = lines - 1 /\ lines > height
        THEN IF rest > height THEN rest - (height - 1) ELSE rest
      ELSE steps

\* How far the window must follow a cursor that moved by `steps' and left it.
ScrollSteps(pos, lines, height, steps) ==
  LET line == pos.lineno + steps
      rest == lines - pos.offset - 1
  IN  IF pos.offset <= line /\ line < pos.offset + height THEN 0
      ELSE IF steps < 0 /\ -steps > pos.offset THEN -pos.offset
      ELSE IF steps > 0 /\ line = lines - 1 /\ lines > height
        THEN IF rest >= height THEN rest - (height - 1) ELSE rest
      ELSE steps

MoveBy(pos, lines, height, displayed, steps) ==
  LET moved == [pos EXCEPT !.lineno = @ + steps]
      scroll == ScrollSteps(pos, lines, height, steps)
  IN  IF AtEdge(pos, lines, steps) THEN pos
      ELSE IF ~displayed THEN [moved EXCEPT !.offset = @ + scroll]
      ELSE IF scroll # 0 THEN DoScrollView(moved, height, scroll)
      ELSE moved

MoveByAsserts(pos, lines, height, displayed, steps) ==
  LET moved == [pos EXCEPT !.lineno = @ + steps]
      scroll == ScrollSteps(pos, lines, height, steps)
  IN  AtEdge(pos, lines, steps)
      \/ /\ 0 <= moved.lineno /\ moved.lineno < lines
         /\ ~displayed => 0 <= pos.offset + scroll /\ pos.offset + scroll < lines
         /\ displayed /\ scroll # 0 => DoScrollAsserts(moved, lines, height, scroll)

-------------------------------------------------------------------------------
(* Scrolling on request.  The window moves first; the cursor is then moved *)
(* line by line until it has travelled as far as the window did.           *)

ScrollUps == {"LINE_UP", "PAGE_UP", "HALF_PAGE_UP", "WHEEL_UP"}
ScrollDowns == {"LINE_DOWN", "PAGE_DOWN", "HALF_PAGE_DOWN", "WHEEL_DOWN"}
ScrollRequests == ScrollUps \cup ScrollDowns

\* The signed number of lines to scroll; 0 when there is nothing to scroll.
ScrollLines(pos, lines, height, mouse, request) ==
  LET n == Jump(request, height, mouse)
      below == lines - pos.offset - height
      capped == IF pos.offset + n > lines THEN lines - pos.offset ELSE n
  IN  IF request \in ScrollUps
        THEN IF n > pos.offset THEN -pos.offset ELSE -n
      ELSE IF below <= 0 THEN 0
      ELSE IF capped > below THEN below
      ELSE capped

\* n calls of move_view(REQ_MOVE_DOWN), or -n of REQ_MOVE_UP, on a displayed
\* view whose cursor is in the window.
MoveLines(pos, lines, height, n) ==
  LET line == IF pos.lineno + n < 0 THEN 0
              ELSE IF pos.lineno + n >= lines THEN lines - 1
              ELSE pos.lineno + n
  IN  [pos EXCEPT !.lineno = line,
                  !.offset = IF @ > line THEN line
                             ELSE IF @ + height <= line THEN line - height + 1
                             ELSE @]

\* Mutant: the cursor is moved as far as the window although do_scroll_view
\* has already taken it along part of the way.
ScrollViewTwice(pos, lines, height, mouse, request) ==
  LET n == ScrollLines(pos, lines, height, mouse, request)
  IN  IF n = 0 THEN pos
      ELSE MoveLines(DoScrollView(pos, height, n), lines, height, n)

ScrollView(pos, lines, height, mouse, request) ==
  LET n == ScrollLines(pos, lines, height, mouse, request)
      scrolled == DoScrollView(pos, height, n)
      travelled == scrolled.lineno - pos.lineno
  IN  IF n = 0 THEN pos ELSE MoveLines(scrolled, lines, height, n - travelled)

ScrollViewAsserts(pos, lines, height, mouse, request) ==
  LET n == ScrollLines(pos, lines, height, mouse, request)
  IN  n = 0 \/ DoScrollAsserts(pos, lines, height, n)

-------------------------------------------------------------------------------
(* restore_view_position: what becomes of the position and of the position *)
(* to return to, in a view that is still loading or not.                   *)

\* Mutant: a position the user has gone to does not cancel the restoring.
RestoredOverUser(pos, prev, lines, height, loading) ==
  IF ~CheckPosition(prev) \/ (loading /\ lines <= prev.lineno)
    THEN GotoViewLine(pos, lines, height, pos.offset, pos.lineno)
  ELSE [GotoViewLine(pos, lines, height, prev.offset, prev.lineno)
          EXCEPT !.col = prev.col]

\* Mutant: a view that has become shorter is not restored at its last line.
RestoredIfLong(pos, prev, lines, height, loading) ==
  IF ~CheckPosition(prev) \/ lines <= prev.lineno
    THEN GotoViewLine(pos, lines, height, pos.offset, pos.lineno)
  ELSE IF CheckPosition(pos) THEN pos
  ELSE [GotoViewLine(pos, lines, height, prev.offset, prev.lineno)
          EXCEPT !.col = prev.col]

RestoredPosition(pos, prev, lines, height, loading) ==
  IF ~CheckPosition(prev) \/ (loading /\ lines <= prev.lineno)
    THEN GotoViewLine(pos, lines, height, pos.offset, pos.lineno)
  ELSE IF CheckPosition(pos) THEN pos
  ELSE [GotoViewLine(pos, lines, height, prev.offset, prev.lineno)
          EXCEPT !.col = prev.col]

\* Mutant: restoring waits for one line more than it needs.
RestoredPrevLate(pos, prev, lines, loading) ==
  IF CheckPosition(prev) /\ loading /\ lines <= prev.lineno + 1 THEN prev ELSE Origin

RestoredPrev(pos, prev, lines, loading) ==
  IF CheckPosition(prev) /\ loading /\ lines <= prev.lineno THEN prev ELSE Origin
===============================================================================
