------------------------------ MODULE View_proofs -----------------------------
(***************************************************************************)
(* For outputs, windows and bounds of any size: the position of a view is  *)
(* always valid, and no assertion of the navigation code ever fails.       *)
(*                                                                         *)
(* The lemmas say of each operator of ViewPosition that it takes a         *)
(* position that is valid for the number of lines the view holds to one    *)
(* that is; the invariant is inductive because nothing else about the      *)
(* state is needed for that, in particular not that the cursor is in the   *)
(* window.                                                                 *)
(*                                                                         *)
(* From that invariant follows what a step of a view may never do: hide a  *)
(* cursor that is visible, move one that the user has put somewhere as     *)
(* lines arrive, restore a position at another line, or take the cursor    *)
(* off its row when the window is scrolled.                                *)
(*                                                                         *)
(* The searching of the view's lines (Search) and the windows and links    *)
(* between views (Display), the rest of view.c, follow.                    *)
(***************************************************************************)
EXTENDS Search, Display, Rounds_proofs, TLAPS

\* A position a view of n lines can have.
Valid(p, n) ==
  /\ p \in Position
  /\ p.offset <= p.lineno
  /\ n = 0 => p.lineno = 0
  /\ n > 0 => p.lineno < n

-------------------------------------------------------------------------------
(* Going to a line and restoring a position.                               *)

\* goto_view_line ends on a line of the view, not above the window, whatever
\* line and window it was asked for.
LEMMA GotoViewLineIsValid ==
  ASSUME NEW p \in Position, NEW n \in Nat, NEW h \in Nat \ {0},
         NEW offset \in Nat, NEW lineno \in Nat
  PROVE  Valid(GotoViewLine(p, n, h, offset, lineno), n)
<1> DEFINE line == ClampLine(lineno, n)
           top == ShowLine(offset, line, h)
<1>1. line \in Nat /\ (n = 0 => line = 0) /\ (n > 0 => line < n)
  BY DEF ClampLine
<1>2. top \in Nat /\ top <= line
  <2>1. h \div 2 \in Nat
    OBVIOUS
  <2> HIDE DEF line
  <2>2. QED
    BY <1>1, <2>1 DEF ShowLine
<1>3. GotoViewLine(p, n, h, offset, lineno) = [p EXCEPT !.offset = top, !.lineno = line]
  BY DEF GotoViewLine
<1> HIDE DEF line, top
<1>4. QED
  BY <1>1, <1>2, <1>3 DEF Valid, Position

\* A view that gains lines keeps its position valid, unless it had none: then
\* its cursor is on line 0.
LEMMA MoreLinesStayValid ==
  ASSUME NEW p, NEW m \in Nat, NEW n \in Nat, m <= n, Valid(p, m)
  PROVE  Valid(p, n)
BY DEF Valid, Position

\* restore_view_position leaves a valid position behind.
LEMMA RestoredIsValid ==
  ASSUME NEW p, NEW prev \in Position, NEW n \in Nat, NEW h \in Nat \ {0},
         NEW running \in BOOLEAN, Valid(p, n)
  PROVE  /\ Valid(RestoredPosition(p, prev, n, h, running), n)
         /\ RestoredPrev(p, prev, n, running) \in Position
<1>1. p \in Position
  BY DEF Valid
<1>2. p.offset \in Nat /\ p.lineno \in Nat /\ prev.offset \in Nat /\ prev.lineno \in Nat
      /\ prev.col \in Nat
  BY <1>1 DEF Position
<1>3. Valid(GotoViewLine(p, n, h, p.offset, p.lineno), n)
  BY <1>1, <1>2, GotoViewLineIsValid
<1> DEFINE back == GotoViewLine(p, n, h, prev.offset, prev.lineno)
<1>4. Valid(back, n)
  BY <1>1, <1>2, GotoViewLineIsValid
<1>5. Valid([back EXCEPT !.col = prev.col], n)
  <2> HIDE DEF back
  <2>1. QED
    BY <1>2, <1>4 DEF Valid, Position
<1>6. RestoredPrev(p, prev, n, running) \in Position
  BY DEF RestoredPrev, Origin, Position
<1>7. QED
  BY <1>3, <1>5, <1>6 DEF RestoredPosition

LEMMA OriginIsValid ==
  ASSUME NEW n \in Nat
  PROVE  Valid(Origin, n)
BY DEF Valid, Origin, Position

-------------------------------------------------------------------------------
(* Moving.                                                                 *)

\* move_view cuts every move to the lines of the view, unless it reports that
\* it cannot move at all.
LEMMA MoveStepsStayInView ==
  ASSUME NEW p, NEW n \in Nat, NEW h \in Nat \ {0}, NEW mouse \in Nat,
         NEW request \in MoveRequests, Valid(p, n)
  PROVE  LET steps == MoveSteps(p, n, h, mouse, request)
         IN  /\ steps \in Int
             /\ ~AtEdge(p, n, steps) =>
                  n > 0 /\ 0 <= p.lineno + steps /\ p.lineno + steps < n
<1> DEFINE steps == MoveSteps(p, n, h, mouse, request)
           jump == Jump(request, h, mouse)
<1>1. p.lineno \in Nat
  BY DEF Valid, Position
<1>2. jump \in Nat
  <2>1. h \div 2 \in Nat
    OBVIOUS
  <2>2. QED
    BY <2>1 DEF Jump
<1>3. CASE request = "FIRST_LINE"
  <2>1. steps = -p.lineno
    BY <1>3 DEF MoveSteps
  <2>2. QED
    BY <1>1, <2>1 DEF AtEdge, Valid
<1>4. CASE request = "LAST_LINE"
  <2>1. steps = n - p.lineno - 1
    BY <1>4 DEF MoveSteps
  <2>2. QED
    BY <1>1, <2>1 DEF AtEdge, Valid
<1>5. CASE request = "UP"
  <2>1. steps = -1
    BY <1>5 DEF MoveSteps
  <2>2. QED
    BY <1>1, <2>1 DEF AtEdge, Valid
<1>6. CASE request = "DOWN"
  <2>1. steps = 1
    BY <1>6 DEF MoveSteps
  <2>2. QED
    BY <1>1, <2>1 DEF AtEdge, Valid
<1>7. CASE request \in {"PAGE_UP", "HALF_PAGE_UP", "WHEEL_UP"}
  <2>1. steps = IF jump > p.lineno THEN -p.lineno ELSE -jump
    BY <1>7 DEF MoveSteps
  <2> HIDE DEF jump
  <2>2. QED
    BY <1>1, <1>2, <2>1 DEF AtEdge, Valid
<1>8. CASE request \in {"PAGE_DOWN", "HALF_PAGE_DOWN", "WHEEL_DOWN"}
  <2>1. steps = IF p.lineno + jump >= n THEN n - p.lineno - 1 ELSE jump
    BY <1>8 DEF MoveSteps
  <2> HIDE DEF jump
  <2>2. QED
    BY <1>1, <1>2, <2>1 DEF AtEdge, Valid
<1>9. QED
  BY <1>3, <1>4, <1>5, <1>6, <1>7, <1>8 DEF MoveRequests, UpRequests, DownRequests

\* The window follows a moved cursor without leaving the view, and not past
\* the cursor.
LEMMA ScrollStepsStayInView ==
  ASSUME NEW p, NEW n \in Nat, NEW h \in Nat \ {0}, NEW steps \in Int, Valid(p, n),
         0 <= p.lineno + steps, p.lineno + steps < n
  PROVE  LET scroll == ScrollSteps(p, n, h, steps)
         IN  /\ scroll \in Int
             /\ 0 <= p.offset + scroll
             /\ scroll # 0 => p.offset + scroll <= p.lineno + steps
             /\ scroll = 0 => p.offset <= p.lineno + steps
BY DEF ScrollSteps, Valid, Position

\* do_scroll_view of a window that does not pass the cursor's lines.
LEMMA DoScrollViewIsValid ==
  ASSUME NEW p \in Position, NEW n \in Nat, NEW h \in Nat \ {0}, NEW steps \in Int,
         p.lineno < n, 0 <= p.offset + steps, p.offset + steps < n
  PROVE  /\ Valid(DoScrollView(p, h, steps), n)
         /\ steps # 0 => DoScrollAsserts(p, n, h, steps)
<1> DEFINE top == p.offset + steps
           line == IF p.lineno < top THEN top
                   ELSE IF p.lineno >= top + h THEN top + h - 1
                   ELSE p.lineno
<1>1. top \in Nat /\ line \in Nat /\ top <= line /\ line < n
  BY DEF Position
<1>2. DoScrollView(p, h, steps) = [p EXCEPT !.offset = top, !.lineno = line]
  BY DEF DoScrollView
<1> HIDE DEF line, top
<1>3. /\ DoScrollView(p, h, steps) \in Position
      /\ DoScrollView(p, h, steps).offset = top
      /\ DoScrollView(p, h, steps).lineno = line
  BY <1>1, <1>2 DEF Position
<1>4. QED
  BY <1>1, <1>3 DEF Valid, DoScrollAsserts, top

\* move_view leaves a valid position behind and passes its assertions.
LEMMA MoveByIsValid ==
  ASSUME NEW p, NEW n \in Nat, NEW h \in Nat \ {0}, NEW shown \in BOOLEAN,
         NEW steps \in Int, Valid(p, n),
         ~AtEdge(p, n, steps) => 0 <= p.lineno + steps /\ p.lineno + steps < n
  PROVE  /\ Valid(MoveBy(p, n, h, shown, steps), n)
         /\ MoveByAsserts(p, n, h, shown, steps)
<1>1. CASE AtEdge(p, n, steps)
  BY <1>1 DEF MoveBy, MoveByAsserts
<1>2. CASE ~AtEdge(p, n, steps)
  <2> DEFINE moved == [p EXCEPT !.lineno = @ + steps]
             scroll == ScrollSteps(p, n, h, steps)
  <2>1. p \in Position /\ 0 <= p.lineno + steps /\ p.lineno + steps < n
    BY <1>2 DEF Valid
  <2>2. /\ moved \in Position
        /\ moved.offset = p.offset /\ moved.lineno = p.lineno + steps
    BY <2>1 DEF Position
  <2>3. /\ scroll \in Int /\ 0 <= p.offset + scroll
        /\ scroll # 0 => p.offset + scroll <= p.lineno + steps
        /\ scroll = 0 => p.offset <= p.lineno + steps
    BY <2>1, ScrollStepsStayInView
  <2>4. p.offset \in Nat /\ p.lineno \in Nat
    BY <2>1 DEF Position
  <2>5. /\ MoveBy(p, n, h, shown, steps) =
             IF ~shown THEN [moved EXCEPT !.offset = @ + scroll]
             ELSE IF scroll # 0 THEN DoScrollView(moved, h, scroll)
             ELSE moved
        /\ MoveByAsserts(p, n, h, shown, steps) =
             (/\ 0 <= moved.lineno /\ moved.lineno < n
              /\ ~shown => 0 <= p.offset + scroll /\ p.offset + scroll < n
              /\ shown /\ scroll # 0 => DoScrollAsserts(moved, n, h, scroll))
    BY <1>2 DEF MoveBy, MoveByAsserts
  <2> HIDE DEF moved, scroll
  <2>6. 0 <= p.offset + scroll /\ p.offset + scroll < n
    BY <2>1, <2>3, <2>4
  <2>7. /\ Valid(DoScrollView(moved, h, scroll), n)
        /\ scroll # 0 => DoScrollAsserts(moved, n, h, scroll)
    BY <2>1, <2>2, <2>3, <2>6, DoScrollViewIsValid
  <2>8. Valid([moved EXCEPT !.offset = @ + scroll], n)
    BY <2>1, <2>2, <2>3, <2>4, <2>6 DEF Valid, Position
  <2>9. scroll = 0 => Valid(moved, n)
    BY <2>1, <2>2, <2>3, <2>4 DEF Valid
  <2>10. QED
    BY <2>1, <2>2, <2>5, <2>6, <2>7, <2>8, <2>9
<1>3. QED
  BY <1>1, <1>2

-------------------------------------------------------------------------------
(* Scrolling.                                                              *)

LEMMA MoveLinesIsValid ==
  ASSUME NEW p, NEW n \in Nat, NEW h \in Nat \ {0}, NEW dist \in Int,
         Valid(p, n), n > 0
  PROVE  Valid(MoveLines(p, n, h, dist), n)
<1> DEFINE line == IF p.lineno + dist < 0 THEN 0
                   ELSE IF p.lineno + dist >= n THEN n - 1
                   ELSE p.lineno + dist
           top == IF p.offset > line THEN line
                  ELSE IF p.offset + h <= line THEN line - h + 1
                  ELSE p.offset
<1>1. p \in Position /\ p.offset \in Nat /\ p.lineno \in Nat
  BY DEF Valid, Position
<1>2. line \in Nat /\ line < n
  BY <1>1
<1> HIDE DEF line
<1>3. top \in Nat /\ top <= line
  BY <1>1, <1>2
<1>4. MoveLines(p, n, h, dist) = [p EXCEPT !.lineno = line, !.offset = top]
  BY DEF MoveLines, line
<1> HIDE DEF top
<1>5. /\ MoveLines(p, n, h, dist) \in Position
      /\ MoveLines(p, n, h, dist).offset = top
      /\ MoveLines(p, n, h, dist).lineno = line
  BY <1>1, <1>2, <1>3, <1>4 DEF Position
<1>6. QED
  BY <1>2, <1>3, <1>5 DEF Valid

\* scroll_view cuts what it scrolls to the lines above and below the window.
LEMMA ScrollLinesStayInView ==
  ASSUME NEW p, NEW n \in Nat, NEW h \in Nat \ {0}, NEW mouse \in Nat,
         NEW request \in ScrollRequests, Valid(p, n)
  PROVE  LET dist == ScrollLines(p, n, h, mouse, request)
         IN  /\ dist \in Int
             /\ dist # 0 => n > 0 /\ 0 <= p.offset + dist /\ p.offset + dist < n
<1> DEFINE jump == Jump(request, h, mouse)
<1>1. p.offset \in Nat /\ p.lineno \in Nat
  BY DEF Valid, Position
<1>2. jump \in Nat
  <2>1. h \div 2 \in Nat
    OBVIOUS
  <2>2. QED
    BY <2>1 DEF Jump
<1> DEFINE below == n - p.offset - h
           capped == IF p.offset + jump > n THEN n - p.offset ELSE jump
<1>3. ScrollLines(p, n, h, mouse, request) =
        IF request \in ScrollUps
          THEN IF jump > p.offset THEN -p.offset ELSE -jump
        ELSE IF below <= 0 THEN 0
        ELSE IF capped > below THEN below
        ELSE capped
  BY DEF ScrollLines
<1> HIDE DEF jump
<1>4. QED
  BY <1>1, <1>2, <1>3 DEF Valid

LEMMA ScrollViewIsValid ==
  ASSUME NEW p, NEW n \in Nat, NEW h \in Nat \ {0}, NEW mouse \in Nat,
         NEW request \in ScrollRequests, Valid(p, n)
  PROVE  /\ Valid(ScrollView(p, n, h, mouse, request), n)
         /\ ScrollViewAsserts(p, n, h, mouse, request)
<1> DEFINE dist == ScrollLines(p, n, h, mouse, request)
           scrolled == DoScrollView(p, h, dist)
<1>1. dist \in Int
      /\ (dist # 0 => n > 0 /\ 0 <= p.offset + dist /\ p.offset + dist < n)
  BY ScrollLinesStayInView
<1>2. CASE dist = 0
  BY <1>2 DEF ScrollView, ScrollViewAsserts
<1>3. CASE dist # 0
  <2>1. p \in Position /\ p.lineno \in Nat
    BY DEF Valid, Position
  <2>2. ScrollView(p, n, h, mouse, request) =
          MoveLines(scrolled, n, h, dist - (scrolled.lineno - p.lineno))
    BY <1>3 DEF ScrollView
  <2>3. ScrollViewAsserts(p, n, h, mouse, request) <=> DoScrollAsserts(p, n, h, dist)
    BY <1>3 DEF ScrollViewAsserts
  <2> HIDE DEF dist
  <2>4. Valid(scrolled, n) /\ DoScrollAsserts(p, n, h, dist)
    BY <1>1, <1>3, <2>1, DoScrollViewIsValid DEF Valid
  <2> HIDE DEF scrolled
  <2>5. dist - (scrolled.lineno - p.lineno) \in Int
    BY <1>1, <2>1, <2>4 DEF Valid, Position
  <2>6. QED
    BY <1>1, <1>3, <2>2, <2>3, <2>4, <2>5, MoveLinesIsValid
<1>4. QED
  BY <1>2, <1>3

-------------------------------------------------------------------------------
(* The invariant.                                                          *)

IInv ==
  /\ TypeOK
  /\ Valid(pos, lines)
  /\ ~aborted

LEMMA InitEstablishesIInv ==
  Init => IInv
<1> SUFFICES ASSUME Init PROVE IInv
  OBVIOUS
<1>1. Valid(pos, lines)
  BY OriginIsValid DEF Init
<1>2. TypeOK
  <2>1. pos \in Position /\ prevPos \in Position
    BY <1>1, OriginIsValid DEF Init, Valid
  <2>2. reader \in OneShots \cup Habits
    BY DEF Init, Habits
  <2>3. jumps \in Nat /\ ~(jumps > 0)
    BY DEF Init
  <2>4. QED
    BY <2>1, <2>2, <2>3 DEF Init, TypeOK
<1>3. QED
  BY <1>1, <1>2 DEF Init, IInv

\* The fields of the position after a scroll.
LEMMA ScrolledFields ==
  ASSUME NEW p \in Position, NEW h \in Nat \ {0}, NEW n \in Nat
  PROVE  LET q == DoScrollView(p, h, n)
         IN  /\ q \in Position /\ q.offset = p.offset + n /\ q.col = p.col
             /\ q.lineno = IF p.lineno < p.offset + n THEN p.offset + n
                           ELSE IF p.lineno >= p.offset + n + h THEN p.offset + n + h - 1
                           ELSE p.lineno
<1> DEFINE top == p.offset + n
           line == IF p.lineno < top THEN top
                   ELSE IF p.lineno >= top + h THEN top + h - 1
                   ELSE p.lineno
<1>1. p.offset \in Nat /\ p.lineno \in Nat
  BY DEF Position
<1>2. top \in Nat /\ line \in Nat
  BY <1>1
<1>3. DoScrollView(p, h, n) = [p EXCEPT !.offset = top, !.lineno = line]
  BY DEF DoScrollView
<1>4. /\ line = IF p.lineno < p.offset + n THEN p.offset + n
                ELSE IF p.lineno >= p.offset + n + h THEN p.offset + n + h - 1
                ELSE p.lineno
      /\ top = p.offset + n
  OBVIOUS
<1> HIDE DEF top, line
<1>5. QED
  BY <1>2, <1>3, <1>4 DEF Position

\* The pager's scrolling by single lines: the first one brings the cursor into the
\* window, and all of them take along a cursor that would leave it at the top.
LEMMA FollowedFacts ==
  ASSUME NEW p \in Position, p.offset <= p.lineno, NEW h \in Nat \ {0}, NEW k \in Nat \ {0}
  PROVE  LET q == DoScrollView(DoScrollView(p, h, 1), h, k - 1)
         IN  /\ q \in Position /\ q.offset = p.offset + k /\ q.col = p.col
             /\ Visible(q, h)
             /\ Visible(p, h) =>
                  q.lineno = IF p.lineno < q.offset THEN q.offset ELSE p.lineno
<1> DEFINE one == DoScrollView(p, h, 1)
           q == DoScrollView(one, h, k - 1)
<1>1. p.offset \in Nat /\ p.lineno \in Nat /\ p.col \in Nat
  BY DEF Position
<1>2. /\ one.offset = p.offset + 1 /\ one.col = p.col /\ one \in Position
      /\ one.lineno = IF p.lineno < p.offset + 1 THEN p.offset + 1
                      ELSE IF p.lineno >= p.offset + 1 + h THEN p.offset + 1 + h - 1
                      ELSE p.lineno
  BY ScrolledFields
<1>3. one.offset <= one.lineno /\ one.lineno < one.offset + h /\ one.lineno \in Nat
  BY <1>1, <1>2
<1> HIDE DEF one
<1>4. /\ q.offset = one.offset + (k - 1) /\ q.col = one.col /\ q \in Position
      /\ q.lineno = IF one.lineno < one.offset + (k - 1) THEN one.offset + (k - 1)
                    ELSE one.lineno
  <2>1. k - 1 \in Nat
    OBVIOUS
  <2>2. /\ q.offset = one.offset + (k - 1) /\ q.col = one.col /\ q \in Position
        /\ q.lineno = IF one.lineno < one.offset + (k - 1) THEN one.offset + (k - 1)
                      ELSE IF one.lineno >= one.offset + (k - 1) + h
                        THEN one.offset + (k - 1) + h - 1
                      ELSE one.lineno
    BY <1>2, <2>1, ScrolledFields
  <2>3. one.offset \in Nat
    BY <1>2 DEF Position
  <2> HIDE DEF q
  <2>4. ~(one.lineno >= one.offset + (k - 1) + h)
    BY <1>3, <2>1, <2>3
  <2>5. QED
    BY <2>2, <2>4
<1> HIDE DEF q
<1>5. q.offset = p.offset + k /\ q.col = p.col /\ q \in Position
  BY <1>1, <1>2, <1>4
<1>6. Visible(q, h)
  BY <1>1, <1>2, <1>3, <1>4 DEF Visible
<1>7. Visible(p, h) => q.lineno = IF p.lineno < q.offset THEN q.offset ELSE p.lineno
  BY <1>1, <1>2, <1>4 DEF Visible
<1>8. QED
  BY <1>5, <1>6, <1>7 DEF q, one

LEMMA FollowedIs ==
  ASSUME IInv, NEW k \in Nat \ {0}
  PROVE  /\ Followed(k) \in Position /\ Followed(k).offset = pos.offset + k
         /\ Followed(k).col = pos.col /\ Visible(Followed(k), height)
         /\ Visible(pos, height) =>
              Followed(k).lineno =
                IF pos.lineno < Followed(k).offset THEN Followed(k).offset ELSE pos.lineno
<1>1. pos \in Position /\ pos.offset <= pos.lineno /\ height \in Nat \ {0}
  BY ViewAssumption DEF IInv, TypeOK, Valid
<1> DEFINE q == DoScrollView(DoScrollView(pos, height, 1), height, k - 1)
<1>2. /\ q \in Position /\ q.offset = pos.offset + k /\ q.col = pos.col
      /\ Visible(q, height)
      /\ Visible(pos, height) =>
           q.lineno = IF pos.lineno < q.offset THEN q.offset ELSE pos.lineno
  BY <1>1, FollowedFacts
<1>3. QED
  BY <1>2 DEF Followed

\* The three things that read() may have done to a position.
LEMMA LeftCases ==
  ASSUME NEW n, NEW p \in LeftAtEnd(n)
  PROVE  \/ p = pos
         \/ \E k \in 1..n : MayFollow(k, n) /\ p = Followed(k)
         \/ \E m, top, line :
              /\ p = GotoViewLine(pos, m, height, top, line)
              /\ \/ MayDescend(n) /\ m = n /\ top = 0 /\ line = 1
                 \/ /\ jumps > 0 /\ reader = "jumps" /\ top = pos.offset
                    /\ \E t \in lines..(n - 1) : m = t + 1 /\ (line = t \/ (line = t - 1 /\ 2 < t))
                 \/ /\ jumps > 0 /\ reader = "returns" /\ m = n
                    /\ line \in 0..(n - 1) /\ top \in 0..(line + 1)
<1>1. CASE p \in Moved(n)
  BY <1>1 DEF Moved
<1>2. CASE p \in Asked(n, TRUE)
  <2>1. CASE p \in AsAdded(n) /\ jumps > 0 /\ reader = "jumps"
    <3>1. ASSUME NEW t \in lines..(n - 1), NEW line, line = t \/ (line = t - 1 /\ 2 < t),
                 p = GotoViewLine(pos, t + 1, height, pos.offset, line)
          PROVE  \E m, top, l :
                   /\ p = GotoViewLine(pos, m, height, top, l)
                   /\ jumps > 0 /\ reader = "jumps" /\ top = pos.offset
                   /\ \E i \in lines..(n - 1) : m = i + 1 /\ (l = i \/ (l = i - 1 /\ 2 < i))
      BY <2>1, <3>1
    <3>2. \E t \in lines..(n - 1) : \E line :
            /\ line = t \/ (line = t - 1 /\ 2 < t)
            /\ p = GotoViewLine(pos, t + 1, height, pos.offset, line)
      BY <2>1 DEF AsAdded
    <3>3. QED
      BY <3>1, <3>2
  <2>2. CASE p \in AtEnd(n) /\ jumps > 0 /\ reader = "returns"
    BY <2>2 DEF AtEnd
  <2>3. QED
    BY <1>2, <2>1, <2>2 DEF Asked
<1>3. QED
  BY <1>1, <1>2 DEF LeftAtEnd

\* A load goes only where it was asked to go, and all that may happen before the
\* end of the output may happen at its end.
LEMMA AskedFacts ==
  ASSUME NEW n, NEW atEnd \in BOOLEAN, NEW p \in Asked(n, atEnd)
  PROVE  /\ jumps > 0 /\ p \in LeftAtEnd(n)
         /\ reader = "jumps" \/ (reader = "returns" /\ atEnd)
BY DEF Asked, LeftAtEnd

\* Wherever read() leaves the position, it is valid for the lines it has read.
LEMMA LeftIsValid ==
  ASSUME IInv, NEW n \in Nat, lines <= n, NEW p \in LeftAtEnd(n)
  PROVE  Valid(p, n)
<1>1. /\ lines \in Nat /\ height \in Nat \ {0} /\ Valid(pos, lines) /\ pos \in Position
      /\ pos.offset \in Nat /\ pos.lineno \in Nat
  BY ViewAssumption DEF IInv, TypeOK, Position
<1>2. Valid(pos, n)
  BY <1>1, MoreLinesStayValid
<1>3. ASSUME NEW k \in 1..n, MayFollow(k, n), p = Followed(k)
      PROVE  Valid(p, n)
  <2>1. p \in Position /\ p.offset = pos.offset + k /\ Visible(p, height)
    BY <1>3, FollowedIs
  <2>2. pos.offset + height + k <= n
    BY <1>3 DEF MayFollow
  <2>3. QED
    BY <1>1, <2>1, <2>2 DEF Valid, Visible, Position
<1>4. ASSUME NEW m \in Nat, m <= n, NEW top \in Nat, NEW line \in Nat,
             p = GotoViewLine(pos, m, height, top, line)
      PROVE  Valid(p, n)
  BY <1>1, <1>4, GotoViewLineIsValid, MoreLinesStayValid
<1>5. ASSUME NEW m, NEW top, NEW line, p = GotoViewLine(pos, m, height, top, line),
             jumps > 0 /\ reader = "jumps" /\ top = pos.offset,
             NEW t \in lines..(n - 1), m = t + 1, line = t \/ (line = t - 1 /\ 2 < t)
      PROVE  Valid(p, n)
  BY <1>1, <1>4, <1>5
<1>6. ASSUME NEW m, NEW top, NEW line, p = GotoViewLine(pos, m, height, top, line),
             m = n, line \in Nat, top \in Nat
      PROVE  Valid(p, n)
  BY <1>4, <1>6
<1>7. ASSUME NEW m, NEW top, NEW line, m = n, line \in 0..(n - 1), top \in 0..(line + 1)
      PROVE  line \in Nat /\ top \in Nat
  BY <1>7
<1>8. QED
  BY <1>2, <1>3, <1>5, <1>6, <1>7, LeftCases

\* What a step that moves or scrolls does to the invariant.
LEMMA NavigateKeepsIInv ==
  ASSUME IInv, NEW p, NEW asserts, Navigate(p, asserts),
         Valid(p, lines), asserts
  PROVE  IInv'
<1>1. /\ pos' = p /\ aborted' = FALSE
      /\ lines' = lines
      /\ UNCHANGED <<content, window, first, prevPos>>
  BY DEF Navigate, content
<1>2. Valid(pos', lines')
  BY <1>1
<1>3. TypeOK'
  BY <1>1, <1>2 DEF IInv, TypeOK, content, window, Valid
<1>4. QED
  BY <1>1, <1>2, <1>3 DEF IInv

LEMMA UserRequestKeepsIInv ==
  IInv /\ UserRequest => IInv'
<1> SUFFICES ASSUME IInv, UserRequest PROVE IInv'
  OBVIOUS
<1>1. /\ Valid(pos, lines) /\ lines \in Nat /\ height \in Nat \ {0}
      /\ displayed \in BOOLEAN /\ MouseScroll \in Nat
      /\ pos \in Position
  BY ViewAssumption DEF IInv, TypeOK
<1>2. ASSUME NEW request \in MoveRequests, Move(request) PROVE IInv'
  <2> DEFINE steps == MoveSteps(pos, lines, height, MouseScroll, request)
             p == MoveBy(pos, lines, height, displayed, steps)
             asserts == MoveByAsserts(pos, lines, height, displayed, steps)
  <2>1. /\ steps \in Int
        /\ ~AtEdge(pos, lines, steps) =>
             0 <= pos.lineno + steps /\ pos.lineno + steps < lines
    BY <1>1, MoveStepsStayInView
  <2>2. Navigate(p, asserts)
    BY <1>2 DEF Move
  <2> HIDE DEF steps
  <2>3. Valid(p, lines) /\ asserts
    BY <1>1, <2>1, MoveByIsValid
  <2> HIDE DEF p, asserts
  <2>4. QED
    BY <2>2, <2>3, NavigateKeepsIInv
<1>3. ASSUME NEW request \in ScrollRequests, Scroll(request) PROVE IInv'
  <2> DEFINE p == ScrollView(pos, lines, height, MouseScroll, request)
             asserts == ScrollViewAsserts(pos, lines, height, MouseScroll, request)
  <2>1. Navigate(p, asserts)
    BY <1>3 DEF Scroll
  <2>2. Valid(p, lines) /\ asserts
    BY <1>1, ScrollViewIsValid
  <2> HIDE DEF p, asserts
  <2>3. QED
    BY <2>1, <2>2, NavigateKeepsIInv
<1>4. ASSUME ScrollCol PROVE IInv'
  <2>1. PICK col \in 0..MaxCol : Navigate([pos EXCEPT !.col = col], TRUE)
    BY <1>4 DEF ScrollCol
  <2>2. col \in Nat
    BY ViewAssumption
  <2>3. Valid([pos EXCEPT !.col = col], lines)
    BY <1>1, <2>2 DEF Valid, Position
  <2>4. QED
    BY <2>1, <2>3, NavigateKeepsIInv
<1>5. ASSUME NEW lineno \in 0..MaxLines, SelectViewLine(lineno) PROVE IInv'
  <2>1. lineno \in Nat /\ pos.offset \in Nat
    BY <1>1, ViewAssumption DEF Position
  <2>2. Valid(GotoViewLine(pos, lines, height, pos.offset, lineno), lines)
    BY <1>1, <2>1, GotoViewLineIsValid
  <2>3. QED
    BY <1>5, <2>2, NavigateKeepsIInv DEF SelectViewLine
<1>6. QED
  BY <1>2, <1>3, <1>4, <1>5 DEF UserRequest

\* reset_view keeps a position to return to.
LEMMA PositionBeforeResetIsPosition ==
  ASSUME NEW p \in Position, NEW isFirst \in BOOLEAN
  PROVE  PositionBeforeReset(p, isFirst) \in Position
<1>1. GotoLineno \in Nat
  BY ViewAssumption
<1>2. QED
  BY <1>1 DEF PositionBeforeReset, Position

\* The position that a load begins from: the one of the view, or the one that the
\* load it ends by force has left.
LEMMA BeganFrom ==
  ASSUME IInv, NEW p \in IF loading THEN LeftAtEnd(lines) ELSE {pos}
  PROVE  p \in Position
<1>1. lines \in Nat /\ lines <= lines /\ pos \in Position
  BY DEF IInv, TypeOK
<1>2. QED
  BY <1>1, LeftIsValid DEF Valid

LEMMA LoadKeepsIInv ==
  IInv /\ Load => IInv'
<1> SUFFICES ASSUME IInv, Load PROVE IInv'
  OBVIOUS
<1>1. PICK header \in 0..MaxHeader, total \in 0..MaxLines :
        \/ \E keep, fromOther \in BOOLEAN, h \in Heights :
             Open(header, total, keep, fromOther, h)
        \/ Reload(header, total)
        \/ ReloadAtOnce(total)
  BY DEF Load
<1>2. /\ header \in Nat /\ total \in Nat /\ MaxChained \in Nat
      /\ Heights \subseteq Nat \ {0}
  BY ViewAssumption
<1>3. /\ first \in BOOLEAN /\ displayed \in BOOLEAN /\ height \in Heights
      /\ chained \in Nat /\ ~aborted
  BY DEF IInv, TypeOK
<1>4. ASSUME NEW isFirst \in BOOLEAN, NEW keep \in BOOLEAN,
             Begin(header, total, isFirst, keep), height' \in Heights
      PROVE  /\ lines' \in Nat /\ arriving' \in Nat /\ chained' \in Nat
             /\ loading' = TRUE
             /\ reader' \in OneShots \cup Habits /\ jumps' \in Nat
             /\ jumps' > 0 => reader' \in OneShots
             /\ Valid(pos', lines') /\ prevPos' \in Position
  <2>0. PICK p \in IF loading THEN LeftAtEnd(lines) ELSE {pos} :
          LET was == PositionBeforeReset(p, isFirst)
          IN  /\ pos' = RestoredPosition(Origin, was, header, height', TRUE)
              /\ prevPos' = IF header = 0 /\ ~isFirst /\ ~keep THEN Origin
                            ELSE RestoredPrev(Origin, was, header, TRUE)
    BY <1>4 DEF Begin
  <2> DEFINE old == PositionBeforeReset(p, isFirst)
  <2>1. old \in Position
    BY BeganFrom, PositionBeforeResetIsPosition
  <2>6. /\ reader' \in OneShots \cup Habits /\ jumps' \in Nat
        /\ jumps' > 0 => reader' \in OneShots
    BY <1>4, ViewAssumption DEF Begin
  <2>2. /\ lines' = header /\ arriving' = total /\ loading' = TRUE
        /\ chained' = MaxChained
        /\ pos' = RestoredPosition(Origin, old, header, height', TRUE)
        /\ prevPos' = IF header = 0 /\ ~isFirst /\ ~keep THEN Origin
                      ELSE RestoredPrev(Origin, old, header, TRUE)
    BY <1>4, <2>0 DEF Begin
  <2> HIDE DEF old
  <2>3. /\ Valid(RestoredPosition(Origin, old, header, height', TRUE), header)
        /\ RestoredPrev(Origin, old, header, TRUE) \in Position
    <3>1. height' \in Nat \ {0}
      BY <1>2, <1>4
    <3>2. Valid(Origin, header)
      BY <1>2, OriginIsValid
    <3>3. QED
      BY <1>2, <2>1, <3>1, <3>2, RestoredIsValid
  <2>4. Origin \in Position
    BY DEF Origin, Position
  <2>5. QED
    BY <1>2, <2>2, <2>3, <2>4, <2>6
<1>5. ASSUME NEW keep \in BOOLEAN, NEW fromOther \in BOOLEAN, NEW h \in Heights,
             Open(header, total, keep, fromOther, h)
      PROVE  IInv'
  <2>1. first' \in BOOLEAN /\ height' \in Heights /\ displayed' \in BOOLEAN
        /\ aborted' = aborted /\ Begin(header, total, first', keep)
    BY <1>3, <1>5 DEF Open
  <2>2. QED
    BY <1>3, <1>4, <2>1 DEF IInv, TypeOK, Valid
<1>6. ASSUME Reload(header, total) PROVE IInv'
  <2>1. first' = first /\ height' = height /\ displayed' = displayed
        /\ aborted' = aborted /\ Begin(header, total, first, TRUE)
    BY <1>6 DEF Reload, window
  <2>2. QED
    BY <1>3, <1>4, <2>1 DEF IInv, TypeOK, Valid
<1>7. ASSUME ReloadAtOnce(total) PROVE IInv'
  <2> DEFINE old == PositionBeforeReset(pos, first)
  <2>1. old \in Position
    BY <1>3, PositionBeforeResetIsPosition DEF IInv, TypeOK
  <2>2. /\ lines' = total /\ arriving' = 0
        /\ pos' = RestoredPosition(Origin, old, total, height, FALSE)
        /\ prevPos' = RestoredPrev(Origin, old, total, FALSE)
        /\ UNCHANGED <<loading, reader, jumps, chained, window, first, aborted>>
    BY <1>7 DEF ReloadAtOnce
  <2> HIDE DEF old
  <2>3. Valid(pos', lines') /\ prevPos' \in Position
    <3>1. height \in Nat \ {0}
      BY <1>2, <1>3
    <3>2. Valid(Origin, total)
      BY <1>2, OriginIsValid
    <3>3. QED
      BY <1>2, <2>1, <2>2, <3>1, <3>2, RestoredIsValid
  <2>4. QED
    BY <1>2, <1>3, <2>2, <2>3 DEF IInv, TypeOK, Valid, window
<1>8. QED
  BY <1>1, <1>5, <1>6, <1>7

\* What read() leaves of the load: it still runs, or has ended.
Reading ==
  /\ arriving' \in Nat /\ chained' \in Nat
  /\ \/ loading' = loading /\ reader' = reader /\ jumps' \in 0..jumps
     \/ Ended

\* What a read does to the invariant: more lines, what read() does, and a restore.
LEMMA RestoreKeepsIInv ==
  ASSUME IInv, NEW n \in Nat, NEW running \in BOOLEAN,
         lines' = lines + n, Reading,
         NEW p \in LeftAtEnd(lines'), Restore(p, lines', running) \/ (pos' = p /\ prevPos' = prevPos),
         UNCHANGED <<window, first, aborted>>
  PROVE  IInv'
<1>1. /\ lines \in Nat /\ height \in Nat \ {0} /\ prevPos \in Position /\ Valid(pos, lines)
      /\ jumps \in Nat
  BY ViewAssumption DEF IInv, TypeOK
<1>2. lines' \in Nat /\ lines <= lines'
  BY <1>1
<1>3. Valid(p, lines')
  BY <1>1, <1>2, LeftIsValid
<1>4. Valid(pos', lines') /\ prevPos' \in Position
  <2>1. CASE Restore(p, lines', running)
    BY <1>1, <1>2, <1>3, <2>1, RestoredIsValid DEF Restore
  <2>2. QED
    BY <1>1, <1>3, <2>1
<1>5. /\ loading' \in BOOLEAN /\ arriving' \in Nat /\ chained' \in Nat
      /\ reader' \in OneShots \cup Habits /\ jumps' \in Nat
      /\ jumps' > 0 => loading' /\ reader' \in OneShots
  <2>1. CASE Ended
    <3>1. loading' = FALSE /\ reader' = "adds" /\ jumps' = 0
      BY <2>1 DEF Ended
    <3>2. arriving' \in Nat /\ chained' \in Nat
      BY DEF Reading
    <3>3. reader' \in OneShots \cup Habits
      BY <3>1 DEF Habits
    <3>4. jumps' \in Nat /\ ~(jumps' > 0)
      BY <3>1
    <3>5. loading' \in BOOLEAN
      BY <3>1
    <3>6. QED
      BY <3>2, <3>3, <3>4, <3>5, Zenon
  <2>2. CASE loading' = loading /\ reader' = reader /\ jumps' \in 0..jumps
    BY <1>1, <2>2 DEF Reading, IInv, TypeOK
  <2>3. QED
    BY <2>1, <2>2 DEF Reading
<1>6. QED
  BY <1>2, <1>4, <1>5 DEF IInv, TypeOK, Valid, window

\* Every read adds lines, lets read() move the position and then restores it,
\* unless read() has failed.
LEMMA ReadRestores ==
  ASSUME IInv, Read
  PROVE  \E n \in Nat, running \in BOOLEAN : \E p \in LeftAtEnd(lines') :
           /\ lines' = lines + n /\ Reading /\ UNCHANGED <<window, first, aborted>>
           /\ loading' => running
           /\ \/ Restore(p, lines', running)
              \/ ~loading' /\ pos' = p /\ prevPos' = prevPos
           /\ \/ p \in Moved(lines')
              \/ p \in Asked(lines', FALSE)
              \/ p \in Asked(lines', TRUE) /\ (loading' => chained' < chained)
<1>1. arriving \in Nat /\ chained \in Nat /\ MaxLines \in Nat /\ loading \in BOOLEAN
      /\ jumps \in Nat
  BY ViewAssumption DEF IInv, TypeOK
<1>2. ASSUME NEW n \in 0..MaxLines, ReadLines(n)
      PROVE  /\ n \in Nat /\ lines' = lines + n /\ Reading
             /\ UNCHANGED <<window, first, aborted>>
             /\ \E p \in LeftAtEnd(lines') :
                  /\ Restore(p, lines', TRUE)
                  /\ p \in Moved(lines') \/ p \in Asked(lines', FALSE)
  <2>1. n \in Nat /\ n <= arriving /\ arriving' = arriving - n
    BY <1>1, <1>2 DEF ReadLines
  <2>2. CASE jumps' = jumps /\ \E p \in Moved(lines') : Restore(p, lines', TRUE)
    <3>1. jumps' \in 0..jumps
      BY <1>1, <2>2
    <3>2. \E p \in LeftAtEnd(lines') : p \in Moved(lines') /\ Restore(p, lines', TRUE)
      BY <2>2 DEF LeftAtEnd
    <3>3. arriving' \in Nat
      BY <1>1, <2>1
    <3>4. QED
      BY <1>1, <1>2, <2>1, <3>1, <3>2, <3>3 DEF ReadLines, Reading
  <2>3. CASE jumps' = jumps - 1 /\ \E p \in Asked(lines', FALSE) : Restore(p, lines', TRUE)
    <3>1. PICK p \in Asked(lines', FALSE) : Restore(p, lines', TRUE)
      BY <2>3
    <3>2. jumps > 0 /\ p \in LeftAtEnd(lines')
      BY AskedFacts
    <3>3. jumps' \in 0..jumps
      BY <1>1, <2>3, <3>2
    <3>4. arriving' \in Nat
      BY <1>1, <2>1
    <3>5. QED
      BY <1>1, <1>2, <2>1, <3>1, <3>2, <3>3, <3>4 DEF ReadLines, Reading
  <2>4. QED
    BY <1>2, <2>2, <2>3 DEF ReadLines
<1>3. ASSUME NEW p \in LeftAtEnd(lines')
      PROVE  p \in Moved(lines') \/ p \in Asked(lines', TRUE)
  BY DEF LeftAtEnd
<1>4. ASSUME ReadLastLines
      PROVE  /\ lines' = lines + arriving /\ Reading
             /\ UNCHANGED <<window, first, aborted>> /\ ~loading'
             /\ \E p \in LeftAtEnd(lines') : Restore(p, lines', FALSE)
  BY <1>1, <1>4 DEF ReadLastLines, Reading, Ended
<1>5. ASSUME NEW n \in 0..MaxLines, ReadAndContinue(n)
      PROVE  /\ lines' = lines + arriving /\ Reading
             /\ UNCHANGED <<window, first, aborted>> /\ chained' < chained
             /\ \E p \in LeftAtEnd(lines') : Restore(p, lines', TRUE)
  <2>1. chained' \in Nat /\ chained' < chained /\ 0 \in 0..jumps
    BY <1>1, <1>5 DEF ReadAndContinue
  <2>2. arriving' \in Nat /\ loading' = loading /\ reader' = reader /\ jumps' = 0
    BY <1>1, <1>5 DEF ReadAndContinue
  <2>3. Reading
    BY <2>1, <2>2 DEF Reading
  <2>4. QED
    BY <1>5, <2>1, <2>3 DEF ReadAndContinue
<1>6. ASSUME NEW n \in 0..MaxLines, ReadError(n)
      PROVE  /\ n \in Nat /\ lines' = lines + n /\ Reading
             /\ UNCHANGED <<window, first, aborted>> /\ ~loading'
             /\ \E p \in LeftAtEnd(lines') : Restore(p, lines', FALSE)
  <2>1. n \in Nat /\ 0 \in Nat
    BY <1>1
  <2>2. QED
    BY <1>1, <1>6, <2>1 DEF ReadError, Reading, Ended
<1>7. ASSUME NEW n \in 0..MaxLines, ReadFails(n)
      PROVE  /\ n \in Nat /\ lines' = lines + n /\ Reading
             /\ UNCHANGED <<window, first, aborted>> /\ ~loading'
             /\ \E p \in LeftAtEnd(lines') : pos' = p /\ prevPos' = prevPos
  <2>1. n \in Nat /\ 0 \in Nat
    BY <1>1
  <2>2. QED
    BY <1>1, <1>7, <2>1 DEF ReadFails, EndByForce, Reading, Ended
<1>8. CASE \E n \in 0..MaxLines : ReadLines(n)
  BY <1>2, <1>8
<1>9. CASE ReadLastLines
  BY <1>1, <1>3, <1>4, <1>9
<1>10. CASE \E n \in 0..MaxLines : ReadAndContinue(n)
  BY <1>1, <1>3, <1>5, <1>10
<1>11. CASE \E n \in 0..MaxLines : ReadError(n)
  BY <1>3, <1>6, <1>11
<1>12. CASE \E n \in 0..MaxLines : ReadFails(n)
  BY <1>3, <1>7, <1>12
<1>13. QED
  BY <1>8, <1>9, <1>10, <1>11, <1>12 DEF Read

LEMMA ReadKeepsIInv ==
  IInv /\ Read => IInv'
<1> SUFFICES ASSUME IInv, Read PROVE IInv'
  OBVIOUS
<1>1. PICK n \in Nat, running \in BOOLEAN : \E p \in LeftAtEnd(lines') :
        /\ lines' = lines + n /\ Reading /\ UNCHANGED <<window, first, aborted>>
        /\ \/ Restore(p, lines', running)
           \/ pos' = p /\ prevPos' = prevPos
  BY ReadRestores
<1>2. PICK p \in LeftAtEnd(lines') :
        /\ lines' = lines + n /\ Reading /\ UNCHANGED <<window, first, aborted>>
        /\ \/ Restore(p, lines', running)
           \/ pos' = p /\ prevPos' = prevPos
  BY <1>1
<1>3. QED
  BY <1>2, RestoreKeepsIInv

\* Loading is stopped where read() leaves the position.
LEMMA StopKeepsIInv ==
  IInv /\ StopLoading => IInv'
<1> SUFFICES ASSUME IInv, StopLoading PROVE IInv'
  OBVIOUS
<1>1. /\ lines' = lines + 0 /\ Reading /\ UNCHANGED <<window, first, aborted>>
      /\ \E p \in LeftAtEnd(lines') : pos' = p /\ prevPos' = prevPos
  BY DEF StopLoading, EndByForce, Reading, Ended, IInv, TypeOK
<1>2. QED
  BY <1>1, RestoreKeepsIInv

LEMMA NewWindowKeepsIInv ==
  IInv /\ NewWindow => IInv'
<1> SUFFICES ASSUME IInv, NewWindow PROVE IInv'
  OBVIOUS
<1>1. /\ Valid(pos, lines) /\ lines \in Nat /\ prevPos \in Position
      /\ Heights \subseteq Nat \ {0} /\ first \in BOOLEAN /\ loading \in BOOLEAN
  BY ViewAssumption DEF IInv, TypeOK
<1>2. ASSUME NEW h \in Heights, Resize(h) PROVE IInv'
  BY <1>2 DEF Resize, IInv, TypeOK, content
<1>3. ASSUME Hide PROVE IInv'
  BY <1>3 DEF Hide, IInv, TypeOK, content
<1>4. ASSUME NEW h \in Heights, Uncover(h) PROVE IInv'
  BY <1>4 DEF Uncover, IInv, TypeOK, content
<1>5. ASSUME NEW fromOther \in BOOLEAN, NEW h \in Heights, Reopen(fromOther, h)
      PROVE  IInv'
  <2>1. /\ Valid(RestoredPosition(pos, prevPos, lines, h, loading), lines)
        /\ RestoredPrev(pos, prevPos, lines, loading) \in Position
    BY <1>1, RestoredIsValid
  <2>2. Origin \in Position
    BY DEF Origin, Position
  <2>3. /\ Valid(pos', lines) /\ prevPos' \in Position /\ first' \in BOOLEAN
        /\ displayed' = TRUE /\ height' = h
        /\ UNCHANGED <<content, aborted>>
    BY <1>1, <1>5, <2>1, <2>2 DEF Reopen
  <2>4. QED
    BY <2>3 DEF IInv, TypeOK, content, Valid
<1>6. ASSUME NEW h \in Heights, Split(h) PROVE IInv'
  <2> DEFINE n == pos.lineno - pos.offset - h + 1
             asserts == n > 0 => DoScrollAsserts(pos, lines, h, n)
  <2>1. /\ height' = h
        /\ pos' = IF n > 0 /\ asserts THEN DoScrollView(pos, h, n) ELSE pos
        /\ aborted' = ~asserts
        /\ UNCHANGED <<content, displayed, first, prevPos>>
    BY <1>6 DEF Split
  <2>2. /\ pos \in Position /\ pos.offset \in Nat /\ pos.lineno \in Nat
        /\ n \in Int /\ h \in Nat \ {0}
    BY <1>1 DEF Valid, Position
  <2>3. CASE n > 0
    <3>1. pos.lineno < lines /\ 0 <= pos.offset + n /\ pos.offset + n < lines
      BY <1>1, <2>2, <2>3 DEF Valid
    <3> HIDE DEF n
    <3>2. Valid(DoScrollView(pos, h, n), lines) /\ DoScrollAsserts(pos, lines, h, n)
      BY <1>1, <2>2, <2>3, <3>1, DoScrollViewIsValid
    <3>3. QED
      BY <2>1, <2>3, <3>2 DEF IInv, TypeOK, content, Valid
  <2>4. CASE ~(n > 0)
    BY <1>1, <2>1, <2>4 DEF IInv, TypeOK, content
  <2>5. QED
    BY <2>3, <2>4
<1>7. QED
  BY <1>2, <1>3, <1>4, <1>5, <1>6 DEF NewWindow

-------------------------------------------------------------------------------
(* The theorems.                                                           *)

LEMMA NextKeepsIInv ==
  IInv /\ [Next]_vars => IInv'
<1> SUFFICES ASSUME IInv, [Next]_vars PROVE IInv'
  OBVIOUS
<1>1. ASSUME StopLoading PROVE IInv'
  BY <1>1, StopKeepsIInv
<1>2. ASSUME UNCHANGED vars PROVE IInv'
  BY <1>2 DEF vars, IInv, TypeOK
<1>3. QED
  BY <1>1, <1>2, UserRequestKeepsIInv, LoadKeepsIInv, ReadKeepsIInv,
     NewWindowKeepsIInv DEF Next

THEOREM InvariantHolds == Spec => []IInv
<1>1. QED
  BY InitEstablishesIInv, NextKeepsIInv, PTL DEF Spec

\* Every field of the view keeps its type, in outputs and windows of any size.
THEOREM TypeCorrect == Spec => []TypeOK
<1>1. IInv => TypeOK
  BY DEF IInv
<1>2. QED
  BY <1>1, InvariantHolds, PTL

\* The cursor is always on a line of the view and not above the window:
\* view->line[view->pos.lineno] exists whenever the view has lines.
THEOREM PositionAlwaysValid == Spec => []PositionValid
<1>1. IInv => PositionValid
  BY DEF IInv, Valid, PositionValid
<1>2. QED
  BY <1>1, InvariantHolds, PTL

\* When the pager scrolls line by line, every do_scroll_view finds its position in
\* the window and among the lines that have been read.
LEMMA FollowingAsserts ==
  ASSUME IInv, NEW n \in Nat, lines <= n, NEW k \in 1..n, MayFollow(k, n)
  PROVE  DoScrollAsserts(IF k = 1 THEN pos ELSE Followed(k - 1),
                         pos.offset + height + k, height, 1)
<1> DEFINE p == IF k = 1 THEN pos ELSE Followed(k - 1)
           held == pos.offset + height + k
           q == DoScrollView(p, height, 1)
<1>1. /\ height \in Nat \ {0} /\ pos \in Position /\ pos.offset \in Nat /\ pos.lineno \in Nat
      /\ pos.offset <= pos.lineno /\ (pos.lineno < lines \/ pos.lineno = 0)
      /\ lines \in Nat /\ lines <= pos.offset + height + 1
  BY ViewAssumption DEF IInv, TypeOK, Valid, Position, MayFollow
<1>2. /\ p \in Position /\ p.offset = pos.offset + (k - 1) /\ p.offset <= p.lineno
      /\ p.lineno < held
  <2>1. CASE k = 1
    <3>1. p = pos
      BY <2>1
    <3>2. QED
      BY <1>1, <2>1, <3>1 DEF IInv, Valid
  <2>2. CASE k # 1
    <3>1. k - 1 \in Nat \ {0}
      BY <2>2
    <3>2. p = Followed(k - 1)
      BY <2>2
    <3>4. p \in Position /\ p.offset = pos.offset + (k - 1) /\ Visible(p, height)
      BY <3>1, <3>2, FollowedIs
    <3> HIDE DEF p
    <3>5. QED
      BY <1>1, <3>1, <3>4 DEF Visible, Position
  <2>3. QED
    BY <2>1, <2>2
<1> HIDE DEF p
<1>3. /\ q \in Position /\ q.offset = p.offset + 1
      /\ q.lineno = IF p.lineno < p.offset + 1 THEN p.offset + 1
                    ELSE IF p.lineno >= p.offset + 1 + height THEN p.offset + 1 + height - 1
                    ELSE p.lineno
  <2>1. p \in Position /\ height \in Nat \ {0} /\ 1 \in Nat
    BY <1>1, <1>2
  <2>2. QED
    BY <2>1, ScrolledFields
<1> HIDE DEF q
<1>4. /\ 0 <= q.offset /\ q.offset < held /\ q.offset <= q.lineno /\ q.lineno < held
  BY <1>1, <1>2, <1>3 DEF Position
<1>5. QED
  BY <1>4 DEF DoScrollAsserts, q, p, held

\* No assert() of move_view, do_scroll_view or scroll_view ever fails.
THEOREM NeverAborts == Spec => []NoAssertionFailure
<1>1. IInv => NoAssertionFailure
  <2> SUFFICES ASSUME IInv PROVE NoAssertionFailure
    OBVIOUS
  <2>1. lines + arriving \in Nat /\ lines <= lines + arriving
    BY DEF IInv, TypeOK
  <2>2. QED
    BY <2>1, FollowingAsserts DEF IInv, NoAssertionFailure
<1>2. QED
  BY <1>1, InvariantHolds, PTL
-------------------------------------------------------------------------------
(* What going to a line and restoring do to the cursor.                    *)

\* The line that goto_view_line goes to is in the window it chooses.
LEMMA GotoViewLineIsVisible ==
  ASSUME NEW p \in Position, NEW n \in Nat, NEW h \in Nat \ {0},
         NEW offset \in Nat, NEW lineno \in Nat
  PROVE  /\ Visible(GotoViewLine(p, n, h, offset, lineno), h)
         /\ GotoViewLine(p, n, h, offset, lineno).lineno = ClampLine(lineno, n)
         /\ GotoViewLine(p, n, h, offset, lineno).col = p.col
         /\ GotoViewLine(p, n, h, offset, lineno) \in Position
<1> DEFINE line == ClampLine(lineno, n)
           top == ShowLine(offset, line, h)
<1>1. line \in Nat
  BY DEF ClampLine
<1>2. h \div 2 \in Nat /\ h \div 2 < h
  OBVIOUS
<1>3. top \in Nat /\ top <= line /\ line < top + h
  <2> HIDE DEF line
  <2>1. QED
    BY <1>1, <1>2 DEF ShowLine
<1>4. GotoViewLine(p, n, h, offset, lineno) = [p EXCEPT !.offset = top, !.lineno = line]
  BY DEF GotoViewLine
<1> HIDE DEF top
<1>5. /\ GotoViewLine(p, n, h, offset, lineno).offset = top
      /\ GotoViewLine(p, n, h, offset, lineno).lineno = line
      /\ GotoViewLine(p, n, h, offset, lineno).col = p.col
      /\ GotoViewLine(p, n, h, offset, lineno) \in Position
  <2> HIDE DEF line
  <2>1. QED
    BY <1>1, <1>3, <1>4 DEF Position
<1>6. QED
  BY <1>3, <1>5 DEF Visible

\* A window that shows a line of the view stays where it is when the view goes to
\* that line.
LEMMA GotoOwnLine ==
  ASSUME NEW p \in Position, NEW n \in Nat, NEW h \in Nat \ {0}, p.lineno < n, Visible(p, h)
  PROVE  GotoViewLine(p, n, h, p.offset, p.lineno) = p
<1>1. ClampLine(p.lineno, n) = p.lineno /\ ShowLine(p.offset, p.lineno, h) = p.offset
  BY DEF ClampLine, ShowLine, Visible, Position
<1>2. [p EXCEPT !.offset = p.offset, !.lineno = p.lineno] = p
  BY DEF Position
<1>3. QED
  BY <1>1, <1>2 DEF GotoViewLine

\* Restoring never hides the cursor.
LEMMA RestoredIsVisible ==
  ASSUME NEW p \in Position, NEW prev \in Position, NEW n \in Nat, NEW h \in Nat \ {0},
         NEW running \in BOOLEAN, Visible(p, h)
  PROVE  Visible(RestoredPosition(p, prev, n, h, running), h)
<1>1. /\ p.offset \in Nat /\ p.lineno \in Nat
      /\ prev.offset \in Nat /\ prev.lineno \in Nat /\ prev.col \in Nat
  BY DEF Position
<1>2. Visible(GotoViewLine(p, n, h, p.offset, p.lineno), h)
  BY <1>1, GotoViewLineIsVisible
<1> DEFINE back == GotoViewLine(p, n, h, prev.offset, prev.lineno)
<1>3. Visible(back, h) /\ back \in Position
  BY <1>1, GotoViewLineIsVisible
<1>4. Visible([back EXCEPT !.col = prev.col], h)
  <2> HIDE DEF back
  <2>1. QED
    BY <1>1, <1>3 DEF Visible, Position
<1>5. QED
  BY <1>2, <1>4 DEF RestoredPosition

\* read() never hides the cursor, nor moves it sideways.
LEMMA LeftIsVisible ==
  ASSUME IInv, NEW n \in Nat, NEW p \in LeftAtEnd(n)
  PROVE  /\ Visible(pos, height) => Visible(p, height)
         /\ p.col = pos.col
<1>1. /\ lines \in Nat /\ height \in Nat \ {0} /\ pos \in Position
      /\ pos.offset \in Nat /\ pos.offset <= pos.lineno
  BY ViewAssumption DEF IInv, TypeOK, Valid, Position
<1>2. ASSUME NEW k \in 1..n, p = Followed(k)
      PROVE  Visible(p, height) /\ p.col = pos.col
  <2>1. k \in Nat \ {0}
    OBVIOUS
  <2>2. QED
    BY <1>2, <2>1, FollowedIs
<1>3. ASSUME NEW m \in Nat, NEW top \in Nat, NEW line \in Nat,
             p = GotoViewLine(pos, m, height, top, line)
      PROVE  Visible(p, height) /\ p.col = pos.col
  <2>1. DEFINE q == GotoViewLine(pos, m, height, top, line)
  <2>2. Visible(q, height) /\ q.col = pos.col
    BY <1>1, GotoViewLineIsVisible
  <2>3. QED
    BY <1>3, <2>2
<1>4. ASSUME NEW m, NEW top, NEW line, p = GotoViewLine(pos, m, height, top, line),
             jumps > 0 /\ reader = "jumps" /\ top = pos.offset,
             NEW t \in lines..(n - 1), m = t + 1, line = t \/ (line = t - 1 /\ 2 < t)
      PROVE  Visible(p, height) /\ p.col = pos.col
  BY <1>1, <1>3, <1>4
<1>5. ASSUME NEW m, NEW top, NEW line, p = GotoViewLine(pos, m, height, top, line),
             m = n, line \in Nat, top \in Nat
      PROVE  Visible(p, height) /\ p.col = pos.col
  BY <1>3, <1>5
<1>6. ASSUME NEW m, NEW top, NEW line, m = n, line \in 0..(n - 1), top \in 0..(line + 1)
      PROVE  line \in Nat /\ top \in Nat
  BY <1>6
<1>7. QED
  BY <1>2, <1>4, <1>5, <1>6, LeftCases

-------------------------------------------------------------------------------
(* Moving and scrolling.                                                   *)

LEMMA MoveByIsVisible ==
  ASSUME NEW p \in Position, NEW n \in Nat, NEW h \in Nat \ {0}, NEW shown \in BOOLEAN,
         NEW steps \in Int, Visible(p, h),
         ~AtEdge(p, n, steps) => 0 <= p.lineno + steps /\ p.lineno + steps < n
  PROVE  Visible(MoveBy(p, n, h, shown, steps), h)
<1> DEFINE moved == [p EXCEPT !.lineno = @ + steps]
           scroll == ScrollSteps(p, n, h, steps)
           line == p.lineno + steps
<1>1. CASE AtEdge(p, n, steps)
  BY <1>1 DEF MoveBy
<1>2. CASE ~AtEdge(p, n, steps)
  <2>1. /\ p.offset \in Nat /\ p.lineno \in Nat /\ line \in Nat /\ line < n
        /\ p.offset <= p.lineno /\ p.lineno < p.offset + h
    BY <1>2 DEF Position, Visible
  <2>2. /\ scroll \in Int
        /\ p.offset + scroll <= line /\ line < p.offset + scroll + h
    BY <2>1 DEF ScrollSteps
  <2>3. /\ moved.offset = p.offset /\ moved.lineno = line
        /\ moved \in [offset : Nat, col : Nat, lineno : Int]
    BY <2>1 DEF Position
  <2> HIDE DEF scroll, moved, line
  <2>4. Visible([moved EXCEPT !.offset = @ + scroll], h)
    BY <2>1, <2>2, <2>3 DEF Visible
  <2>5. Visible(DoScrollView(moved, h, scroll), h)
    BY <2>1, <2>2, <2>3 DEF Visible, DoScrollView
  <2>6. scroll = 0 => Visible(moved, h)
    BY <2>1, <2>2, <2>3 DEF Visible
  <2>7. QED
    BY <1>2, <2>4, <2>5, <2>6 DEF MoveBy, moved, scroll
<1>3. QED
  BY <1>1, <1>2

\* scroll_view keeps a visible cursor on its row.
LEMMA ScrollViewKeepsRow ==
  ASSUME NEW p \in Position, NEW n \in Nat, NEW h \in Nat \ {0}, NEW mouse \in Nat,
         NEW request \in ScrollRequests, Valid(p, n), Visible(p, h)
  PROVE  LET q == ScrollView(p, n, h, mouse, request)
         IN  q.lineno - q.offset = p.lineno - p.offset /\ Visible(q, h)
<1> DEFINE dist == ScrollLines(p, n, h, mouse, request)
           scrolled == DoScrollView(p, h, dist)
           left == dist - (scrolled.lineno - p.lineno)
           q == MoveLines(scrolled, n, h, left)
<1>1. p.offset \in Nat /\ p.lineno \in Nat /\ p.offset <= p.lineno /\ p.lineno < p.offset + h
  BY DEF Position, Visible
<1>2. CASE dist = 0
  BY <1>1, <1>2 DEF ScrollView
<1>3. CASE dist # 0
  <2>1. /\ dist \in Int /\ n > 0
        /\ 0 <= p.offset + dist /\ p.lineno + dist < n
    <3> DEFINE jump == Jump(request, h, mouse)
    <3>1. jump \in Nat
      BY DEF Jump
    <3>2. CASE request \in ScrollUps
      <4>1. dist = IF jump > p.offset THEN -p.offset ELSE -jump
        BY <3>2 DEF ScrollLines
      <4> HIDE DEF jump, dist
      <4>2. QED
        BY <1>1, <1>3, <3>1, <4>1 DEF Valid
    <3>3. CASE request \notin ScrollUps
      <4> DEFINE below == n - p.offset - h
                 capped == IF p.offset + jump > n THEN n - p.offset ELSE jump
      <4>1. dist = IF below <= 0 THEN 0 ELSE IF capped > below THEN below ELSE capped
        BY <3>3 DEF ScrollLines
      <4> HIDE DEF jump, dist
      <4>2. dist > 0 /\ dist <= below /\ dist \in Int
        BY <1>1, <1>3, <3>1, <4>1
      <4>3. QED
        BY <1>1, <4>2
    <3>4. QED
      BY <3>2, <3>3
  <2> HIDE DEF dist
  <2> DEFINE top == p.offset + dist
             kept == IF p.lineno < top THEN top
                     ELSE IF p.lineno >= top + h THEN top + h - 1
                     ELSE p.lineno
  <2>2. scrolled = [p EXCEPT !.offset = top, !.lineno = kept]
    BY DEF DoScrollView
  <2>3. top \in Int /\ kept \in Int
    BY <1>1, <2>1
  <2> DEFINE target == p.lineno + dist
             line == IF scrolled.lineno + left < 0 THEN 0
                     ELSE IF scrolled.lineno + left >= n THEN n - 1
                     ELSE scrolled.lineno + left
             shown == IF scrolled.offset > line THEN line
                      ELSE IF scrolled.offset + h <= line THEN line - h + 1
                      ELSE scrolled.offset
  <2>4. q = [scrolled EXCEPT !.lineno = line, !.offset = shown]
    BY DEF MoveLines
  <2> HIDE DEF kept, scrolled
  <2>5. /\ scrolled.offset = top /\ scrolled.lineno = kept
        /\ scrolled \in [offset : Int, col : Nat, lineno : Int]
    <3> HIDE DEF top
    <3>1. QED
      BY <2>2, <2>3 DEF Position
  <2>6. scrolled.lineno + left = target
    BY <1>1, <2>1, <2>3, <2>5
  <2>7. 0 <= target /\ target < n /\ target \in Int
    BY <1>1, <2>1
  <2>8. line = target
    <3> HIDE DEF left, target
    <3>1. QED
      BY <2>6, <2>7
  <2>9. shown = top
    <3> HIDE DEF line
    <3>1. QED
      BY <1>1, <2>1, <2>5, <2>8
  <2> HIDE DEF line, shown, q
  <2>10. q.lineno = target /\ q.offset = top
    <3> HIDE DEF target, top
    <3>1. QED
      BY <2>4, <2>5, <2>8, <2>9
  <2>11. ScrollView(p, n, h, mouse, request) = q
    BY <1>3 DEF ScrollView, q, dist, scrolled
  <2>12. QED
    BY <1>1, <2>1, <2>10, <2>11 DEF Visible
<1>4. QED
  BY <1>2, <1>3

-------------------------------------------------------------------------------
(* What the invariant says of a view, and of a step that restores.         *)

LEMMA StateFacts ==
  ASSUME IInv
  PROVE  /\ lines \in Nat /\ height \in Nat \ {0} /\ pos \in Position
         /\ prevPos \in Position /\ Valid(pos, lines) /\ displayed \in BOOLEAN
         /\ first \in BOOLEAN /\ loading \in BOOLEAN
         /\ MouseScroll \in Nat /\ Heights \subseteq Nat \ {0}
BY ViewAssumption DEF IInv, TypeOK

\* A position that is still waiting names a line the view does not have.
LEMMA WaitsForItsLine ==
  ASSUME NEW p, NEW prev \in Position, NEW n \in Nat,
         CheckPosition(RestoredPrev(p, prev, n, TRUE))
  PROVE  n <= RestoredPrev(p, prev, n, TRUE).lineno
BY DEF RestoredPrev, CheckPosition

LEMMA ReadAddsLines ==
  ASSUME IInv, Read
  PROVE  lines' \in Nat /\ lines <= lines'
<1>1. PICK n \in Nat : lines' = lines + n
  BY ReadRestores
<1>2. lines \in Nat
  BY DEF IInv, TypeOK
<1>3. QED
  BY <1>1, <1>2

-------------------------------------------------------------------------------
(* A position to return to is restored as soon as its line has been read.  *)

LEMMA BeginKeepsWaiting ==
  ASSUME IInv, NEW header \in Nat, NEW total, NEW isFirst \in BOOLEAN, NEW keep,
         Begin(header, total, isFirst, keep)
  PROVE  RestoreIsPrompt'
<1>0. PICK p \in IF loading THEN LeftAtEnd(lines) ELSE {pos} :
        prevPos' = IF header = 0 /\ ~isFirst /\ ~keep THEN Origin
                   ELSE RestoredPrev(Origin, PositionBeforeReset(p, isFirst), header, TRUE)
  BY DEF Begin
<1> DEFINE old == PositionBeforeReset(p, isFirst)
<1>1. old \in Position
  BY BeganFrom, PositionBeforeResetIsPosition
<1>2. /\ lines' = header
      /\ prevPos' = Origin \/ prevPos' = RestoredPrev(Origin, old, header, TRUE)
  BY <1>0 DEF Begin
<1> HIDE DEF old
<1>3. CheckPosition(prevPos') => lines' <= prevPos'.lineno
  <2>1. CASE prevPos' = Origin
    BY <2>1 DEF CheckPosition
  <2>2. CASE prevPos' = RestoredPrev(Origin, old, header, TRUE)
    BY <1>1, <1>2, <2>2, WaitsForItsLine
  <2>3. QED
    BY <1>2, <2>1, <2>2
<1>4. QED
  BY <1>3 DEF RestoreIsPrompt

LEMMA LoadKeepsWaiting ==
  IInv /\ Load => RestoreIsPrompt'
<1> SUFFICES ASSUME IInv, Load PROVE RestoreIsPrompt'
  OBVIOUS
<1>1. PICK header \in 0..MaxHeader, total \in 0..MaxLines :
        \/ \E keep, fromOther \in BOOLEAN, h \in Heights :
             Open(header, total, keep, fromOther, h)
        \/ Reload(header, total)
        \/ ReloadAtOnce(total)
  BY DEF Load
<1>2. header \in Nat /\ first \in BOOLEAN
  BY ViewAssumption DEF IInv, TypeOK
<1>3. ASSUME NEW keep \in BOOLEAN, NEW fromOther \in BOOLEAN, NEW h \in Heights,
             Open(header, total, keep, fromOther, h)
      PROVE  RestoreIsPrompt'
  <2>1. first' \in BOOLEAN /\ Begin(header, total, first', keep)
    BY <1>2, <1>3 DEF Open
  <2>2. QED
    BY <1>2, <2>1, BeginKeepsWaiting
<1>4. ASSUME Reload(header, total) PROVE RestoreIsPrompt'
  BY <1>2, <1>4, BeginKeepsWaiting DEF Reload
<1>5. ASSUME ReloadAtOnce(total) PROVE RestoreIsPrompt'
  BY <1>5 DEF ReloadAtOnce, RestoreIsPrompt
<1>6. QED
  BY <1>1, <1>3, <1>4, <1>5

LEMMA NextKeepsWaiting ==
  IInv /\ RestoreIsPrompt /\ [Next]_vars => RestoreIsPrompt'
<1> SUFFICES ASSUME IInv, RestoreIsPrompt, [Next]_vars PROVE RestoreIsPrompt'
  OBVIOUS
<1>1. CASE UserRequest
  <2>1. UNCHANGED <<lines, loading, prevPos>>
    BY <1>1 DEF UserRequest, Move, Scroll, ScrollCol, SelectViewLine, Navigate, content
  <2>2. QED
    BY <2>1 DEF RestoreIsPrompt
<1>2. CASE Load
  BY <1>2, LoadKeepsWaiting
<1>3. CASE Read
  <2>1. PICK running \in BOOLEAN, p \in LeftAtEnd(lines') :
          /\ loading' => running
          /\ Restore(p, lines', running) \/ ~loading'
    BY <1>3, ReadRestores
  <2>2. lines' \in Nat /\ prevPos \in Position
    BY <1>3, ReadAddsLines, StateFacts
  <2>3. CASE running = TRUE
    BY <2>1, <2>2, <2>3, WaitsForItsLine DEF Restore, RestoreIsPrompt
  <2>4. CASE running = FALSE
    BY <2>1, <2>4 DEF RestoreIsPrompt
  <2>5. QED
    BY <2>3, <2>4
<1>4. CASE StopLoading
  BY <1>4 DEF StopLoading, EndByForce, Ended, RestoreIsPrompt
<1>5. CASE NewWindow
  <2>1. CASE \E fromOther \in BOOLEAN, h \in Heights : Reopen(fromOther, h)
    <3>1. /\ UNCHANGED <<lines, loading>>
          /\ \/ prevPos' = Origin
             \/ prevPos' = RestoredPrev(pos, prevPos, lines, loading)
      BY <2>1 DEF Reopen, content
    <3>2. CASE prevPos' = Origin
      BY <3>2 DEF RestoreIsPrompt, CheckPosition
    <3>3. CASE loading = TRUE /\ prevPos' = RestoredPrev(pos, prevPos, lines, loading)
      BY <3>1, <3>3, StateFacts, WaitsForItsLine DEF RestoreIsPrompt
    <3>4. CASE loading = FALSE
      BY <3>1, <3>4 DEF RestoreIsPrompt
    <3>5. QED
      BY <3>1, <3>2, <3>3, <3>4, StateFacts
  <2>2. CASE ~(\E fromOther \in BOOLEAN, h \in Heights : Reopen(fromOther, h))
    <3>1. UNCHANGED <<lines, loading, prevPos>>
      BY <1>5, <2>2 DEF NewWindow, Resize, Hide, Uncover, Split, content
    <3>2. QED
      BY <3>1 DEF RestoreIsPrompt
  <2>3. QED
    BY <2>1, <2>2
<1>6. CASE UNCHANGED vars
  BY <1>6 DEF vars, RestoreIsPrompt
<1>7. QED
  BY <1>1, <1>2, <1>3, <1>4, <1>5, <1>6 DEF Next

\* update_view restores a position as soon as the line it names has been read,
\* however many lines arrive at once and in whatever way the view was loaded.
THEOREM AlwaysRestoresPromptly == Spec => []RestoreIsPrompt
<1>1. Init => RestoreIsPrompt
  BY DEF Init, RestoreIsPrompt
<1>2. QED
  BY <1>1, NextKeepsWaiting, InvariantHolds, PTL DEF Spec

-------------------------------------------------------------------------------
(* Lines that arrive and the cursor.                                       *)

\* Restoring leaves a position that is not the origin on its line, and the
\* window alone if it shows that line.
LEMMA RestoredKeepsUser ==
  ASSUME NEW p, NEW prev \in Position, NEW m \in Nat, NEW n \in Nat, m <= n,
         NEW h \in Nat \ {0}, NEW running \in BOOLEAN, Valid(p, m), CheckPosition(p)
  PROVE  LET q == RestoredPosition(p, prev, n, h, running)
         IN  /\ q.lineno = p.lineno /\ q.col = p.col
             /\ Visible(p, h) => q = p
<1>1. p \in Position /\ p.offset \in Nat /\ p.lineno \in Nat
  BY DEF Valid, Position
<1>2. ClampLine(p.lineno, n) = p.lineno
  BY <1>1 DEF Valid, ClampLine
<1> DEFINE here == GotoViewLine(p, n, h, p.offset, p.lineno)
<1>3. here.lineno = p.lineno /\ here.col = p.col
  BY <1>1, <1>2 DEF GotoViewLine, Position
<1>4. Visible(p, h) => here = p
  <2>1. Visible(p, h) => ShowLine(p.offset, p.lineno, h) = p.offset
    BY <1>1 DEF Visible, ShowLine
  <2>2. [p EXCEPT !.offset = p.offset, !.lineno = p.lineno] = p
    BY <1>1 DEF Position
  <2>3. QED
    BY <1>2, <2>1, <2>2 DEF GotoViewLine
<1>5. \/ RestoredPosition(p, prev, n, h, running) = here
      \/ RestoredPosition(p, prev, n, h, running) = p
  BY DEF RestoredPosition
<1> HIDE DEF here
<1>6. QED
  BY <1>3, <1>4, <1>5

\* Whatever read() did, restoring then leaves a position that is not the origin on
\* its line, and its window if it shows that line.
LEMMA ReadThenRestored ==
  ASSUME IInv, NEW p \in LeftAtEnd(lines'), NEW running \in BOOLEAN,
         Restore(p, lines', running), lines' \in Nat, lines <= lines', CheckPosition(p)
  PROVE  /\ pos'.lineno = p.lineno /\ pos'.col = p.col
         /\ Visible(p, height) => pos' = p
<1>1. Valid(p, lines')
  BY LeftIsValid
<1>2. pos' = RestoredPosition(p, prevPos, lines', height, running)
  BY DEF Restore
<1>3. QED
  BY <1>1, <1>2, StateFacts, RestoredKeepsUser

\* A line that was asked for is one of those that have just been added, or the line
\* above, unless the output has ended.
LEMMA AskedIsAdded ==
  ASSUME IInv, NEW n \in Nat, lines <= n, NEW atEnd \in BOOLEAN, NEW p \in Asked(n, atEnd)
  PROVE  /\ jumps > 0
         /\ \/ reader = "jumps" /\ lines <= p.lineno + 1 /\ (p.lineno = 0 => lines = 0)
            \/ reader = "returns" /\ atEnd
         /\ p \in Position
<1>1. /\ lines \in Nat /\ height \in Nat \ {0} /\ pos \in Position /\ pos.offset \in Nat
  BY StateFacts DEF Position
<1>2. ASSUME NEW t \in lines..(n - 1), NEW line \in Nat, line = t \/ (line = t - 1 /\ 2 < t),
             p = GotoViewLine(pos, t + 1, height, pos.offset, line)
      PROVE  lines <= p.lineno + 1 /\ (p.lineno = 0 => lines = 0) /\ p \in Position
  <2>1. t + 1 \in Nat /\ line < t + 1
    BY <1>1, <1>2
  <2>2. p.lineno = ClampLine(line, t + 1) /\ p \in Position
    <3>1. ASSUME NEW m \in Nat, NEW top \in Nat
          PROVE  /\ GotoViewLine(pos, m, height, top, line).lineno = ClampLine(line, m)
                 /\ GotoViewLine(pos, m, height, top, line) \in Position
      BY <1>1, GotoViewLineIsVisible
    <3>2. t + 1 \in Nat /\ pos.offset \in Nat
      BY <1>1, <2>1
    <3>3. PICK m \in Nat, top \in Nat : m = t + 1 /\ top = pos.offset
      BY <3>2
    <3>4. p = GotoViewLine(pos, m, height, top, line)
      BY <1>2, <3>3
    <3>5. QED
      BY <3>1, <3>3, <3>4
  <2>3. p.lineno = line
    BY <2>1, <2>2 DEF ClampLine
  <2>4. QED
    BY <1>1, <1>2, <2>2, <2>3
<1>3. ASSUME p \in AsAdded(n)
      PROVE  lines <= p.lineno + 1 /\ (p.lineno = 0 => lines = 0) /\ p \in Position
  <2>1. ASSUME NEW t \in lines..(n - 1) PROVE t \in Nat /\ (2 < t => t - 1 \in Nat)
    BY <1>1
  <2>2. CASE \E t \in lines..(n - 1) : p = GotoViewLine(pos, t + 1, height, pos.offset, t)
    BY <1>2, <2>1, <2>2
  <2>3. CASE \E t \in lines..(n - 1) :
               2 < t /\ p = GotoViewLine(pos, t + 1, height, pos.offset, t - 1)
    BY <1>2, <2>1, <2>3
  <2>4. QED
    BY <1>3, <2>2, <2>3 DEF AsAdded
<1>4. ASSUME p \in AtEnd(n)
      PROVE  p \in Position
  <2>1. PICK line \in 0..(n - 1) : \E t \in 0..(line + 1) :
          p = GotoViewLine(pos, n, height, t, line)
    BY <1>4 DEF AtEnd
  <2>2. PICK top \in 0..(line + 1) : p = GotoViewLine(pos, n, height, top, line)
    BY <2>1
  <2>3. line \in Nat /\ top \in Nat
    OBVIOUS
  <2>4. QED
    BY <1>1, <2>2, <2>3, GotoViewLineIsVisible
<1>5. CASE p \in AsAdded(n) /\ jumps > 0 /\ reader = "jumps"
  BY <1>3, <1>5
<1>6. CASE p \in AtEnd(n) /\ jumps > 0 /\ reader = "returns" /\ atEnd
  BY <1>4, <1>6
<1>7. QED
  BY <1>5, <1>6 DEF Asked

\* A read that was asked to go somewhere leaves the view there, unless that is the
\* first line ever read and the view still has a position to be restored.
LEMMA AskedGoesThere ==
  ASSUME IInv, Read, NEW p \in LeftAtEnd(lines'), NEW running \in BOOLEAN,
         Restore(p, lines', running) \/ pos' = p, pos'.lineno \in Nat,
         \/ p \in Asked(lines', FALSE)
         \/ p \in Asked(lines', TRUE) /\ (loading' => chained' < chained)
  PROVE  WentWhereAsked
<1>1. lines' \in Nat /\ lines <= lines' /\ lines \in Nat
  BY ReadAddsLines, StateFacts
<1>2. ASSUME NEW atEnd \in BOOLEAN, p \in Asked(lines', atEnd)
      PROVE  /\ jumps > 0
             /\ \/ reader = "jumps" /\ lines <= p.lineno + 1 /\ (p.lineno = 0 => lines = 0)
                \/ reader = "returns" /\ atEnd
             /\ p \in Position
  BY <1>1, <1>2, AskedIsAdded
<1>3. ASSUME lines <= p.lineno + 1, p.lineno = 0 => lines = 0, p \in Position
      PROVE  lines <= pos'.lineno + 1
  <2>1. CASE CheckPosition(p)
    <3>1. pos'.lineno = p.lineno
      BY <1>1, <2>1, ReadThenRestored
    <3>2. QED
      BY <1>3, <3>1
  <2>2. CASE ~CheckPosition(p)
    <3>1. lines = 0
      BY <1>3, <2>2 DEF CheckPosition, Origin
    <3>2. QED
      BY <3>1
  <2>3. QED
    BY <2>1, <2>2
<1>4. CASE p \in Asked(lines', FALSE)
  BY <1>2, <1>3, <1>4 DEF WentWhereAsked
<1>5. CASE p \in Asked(lines', TRUE) /\ (loading' => chained' < chained)
  BY <1>2, <1>3, <1>5 DEF WentWhereAsked
<1>6. QED
  BY <1>4, <1>5

\* How a read that was not asked to go anywhere moves the cursor.
LEMMA MovedCases ==
  ASSUME IInv, NEW n \in Nat, NEW p \in Moved(n)
  PROVE  \/ p = pos
         \/ /\ reader = "follows" /\ pos.offset < p.offset /\ p.offset + height <= n
            /\ lines <= pos.offset + height + 1 /\ pos.offset + height < n
            /\ p \in Position /\ Visible(p, height)
            /\ Visible(pos, height) =>
                 p.lineno = IF pos.lineno < p.offset THEN p.offset ELSE pos.lineno
         \/ ~CheckPosition(pos) /\ ~CheckPosition(prevPos)
<1>1. pos.offset \in Nat /\ height \in Nat
  BY StateFacts DEF Position
<1>2. ASSUME NEW k \in 1..n, MayFollow(k, n), p = Followed(k)
      PROVE  /\ reader = "follows" /\ pos.offset < p.offset /\ p.offset + height <= n
             /\ lines <= pos.offset + height + 1 /\ pos.offset + height < n
             /\ p \in Position /\ Visible(p, height)
             /\ Visible(pos, height) =>
                  p.lineno = IF pos.lineno < p.offset THEN p.offset ELSE pos.lineno
  <2>1. k \in Nat \ {0}
    OBVIOUS
  <2>2. p.offset = pos.offset + k
    BY <1>2, <2>1, FollowedIs
  <2>3. /\ reader = "follows" /\ lines <= pos.offset + height + 1
        /\ pos.offset + height + k <= n
    BY <1>2 DEF MayFollow
  <2>4. pos.offset < p.offset /\ p.offset + height <= n /\ pos.offset + height < n
    BY <1>1, <2>1, <2>2, <2>3
  <2>5. QED
    BY <1>2, <2>1, <2>3, <2>4, FollowedIs
<1>3. \/ p = pos
      \/ \E k \in 1..n : MayFollow(k, n) /\ p = Followed(k)
      \/ ~CheckPosition(pos) /\ ~CheckPosition(prevPos)
  BY DEF Moved, MayDescend
<1>4. QED
  BY <1>2, <1>3

\* Lines that arrive never move a cursor the user has put somewhere, and never
\* scroll a window that shows it; but for the line a load was asked to go to, and
\* the pager that scrolls with its output.
THEOREM ReadingKeepsCursor == Spec => ReadKeepsUserPosition
<1> DEFINE Kept == /\ pos'.lineno = pos.lineno /\ pos'.col = pos.col
                   /\ Visible(pos, height) => pos' = pos
           Dragged == /\ reader = "follows" /\ pos.offset < pos'.offset
                      /\ pos'.offset + height <= lines'
                      /\ Visible(pos, height) =>
                           pos'.lineno = IF pos.lineno < pos'.offset THEN pos'.offset
                                         ELSE pos.lineno
<1>1. IInv /\ IInv' /\ Read /\ CheckPosition(pos) => Kept \/ Dragged \/ WentWhereAsked
  <2> SUFFICES ASSUME IInv, IInv', Read, CheckPosition(pos)
               PROVE  Kept \/ Dragged \/ WentWhereAsked
    OBVIOUS
  <2>1. PICK running \in BOOLEAN, p \in LeftAtEnd(lines') :
          /\ \/ Restore(p, lines', running)
             \/ ~loading' /\ pos' = p /\ prevPos' = prevPos
          /\ \/ p \in Moved(lines')
             \/ p \in Asked(lines', FALSE)
             \/ p \in Asked(lines', TRUE) /\ (loading' => chained' < chained)
    BY ReadRestores
  <2>2. lines' \in Nat /\ lines <= lines'
    BY ReadAddsLines
  <2>3. pos'.lineno \in Nat
    BY DEF IInv, TypeOK, Position
  <2>4. ASSUME CheckPosition(p)
        PROVE  pos'.lineno = p.lineno /\ pos'.col = p.col /\ (Visible(p, height) => pos' = p)
    BY <2>1, <2>2, <2>4, ReadThenRestored
  <2>5. CASE p = pos
    BY <2>4, <2>5
  <2>6. CASE p \in Moved(lines') /\ p # pos
    <3>1. /\ reader = "follows" /\ pos.offset < p.offset /\ p.offset + height <= lines'
          /\ p \in Position /\ Visible(p, height)
          /\ Visible(pos, height) =>
               p.lineno = IF pos.lineno < p.offset THEN p.offset ELSE pos.lineno
      BY <2>2, <2>6, MovedCases
    <3>2. CheckPosition(p)
      BY <3>1, StateFacts DEF CheckPosition, Origin, Position
    <3>3. pos' = p
      BY <2>4, <3>1, <3>2
    <3>4. QED
      BY <3>1, <3>3
  <2>7. CASE p \notin Moved(lines')
    BY <2>1, <2>3, <2>7, AskedGoesThere
  <2>8. QED
    BY <2>5, <2>6, <2>7
<1>2. IInv /\ IInv' /\ [Next]_vars
        => [Read /\ CheckPosition(pos) => Kept \/ Dragged \/ WentWhereAsked]_vars
  BY <1>1
<1>3. QED
  BY <1>2, InvariantHolds, PTL DEF Spec, ReadKeepsUserPosition, Kept, Dragged

\* A load that runs to its end with the cursor at the origin ends on the line
\* the view was on before, or on its last line, in the window.
THEOREM EndsRestored == Spec => RestoredAtEnd
<1> DEFINE Back == /\ pos'.lineno = ClampLine(prevPos.lineno, lines')
                   /\ pos'.col = prevPos.col
                   /\ Visible(pos', height)
           Scrolled == reader = "follows" /\ lines <= height + 1 /\ height < lines'
<1>1. ASSUME IInv, lines' \in Nat, CheckPosition(prevPos), pos = Origin,
             Restore(pos, lines', FALSE)
      PROVE  Back
  <2>1. /\ prevPos \in Position /\ height \in Nat \ {0} /\ pos \in Position
        /\ prevPos.offset \in Nat /\ prevPos.lineno \in Nat /\ prevPos.col \in Nat
    BY <1>1, StateFacts DEF Position
  <2> DEFINE back == GotoViewLine(pos, lines', height, prevPos.offset, prevPos.lineno)
  <2>2. pos' = [back EXCEPT !.col = prevPos.col]
    BY <1>1 DEF Restore, RestoredPosition, CheckPosition
  <2>3. /\ Visible(back, height) /\ back \in Position
    BY <1>1, <2>1, GotoViewLineIsVisible
  <2>4. back.lineno = ClampLine(prevPos.lineno, lines')
    BY <2>1 DEF GotoViewLine, Position
  <2> HIDE DEF back
  <2>5. /\ pos'.lineno = back.lineno /\ pos'.offset = back.offset
        /\ pos'.col = prevPos.col
    BY <2>1, <2>2, <2>3 DEF Position
  <2>6. QED
    BY <2>3, <2>4, <2>5 DEF Visible
<1>2. IInv /\ IInv' /\ ReadLastLines /\ CheckPosition(prevPos) /\ pos = Origin
        => Back \/ Scrolled \/ WentWhereAsked
  <2> SUFFICES ASSUME IInv, IInv', ReadLastLines, CheckPosition(prevPos), pos = Origin
               PROVE  Back \/ Scrolled \/ WentWhereAsked
    OBVIOUS
  <2>1. lines' \in Nat /\ Read /\ ~loading' /\ pos'.lineno \in Nat
    BY ReadAddsLines DEF Read, ReadLastLines, Ended, IInv, TypeOK, Position
  <2>2. PICK p \in LeftAtEnd(lines') : Restore(p, lines', FALSE)
    BY DEF ReadLastLines
  <2>3. CASE p = pos
    BY <1>1, <2>1, <2>2, <2>3
  <2>4. CASE p \in Moved(lines') /\ p # pos
    <3>1. reader = "follows" /\ lines <= pos.offset + height + 1 /\ pos.offset + height < lines'
      BY <2>1, <2>4, MovedCases
    <3>2. pos.offset = 0
      BY DEF Origin
    <3>3. QED
      BY <3>1, <3>2, StateFacts
  <2>5. CASE p \in Asked(lines', TRUE)
    BY <2>1, <2>2, <2>5, AskedGoesThere
  <2>6. QED
    BY <2>2, <2>3, <2>4, <2>5 DEF LeftAtEnd
<1>3. IInv /\ IInv' /\ [Next]_vars
        => [ReadLastLines /\ CheckPosition(prevPos) /\ pos = Origin
              => Back \/ Scrolled \/ WentWhereAsked]_vars
  BY <1>2
<1>4. QED
  BY <1>3, InvariantHolds, PTL DEF Spec, RestoredAtEnd, Back, Scrolled

-------------------------------------------------------------------------------
(* The cursor and the window.                                              *)

\* A scroll of the window from a state of the invariant.
LEMMA ScrollStep ==
  ASSUME IInv, NEW request \in ScrollRequests, Scroll(request), Visible(pos, height)
  PROVE  /\ pos'.lineno - pos'.offset = pos.lineno - pos.offset
         /\ Visible(pos', height)
<1> DEFINE p == ScrollView(pos, lines, height, MouseScroll, request)
<1>1. ScrollViewAsserts(pos, lines, height, MouseScroll, request)
  BY StateFacts, ScrollViewIsValid
<1>2. pos' = p
  BY <1>1 DEF Scroll, Navigate
<1>3. p.lineno - p.offset = pos.lineno - pos.offset /\ Visible(p, height)
  BY StateFacts, ScrollViewKeepsRow
<1>4. QED
  BY <1>2, <1>3

\* Scrolling takes a visible cursor along: it stays on its row of the window.
THEOREM ScrollingKeepsRow == Spec => ScrollKeepsRow
<1>1. IInv /\ (\E request \in ScrollRequests : Scroll(request)) /\ Visible(pos, height)
        => pos'.lineno - pos'.offset = pos.lineno - pos.offset
  BY ScrollStep
<1>2. IInv /\ [Next]_vars
        => [(\E request \in ScrollRequests : Scroll(request)) /\ Visible(pos, height)
              => pos'.lineno - pos'.offset = pos.lineno - pos.offset]_vars
  BY <1>1
<1>3. QED
  BY <1>2, InvariantHolds, PTL DEF Spec, ScrollKeepsRow

LEMMA UserRequestKeepsVisible ==
  IInv /\ UserRequest /\ Visible(pos, height) => Visible(pos', height)
<1> SUFFICES ASSUME IInv, UserRequest, Visible(pos, height)
             PROVE  Visible(pos', height)
  OBVIOUS
<1>1. /\ Valid(pos, lines) /\ lines \in Nat /\ height \in Nat \ {0}
      /\ displayed \in BOOLEAN /\ MouseScroll \in Nat /\ pos \in Position
  BY StateFacts
<1>2. ASSUME NEW request \in MoveRequests, Move(request) PROVE Visible(pos', height)
  <2> DEFINE steps == MoveSteps(pos, lines, height, MouseScroll, request)
             p == MoveBy(pos, lines, height, displayed, steps)
  <2>1. /\ steps \in Int
        /\ ~AtEdge(pos, lines, steps) =>
             0 <= pos.lineno + steps /\ pos.lineno + steps < lines
    BY <1>1, MoveStepsStayInView
  <2>2. pos' = p \/ pos' = pos
    BY <1>2 DEF Move, Navigate
  <2> HIDE DEF steps
  <2>3. Visible(p, height)
    BY <1>1, <2>1, MoveByIsVisible
  <2> HIDE DEF p
  <2>4. QED
    BY <2>2, <2>3
<1>3. ASSUME NEW request \in ScrollRequests, Scroll(request) PROVE Visible(pos', height)
  BY <1>3, ScrollStep
<1>4. ASSUME ScrollCol PROVE Visible(pos', height)
  <2>1. PICK col \in 0..MaxCol : Navigate([pos EXCEPT !.col = col], TRUE)
    BY <1>4 DEF ScrollCol
  <2>2. pos'.offset = pos.offset /\ pos'.lineno = pos.lineno
    BY <1>1, <2>1 DEF Navigate, Position
  <2>3. QED
    BY <2>2 DEF Visible
<1>5. ASSUME NEW lineno \in 0..MaxLines, SelectViewLine(lineno)
      PROVE  Visible(pos', height)
  <2>1. lineno \in Nat /\ pos.offset \in Nat
    BY <1>1, ViewAssumption DEF Position
  <2>2. pos' = GotoViewLine(pos, lines, height, pos.offset, lineno)
    BY <1>5 DEF SelectViewLine, Navigate
  <2>3. QED
    BY <1>1, <2>1, <2>2, GotoViewLineIsVisible
<1>6. QED
  BY <1>2, <1>3, <1>4, <1>5 DEF UserRequest

LEMMA OriginIsVisible ==
  ASSUME NEW h \in Nat \ {0}
  PROVE  Visible(Origin, h) /\ Origin \in Position
BY DEF Visible, Origin, Position

LEMMA LoadKeepsVisible ==
  IInv /\ Load /\ height' = height => Visible(pos', height)
<1> SUFFICES ASSUME IInv, Load, height' = height
             PROVE  Visible(pos', height)
  OBVIOUS
<1>1. PICK header \in 0..MaxHeader, total \in 0..MaxLines :
        \/ \E keep, fromOther \in BOOLEAN, h \in Heights :
             Open(header, total, keep, fromOther, h)
        \/ Reload(header, total)
        \/ ReloadAtOnce(total)
  BY DEF Load
<1>2. /\ header \in Nat /\ total \in Nat
      /\ first \in BOOLEAN /\ height \in Nat \ {0}
  BY ViewAssumption DEF IInv, TypeOK
<1>3. first' \in BOOLEAN /\ pos \in Position
  BY <1>1, <1>2 DEF Open, Reload, ReloadAtOnce, window, IInv, TypeOK
<1>6. ASSUME NEW isFirst \in BOOLEAN, NEW keep, Begin(header, total, isFirst, keep)
      PROVE  \E n \in Nat, old \in Position, running \in BOOLEAN :
               pos' = RestoredPosition(Origin, old, n, height, running)
  <2>1. PICK p \in IF loading THEN LeftAtEnd(lines) ELSE {pos} :
          pos' = RestoredPosition(Origin, PositionBeforeReset(p, isFirst), header, height, TRUE)
    BY <1>6 DEF Begin
  <2>2. PositionBeforeReset(p, isFirst) \in Position
    BY BeganFrom, PositionBeforeResetIsPosition
  <2>3. QED
    BY <1>2, <2>1, <2>2
<1>7. PositionBeforeReset(pos, first) \in Position
  BY <1>2, <1>3, PositionBeforeResetIsPosition
<1>4. \E n \in Nat, old \in Position, running \in BOOLEAN :
        pos' = RestoredPosition(Origin, old, n, height, running)
  BY <1>1, <1>2, <1>3, <1>6, <1>7 DEF Open, Reload, ReloadAtOnce
<1>5. QED
  BY <1>2, <1>4, OriginIsVisible, RestoredIsVisible

LEMMA NewWindowKeepsVisible ==
  IInv /\ NewWindow /\ Visible(pos, height) /\ height' = height
    => Visible(pos', height)
<1> SUFFICES ASSUME IInv, NewWindow, Visible(pos, height), height' = height
             PROVE  Visible(pos', height)
  OBVIOUS
<1>1. CASE \E fromOther \in BOOLEAN, h \in Heights : Reopen(fromOther, h)
  <2>1. pos' = RestoredPosition(pos, prevPos, lines, height, loading)
    BY <1>1 DEF Reopen
  <2>2. QED
    BY <2>1, StateFacts, RestoredIsVisible
<1>2. CASE \E h \in Heights : Split(h)
  <2>1. pos.lineno - pos.offset - height + 1 <= 0
    BY StateFacts DEF Visible, Position
  <2>2. pos' = pos
    BY <1>2, <2>1, StateFacts DEF Split, Position
  <2>3. QED
    BY <2>2
<1>3. CASE \/ \E h \in Heights : Resize(h) \/ Uncover(h)
           \/ Hide
  BY <1>3 DEF Resize, Uncover, Hide
<1>4. QED
  BY <1>1, <1>2, <1>3 DEF NewWindow

\* A cursor that is visible stays visible as long as the window keeps its
\* height, whatever is requested, read or loaded.
THEOREM CursorAlwaysStaysVisible == Spec => CursorStaysVisible
<1>1. IInv /\ [Next]_vars
        => [Visible(pos, height) /\ height' = height => Visible(pos', height)]_vars
  <2> SUFFICES ASSUME IInv, Next, Visible(pos, height), height' = height
               PROVE  Visible(pos', height)
    OBVIOUS
  <2>1. CASE Read
    <3>1. PICK running \in BOOLEAN, p \in LeftAtEnd(lines') :
            Restore(p, lines', running) \/ pos' = p
      BY <2>1, ReadRestores
    <3>2. lines' \in Nat /\ lines <= lines'
      BY <2>1, ReadAddsLines
    <3>3. Visible(p, height) /\ p \in Position
      BY <3>2, LeftIsVisible, LeftIsValid DEF Valid
    <3>4. QED
      BY <3>1, <3>2, <3>3, StateFacts, RestoredIsVisible DEF Restore
  <2>2. CASE StopLoading
    <3>1. lines' = lines + 0 /\ pos' \in LeftAtEnd(lines') /\ lines \in Nat
      BY <2>2, StateFacts DEF StopLoading, EndByForce
    <3>2. QED
      BY <3>1, LeftIsVisible
  <2>3. QED
    BY <2>1, <2>2, UserRequestKeepsVisible, LoadKeepsVisible, NewWindowKeepsVisible
       DEF Next
<1>2. QED
  BY <1>1, InvariantHolds, PTL DEF Spec, CursorStaysVisible
-------------------------------------------------------------------------------
(* Scrolling by single moves.                                              *)

\* Where the cursor and the top of the window are after the moves.
LEMMA MoveLinesEnds ==
  ASSUME NEW p, NEW n \in Nat, NEW h \in Nat \ {0}, NEW dist \in Int,
         Valid(p, n), n > 0
  PROVE  LET line == IF p.lineno + dist < 0 THEN 0
                     ELSE IF p.lineno + dist >= n THEN n - 1
                     ELSE p.lineno + dist
             top == IF p.offset > line THEN line
                    ELSE IF p.offset + h <= line THEN line - h + 1
                    ELSE p.offset
         IN  /\ MoveLines(p, n, h, dist) = [offset |-> top, col |-> p.col, lineno |-> line]
             /\ line \in 0 .. n - 1 /\ top \in Nat
<1>1. p \in Position /\ p.offset \in Nat /\ p.lineno \in Nat
  BY DEF Valid, Position
<1> DEFINE line == IF p.lineno + dist < 0 THEN 0
                   ELSE IF p.lineno + dist >= n THEN n - 1
                   ELSE p.lineno + dist
           top == IF p.offset > line THEN line
                  ELSE IF p.offset + h <= line THEN line - h + 1
                  ELSE p.offset
<1>2. line \in 0 .. n - 1
  BY <1>1
<1> HIDE DEF line
<1>3. top \in Nat
  BY <1>1, <1>2
<1>4. MoveLines(p, n, h, dist) = [p EXCEPT !.lineno = line, !.offset = top]
  BY DEF MoveLines, line
<1> HIDE DEF top
<1>5. MoveLines(p, n, h, dist) = [offset |-> top, col |-> p.col, lineno |-> line]
  BY <1>1, <1>4 DEF Position
<1>6. QED
  BY <1>2, <1>3, <1>5 DEF line, top

\* One more move of the cursor of a window that shows it.
LEMMA MoveLinesStep ==
  ASSUME NEW p, NEW n \in Nat, NEW h \in Nat \ {0}, NEW step \in {-1, 1}, NEW d \in Int,
         d = 0 \/ (step > 0 <=> d > 0),
         Valid(p, n), n > 0, Visible(p, h)
  PROVE  MoveBy(MoveLines(p, n, h, d), n, h, TRUE, step) = MoveLines(p, n, h, d + step)
<1> DEFINE Line(m) == IF p.lineno + m < 0 THEN 0
                      ELSE IF p.lineno + m >= n THEN n - 1
                      ELSE p.lineno + m
           Top(l) == IF p.offset > l THEN l
                     ELSE IF p.offset + h <= l THEN l - h + 1
                     ELSE p.offset
           line == Line(d)
           next == Line(d + step)
           q == MoveLines(p, n, h, d)
           scroll == ScrollSteps(q, n, h, step)
<1>1. /\ p.offset \in Nat /\ p.col \in Nat /\ p.lineno \in Nat
      /\ p.offset <= p.lineno /\ p.lineno < n /\ p.lineno < p.offset + h
  BY DEF Valid, Position, Visible
<1>2. d + step \in Int
  OBVIOUS
<1>3. /\ q = [offset |-> Top(line), col |-> p.col, lineno |-> line]
      /\ MoveLines(p, n, h, d + step) = [offset |-> Top(next), col |-> p.col, lineno |-> next]
  BY <1>2, MoveLinesEnds
<1>4. /\ line \in 0 .. n - 1
      /\ next = IF step = 1 THEN IF line = n - 1 THEN n - 1 ELSE line + 1
                ELSE IF line = 0 THEN 0 ELSE line - 1
      /\ IF step = 1 THEN p.lineno <= line ELSE line <= p.lineno
  <2>1. CASE step = 1
    BY <2>1, <1>1
  <2>2. CASE step = -1
    BY <2>2, <1>1
  <2>3. QED
    BY <2>1, <2>2
<1> HIDE DEF line, next, q
<1>5. q.offset = Top(line) /\ q.lineno = line /\ q.col = p.col
  BY <1>3
<1>6. CASE AtEdge(q, n, step)
  <2>1. next = line
    BY <1>4, <1>5, <1>6 DEF AtEdge
  <2>2. QED
    BY <1>3, <1>6, <2>1 DEF MoveBy, q
<1>7. CASE ~AtEdge(q, n, step)
  <2>1. next = line + step /\ next \in 0 .. n - 1
    BY <1>4, <1>5, <1>7 DEF AtEdge
  <2>2. Top(line) \in Nat /\ Top(line) <= line /\ line < Top(line) + h
    BY <1>1, <1>4
  <2>3. scroll = Top(next) - Top(line)
    <3> DEFINE top == Top(line)
    <3>1. scroll = IF top <= line + step /\ line + step < top + h THEN 0
                   ELSE IF step < 0 /\ -step > top THEN -top
                   ELSE IF step > 0 /\ line + step = n - 1 /\ n > h
                     THEN IF n - top - 1 >= h THEN (n - top - 1) - (h - 1) ELSE n - top - 1
                   ELSE step
      BY <1>5 DEF ScrollSteps
    <3>2. Top(next) = IF next < top THEN next ELSE IF next >= top + h THEN next - h + 1 ELSE top
      <4>1. CASE step = 1
        BY <4>1, <1>1, <1>4, <2>1
      <4>2. CASE step = -1
        BY <4>2, <1>1, <1>4, <2>1
      <4>3. QED
        BY <4>1, <4>2
    <3> HIDE DEF top
    <3>3. top \in Nat /\ top <= line /\ line < top + h
      BY <2>2 DEF top
    <3>4. scroll = Top(next) - top
      <4> HIDE DEF scroll
      <4>1. CASE step = 1
        BY <4>1, <1>4, <2>1, <3>1, <3>2, <3>3
      <4>2. CASE step = -1
        BY <4>2, <1>4, <2>1, <3>1, <3>2, <3>3
      <4>3. QED
        BY <4>1, <4>2
    <3>5. QED
      BY <3>4 DEF top
  <2> DEFINE moved == [q EXCEPT !.lineno = @ + step]
  <2>4. moved = [offset |-> Top(line), col |-> p.col, lineno |-> next]
    BY <1>3, <2>1
  <2>5. Top(next) <= next /\ next < Top(next) + h /\ Top(next) \in Nat
    BY <1>1, <2>1
  <2>6. MoveBy(q, n, h, TRUE, step) = IF scroll # 0 THEN DoScrollView(moved, h, scroll) ELSE moved
    BY <1>7 DEF MoveBy
  <2> HIDE DEF scroll, moved, Top
  <2>7. CASE scroll = 0
    <3>1. Top(next) = Top(line)
      BY <2>2, <2>3, <2>5, <2>7
    <3>2. QED
      BY <1>3, <2>4, <2>6, <2>7, <3>1 DEF q
  <2>8. CASE scroll # 0
    <3>1. moved.offset + scroll = Top(next) /\ moved.lineno = next
      BY <2>2, <2>3, <2>4, <2>5
    <3>2. DoScrollView(moved, h, scroll) = [moved EXCEPT !.offset = Top(next), !.lineno = next]
      <4>1. ~(next < Top(next)) /\ ~(next >= Top(next) + h)
        BY <2>1, <2>5
      <4>2. QED
        BY <3>1, <4>1 DEF DoScrollView
    <3>3. QED
      BY <1>3, <2>4, <2>6, <2>8, <3>2 DEF q
  <2>9. QED
    BY <2>7, <2>8
<1>8. QED
  BY <1>6, <1>7 DEF q

\* The recursive function that counts the loop's moves is MoveLines.
LEMMA LoopedIsMoveLines ==
  ASSUME NEW i \in Nat, NEW d \in Int, IInv, lines > 0, Visible(pos, height)
  PROVE  Looped(pos, d)[i] = MoveLines(pos, lines, height, IF d < 0 THEN -i ELSE i)
<1> DEFINE step == IF d < 0 THEN -1 ELSE 1
           Good(f) == f = [k \in Nat |-> IF k = 0 THEN pos ELSE MoveBy(f[k - 1], lines, height, TRUE, step)]
           closed == [k \in Nat |-> MoveLines(pos, lines, height, step * k)]
           at == CHOOSE f : Good(f)
<1>1. /\ lines \in Nat /\ height \in Nat \ {0} /\ Valid(pos, lines) /\ step \in {-1, 1}
  BY ViewAssumption DEF IInv, TypeOK
<1>2. MoveLines(pos, lines, height, 0) = pos
  <2>1. /\ pos \in Position /\ pos.offset \in Nat /\ pos.lineno \in Nat
        /\ pos.offset <= pos.lineno /\ pos.lineno < lines /\ pos.lineno < pos.offset + height
    BY <1>1 DEF Valid, Position, Visible
  <2>2. MoveLines(pos, lines, height, 0) = [offset |-> pos.offset, col |-> pos.col, lineno |-> pos.lineno]
    BY <1>1, <2>1, MoveLinesEnds
  <2>3. QED
    BY <2>1, <2>2 DEF Position
<1> HIDE DEF step
<1>3. ASSUME NEW k \in Nat
      PROVE  MoveBy(MoveLines(pos, lines, height, step * k), lines, height, TRUE, step)
             = MoveLines(pos, lines, height, step * (k + 1))
  <2> DEFINE moved == step * k
  <2>1. /\ moved \in Int /\ moved + step = step * (k + 1)
        /\ moved = 0 \/ (step > 0 <=> moved > 0)
    BY <1>1
  <2> HIDE DEF moved
  <2>2. MoveBy(MoveLines(pos, lines, height, moved), lines, height, TRUE, step)
        = MoveLines(pos, lines, height, moved + step)
    BY <1>1, <2>1, MoveLinesStep
  <2>3. QED
    BY <2>1, <2>2 DEF moved
<1>4. Good(closed)
  <2>1. ASSUME NEW k \in Nat
        PROVE  closed[k] = IF k = 0 THEN pos ELSE MoveBy(closed[k - 1], lines, height, TRUE, step)
    <3>1. CASE k = 0
      <4>1. step * k = 0
        BY <3>1, <1>1
      <4>2. QED
        BY <1>2, <3>1, <4>1
    <3>2. CASE k # 0
      <4>1. k - 1 \in Nat /\ (k - 1) + 1 = k
        BY <3>2
      <4>2. QED
        BY <1>3, <3>2, <4>1
    <3>3. QED
      BY <3>1, <3>2
  <2>2. QED
    BY <2>1
<1>5. Good(at)
  <2> HIDE DEF Good
  <2>1. QED
    BY <1>4
<1>6. at[0] = pos /\ \A k \in Nat \ {0} : at[k] = MoveBy(at[k - 1], lines, height, TRUE, step)
  <2> HIDE DEF at
  <2>1. QED
    BY <1>5
<1>7. Looped(pos, d) = at
  BY DEF Looped, step
<1> HIDE DEF at, Good, closed
<1> DEFINE S == {k \in Nat : at[k] = MoveLines(pos, lines, height, step * k)}
<1>8. 0 \in S
  <2>1. step * 0 = 0
    BY <1>1
  <2>2. QED
    BY <1>2, <1>6, <2>1
<1>9. ASSUME NEW k \in 1 .. i, k - 1 \in S PROVE k \in S
  <2>1. k \in Nat \ {0} /\ k - 1 \in Nat /\ (k - 1) + 1 = k
    OBVIOUS
  <2>2. at[k] = MoveBy(MoveLines(pos, lines, height, step * (k - 1)), lines, height, TRUE, step)
    BY <1>6, <1>9, <2>1
  <2>3. QED
    BY <1>3, <2>1, <2>2
<1> HIDE DEF S
<1>10. i \in S
  <2>1. \A k \in 0 .. i : k \in S
    BY <1>8, <1>9, EveryRound
  <2>2. QED
    BY <2>1
<1>11. step * i = IF d < 0 THEN -i ELSE i
  BY <1>1 DEF step
<1>12. QED
  BY <1>7, <1>10, <1>11 DEF S

\* And none of the loop's moves fails an assertion, as each starts at a valid position.
LEMMA MoveLinesAgree == IInv => MoveLinesIsTheLoop
<1> SUFFICES ASSUME IInv, lines > 0, Visible(pos, height), NEW n \in (-lines) .. lines
             PROVE  LET dist == IF n < 0 THEN -n ELSE n
                        step == IF n < 0 THEN -1 ELSE 1
                    IN  /\ MoveLines(pos, lines, height, n) = Looped(pos, n)[dist]
                        /\ \A i \in 0 .. dist - 1 :
                             MoveByAsserts(Looped(pos, n)[i], lines, height, TRUE, step)
  BY DEF MoveLinesIsTheLoop
<1> DEFINE dist == IF n < 0 THEN -n ELSE n
           step == IF n < 0 THEN -1 ELSE 1
<1>1. lines \in Nat /\ height \in Nat \ {0} /\ Valid(pos, lines)
  BY ViewAssumption DEF IInv, TypeOK
<1>2. n \in Int /\ dist \in Nat /\ step \in Int /\ n = IF n < 0 THEN -dist ELSE dist
  BY <1>1
<1>3. MoveLines(pos, lines, height, n) = Looped(pos, n)[dist]
  <2> HIDE DEF dist
  <2>1. QED
    BY <1>2, LoopedIsMoveLines
<1>4. ASSUME NEW i \in 0 .. dist - 1
      PROVE  MoveByAsserts(Looped(pos, n)[i], lines, height, TRUE, step)
  <2> DEFINE q == Looped(pos, n)[i]
             moved == IF n < 0 THEN -i ELSE i
  <2>1. i \in Nat /\ moved \in Int
    BY <1>2
  <2>2. q = MoveLines(pos, lines, height, moved)
    BY <1>2, <2>1, LoopedIsMoveLines
  <2>3. Valid(q, lines)
    <3> HIDE DEF moved, q
    <3>1. QED
      BY <1>1, <2>1, <2>2, MoveLinesIsValid
  <2> HIDE DEF q
  <2>4. ~AtEdge(q, lines, step) => 0 <= q.lineno + step /\ q.lineno + step < lines
    <3>1. q.lineno \in Nat /\ q.lineno < lines
      BY <2>3 DEF Valid, Position
    <3>2. QED
      BY <1>1, <3>1 DEF AtEdge
  <2>5. MoveByAsserts(q, lines, height, TRUE, step)
    <3> HIDE DEF step
    <3>1. QED
      BY <1>1, <1>2, <2>3, <2>4, MoveByIsValid
  <2>6. QED
    BY <2>5 DEF q
<1>5. QED
  BY <1>3, <1>4

\* The cursor and the window are where scroll_view's loop of move_view calls takes
\* them, for every distance, number of lines and height of the window.
THEOREM MoveLinesAlwaysTheLoop == Spec => []MoveLinesIsTheLoop
<1>1. IInv => MoveLinesIsTheLoop
  BY MoveLinesAgree
<1>2. QED
  BY <1>1, InvariantHolds, PTL

-------------------------------------------------------------------------------
(***************************************************************************)
(* Searching: it finds the nearest match or merge in its direction, going  *)
(* round the end or not, and the cached list of matches is never an old    *)
(* one.                                                                    *)
(*                                                                         *)
(* Searching only ever moves the cursor as other requests do, so the       *)
(* specification with searching implements View's, and View's invariant    *)
(* says where the cursor is.  What is left is arithmetic: which line is    *)
(* the least in a set, and what a distance modulo the number of lines is.  *)
(***************************************************************************)

\* Nearest is the first of some lines in a direction.
LEMMA NearestIsFirst ==
  ASSUME NEW n \in Nat, NEW ls, ls \subseteq 0 .. n, ls # {}, NEW direction \in Directions
  PROVE  /\ Nearest(direction, ls) \in ls
         /\ \A m \in ls : direction * Nearest(direction, ls) <= direction * m
<1>1. \E l \in ls : \A m \in ls : direction * l <= direction * m
  <2>1. CASE direction = 1
    <3>0. ls \subseteq Nat
      OBVIOUS
    <3>1. PICK l \in ls : \A m \in ls : l <= m
      BY <3>0, LeastNatural
    <3>2. \A m \in ls : direction * l <= direction * m
      BY <2>1, <3>1
    <3>3. QED
      BY <3>2
  <2>2. CASE direction = -1
    <3> DEFINE left == {n - l : l \in ls}
    <3>0. \A l \in ls : l \in Nat /\ n - l \in Nat
      OBVIOUS
    <3>1. left \subseteq Nat /\ left # {}
      BY <3>0
    <3>2. PICK d \in left : \A e \in left : d <= e
      BY <3>1, LeastNatural
    <3>3. PICK l \in ls : d = n - l
      BY <3>2
    <3>4. \A m \in ls : n - l <= n - m
      BY <3>2, <3>3
    <3>5. \A m \in ls : direction * l <= direction * m
      BY <2>2, <3>4
    <3>6. QED
      BY <3>5
  <2>3. QED
    BY <2>1, <2>2 DEF Directions
<1>2. Nearest(direction, ls) = CHOOSE l \in ls : \A m \in ls : direction * l <= direction * m
  BY DEF Nearest
<1>3. QED
  BY <1>1, <1>2

-------------------------------------------------------------------------------
(* Matches.                                                                *)

\* The match that find_next_match goes to, or NoLine.
Found(ms, lineno, direction, wrap) ==
  LET ahead == MatchLine(ms, lineno, direction, FALSE)
  IN  IF ahead = NoLine /\ wrap THEN MatchLine(ms, lineno, direction, TRUE) ELSE ahead

\* The matches there are in the direction of the search ...
Candidates(ms, lineno, direction, wrap) ==
  {m \in ms : wrap \/ direction * (m - lineno) > 0}

\* ... and what it means that a line is the nearest of them.
IsNearest(line, there, n, lineno, direction) ==
  IF there = {} THEN line = NoLine
  ELSE /\ line \in there
       /\ \A m \in there :
            Distance(line, n, lineno, direction) <= Distance(m, n, lineno, direction)

LEMMA FoundIsNearest ==
  ASSUME NEW n \in Nat, NEW ms \in SUBSET (0 .. n - 1), NEW lineno \in 0 .. n - 1,
         NEW direction \in Directions, NEW wrap \in BOOLEAN
  PROVE  IsNearest(Found(ms, lineno, direction, wrap),
                   Candidates(ms, lineno, direction, wrap), n, lineno, direction)
<1> DEFINE before == {m \in ms : IF direction > 0 THEN FALSE = (m <= lineno)
                                                   ELSE FALSE = (m >= lineno)}
           after == {m \in ms : IF direction > 0 THEN TRUE = (m <= lineno)
                                                  ELSE TRUE = (m >= lineno)}
           there == Candidates(ms, lineno, direction, wrap)
           line == Found(ms, lineno, direction, wrap)
<1>1. /\ MatchLine(ms, lineno, direction, FALSE) = Nearest(direction, before)
      /\ MatchLine(ms, lineno, direction, TRUE) = Nearest(direction, after)
  BY DEF MatchLine
<1>2. direction = 1 \/ direction = -1
  BY DEF Directions
<1>3. \A m \in ms : m \in before <=> direction * (m - lineno) > 0
  BY <1>2
<1>4. \A m \in ms : m \in after <=> ~(direction * (m - lineno) > 0)
  BY <1>2
<1>5. before \subseteq 0 .. n /\ after \subseteq 0 .. n /\ NoLine \notin before /\ NoLine \notin after
  <2>1. \A m \in ms : m \in 0 .. n /\ m # NoLine
    BY DEF NoLine
  <2>2. before \subseteq ms /\ after \subseteq ms
    OBVIOUS
  <2> HIDE DEF before, after
  <2>3. QED
    BY <2>1, <2>2
<1>6. \A m \in before : Distance(m, n, lineno, direction) = direction * (m - lineno)
  BY <1>3 DEF Distance
<1>7. \A m \in after : Distance(m, n, lineno, direction) = direction * (m - lineno) + n
  BY <1>4 DEF Distance
<1>8. there = IF wrap THEN before \cup after ELSE before
  <2>1. \A m \in ms : m \in before \/ m \in after
    BY <1>3, <1>4
  <2>2. QED
    BY <1>3, <2>1 DEF Candidates
<1> HIDE DEF before, after, there
<1>9. CASE before # {}
  <2>1. /\ Nearest(direction, before) \in before
        /\ \A m \in before : direction * Nearest(direction, before) <= direction * m
    BY <1>5, <1>9, NearestIsFirst
  <2>2. line = Nearest(direction, before)
    BY <1>1, <1>5, <2>1 DEF Found
  <2>3. line \in there /\ line \in 0 .. n - 1
    BY <1>5, <1>8, <2>1, <2>2 DEF before
  <2>4. \A m \in before : Distance(line, n, lineno, direction) <= Distance(m, n, lineno, direction)
    <3>1. TAKE m \in before
    <3>2. m \in 0 .. n - 1 /\ direction * line <= direction * m
      BY <2>1, <2>2 DEF before
    <3>3. direction * (line - lineno) <= direction * (m - lineno)
      BY <1>2, <2>3, <3>2
    <3>4. QED
      BY <1>6, <2>1, <2>2, <3>3
  <2>5. \A m \in after : Distance(line, n, lineno, direction) <= Distance(m, n, lineno, direction)
    <3>1. TAKE m \in after
    <3>2. m \in 0 .. n - 1
      BY DEF after
    <3>3. direction * (line - lineno) <= direction * (m - lineno) + n
      BY <1>2, <2>3, <3>2
    <3>4. QED
      BY <1>6, <1>7, <2>1, <2>2, <3>3
  <2>6. QED
    BY <1>8, <2>3, <2>4, <2>5 DEF IsNearest, there
<1>10. CASE before = {} /\ wrap /\ after # {}
  <2>1. /\ Nearest(direction, after) \in after
        /\ \A m \in after : direction * Nearest(direction, after) <= direction * m
    BY <1>5, <1>10, NearestIsFirst
  <2>2. line = Nearest(direction, after)
    BY <1>1, <1>10 DEF Found, Nearest
  <2>3. line \in there /\ there = after /\ line \in 0 .. n - 1
    BY <1>8, <1>10, <2>1, <2>2 DEF after
  <2>4. \A m \in after : Distance(line, n, lineno, direction) <= Distance(m, n, lineno, direction)
    <3>1. TAKE m \in after
    <3>2. m \in 0 .. n - 1 /\ direction * line <= direction * m
      BY <2>1, <2>2 DEF after
    <3>3. direction * (line - lineno) + n <= direction * (m - lineno) + n
      BY <1>2, <2>3, <3>2
    <3>4. QED
      BY <1>7, <2>1, <2>2, <3>3
  <2>5. QED
    BY <2>3, <2>4 DEF IsNearest, there
<1>11. CASE before = {} /\ ~(wrap /\ after # {})
  <2>1. there = {} /\ line = NoLine
    BY <1>1, <1>8, <1>11 DEF Found, Nearest
  <2>2. QED
    BY <2>1 DEF IsNearest, there
<1>12. QED
  BY <1>9, <1>10, <1>11

-------------------------------------------------------------------------------
(* Merges.                                                                 *)

\* The rests of numbers below three times the divisor.
LEMMA RestOf ==
  ASSUME NEW n \in Nat \ {0}
  PROVE  /\ \A a \in 0 .. n - 1 : a % n = a
         /\ \A a \in n .. 2 * n - 1 : a % n = a - n
         /\ \A a \in 2 * n .. 3 * n - 1 : a % n = a - 2 * n
<1>1. ASSUME NEW a \in 0 .. n - 1 PROVE a % n = a
  OBVIOUS
<1>2. ASSUME NEW a \in n .. 2 * n - 1 PROVE a % n = a - n
  OBVIOUS
<1>3. ASSUME NEW a \in 2 * n .. 3 * n - 1 PROVE a % n = a - 2 * n
  OBVIOUS
<1>4. QED
  BY <1>1, <1>2, <1>3

\* The merges that find_next_merge_line is to choose from: not the cursor's own
\* line, and backwards without going round not the first one.
MergeCandidates(merges, lineno, direction, wrap) ==
  {m \in merges \ {lineno} :
     wrap \/ (direction * (m - lineno) > 0 /\ (direction < 0 => m # 0))}

MergeAt(d, n, lineno, direction) == (lineno + n + direction * d) % n

\* Walking some distance from the cursor comes to the line at that distance.
LEMMA LineAtDistance ==
  ASSUME NEW n \in Nat, NEW lineno \in 0 .. n - 1, NEW direction \in Directions,
         NEW wrap \in BOOLEAN, NEW d \in MergeDistances(n, lineno, direction, wrap)
  PROVE  LET m == MergeAt(d, n, lineno, direction)
         IN  /\ m \in 0 .. n - 1
             /\ m # lineno
             /\ wrap \/ (direction * (m - lineno) > 0 /\ (direction < 0 => m # 0))
             /\ Distance(m, n, lineno, direction) = d
<1>1. n \in Nat \ {0} /\ lineno \in 0 .. n - 1
  OBVIOUS
<1>2. CASE direction = 1
  <2>1. d \in 1 .. (IF wrap THEN n ELSE n - lineno) - 1
    BY <1>2 DEF MergeDistances
  <2>2. lineno + n + direction * d = lineno + n + d
    BY <1>2, <2>1
  <2>3. CASE lineno + d < n
    <3> DEFINE a == lineno + n + d
    <3>1. a \in n .. 2 * n - 1
      BY <2>1, <2>3
    <3>2. a % n = a - n
      <4> HIDE DEF a
      <4>1. QED
        BY <1>1, <3>1, RestOf
    <3>3. MergeAt(d, n, lineno, direction) = lineno + d
      BY <2>1, <2>2, <3>2 DEF MergeAt
    <3>4. QED
      BY <1>2, <2>1, <2>3, <3>3 DEF Distance
  <2>4. CASE lineno + d >= n
    <3> DEFINE a == lineno + n + d
    <3>1. a \in 2 * n .. 3 * n - 1 /\ wrap
      BY <2>1, <2>4
    <3>2. a % n = a - 2 * n
      <4> HIDE DEF a
      <4>1. QED
        BY <1>1, <3>1, RestOf
    <3>3. MergeAt(d, n, lineno, direction) = lineno + d - n
      BY <2>1, <2>2, <3>2 DEF MergeAt
    <3>4. QED
      BY <1>2, <2>1, <2>4, <3>1, <3>3 DEF Distance
  <2>5. QED
    BY <2>1, <2>3, <2>4
<1>3. CASE direction = -1
  <2>1. d \in 1 .. (IF wrap THEN n ELSE lineno) - 1
    BY <1>3 DEF MergeDistances
  <2>2. lineno + n + direction * d = lineno + n - d
    BY <1>3, <2>1
  <2>3. CASE d <= lineno
    <3> DEFINE a == lineno + n - d
    <3>1. a \in n .. 2 * n - 1
      BY <2>1, <2>3
    <3>2. a % n = a - n
      <4> HIDE DEF a
      <4>1. QED
        BY <1>1, <3>1, RestOf
    <3>3. MergeAt(d, n, lineno, direction) = lineno - d
      BY <2>1, <2>2, <3>2 DEF MergeAt
    <3>4. QED
      BY <1>3, <2>1, <2>3, <3>3 DEF Distance
  <2>4. CASE d > lineno
    <3> DEFINE a == lineno + n - d
    <3>1. a \in 0 .. n - 1 /\ wrap
      BY <2>1, <2>4
    <3>2. a % n = a
      <4> HIDE DEF a
      <4>1. QED
        BY <1>1, <3>1, RestOf
    <3>3. MergeAt(d, n, lineno, direction) = lineno + n - d
      BY <2>1, <2>2, <3>2 DEF MergeAt
    <3>4. QED
      BY <1>3, <2>1, <2>4, <3>1, <3>3 DEF Distance
  <2>5. QED
    BY <2>1, <2>3, <2>4
<1>4. QED
  BY <1>2, <1>3 DEF Directions

\* Every line to choose from is at one of the distances that are walked.
LEMMA DistanceOfLine ==
  ASSUME NEW n \in Nat, NEW lineno \in 0 .. n - 1, NEW direction \in Directions,
         NEW wrap \in BOOLEAN, NEW m \in 0 .. n - 1, m # lineno,
         wrap \/ (direction * (m - lineno) > 0 /\ (direction < 0 => m # 0))
  PROVE  LET d == Distance(m, n, lineno, direction)
         IN  /\ d \in MergeDistances(n, lineno, direction, wrap)
             /\ MergeAt(d, n, lineno, direction) = m
<1> DEFINE d == Distance(m, n, lineno, direction)
<1>1. n \in Nat \ {0}
  OBVIOUS
<1>2. CASE direction = 1
  <2>1. d = IF m > lineno THEN m - lineno ELSE m - lineno + n
    BY <1>2 DEF Distance
  <2> HIDE DEF d
  <2>2. d \in 1 .. (IF wrap THEN n ELSE n - lineno) - 1
    BY <1>2, <2>1
  <2>3. lineno + n + direction * d = IF m > lineno THEN m + n ELSE m + 2 * n
    BY <1>2, <2>1
  <2>4. MergeAt(d, n, lineno, direction) = m
    BY <1>1, <2>3, RestOf DEF MergeAt
  <2>5. QED
    BY <1>2, <2>2, <2>4 DEF MergeDistances, d
<1>3. CASE direction = -1
  <2>1. d = IF m < lineno THEN lineno - m ELSE lineno - m + n
    BY <1>3 DEF Distance
  <2> HIDE DEF d
  <2>2. d \in 1 .. (IF wrap THEN n ELSE lineno) - 1
    BY <1>3, <2>1
  <2>3. lineno + n + direction * d = IF m < lineno THEN m + n ELSE m
    BY <1>3, <2>1
  <2>4. MergeAt(d, n, lineno, direction) = m
    BY <1>1, <2>3, RestOf DEF MergeAt
  <2>5. QED
    BY <1>3, <2>2, <2>4 DEF MergeDistances, d
<1>4. QED
  BY <1>2, <1>3 DEF Directions

LEMMA MergeLineIsNearest ==
  ASSUME NEW n \in Nat, NEW merges \in SUBSET (0 .. n - 1), NEW lineno \in 0 .. n - 1,
         NEW direction \in Directions, NEW wrap \in BOOLEAN
  PROVE  IsNearest(MergeLine(merges, n, lineno, direction, wrap),
                   MergeCandidates(merges, lineno, direction, wrap), n, lineno, direction)
<1> DEFINE walked == MergeDistances(n, lineno, direction, wrap)
           at(d) == MergeAt(d, n, lineno, direction)
           far(m) == Distance(m, n, lineno, direction)
           dists == {d \in walked : at(d) \in merges}
           there == MergeCandidates(merges, lineno, direction, wrap)
           line == MergeLine(merges, n, lineno, direction, wrap)
<1>1. line = IF dists = {} THEN NoLine ELSE at(Nearest(1, dists))
  BY DEF MergeLine, MergeAt
<1>2. \A d \in dists : at(d) \in there /\ far(at(d)) = d
  BY LineAtDistance DEF MergeCandidates
<1>3. \A m \in there : far(m) \in dists /\ at(far(m)) = m
  BY DistanceOfLine DEF MergeCandidates
<1>4. dists \subseteq 0 .. n /\ 1 \in Directions
  <2>1. walked \subseteq 0 .. n
    BY DEF MergeDistances
  <2>2. QED
    BY <2>1 DEF Directions
<1> HIDE DEF dists, there, line, at, far
<1>5. CASE dists = {}
  <2>1. there = {} /\ line = NoLine
    BY <1>1, <1>3, <1>5
  <2>2. QED
    BY <2>1 DEF IsNearest, there, line
<1>6. CASE dists # {}
  <2> DEFINE d == Nearest(1, dists)
  <2>1. d \in dists /\ \A e \in dists : 1 * d <= 1 * e
    BY <1>4, <1>6, NearestIsFirst
  <2>3. line = at(d)
    BY <1>1, <1>6
  <2> HIDE DEF d
  <2>2. \A e \in dists : d <= e
    BY <1>4, <2>1
  <2>4. line \in there /\ \A m \in there : far(line) <= far(m)
    BY <1>2, <1>3, <2>1, <2>2, <2>3
  <2>5. QED
    BY <2>4 DEF IsNearest, there, line, far
<1>7. QED
  BY <1>5, <1>6

-------------------------------------------------------------------------------
(* The list of matches.                                                    *)

\* The list holds lines of the view, and is current unless it is doubtful.
SearchInv ==
  /\ matching \in SUBSET Lines /\ matched \in SUBSET Lines
  /\ searching \in BOOLEAN /\ doubtful \in BOOLEAN
  /\ ListIsCurrent

\* What a request for the next match goes to, from the list ms.
LEMMA SelectIsNearest ==
  ASSUME IInv, NEW ms \in SUBSET Lines, NEW direction \in Directions,
         NEW wrap \in BOOLEAN, Select(ms, direction, wrap)
  PROVE  LET there == Candidates(ms, pos.lineno, direction, wrap)
             line == Found(ms, pos.lineno, direction, wrap)
         IN  IF there = {} THEN UNCHANGED vars
             ELSE /\ line \in there
                  /\ IsNearest(line, there, lines, pos.lineno, direction)
                  /\ SelectViewLine(line)
                  /\ pos'.lineno = line
<1> DEFINE there == Candidates(ms, pos.lineno, direction, wrap)
           line == Found(ms, pos.lineno, direction, wrap)
<1>1. /\ lines \in Nat /\ pos \in Position /\ height \in Nat \ {0}
      /\ lines > 0 => pos.lineno \in 0 .. lines - 1
  BY ViewAssumption DEF IInv, TypeOK, Valid, Position
<1>2. CASE ms = {}
  <2>1. there = {} /\ line = NoLine
    BY <1>2 DEF Candidates, Found, MatchLine, Nearest
  <2>2. Navigate(pos, TRUE)
    BY <2>1 DEF Select, Found
  <2>3. UNCHANGED vars
    BY <2>2 DEF Navigate, vars, IInv, TypeOK, content, window
  <2>4. QED
    BY <2>1, <2>3
<1>3. CASE ms # {}
  <2>0. PICK m \in ms : m \in 0 .. lines - 1
    BY <1>3 DEF Lines
  <2>1. ms \in SUBSET (0 .. lines - 1) /\ pos.lineno \in 0 .. lines - 1
    <3>1. lines > 0
      BY <1>1, <2>0
    <3>2. QED
      BY <1>1, <3>1 DEF Lines
  <2>2. IsNearest(line, there, lines, pos.lineno, direction)
    BY <1>1, <2>1, FoundIsNearest
  <2> HIDE DEF there, line
  <2>3. CASE there = {}
    <3>1. line = NoLine
      BY <2>2, <2>3 DEF IsNearest
    <3>2. Navigate(pos, TRUE)
      BY <3>1 DEF Select, Found, line
    <3>3. UNCHANGED vars
      BY <3>2 DEF Navigate, vars, IInv, TypeOK, content, window
    <3>4. QED
      BY <2>3, <3>3 DEF there
  <2>4. CASE there # {}
    <3>1. line \in there /\ line \in 0 .. lines - 1 /\ line # NoLine
      <4>1. line \in there
        BY <2>2, <2>4 DEF IsNearest
      <4>2. line \in ms
        BY <4>1 DEF Candidates, there
      <4>3. line \in 0 .. lines - 1
        BY <2>1, <4>2
      <4>4. QED
        BY <4>1, <4>3 DEF NoLine
    <3>2. SelectViewLine(line)
      BY <3>1 DEF Select, Found, line
    <3>3. pos' = GotoViewLine(pos, lines, height, pos.offset, line)
      BY <3>2 DEF SelectViewLine, Navigate
    <3>4. pos'.lineno = line
      BY <1>1, <3>1, <3>3 DEF GotoViewLine, ClampLine, Position
    <3>5. QED
      BY <2>2, <2>4, <3>1, <3>2, <3>4 DEF there, line
  <2>5. QED
    BY <2>3, <2>4
<1>4. QED
  BY <1>2, <1>3

\* Searching moves the cursor as View's requests do.
LEMMA SelectIsViewStep ==
  ASSUME IInv, NEW ms \in SUBSET Lines, NEW direction \in Directions,
         NEW wrap \in BOOLEAN, Searched, Select(ms, direction, wrap)
  PROVE  [Next]_vars /\ UNCHANGED lines
<1> DEFINE there == Candidates(ms, pos.lineno, direction, wrap)
           line == Found(ms, pos.lineno, direction, wrap)
<1>1. CASE there = {}
  BY <1>1, SelectIsNearest DEF vars
<1>2. CASE there # {}
  <2>1. line \in ms /\ SelectViewLine(line)
    BY <1>2, SelectIsNearest DEF Candidates
  <2> HIDE DEF line
  <2>2. line \in 0 .. MaxLines
    BY <2>1, ViewAssumption, SearchAssumption DEF Lines, Searched, IInv, TypeOK
  <2>3. QED
    BY <2>1, <2>2 DEF Next, UserRequest, SelectViewLine, Navigate, content
<1>3. QED
  BY <1>1, <1>2

LEMMA FindMergeIsViewStep ==
  ASSUME IInv, NEW ms \in SUBSET Lines, NEW direction \in Directions,
         NEW wrap \in BOOLEAN, FindMerge(direction, wrap, ms)
  PROVE  [Next]_vars /\ UNCHANGED <<lines, search>>
<1> DEFINE line == MergeLine(ms, lines, pos.lineno, direction, wrap)
<1>1. /\ lines \in Nat /\ lines > 0 /\ lines <= MaxSearched
      /\ pos.lineno \in 0 .. lines - 1 /\ ms \in SUBSET (0 .. lines - 1)
      /\ UNCHANGED search
      /\ IF line = NoLine THEN Navigate(pos, TRUE) ELSE SelectViewLine(line)
  <2>1. /\ lines > 0 /\ lines <= MaxSearched /\ UNCHANGED search
        /\ IF line = NoLine THEN Navigate(pos, TRUE) ELSE SelectViewLine(line)
    BY DEF FindMerge, Searched
  <2>2. lines \in Nat /\ ms \in SUBSET (0 .. lines - 1)
    BY DEF IInv, TypeOK, Lines
  <2>3. pos.lineno \in 0 .. lines - 1
    BY <2>1 DEF IInv, TypeOK, Valid, Position
  <2> HIDE DEF line
  <2>4. QED
    BY <2>1, <2>2, <2>3
<1>2. line = NoLine \/ line \in ms
  BY <1>1, MergeLineIsNearest DEF IsNearest, MergeCandidates
<1> HIDE DEF line
<1>3. CASE line = NoLine
  BY <1>1, <1>3 DEF Navigate, vars, IInv, TypeOK, content, window
<1>4. CASE line \in ms /\ line # NoLine
  <2>1. line \in 0 .. MaxLines
    BY <1>1, <1>4, ViewAssumption, SearchAssumption
  <2>2. QED
    BY <1>1, <1>4, <2>1 DEF Next, UserRequest, SelectViewLine, Navigate, content
<1>5. QED
  BY <1>2, <1>3, <1>4

-------------------------------------------------------------------------------
(* The invariant.                                                          *)

LEMMA LoadIsViewStep ==
  ASSUME IInv, SearchLoad
  PROVE  [Next]_vars
<1>1. ASSUME NEW total \in 0 .. MaxLines, ReloadAtOnce(total) PROVE Next
  BY <1>1, ViewAssumption DEF Next, Load
<1>2. ASSUME NEW total \in 0 .. MaxSearched, Reload(0, total) PROVE Next
  <2>1. total \in 0 .. MaxLines /\ 0 \in 0 .. MaxHeader
    BY ViewAssumption, SearchAssumption
  <2>2. QED
    BY <1>2, <2>1 DEF Next, Load
<1>3. ASSUME NEW n \in 0 .. MaxSearched, ReadLines(n) PROVE Next
  <2>1. n \in 0 .. MaxLines
    BY ViewAssumption, SearchAssumption
  <2>2. QED
    BY <1>3, <2>1 DEF Next, Read
<1>4. ASSUME ReadLastLines PROVE Next
  BY <1>4 DEF Next, Read
<1>5. QED
  BY <1>1, <1>2, <1>3, <1>4 DEF SearchLoad

\* Every step of searching is a step of the view or leaves it alone.
LEMMA SearchStepIsViewStep ==
  ASSUME IInv, SearchInv, [SearchNext]_searchVars
  PROVE  [Next]_vars
<1>1. CASE UserRequest \/ NewWindow
  BY <1>1 DEF Next
<1>2. CASE SearchRequest
  <2>1. PICK direction \in Directions, wrap \in BOOLEAN :
          \/ FindNext(direction, wrap)
          \/ \E ms \in SUBSET Lines : Find(direction, wrap, ms) \/ FindMerge(direction, wrap, ms)
    BY <1>2 DEF SearchRequest
  <2>2. CASE FindNext(direction, wrap)
    <3>1. Cached \in SUBSET Lines
      BY DEF Cached, SearchInv
    <3>2. Searched /\ Select(Cached, direction, wrap)
      BY <2>2 DEF FindNext
    <3> HIDE DEF Cached
    <3>3. QED
      BY <3>1, <3>2, SelectIsViewStep
  <2>3. ASSUME NEW ms \in SUBSET Lines, Find(direction, wrap, ms) PROVE [Next]_vars
    BY <2>3, SelectIsViewStep DEF Find
  <2>4. ASSUME NEW ms \in SUBSET Lines, FindMerge(direction, wrap, ms) PROVE [Next]_vars
    BY <2>4, FindMergeIsViewStep
  <2>5. QED
    BY <2>1, <2>2, <2>3, <2>4
<1>3. CASE SearchLoad
  BY <1>3, LoadIsViewStep
<1>4. CASE Sort \/ UNCHANGED searchVars
  BY <1>4 DEF Sort, searchVars
<1>5. QED
  BY <1>1, <1>2, <1>3, <1>4 DEF SearchNext

LEMMA SearchKeepsSearchInv ==
  ASSUME IInv, SearchInv, [SearchNext]_searchVars
  PROVE  SearchInv'
<1>1. CASE (UserRequest \/ NewWindow) /\ UNCHANGED search
  <2>1. UNCHANGED lines
    BY <1>1 DEF UserRequest, NewWindow, Move, Scroll, ScrollCol, SelectViewLine, Navigate,
                Resize, Hide, Uncover, Reopen, Split, content
  <2>2. QED
    BY <1>1, <2>1 DEF search, SearchInv, Lines, ListIsCurrent
<1>2. CASE SearchRequest
  <2>1. PICK direction \in Directions, wrap \in BOOLEAN :
          \/ FindNext(direction, wrap)
          \/ \E ms \in SUBSET Lines : Find(direction, wrap, ms) \/ FindMerge(direction, wrap, ms)
    BY <1>2 DEF SearchRequest
  <2>2. CASE FindNext(direction, wrap)
    <3>1. /\ matched' = Cached /\ UNCHANGED <<searching, matching>>
          /\ doubtful' = (doubtful /\ matched # {})
          /\ Searched /\ Select(Cached, direction, wrap)
      BY <2>2 DEF FindNext
    <3>2. Cached \in SUBSET Lines
      BY DEF Cached, SearchInv
    <3>3. UNCHANGED lines
      <4> HIDE DEF Cached
      <4>1. QED
        BY <3>1, <3>2, SelectIsViewStep
    <3>4. QED
      BY <3>1, <3>2, <3>3 DEF SearchInv, Lines, ListIsCurrent, Cached
  <2>3. ASSUME NEW ms \in SUBSET Lines, Find(direction, wrap, ms) PROVE SearchInv'
    <3>1. UNCHANGED lines
      BY <2>3, SelectIsViewStep DEF Find
    <3>2. QED
      BY <2>3, <3>1 DEF Find, SearchInv, Lines, ListIsCurrent
  <2>4. ASSUME NEW ms \in SUBSET Lines, FindMerge(direction, wrap, ms) PROVE SearchInv'
    <3>1. UNCHANGED <<lines, search>>
      BY <2>4, FindMergeIsViewStep
    <3>2. QED
      BY <3>1 DEF search, SearchInv, Lines, ListIsCurrent
  <2>5. QED
    BY <2>1, <2>2, <2>3, <2>4
<1>3. CASE SearchLoad
  <2>1. CASE Replaced
    BY <2>1 DEF Replaced, SearchInv, Lines, ListIsCurrent
  <2>2. CASE Extended /\ \E n \in Nat : lines' = lines + n
    <3>1. PICK n \in Nat : lines' = lines + n
      BY <2>2
    <3>2. lines \in Nat
      BY DEF IInv, TypeOK
    <3>3. Lines \subseteq Lines' /\ (lines .. (lines' - 1)) \subseteq Lines'
      BY <3>1, <3>2 DEF Lines
    <3>4. lines' = lines => lines .. (lines' - 1) = {}
      BY <3>2
    <3>5. PICK new \in SUBSET (lines .. (lines' - 1)) :
            matching' = matching \cup (IF searching THEN new ELSE {})
      BY <2>2 DEF Extended
    <3>6. /\ matched' = IF displayed THEN {} ELSE matched
          /\ doubtful' = (~displayed /\ matched # {} /\ (doubtful \/ lines' # lines))
          /\ UNCHANGED searching
      BY <2>2 DEF Extended
    <3>7. matching' \in SUBSET Lines' /\ matched' \in SUBSET Lines'
      BY <3>3, <3>5, <3>6 DEF SearchInv
    <3>8. ListIsCurrent'
      BY <3>4, <3>5, <3>6 DEF SearchInv, ListIsCurrent
    <3>9. QED
      BY <3>6, <3>7, <3>8 DEF SearchInv
  <2>3. Replaced \/ (Extended /\ \E n \in Nat : lines' = lines + n)
    <3>1. arriving \in Nat
      BY DEF IInv, TypeOK
    <3>2. ASSUME NEW n \in 0 .. MaxSearched, ReadLines(n), Extended
          PROVE  Extended /\ \E k \in Nat : lines' = lines + k
      BY <3>2, ViewAssumption, SearchAssumption DEF ReadLines
    <3>3. ASSUME ReadLastLines, Extended
          PROVE  Extended /\ \E k \in Nat : lines' = lines + k
      BY <3>1, <3>3 DEF ReadLastLines
    <3>4. \/ Replaced
          \/ \E n \in 0 .. MaxSearched : ReadLines(n) /\ Extended
          \/ ReadLastLines /\ Extended
      BY <1>3 DEF SearchLoad
    <3>5. QED
      BY <3>2, <3>3, <3>4
  <2>4. QED
    BY <2>1, <2>2, <2>3
<1>4. CASE Sort
  BY <1>4 DEF Sort, SearchInv, Lines, ListIsCurrent, vars
<1>5. CASE UNCHANGED searchVars
  BY <1>5 DEF searchVars, search, vars, SearchInv, Lines, ListIsCurrent
<1>6. QED
  BY <1>1, <1>2, <1>3, <1>4, <1>5 DEF SearchNext

-------------------------------------------------------------------------------
(* The theorems.                                                           *)

LEMMA SearchInvariantHolds == SearchSpec => [](IInv /\ SearchInv)
<1>1. SearchInit => IInv /\ SearchInv
  BY InitEstablishesIInv DEF SearchInit, SearchInv, ListIsCurrent
<1>2. IInv /\ SearchInv /\ [SearchNext]_searchVars => (IInv /\ SearchInv)'
  BY SearchStepIsViewStep, SearchKeepsSearchInv, NextKeepsIInv
<1>3. QED
  BY <1>1, <1>2, PTL DEF SearchSpec

\* A view that is searched is a view: whatever is found or not found, its cursor
\* and window move as the requests of view.c move them.
THEOREM SearchImplementsView == SearchSpec => Spec
<1>1. SearchInit => Init
  BY DEF SearchInit
<1>2. IInv /\ SearchInv /\ [SearchNext]_searchVars => [Next]_vars
  BY SearchStepIsViewStep
<1>3. QED
  BY <1>1, <1>2, SearchInvariantHolds, PTL DEF SearchSpec, Spec

\* find_matches: the list of matches that a request uses again holds the lines that
\* match, unless the view was sorted or read while hidden.
THEOREM ListAlwaysCurrent == SearchSpec => []ListIsCurrent
<1>1. SearchInv => ListIsCurrent
  BY DEF SearchInv
<1>2. QED
  BY <1>1, SearchInvariantHolds, PTL

\* find_next_match goes to the nearest match in its direction.
THEOREM NextAlwaysNearest == SearchSpec => NextIsNearest
<1> DEFINE A == \A direction \in Directions, wrap \in BOOLEAN :
                  FindNext(direction, wrap) /\ ~doubtful' =>
                    LET there == {m \in matching : wrap \/ direction * (m - pos.lineno) > 0}
                        far(m) == Distance(m, lines, pos.lineno, direction)
                    IN  IF there = {} THEN pos'.lineno = pos.lineno
                        ELSE /\ pos'.lineno \in there
                             /\ \A m \in there : far(pos'.lineno) <= far(m)
<1>1. IInv /\ SearchInv => A
  <2>1. SUFFICES ASSUME IInv, SearchInv,
                        NEW direction \in Directions, NEW wrap \in BOOLEAN,
                        FindNext(direction, wrap), ~doubtful'
                 PROVE  LET there == Candidates(matching, pos.lineno, direction, wrap)
                            far(m) == Distance(m, lines, pos.lineno, direction)
                        IN  IF there = {} THEN pos'.lineno = pos.lineno
                            ELSE /\ pos'.lineno \in there
                                 /\ \A m \in there : far(pos'.lineno) <= far(m)
    BY DEF Candidates
  <2>2. Cached = matching /\ matching \in SUBSET Lines
    BY <2>1 DEF FindNext, Cached, SearchInv, ListIsCurrent
  <2>3. Select(matching, direction, wrap)
    BY <2>1, <2>2 DEF FindNext
  <2>4. QED
    BY <2>1, <2>2, <2>3, SelectIsNearest DEF IsNearest, vars
<1>2. QED
  BY <1>1, SearchInvariantHolds, PTL DEF NextIsNearest

\* find_next_merge_line finds the nearest merge in its direction, in a view of any
\* length and from any line.
THEOREM MergeAlwaysNearest == SearchSpec => []MergeIsNearest
<1>1. IInv => MergeIsNearest
  <2>1. SUFFICES ASSUME IInv, NEW merges \in SUBSET Lines, NEW direction \in Directions,
                        NEW wrap \in BOOLEAN
                 PROVE  IsNearest(MergeLine(merges, lines, pos.lineno, direction, wrap),
                                  MergeCandidates(merges, pos.lineno, direction, wrap),
                                  lines, pos.lineno, direction)
    BY DEF MergeIsNearest, IsNearest, MergeCandidates
  <2>2. lines \in Nat /\ pos \in Position /\ Valid(pos, lines)
    BY <2>1 DEF IInv, TypeOK
  <2>3. CASE lines > 0
    <3>1. pos.lineno \in 0 .. lines - 1 /\ merges \in SUBSET (0 .. lines - 1)
      BY <2>2, <2>3 DEF Valid, Position, Lines
    <3>2. QED
      BY <2>2, <3>1, MergeLineIsNearest
  <2>4. CASE lines = 0
    <3>1. merges = {} /\ pos.lineno = 0
      BY <2>2, <2>4 DEF Lines, Valid
    <3>2. MergeLine(merges, lines, pos.lineno, direction, wrap) = NoLine
      BY <3>1 DEF MergeLine
    <3>3. MergeCandidates(merges, pos.lineno, direction, wrap) = {}
      BY <3>1 DEF MergeCandidates
    <3>4. QED
      BY <3>2, <3>3 DEF IsNearest
  <2>5. QED
    BY <2>2, <2>3, <2>4
<1>2. QED
  BY <1>1, SearchInvariantHolds, PTL

-------------------------------------------------------------------------------
(***************************************************************************)
(* Windows and links between views (Display).                              *)
(*                                                                         *)
(* For any set of views whose Enter keys open each other in an orderly     *)
(* way: the focus is on a view that is on the screen, a split shows two    *)
(* views, and the links of a child lead to the view above it, whichever    *)
(* views fail to load.                                                     *)
(*                                                                         *)
(* The argument is about screens.  The lemmas say of each operator of      *)
(* Display that it makes a sound screen of a sound one; every request is   *)
(* one such operator.  What has to be known beyond the properties is where *)
(* the links come from: a view's parent is one whose Enter key opens it.   *)
(***************************************************************************)
\* The views' Enter keys.  None opens its own view.  A view that is opened by
\* such a key and opens others in turn is either the main view, which its opener
\* (the refs view) then has as its only one; or it is opened by the main view,
\* and what it opens the main view opens too, and opens nothing (main, status,
\* stage).  The grep view, which splits the screen without being on it, is not
\* there; the stage view is.
Orderly ==
  /\ Grep \notin Views /\ Stage \in Views
  /\ \A v \in Views : v \notin Children[v]
  /\ \A v \in Views : \A w \in Children[v] :
       Children[w] # {} =>
         \/ w = Main /\ Children[v] = {w}
         \/ /\ v = Main /\ Children[w] \subseteq Children[Main] \ {Diff}
            /\ \A x \in Children[w] : Children[x] = {}

Linked(s) ==
  /\ s \in Screens
  /\ \A v \in Views : s.parent[v] # NoView => v \in Children[s.parent[v]]

Whole(s) == Linked(s) /\ s.child = NoView /\ s.focus = 0

\* The child links to view v.
LinksTo(s, v) == s.prev[s.child] = v /\ s.parent[s.child] \in {v, NoView}

\* The view that was there before the child, and had lost its parent, opened it.
FromOrphan(s) ==
  LET v == s.prev[s.child]
  IN  /\ s.base = Main
      /\ v \in Children[Main] /\ v # Main /\ s.child \in Children[v]
      /\ s.parent[v] = NoView
      /\ LinksTo(s, v)

Sound(s) ==
  /\ Linked(s)
  /\ s.focus = 1 => s.child # NoView
  /\ s.child # NoView =>
       /\ s.child \in Children[s.base]
       /\ LinksTo(s, s.base) \/ FromOrphan(s)

ScreenInv == Sound(screen) /\ status \in {"running", "quit", "aborted"}

-------------------------------------------------------------------------------
(* The functions of view.c.                                                *)

LEMMA WholeIsSound ==
  ASSUME NEW s, Whole(s)
  PROVE  Sound(s)
BY DEF Whole, Sound

\* A child is another view than the one above it, and was opened from that one
\* or from the child before it.
LEMMA SplitOfTwo ==
  ASSUME Orderly, NEW s, Sound(s)
  PROVE  /\ s.base \in Views /\ s.child # s.base
         /\ s.child # NoView => /\ s.child \in Views /\ s.prev[s.child] \in Views
                               /\ s.prev[s.child] # s.child
                               /\ s.parent[s.child] \in {s.prev[s.child], NoView}
<1>1. s \in Screens /\ s.base \in Views /\ s.child \in Views \cup {NoView}
  BY DEF Sound, Linked, Screens
<1>2. CASE s.child = NoView
  BY <1>1, <1>2, DisplayAssumption
<1>3. CASE s.child # NoView
  <2>1. s.child \in Views /\ s.child \in Children[s.base] /\ s.child # s.base
    BY <1>1, <1>3 DEF Sound, Orderly
  <2>2. CASE LinksTo(s, s.base)
    BY <1>1, <2>1, <2>2 DEF LinksTo
  <2>3. CASE FromOrphan(s)
    <3>1. /\ Main \in Views /\ s.prev[s.child] \in Children[Main]
          /\ s.child \in Children[s.prev[s.child]]
          /\ s.parent[s.child] \in {s.prev[s.child], NoView}
      BY <1>1, <2>3 DEF FromOrphan, LinksTo
    <3>2. s.prev[s.child] \in Views
      BY <1>1, <3>1, DisplayAssumption
    <3>3. QED
      BY <1>1, <2>1, <3>1, <3>2 DEF Orderly
  <2>4. QED
    BY <1>3, <2>2, <2>3 DEF Sound
<1>4. QED
  BY <1>2, <1>3

\* maximize_view leaves one view on the screen.
LEMMA MaximizedIsWhole ==
  ASSUME NEW s, Linked(s), NEW v \in Views
  PROVE  Whole(Maximized(s, v)) /\ Maximized(s, v).base = v
BY DEF Whole, Linked, Maximized, Screens

\* A view is cut loose from its parent, and keeps its place.
LEMMA OrphanedIsSound ==
  ASSUME NEW s, Sound(s), NEW v \in Views
  PROVE  LET t == [s EXCEPT !.parent[v] = NoView]
         IN  /\ Sound(t)
             /\ t.base = s.base /\ t.child = s.child /\ t.focus = s.focus
             /\ Whole(s) => Whole(t)
<1> DEFINE t == [s EXCEPT !.parent[v] = NoView]
<1>1. s \in Screens
  BY DEF Sound, Linked
<1>2. /\ t \in Screens /\ t.base = s.base /\ t.child = s.child /\ t.focus = s.focus
      /\ t.prev = s.prev /\ t.parent = [s.parent EXCEPT ![v] = NoView]
  BY <1>1 DEF Screens
<1>3. \A w \in Views : t.parent[w] = IF w = v THEN NoView ELSE s.parent[w]
  BY <1>1, <1>2 DEF Screens
<1> HIDE DEF t
<1>4. Linked(t)
  BY <1>2, <1>3 DEF Sound, Linked
<1>5. t.child \in Views \cup {NoView}
  BY <1>2 DEF Screens
<1>6. Sound(t)
  <2>1. ASSUME t.child # NoView, LinksTo(s, s.base) PROVE LinksTo(t, t.base)
    BY <1>2, <1>3, <1>5, <2>1 DEF LinksTo
  <2>2. ASSUME t.child # NoView, FromOrphan(s) PROVE FromOrphan(t)
    <3>1. s.prev[s.child] \in Views
      BY <1>1, <2>2, DisplayAssumption DEF FromOrphan, Screens
    <3>2. QED
      BY <1>2, <1>3, <1>5, <2>2, <3>1 DEF FromOrphan, LinksTo
  <2>3. QED
    BY <1>2, <1>4, <2>1, <2>2 DEF Sound
<1>7. Whole(s) => Whole(t)
  BY <1>2, <1>4 DEF Whole
<1>8. QED
  BY <1>2, <1>6, <1>7 DEF t

\* load_view remembers where the view was opened from.  A child is opened from
\* where it was opened before, or without a parent from the view above it.
LEMMA RememberedIsSound ==
  ASSUME NEW s, Sound(s), NEW v \in Views, NEW from \in Views,
         v = s.child => \/ from = s.prev[v]
                        \/ from = s.base /\ s.parent[v] = NoView
  PROVE  LET t == [s EXCEPT !.prev[v] = from]
         IN  Sound(t) /\ t.base = s.base /\ t.child = s.child /\ t.parent = s.parent
<1> DEFINE t == [s EXCEPT !.prev[v] = from]
<1>1. s \in Screens
  BY DEF Sound, Linked
<1>2. /\ t \in Screens /\ t.base = s.base /\ t.child = s.child /\ t.focus = s.focus
      /\ t.parent = s.parent /\ t.prev = [s.prev EXCEPT ![v] = from]
  BY <1>1 DEF Screens
<1>3. \A w \in Views : t.prev[w] = IF w = v THEN from ELSE s.prev[w]
  BY <1>1, <1>2 DEF Screens
<1> HIDE DEF t
<1>4. t.child \in Views \cup {NoView}
  BY <1>2 DEF Screens
<1>5. Linked(t)
  BY <1>2 DEF Sound, Linked
<1>6. ASSUME t.child # NoView PROVE LinksTo(t, t.base) \/ FromOrphan(t)
  <2>1. CASE v = s.child /\ from = s.base /\ s.parent[v] = NoView
    BY <1>2, <1>3, <1>4, <2>1 DEF LinksTo
  <2>2. CASE ~(v = s.child /\ from = s.base /\ s.parent[v] = NoView)
    <3>1. t.prev[t.child] = s.prev[s.child]
      BY <1>2, <1>3, <1>4, <1>6, <2>2
    <3>2. QED
      BY <1>2, <1>6, <3>1 DEF Sound, LinksTo, FromOrphan
  <2>3. QED
    BY <2>1, <2>2
<1>7. Sound(t)
  BY <1>2, <1>5, <1>6 DEF Sound
<1>8. QED
  BY <1>2, <1>7 DEF t

\* Only the stage view's reading is marked.
LEMMA ReadingIsSound ==
  ASSUME NEW s, NEW b \in BOOLEAN
  PROVE  LET t == [s EXCEPT !.reading = b]
         IN  /\ Sound(s) => Sound(t)
             /\ Whole(s) => Whole(t)
             /\ s \in Screens => t.base = s.base /\ t.child = s.child /\ t.focus = s.focus
                                 /\ t.parent = s.parent /\ t.prev = s.prev
<1> DEFINE t == [s EXCEPT !.reading = b]
<1>1. ASSUME s \in Screens
      PROVE  /\ t \in Screens
             /\ t.base = s.base /\ t.child = s.child /\ t.focus = s.focus
             /\ t.parent = s.parent /\ t.prev = s.prev
  BY <1>1 DEF Screens
<1> HIDE DEF t
<1>2. Sound(s) => Sound(t)
  BY <1>1 DEF Sound, Linked, LinksTo, FromOrphan
<1>3. Whole(s) => Whole(t)
  BY <1>1 DEF Whole, Linked
<1>4. QED
  BY <1>1, <1>2, <1>3 DEF t

\* split_view opens a child of the view that has the screen to itself or has the
\* upper half of it; or one of a child that has no parent, below the main view.
LEMMA SplitByIsSound ==
  ASSUME Orderly, NEW s, Sound(s), NEW from \in Views, NEW v \in Children[s.base],
         v \in Views, v \in Children[from], s.prev[v] = from,
         \/ from = s.base
         \/ /\ s.base = Main /\ from \in Children[Main] /\ from # Main
            /\ s.parent[from] = NoView
  PROVE  Sound(SplitBy(s, from, v))
<1> DEFINE t == SplitBy(s, from, v)
<1>1. s \in Screens
  BY DEF Sound, Linked
<1>2. s.base \in Views /\ from # NoView /\ v # NoView /\ v # from
  BY <1>1, DisplayAssumption DEF Screens, Orderly
<1>3. /\ t \in Screens /\ t.base = s.base /\ t.child = v
      /\ t.prev = s.prev /\ t.parent = [s.parent EXCEPT ![v] = from]
  BY <1>1, <1>2 DEF SplitBy, Screens
<1>4. \A w \in Views : t.parent[w] = IF w = v THEN from ELSE s.parent[w]
  BY <1>1, <1>3 DEF Screens
<1> HIDE DEF t
<1>5. Linked(t)
  BY <1>3, <1>4 DEF Sound, Linked
<1>6. LinksTo(t, from)
  BY <1>3, <1>4 DEF LinksTo
<1>7. from # s.base => FromOrphan(t)
  BY <1>2, <1>3, <1>4, <1>6 DEF FromOrphan
<1>8. Sound(t)
  BY <1>2, <1>3, <1>5, <1>6, <1>7 DEF Sound
<1>9. QED
  BY <1>8 DEF t

\* load_view, with and without a split.
LEMMA LoadedIsSound ==
  ASSUME Orderly, NEW s, Sound(s), NEW from \in Views, NEW v \in Views,
         NEW split \in BOOLEAN, NEW outcome,
         v = s.child => \/ from \in {s.prev[v], v}
                        \/ from = s.base /\ s.parent[v] = NoView,
         split => /\ v \in Children[from] /\ v \in Children[s.base]
                  /\ \/ from = s.base
                     \/ /\ s.base = Main /\ from \in Children[Main] /\ from # Main
                        /\ s.parent[from] = NoView
  PROVE  Sound(Loaded(s, from, v, split, outcome))
<1> DEFINE linked == IF v # from THEN [s EXCEPT !.prev[v] = from] ELSE s
           begun == IF v = Stage /\ outcome = "loads"
                      THEN [linked EXCEPT !.reading = TRUE] ELSE linked
<1>1. s \in Screens /\ s.base \in Views
  BY DEF Sound, Linked, Screens
<1>2. Sound(linked) /\ linked.base = s.base /\ linked.parent = s.parent
  BY RememberedIsSound
<1>3. linked \in Screens
  BY <1>2 DEF Sound, Linked
<1>4. split => linked.prev[v] = from
  <2>1. SUFFICES ASSUME split PROVE linked.prev[v] = from
    OBVIOUS
  <2>2. v # from
    BY <2>1 DEF Orderly
  <2>3. QED
    BY <1>1, <2>2 DEF Screens
<1> HIDE DEF linked
<1>5. /\ Sound(begun) /\ begun.base = s.base /\ begun.prev = linked.prev
      /\ begun.parent = s.parent
  BY <1>2, <1>3, ReadingIsSound
<1> HIDE DEF begun
<1>6. split => Sound(SplitBy(begun, from, v))
  <2>1. SUFFICES ASSUME split PROVE Sound(SplitBy(begun, from, v))
    OBVIOUS
  <2>2. begun.prev[v] = from /\ v \in Children[begun.base]
    BY <1>4, <1>5, <2>1
  <2>3. QED
    BY <1>5, <2>1, <2>2, SplitByIsSound
<1>7. Sound(Maximized(begun, v))
  BY <1>5, MaximizedIsWhole, WholeIsSound DEF Sound
<1>8. QED
  BY <1>2, <1>6, <1>7 DEF Loaded, linked, begun

\* open_view without a split, from the view that has the focus or from one
\* that is not on the screen.
LEMMA OpenedWholeIsSound ==
  ASSUME Orderly, NEW s, Sound(s), NEW from \in Views, NEW v \in Views,
         NEW reload \in BOOLEAN, NEW outcome,
         v = s.child => from \in Displayed(s) \cup {s.prev[v]}
  PROVE  Sound(Opened(s, from, v, FALSE, reload, outcome))
<1> DEFINE isChild == s.parent[from] # NoView /\ from = s.child
           opener == IF isChild THEN s.parent[from] ELSE from
           orphaned == IF v # s.base THEN [s EXCEPT !.parent[v] = NoView] ELSE s
<1>1. s \in Screens /\ s.base \in Views /\ s.base # s.child
  BY SplitOfTwo DEF Sound, Linked
<1>2. isChild => s.parent[from] = s.prev[s.child]
  BY SplitOfTwo, DisplayAssumption
<1>3. opener \in Views /\ (v = s.child => opener \in {s.base, v, s.prev[v]})
  BY <1>1, <1>2, SplitOfTwo, DisplayAssumption DEF Displayed
<1>4. /\ Sound(orphaned) /\ orphaned.base = s.base /\ orphaned.child = s.child
      /\ orphaned.prev = s.prev
      /\ v = s.child => orphaned.parent[v] = NoView
  <2>1. Sound(orphaned) /\ orphaned.base = s.base /\ orphaned.child = s.child
    BY OrphanedIsSound
  <2>2. orphaned.prev = s.prev /\ (v = s.child => orphaned.parent[v] = NoView)
    BY <1>1 DEF Screens
  <2>3. QED
    BY <2>1, <2>2
<1>5. Sound([s EXCEPT !.parent[v] = NoView])
  BY OrphanedIsSound
<1> HIDE DEF opener, orphaned
<1>6. Sound(Loaded(orphaned, opener, v, FALSE, outcome))
  BY <1>3, <1>4, LoadedIsSound
<1>7. QED
  BY <1>5, <1>6 DEF Opened, opener, orphaned

\* open_view with a split, by a view in the lower half, if there is another view
\* in the upper one: by the main view's child what the main view opens too.
LEMMA OpenedSplitIsSound ==
  ASSUME Orderly, NEW s, Sound(s), NEW from \in {s.base, s.child}, from \in Views,
         NEW v \in Views, v \in Children[from], v \in Children[s.base],
         NEW outcome,
         from = s.child => /\ s.base = Main /\ from \in Children[Main] /\ from # Main
                           /\ LinksTo(s, s.base)
  PROVE  Sound(Opened(s, from, v, TRUE, FALSE, outcome))
<1> DEFINE orphaned == [s EXCEPT !.parent[v] = NoView]
           isChild == s.parent[from] # NoView /\ from = s.child
           opener == IF isChild THEN s.parent[from] ELSE from
<1>1. /\ s \in Screens /\ s.base \in Views /\ s.base # s.child
      /\ v # s.base /\ v # from
  BY SplitOfTwo DEF Sound, Linked, Orderly
<1>2. /\ Sound(orphaned) /\ orphaned.base = s.base /\ orphaned.child = s.child
      /\ orphaned.prev = s.prev
      /\ \A w \in Views : orphaned.parent[w] = IF w = v THEN NoView ELSE s.parent[w]
  <2>1. Sound(orphaned) /\ orphaned.base = s.base /\ orphaned.child = s.child
    BY OrphanedIsSound
  <2>2. /\ orphaned.prev = s.prev
        /\ \A w \in Views : orphaned.parent[w] = IF w = v THEN NoView ELSE s.parent[w]
    BY <1>1 DEF Screens
  <2>3. QED
    BY <2>1, <2>2
<1> HIDE DEF orphaned
<1>3. Sound(Loaded(orphaned, opener, v, TRUE, outcome))
  <2>1. CASE opener = s.base
    <3>1. /\ opener \in Views
          /\ v = orphaned.child => opener = orphaned.base /\ orphaned.parent[v] = NoView
          /\ v \in Children[opener] /\ opener = orphaned.base
      BY <1>1, <1>2, <2>1
    <3> HIDE DEF opener
    <3>2. QED
      BY <1>2, <3>1, LoadedIsSound
  <2>2. CASE opener # s.base
    <3>1. from = s.child /\ opener = from /\ s.parent[from] = NoView
      BY <2>2, DisplayAssumption DEF LinksTo
    <3>2. /\ v # orphaned.child /\ opener \in Views
          /\ v \in Children[opener] /\ v \in Children[orphaned.base]
          /\ orphaned.base = Main /\ opener \in Children[Main] /\ opener # Main
          /\ orphaned.parent[opener] = NoView
      <4> HIDE DEF opener
      <4>1. opener = from /\ from \in Views /\ from = s.child /\ v # from
        BY <1>1, <3>1
      <4>2. /\ s.base = Main /\ from \in Children[Main] /\ from # Main
            /\ s.parent[from] = NoView
        BY <3>1
      <4>3. orphaned.parent[from] = NoView
        BY <1>2, <4>1, <4>2
      <4>4. QED
        BY <1>2, <4>1, <4>2, <4>3
    <3> HIDE DEF opener
    <3>3. QED
      BY <1>2, <3>2, LoadedIsSound
  <2>3. QED
    BY <2>1, <2>2
<1>4. Opened(s, from, v, TRUE, FALSE, outcome) = Loaded(orphaned, opener, v, TRUE, outcome)
  BY <1>1 DEF Opened, orphaned
<1>5. QED
  BY <1>3, <1>4

\* A view that takes the screen and is cut loose from its parent.
LEMMA AloneIsWhole ==
  ASSUME NEW s, Linked(s), NEW v \in Views
  PROVE  LET t == [Maximized(s, v) EXCEPT !.parent[v] = NoView]
         IN  Sound(t) /\ t.base = v /\ t.child = NoView
<1>1. Whole(Maximized(s, v)) /\ Maximized(s, v).base = v
  BY MaximizedIsWhole
<1>2. Sound(Maximized(s, v)) /\ Maximized(s, v).child = NoView
  BY <1>1, WholeIsSound DEF Whole
<1>3. QED
  BY <1>1, <1>2, OrphanedIsSound

-------------------------------------------------------------------------------
(* The Enter keys.                                                         *)

\* A child that opens views of its own is the main view, or the main view's.
LEMMA ParentIsMain ==
  ASSUME Orderly, NEW v \in Views, NEW w \in Children[v], NEW x \in Children[w], w \in Views
  PROVE  \/ w = Main /\ Children[v] = {w}
         \/ /\ v = Main /\ w # Main /\ x \in Children[Main] /\ x # Diff
            /\ Children[x] = {}
BY DEF Orderly

\* The Enter key of a view on the screen.
LEMMA EnteredShownIsSound ==
  ASSUME Orderly, NEW s, Sound(s), NEW from \in Displayed(s), NEW v \in Views,
         v \in Children[from], NEW outcome
  PROVE  Sound(Entered(s, from, v, outcome))
<1> DEFINE alone == [Maximized(s, Main) EXCEPT !.parent[Main] = NoView]
<1>1. /\ s \in Screens /\ s.base \in Views /\ Linked(s)
      /\ s.base # s.child
      /\ from \in Views /\ from \in {s.base, s.child}
  BY SplitOfTwo, DisplayAssumption DEF Sound, Linked, Screens, Displayed
<1>2. CASE from = s.base
  <2>1. Entered(s, from, v, outcome) = Opened(s, from, v, TRUE, FALSE, outcome)
    BY <1>2 DEF Entered
  <2>2. QED
    BY <1>1, <1>2, <2>1, OpenedSplitIsSound
<1>3. CASE from = s.child
  <2>1. s.child \in Children[s.base]
    BY <1>1, <1>3, DisplayAssumption DEF Sound
  <2>2. CASE from = Main
    <3>1. Sound(alone) /\ alone.base = Main
      BY <1>1, <2>2, AloneIsWhole
    <3> HIDE DEF alone
    <3>2. Entered(s, from, v, outcome) = Opened(alone, from, v, TRUE, FALSE, outcome)
      BY <1>1, <1>3, <2>2 DEF Entered, alone
    <3>3. from \in {alone.base, alone.child} /\ from # alone.child
      BY <2>2, <3>1, SplitOfTwo
    <3>4. QED
      BY <1>1, <2>2, <3>1, <3>2, <3>3, OpenedSplitIsSound
  <2>3. CASE from # Main
    <3>1. s.base = Main /\ v \in Children[Main]
      BY <1>1, <1>3, <2>1, <2>3, ParentIsMain
    \* The child the main view's child opens opens nothing.
    <3>2. LinksTo(s, s.base)
      <4>1. SUFFICES ASSUME FromOrphan(s) PROVE FALSE
        BY <1>1, <1>3, DisplayAssumption DEF Sound
      <4>2. /\ s.prev[s.child] \in Views /\ s.prev[s.child] # Main
            /\ s.prev[s.child] \in Children[Main]
            /\ s.child \in Children[s.prev[s.child]]
        BY <1>1, <1>3, <4>1, SplitOfTwo, DisplayAssumption DEF FromOrphan
      <4>3. Children[s.child] = {}
        BY <1>1, <3>1, <4>2, ParentIsMain
      <4>4. QED
        BY <1>3, <4>3
    <3>3. Entered(s, from, v, outcome) = Opened(s, from, v, TRUE, FALSE, outcome)
      BY <2>3 DEF Entered
    <3>4. QED
      BY <1>1, <1>3, <2>1, <2>3, <3>1, <3>2, <3>3, OpenedSplitIsSound
  <2>4. QED
    BY <2>2, <2>3
<1>4. QED
  BY <1>1, <1>2, <1>3

\* The Enter key of a view that is not on the screen.  It does not open the
\* child that is, unless it opened it before or is the main view, which takes
\* the screen first.
LEMMA EnteredHiddenIsSound ==
  ASSUME Orderly, NEW s, Sound(s), NEW from \in Views, from \notin Displayed(s),
         NEW v \in Views, v \in Children[from], NEW outcome,
         \/ v # s.child
         \/ from = s.prev[v]
         \/ from = Main /\ v # Diff
  PROVE  Sound(Entered(s, from, v, outcome))
<1> DEFINE alone == [Maximized(s, Main) EXCEPT !.parent[Main] = NoView]
<1>1. Linked(s) /\ from # Grep /\ s.base \in Displayed(s)
  BY DisplayAssumption DEF Sound, Linked, Screens, Orderly, Displayed
<1>2. CASE from = Main /\ (v # Diff \/ Diff \notin Displayed(s))
  <2>1. Sound(alone) /\ alone.base = Main
    BY <1>1, <1>2, AloneIsWhole
  <2> HIDE DEF alone
  <2>2. Entered(s, from, v, outcome) = Opened(alone, from, v, TRUE, FALSE, outcome)
    BY <1>1, <1>2 DEF Entered, alone
  <2>3. from \in {alone.base, alone.child} /\ from # alone.child
    BY <1>2, <2>1, SplitOfTwo
  <2>4. QED
    BY <1>2, <2>1, <2>2, <2>3, OpenedSplitIsSound
<1>3. CASE ~(from = Main /\ (v # Diff \/ Diff \notin Displayed(s)))
  <2>1. Entered(s, from, v, outcome) = Opened(s, from, v, FALSE, FALSE, outcome)
    BY <1>1, <1>3 DEF Entered
  <2>2. v # s.child \/ from = s.prev[v]
    BY <1>3
  <2>3. QED
    BY <2>1, <2>2, OpenedWholeIsSound
<1>4. QED
  BY <1>2, <1>3

-------------------------------------------------------------------------------
(* The requests.                                                           *)

LEMMA CurrentIsDisplayed ==
  ASSUME NEW s, Sound(s)
  PROVE  Current(s) \in Displayed(s) /\ Current(s) \in Views
BY DisplayAssumption DEF Sound, Linked, Screens, Current, Displayed

LEMMA OpeningKeepsSound ==
  ASSUME Orderly, Sound(screen), Opening
  PROVE  Sound(screen')
<1>1. Current(screen) \in Displayed(screen) /\ Current(screen) \in Views
  BY CurrentIsDisplayed
<1>2. screen \in Screens /\ Linked(screen) /\ screen.base # screen.child
      /\ screen.base \in Views
  BY SplitOfTwo DEF Sound, Linked, Screens
<1>3. PICK v \in Views : \E outcome \in Outcomes(v) :
        \/ \E reload \in BOOLEAN : OpenView(v, reload, outcome)
        \/ Enter(v, outcome)
        \/ ViewDiff(v, outcome)
        \/ WalkParent(v, outcome)
  BY DEF Opening
<1>4. PICK outcome \in Outcomes(v) :
        \/ \E reload \in BOOLEAN : OpenView(v, reload, outcome)
        \/ Enter(v, outcome)
        \/ ViewDiff(v, outcome)
        \/ WalkParent(v, outcome)
  BY <1>3
<1>5. ASSUME NEW reload \in BOOLEAN, OpenView(v, reload, outcome) PROVE Sound(screen')
  BY <1>1, <1>5, OpenedWholeIsSound DEF OpenView, Show
<1>6. CASE Enter(v, outcome)
  BY <1>1, <1>6, EnteredShownIsSound DEF Enter, ShowIf
<1>7. CASE ViewDiff(v, outcome)
  <2> DEFINE alone == [Maximized(screen, Main) EXCEPT !.parent[Main] = NoView]
  <2>1. Main \in Views /\ Main \in Displayed(screen)
    BY <1>1, <1>7 DEF ViewDiff
  <2>2. Sound(alone) /\ alone.child = NoView
    BY <1>2, <2>1, AloneIsWhole
  <2> HIDE DEF alone
  <2>3. Sound(Opened(alone, Main, v, FALSE, FALSE, outcome))
    BY <2>1, <2>2, DisplayAssumption, OpenedWholeIsSound
  <2>4. Sound(Opened(screen, Main, v, FALSE, FALSE, outcome))
    BY <2>1, OpenedWholeIsSound
  <2>5. QED
    BY <1>7, <2>3, <2>4 DEF ViewDiff, Show, alone
<1>8. CASE WalkParent(v, outcome)
  <2> DEFINE child == Current(screen)
             from == screen.parent[child]
             stopped == Stopped(screen, child)
  <2>1. /\ from # NoView /\ v \in Children[from]
        /\ screen' = Entered(stopped, from, v, outcome)
    BY <1>8 DEF WalkParent, ShowIf
  <2>2. from \in Views /\ child \in Children[from]
    BY <1>1, <1>2, <2>1 DEF Linked, Screens
  <2>3. /\ Sound(stopped)
        /\ stopped.base = screen.base /\ stopped.child = screen.child
        /\ stopped.prev = screen.prev
        /\ Displayed(stopped) = Displayed(screen)
    BY <1>2, ReadingIsSound DEF Stopped, Displayed
  <2>4. CASE from \in Displayed(stopped)
    BY <2>1, <2>3, <2>4, EnteredShownIsSound
  <2>5. CASE from \notin Displayed(stopped)
    <3>1. \/ v # stopped.child
          \/ from = stopped.prev[v]
          \/ from = Main /\ v # Diff
      <4>1. SUFFICES ASSUME v = screen.child
                     PROVE  from = screen.prev[v] \/ (from = Main /\ v # Diff)
        BY <2>3
      <4>2. CASE child = screen.child
        BY <2>1, <4>1, <4>2, DisplayAssumption, SplitOfTwo
      \* The focus is on the upper view, whose parent is not displayed.
      <4>3. CASE child = screen.base
        <5>1. screen.child \in Children[screen.base]
          BY <4>1, DisplayAssumption DEF Sound
        <5>2. \/ Children[from] = {screen.base}
              \/ from = Main /\ v # Diff
          BY <1>2, <2>2, <4>1, <4>3, <5>1, ParentIsMain
        <5>3. QED
          BY <1>2, <2>1, <4>1, <5>2
      <4>4. QED
        BY <4>2, <4>3 DEF Current
    <3>2. QED
      BY <2>1, <2>2, <2>3, <2>5, <3>1, EnteredHiddenIsSound
  <2>6. QED
    BY <2>4, <2>5
<1>9. QED
  BY <1>4, <1>5, <1>6, <1>7, <1>8

LEMMA InitEstablishesScreenInv ==
  ScreenInit => ScreenInv
<1> SUFFICES ASSUME ScreenInit PROVE ScreenInv
  OBVIOUS
<1>1. PICK v \in Views :
        screen = [base |-> v, child |-> NoView, focus |-> 0,
                  prev |-> [w \in Views |-> NoView],
                  parent |-> [w \in Views |-> NoView], reading |-> v = Stage]
  BY DEF ScreenInit
<1>2. screen \in Screens
  BY <1>1 DEF Screens
<1>3. QED
  BY <1>1, <1>2 DEF ScreenInit, ScreenInv, Sound, Linked

LEMMA NextKeepsScreenInv ==
  ASSUME Orderly, ScreenInv, [ScreenNext]_screenVars
  PROVE  ScreenInv'
<1>1. /\ Sound(screen) /\ Linked(screen) /\ screen \in Screens
      /\ Current(screen) \in Views
      /\ status \in {"running", "quit", "aborted"}
  BY CurrentIsDisplayed DEF ScreenInv, Sound, Linked
<1>2. CASE Opening
  <2>1. status' \in {"running", "quit", "aborted"}
    BY <1>1, <1>2 DEF Opening, OpenView, Enter, ViewDiff, WalkParent, Show, ShowIf
  <2>2. QED
    BY <1>1, <1>2, <2>1, OpeningKeepsSound DEF ScreenInv
<1>3. CASE WalkParentOnly
  <2>1. Sound(screen')
    BY <1>1, <1>3, ReadingIsSound DEF WalkParentOnly, ShowIf, Stopped
  <2>2. QED
    BY <1>1, <1>3, <2>1 DEF WalkParentOnly, ShowIf, ScreenInv
<1>a. CASE EnterNothing
  BY <1>1, <1>a, MaximizedIsWhole, WholeIsSound DEF EnterNothing, Show, ScreenInv
<1>b. CASE WalkToNothing
  <2> DEFINE child == Current(screen)
  <2>1. Status \in Views
    BY <1>1, <1>b DEF WalkToNothing, Screens
  <2>2. Sound(Stopped(screen, child))
    BY <1>1, ReadingIsSound DEF Stopped
  <2>3. Sound(Maximized(Stopped(screen, child), Status))
    BY <2>1, <2>2, MaximizedIsWhole, WholeIsSound DEF Sound
  <2>4. QED
    BY <1>1, <1>b, <2>3 DEF WalkToNothing, Show, ScreenInv
<1>4. CASE ViewNext
  <2>1. /\ screen.child # NoView
        /\ screen' = [screen EXCEPT !.focus = 1 - @]
        /\ status' = status
    BY <1>4 DEF ViewNext, Show
  <2>2. screen' \in Screens
    BY <1>1, <2>1 DEF Screens
  <2>3. QED
    BY <1>1, <2>1, <2>2 DEF ScreenInv, Sound, Linked, Screens, LinksTo, FromOrphan
<1>5. CASE Maximize
  BY <1>1, <1>5, MaximizedIsWhole, WholeIsSound DEF Maximize, Show, ScreenInv
<1>6. CASE RefreshStage
  BY <1>1, <1>6, ReadingIsSound DEF RefreshStage, Show, ScreenInv
<1>7. CASE Close
  <2> DEFINE v == Current(screen)
             stopped == Stopped(screen, v)
             behind == Maximized(stopped, screen.prev[v])
  <2>1. screen.prev[v] \in Views
    BY <1>1, <1>7 DEF Close, CanGoBack, Screens
  <2>2. Sound(stopped)
    BY <1>1, ReadingIsSound DEF Stopped
  <2>3. Whole(behind)
    BY <2>1, <2>2, MaximizedIsWhole DEF Sound
  <2>4. screen' = [behind EXCEPT !.prev[v] = v] /\ status' = status
    BY <1>7 DEF Close, Show
  <2> HIDE DEF behind
  <2>5. Sound(behind) /\ behind.child = NoView
    BY <2>3, WholeIsSound DEF Whole
  <2>6. v # behind.child
    BY <1>1, <2>5, DisplayAssumption
  <2>7. Sound(screen')
    BY <1>1, <2>4, <2>5, <2>6, RememberedIsSound
  <2>8. QED
    BY <1>1, <2>4, <2>7 DEF ScreenInv
<1>8. CASE CloseLast \/ Quit
  BY <1>1, <1>8 DEF CloseLast, Quit, ScreenInv
<1>9. CASE StageRead
  BY <1>1, <1>9, ReadingIsSound DEF StageRead, Show, ScreenInv
<1>10. CASE StageReadNothing
  <2>1. /\ screen' = [Maximized(screen, screen.prev[Stage]) EXCEPT !.reading = FALSE]
        /\ status' = status /\ screen.prev[Stage] # NoView /\ screen.reading
    BY <1>10 DEF StageReadNothing, Show
  <2>2. screen.prev[Stage] \in Views
    BY <1>1, <2>1 DEF Screens, Orderly
  <2>3. Sound(Maximized(screen, screen.prev[Stage]))
    BY <1>1, <2>2, MaximizedIsWhole, WholeIsSound
  <2>4. QED
    BY <1>1, <2>1, <2>3, ReadingIsSound DEF ScreenInv
<1>11. CASE Terminated \/ UNCHANGED screenVars
  BY <1>1, <1>11 DEF Terminated, screenVars, ScreenInv
<1>12. QED
  BY <1>2, <1>3, <1>a, <1>b, <1>4, <1>5, <1>6, <1>7, <1>8, <1>9, <1>10, <1>11 DEF ScreenNext

-------------------------------------------------------------------------------
(* The theorems.                                                           *)

THEOREM ScreensStaySound ==
  ASSUME Orderly
  PROVE  ScreenSpec => []ScreenInv
<1>1. ScreenInv /\ [ScreenNext]_screenVars => ScreenInv'
  BY NextKeepsScreenInv
<1>2. QED
  BY <1>1, InitEstablishesScreenInv, PTL DEF ScreenSpec

\* The screen, the links and the status keep their types.
THEOREM ScreenTypeCorrect ==
  ASSUME Orderly
  PROVE  ScreenSpec => []ScreenOK
<1>1. ScreenInv => ScreenOK
  BY DEF ScreenInv, Sound, Linked, ScreenOK
<1>2. QED
  BY <1>1, ScreensStaySound, PTL

\* The view that has the focus is on the screen, whatever was opened, closed,
\* maximized or failed to load before.
THEOREM FocusAlwaysDisplayed ==
  ASSUME Orderly
  PROVE  ScreenSpec => []FocusIsDisplayed
<1>1. ScreenInv => FocusIsDisplayed
  BY CurrentIsDisplayed DEF ScreenInv, FocusIsDisplayed
<1>2. QED
  BY <1>1, ScreensStaySound, PTL

\* open_view, split_view and maximize_view never leave the same view in both
\* halves of the screen.
THEOREM SplitsShowTwoViews ==
  ASSUME Orderly
  PROVE  ScreenSpec => []SplitShowsTwoViews
<1>1. ScreenInv => SplitShowsTwoViews
  BY SplitOfTwo DEF ScreenInv, SplitShowsTwoViews
<1>2. QED
  BY <1>1, ScreensStaySound, PTL

\* Closing the child in the lower half leads to the view above it, and the up and
\* down keys walk that view or none; or both lead to the child before it, which
\* had lost its parent when loading it anew failed.
THEOREM ChildrenBelongToBase ==
  ASSUME Orderly
  PROVE  ScreenSpec => []ChildBelongsToBase
<1>1. ScreenInv => ChildBelongsToBase
  BY DEF ScreenInv, Sound, ChildBelongsToBase, LinksTo, FromOrphan, ChildLinksTo
<1>2. QED
  BY <1>1, ScreensStaySound, PTL
===============================================================================
