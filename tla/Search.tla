-------------------------------- MODULE Search ---------------------------------
(***************************************************************************)
(* Searching in a view (src/search.c): the pattern, the list of matching   *)
(* lines that find_matches makes at the first request and later requests   *)
(* use again, and what outdates it: lines that are read, another pattern,  *)
(* and sorting (sort_view in view.c).  Of the text of a line only matters  *)
(* whether it matches.                                                     *)
(*                                                                         *)
(* An operator marked "Mutant" is the one below it with a plausible bug;   *)
(* nothing uses it but PROJECT.json's mutants.                             *)
(***************************************************************************)
EXTENDS View, FiniteSets

CONSTANT
  MaxSearched   \* bound: a view with more lines is not searched, nor read slowly

ASSUME SearchAssumption == MaxSearched \in 0 .. MaxLines

VARIABLES
  searching,    \* env->search: there is a pattern
  matching,     \* the lines that match it
  matched,      \* view->matched_line
  doubtful      \* history: sorted, or read while hidden, since matched was made

search == <<searching, matching, matched, doubtful>>
searchVars == <<vars, search>>

Lines == 0 .. (lines - 1)
Searched == lines <= MaxSearched
NoLine == -1

-------------------------------------------------------------------------------
(* find_next_match_line and find_next_merge_line.                          *)

\* The first of the lines ls that a walk in the direction comes to.
Nearest(direction, ls) ==
  IF ls = {} THEN NoLine
  ELSE CHOOSE l \in ls : \A m \in ls : direction * l <= direction * m

\* Mutant: before wrapping the cursor's own line is a match.
MatchLineHere(ms, lineno, direction, wrapped) ==
  Nearest(direction,
          {m \in ms : IF direction > 0 THEN wrapped = (m < lineno) ELSE wrapped = (m > lineno)})

\* The cursor's own line matches after wrapping only.
MatchLine(ms, lineno, direction, wrapped) ==
  Nearest(direction,
          {m \in ms : IF direction > 0 THEN wrapped = (m <= lineno) ELSE wrapped = (m >= lineno)})

\* How far find_next_merge_line goes in a view of n lines.
MergeDistances(n, lineno, direction, wrap) ==
  1 .. ((IF wrap THEN n ELSE IF direction > 0 THEN n - lineno ELSE lineno) - 1)

\* Mutant: wrapping takes the distance from the wrong end.
MergeLineMirrored(merges, n, lineno, direction, wrap) ==
  LET at(dist) == IF lineno + direction * dist < 0 THEN dist - lineno - 1
                  ELSE (lineno + direction * dist) % n
      dists == {d \in MergeDistances(n, lineno, direction, wrap) : at(d) \in merges}
  IN  IF dists = {} THEN NoLine ELSE at(Nearest(1, dists))

MergeLine(merges, n, lineno, direction, wrap) ==
  LET at(dist) == (lineno + n + direction * dist) % n
      dists == {d \in MergeDistances(n, lineno, direction, wrap) : at(d) \in merges}
  IN  IF dists = {} THEN NoLine ELSE at(Nearest(1, dists))

-------------------------------------------------------------------------------
(* The requests.                                                           *)

Cached == IF matched = {} THEN matching ELSE matched

\* find_next_match with the list ms.
Select(ms, direction, wrap) ==
  LET ahead == MatchLine(ms, pos.lineno, direction, FALSE)
      line == IF ahead = NoLine /\ wrap THEN MatchLine(ms, pos.lineno, direction, TRUE)
              ELSE ahead
  IN  IF line = NoLine THEN Navigate(pos, TRUE) ELSE SelectViewLine(line)

\* search_view with a pattern that the lines ms match: setup_and_find_next.
Find(direction, wrap, ms) ==
  /\ Searched
  /\ searching' = TRUE
  /\ matching' = ms
  /\ matched' = ms
  /\ doubtful' = FALSE
  /\ Select(ms, direction, wrap)

\* find_next with the pattern there is.
FindNext(direction, wrap) ==
  /\ Searched
  /\ searching
  /\ matched' = Cached
  /\ doubtful' = (doubtful /\ matched # {})
  /\ Select(Cached, direction, wrap)
  /\ UNCHANGED <<searching, matching>>

\* find_merge, of a view whose lines ms are merges.
FindMerge(direction, wrap, ms) ==
  LET line == MergeLine(ms, lines, pos.lineno, direction, wrap)
  IN  /\ Searched /\ lines > 0
      /\ IF line = NoLine THEN Navigate(pos, TRUE) ELSE SelectViewLine(line)
      /\ UNCHANGED search

-------------------------------------------------------------------------------
(* What the view does to the list.                                         *)

\* reset_view
Replaced ==
  /\ matching' \in (IF searching /\ lines' <= MaxSearched THEN SUBSET (0 .. (lines' - 1)) ELSE {{}})
  /\ matched' = {}
  /\ doubtful' = FALSE
  /\ UNCHANGED searching

\* Mutant: a view that is read keeps its list.
ExtendedKeeping ==
  /\ \E new \in SUBSET (lines .. (lines' - 1)) :
       matching' = matching \cup (IF searching THEN new ELSE {})
  /\ doubtful' = (~displayed /\ matched # {} /\ (doubtful \/ lines' # lines))
  /\ UNCHANGED <<searching, matched>>

\* update_view resets the list, but of a view on the screen only.
Extended ==
  /\ \E new \in SUBSET (lines .. (lines' - 1)) :
       matching' = matching \cup (IF searching THEN new ELSE {})
  /\ matched' = IF displayed THEN {} ELSE matched
  /\ doubtful' = (~displayed /\ matched # {} /\ (doubtful \/ lines' # lines))
  /\ UNCHANGED searching

\* sort_view and resort_view: the lines change places.
Sort ==
  /\ Searched /\ ~aborted
  /\ \E ms \in SUBSET Lines :
       /\ Cardinality(ms) = Cardinality(matching)
       /\ matching' = ms
  /\ doubtful' = (matched # {})
  /\ UNCHANGED <<vars, searching, matched>>

-------------------------------------------------------------------------------
Directions == {1, -1}

SearchInit ==
  /\ Init
  /\ searching = FALSE /\ matching = {} /\ matched = {} /\ doubtful = FALSE

SearchRequest ==
  \E direction \in Directions, wrap \in BOOLEAN :
    \/ FindNext(direction, wrap)
    \/ \E ms \in SUBSET Lines : Find(direction, wrap, ms) \/ FindMerge(direction, wrap, ms)

\* A view that reads its lines at once, or in part between two keys.
SearchLoad ==
  \/ \E total \in 0 .. MaxLines : ReloadAtOnce(total) /\ Replaced
  \/ \E total \in 0 .. MaxSearched : Searched /\ Reload(0, total) /\ Replaced
  \/ \E n \in 0 .. MaxSearched : ReadLines(n) /\ Extended
  \/ ReadLastLines /\ Extended

SearchNext ==
  \/ (UserRequest \/ NewWindow) /\ UNCHANGED search
  \/ SearchRequest
  \/ SearchLoad
  \/ Sort

SearchSpec == SearchInit /\ [][SearchNext]_searchVars

-------------------------------------------------------------------------------
(* Properties.                                                             *)

\* The list that a later request uses holds the lines that match now, through
\* reloads, other patterns, and lines that are read in between.  (Not if the
\* view was sorted, or read while it was hidden: then the list is kept.)
ListIsCurrent == matched # {} /\ ~doubtful => matched = matching

\* The lines of ms in the direction of the search, by their distance.
Distance(m, n, lineno, direction) ==
  LET d == direction * (m - lineno) IN IF d > 0 THEN d ELSE d + n

\* Finding the next match goes to the nearest one in its direction, round the
\* end only if there is none before it, and stays if there is none.
NextIsNearest ==
  [][\A direction \in Directions, wrap \in BOOLEAN :
       FindNext(direction, wrap) /\ ~doubtful' =>
         LET there == {m \in matching : wrap \/ direction * (m - pos.lineno) > 0}
             far(m) == Distance(m, lines, pos.lineno, direction)
         IN  IF there = {} THEN pos'.lineno = pos.lineno
             ELSE /\ pos'.lineno \in there
                  /\ \A m \in there : far(pos'.lineno) <= far(m)]_searchVars

\* Of any merges in the view the nearest in the direction is found, going round
\* the end or not.  (Backwards without wrapping, not if it is the first line.)
MergeIsNearest ==
  Searched =>
    \A merges \in SUBSET Lines, direction \in Directions, wrap \in BOOLEAN :
      LET there == {m \in merges \ {pos.lineno} :
                      wrap \/ (direction * (m - pos.lineno) > 0 /\ (direction < 0 => m # 0))}
          far(m) == Distance(m, lines, pos.lineno, direction)
          line == MergeLine(merges, lines, pos.lineno, direction, wrap)
      IN  IF there = {} THEN line = NoLine
          ELSE line \in there /\ \A m \in there : far(line) <= far(m)
===============================================================================
