------------------------------ MODULE StatusList ------------------------------
(***************************************************************************)
(* The list of changed files in the status view (src/status.c): how it is  *)
(* read, where the cursor goes when it is read again, and what staging,    *)
(* unstaging and reverting do to the index and the files.  Others change   *)
(* the repository between any two requests, so the list may be old.        *)
(*                                                                         *)
(* A file has one of two contents or does not exist, in the commit HEAD is *)
(* at, in the index and in the working tree.  Unmerged and renamed files   *)
(* are left out.                                                           *)
(*                                                                         *)
(* An operator marked "Mutant" is the one below it with a plausible bug;   *)
(* nothing uses it but PROJECT.json's mutants.                             *)
(***************************************************************************)
EXTENDS Naturals, Sequences

CONSTANTS
  NFiles,     \* files are 1 .. NFiles, in the order of their names
  Versions,   \* contents of a file
  Absent,     \* ... of one that does not exist
  MaxChanges  \* bound: changes that others make

ASSUME StatusAssumption ==
  /\ NFiles \in Nat /\ MaxChanges \in Nat
  /\ Absent \in Versions

VARIABLES
  repo,     \* [head, index, work : contents of the files, changes]
  list,     \* view->line
  cursor,   \* view->pos.lineno, counted from 1
  nothing,  \* no_files_staged
  only,     \* show_untracked_only
  asked     \* the line whose changes status_revert asks whether to revert

vars == <<repo, list, cursor, nothing, only, asked>>

Files == 1 .. NFiles
NoFile == 0
Sections == {"staged", "unstaged", "untracked"}

\* struct line; old is what the index is given when the change is unstaged.
Line(type, file, old) == [type |-> type, file |-> file, old |-> old]
OnBranch == Line("header", NoFile, Absent)
Lines == [type : Sections \cup {"header", "none"}, file : {NoFile} \cup Files, old : Versions]
Nobody == Line("none", NoFile, Absent)        \* nothing is asked
Freed(l) == [l EXCEPT !.type = "header"]      \* ... or of a line that is gone

Repositories == [head : [Files -> Versions], index : [Files -> Versions],
                 work : [Files -> Versions], changes : 0 .. MaxChanges]

-------------------------------------------------------------------------------
(* The list.                                                               *)

\* What git diff-index, diff-files and ls-files --others report.
Has(r, section, f) ==
  CASE section = "staged" -> r.index[f] # r.head[f]
    [] section = "unstaged" -> r.index[f] # Absent /\ r.work[f] # r.index[f]
    [] section = "untracked" -> r.index[f] = Absent /\ r.work[f] # Absent

Entry(r, section, f) ==
  Line(section, f, IF section = "staged" THEN r.head[f] ELSE Absent)

\* status_run, which adds a line for each file that git reports ...
FileLines(r, section) ==
  LET added[n \in 0 .. NFiles] ==
        IF n = 0 THEN <<>>
        ELSE IF Has(r, section, n) THEN Append(added[n - 1], Entry(r, section, n))
        ELSE added[n - 1]
  IN  added[NFiles]

\* ... below one with the name of the section, or one that says there is none.
Section(r, section) ==
  <<Line(section, NoFile, Absent)>>
    \o (IF FileLines(r, section) = <<>> THEN <<Line("none", NoFile, Absent)>> ELSE FileLines(r, section))

Listed(r, untrackedOnly) ==
  <<OnBranch>>
    \o (IF untrackedOnly THEN <<>> ELSE Section(r, "staged") \o Section(r, "unstaged"))
    \o Section(r, "untracked")

IsFile(l, i) == i \in DOMAIN l /\ l[i].file # NoFile

\* Mutant: when there is no file below, the last line is taken.
RestoredBelow(l, prev) ==
  LET from == IF prev > Len(l) THEN Len(l) ELSE prev
      below == {i \in from .. Len(l) : IsFile(l, i)}
  IN  IF prev = 1 THEN 1
      ELSE IF below # {} THEN CHOOSE i \in below : \A j \in below : i <= j
      ELSE Len(l)

\* status_restore: the line itself or the next below it with a file, or else the
\* last one above.
Restored(l, prev) ==
  LET from == IF prev > Len(l) THEN Len(l) ELSE prev
      below == {i \in from .. Len(l) : IsFile(l, i)}
      above == {i \in 1 .. from : IsFile(l, i)}
  IN  IF prev = 1 THEN 1
      ELSE IF below # {} THEN CHOOSE i \in below : \A j \in below : i <= j
      ELSE IF above # {} THEN CHOOSE i \in above : \A j \in above : i >= j
      ELSE 1

\* status_run sets it for the staged files only.
NoneStaged(r, untrackedOnly) ==
  IF untrackedOnly THEN nothing ELSE \A f \in Files : ~Has(r, "staged", f)

\* status_open, when the cursor was at prev.
Read(r, untrackedOnly, prev) ==
  /\ list' = Listed(r, untrackedOnly)
  /\ cursor' = Restored(list', prev)
  /\ nothing' = NoneStaged(r, untrackedOnly)
  /\ only' = untrackedOnly

-------------------------------------------------------------------------------
(* Requests.                                                               *)

Idle == asked = Nobody

MoveTo(i) ==
  /\ Idle
  /\ i \in DOMAIN list
  /\ cursor' = i
  /\ UNCHANGED <<repo, list, nothing, only, asked>>

\* REQ_REFRESH, or the view was marked.  The latter also happens while a question
\* waits for its answer, since get_input reads it: the line asked about is freed.
Refresh ==
  /\ Read(repo, only, cursor)
  /\ asked' = IF Idle THEN Nobody ELSE Freed(asked)
  /\ UNCHANGED repo

\* open_status_view with another untracked_only
OpenOther ==
  /\ Idle
  /\ Read(repo, ~only, cursor)
  /\ UNCHANGED <<repo, asked>>

\* The lines status_exists takes for a file of a section, or for the section.
Found(l, section, f) ==
  {i \in DOMAIN l : /\ l[i].type = section
                    /\ l[i].file = f
                    /\ f = NoFile => IsFile(l, i + 1)}

\* status_exists, which the stage view asks for what it shows.
Exists(section, f) ==
  LET found == Found(Listed(repo, only), section, f)
  IN  /\ Idle
      /\ list' = Listed(repo, only)
      /\ cursor' = IF found # {} THEN CHOOSE i \in found : \A j \in found : i <= j
                   ELSE Restored(list', cursor)
      /\ nothing' = NoneStaged(repo, only)
      /\ UNCHANGED <<repo, only, asked>>

\* Mutant: the files of the sections below as well.
FollowingAll(l, i) == {j \in DOMAIN l : j > i /\ IsFile(l, j) /\ IsFile(l, i + 1)}

\* The files that follow a section's first line: status_update_files.
Following(l, i) ==
  {j \in DOMAIN l : j > i /\ \A k \in (i + 1) .. j : l[k].file # NoFile}

\* git update-index --index-info, and --add --remove.
Updated(l) ==
  [f \in Files |->
     LET entries == {e \in l : e.file = f}
     IN  IF entries = {} THEN repo.index[f]
         ELSE LET e == CHOOSE e \in entries : TRUE
              IN  IF e.type = "staged" THEN e.old ELSE repo.work[f]]

\* Mutant: the cursor always goes on to the next line.
MovedOnAlways(type) == IF type # "staged" THEN cursor + 1 ELSE cursor

\* status_update: a file that is staged makes the list above the cursor longer,
\* unless it takes the place of "(no files)".
MovedOn(type) == IF type # "staged" /\ ~nothing THEN cursor + 1 ELSE cursor

\* A view of untracked files only is closed when none is left.  Opened anew, it
\* brings the cursor back into its old list (restore_view_position).
Close(untrackedOnly, next) ==
  /\ untrackedOnly
  /\ \A f \in Files : ~Has(repo', "untracked", f)
  /\ cursor' = IF next > Len(list) THEN Len(list) ELSE next
  /\ UNCHANGED <<list, nothing, only>>

\* status_update and what follows it: a refresh, or the end of the view.  If git
\* fails, nothing is read again and nothing has changed.
Update ==
  LET line == list[cursor]
      lines == IF line.file # NoFile THEN {line} ELSE {list[j] : j \in Following(list, cursor)}
  IN  /\ Idle
      /\ lines # {}
      /\ repo' = [repo EXCEPT !.index = Updated(lines)]
      /\ Read(repo', only, MovedOn(line.type)) \/ Close(only, MovedOn(line.type))
      /\ UNCHANGED asked

\* status_revert up to its question, ...
AskRevert ==
  /\ Idle
  /\ list[cursor].type = "unstaged" /\ list[cursor].file # NoFile
  /\ asked' = list[cursor]
  /\ UNCHANGED <<repo, list, cursor, nothing, only>>

\* git checkout and the refresh after it.  It fails for a file the index does not
\* have, and then nothing is read again.
CheckOut(f) ==
  IF repo.index[f] = Absent THEN UNCHANGED <<repo, list, cursor, nothing, only>>
  ELSE /\ repo' = [repo EXCEPT !.work[f] = repo.index[f]]
       /\ Read(repo', only, cursor)

\* ... and the checkout if the answer is yes.
Revert ==
  /\ ~Idle /\ asked # Freed(asked)
  /\ CheckOut(asked.file)
  /\ asked' = Nobody

\* What was the line's file may by now be any other's, or nobody's.
RevertFreed ==
  /\ ~Idle /\ asked = Freed(asked)
  /\ \/ \E f \in Files : CheckOut(f)
     \/ UNCHANGED <<repo, list, cursor, nothing, only>>
  /\ asked' = Nobody

AnswerNo ==
  /\ ~Idle
  /\ asked' = Nobody
  /\ UNCHANGED <<repo, list, cursor, nothing, only>>

-------------------------------------------------------------------------------
(* What others do.                                                         *)

Edit(f, v) ==
  /\ repo.changes < MaxChanges
  /\ repo.work[f] # v
  /\ repo' = [repo EXCEPT !.work[f] = v, !.changes = @ + 1]
  /\ UNCHANGED <<list, cursor, nothing, only, asked>>

Commit ==
  /\ repo.changes < MaxChanges
  /\ repo.head # repo.index
  /\ repo' = [repo EXCEPT !.head = repo.index, !.changes = @ + 1]
  /\ UNCHANGED <<list, cursor, nothing, only, asked>>

-------------------------------------------------------------------------------

Init ==
  /\ \E head, index, work \in [Files -> Versions] :
       repo = [head |-> head, index |-> index, work |-> work, changes |-> 0]
  /\ only \in BOOLEAN
  /\ list = Listed(repo, only)
  /\ cursor = 1
  /\ nothing = (~only /\ \A f \in Files : ~Has(repo, "staged", f))
  /\ asked = Nobody

Next ==
  \/ \E i \in 1 .. (NFiles * 3 + 7) : MoveTo(i)
  \/ Refresh
  \/ OpenOther
  \/ \E section \in Sections, f \in {NoFile} \cup Files : Exists(section, f)
  \/ Update
  \/ AskRevert
  \/ Revert
  \/ RevertFreed
  \/ AnswerNo
  \/ \E f \in Files, v \in Versions : Edit(f, v)
  \/ Commit

Spec == Init /\ [][Next]_vars

-------------------------------------------------------------------------------
(* Properties.                                                             *)

TypeOK ==
  /\ repo \in Repositories
  /\ \A i \in DOMAIN list : list[i] \in Lines
  /\ cursor \in DOMAIN list
  /\ nothing \in BOOLEAN /\ only \in BOOLEAN
  /\ asked \in Lines

Fresh == list = Listed(repo, only)

\* The stage view has asked for a section that has files: status_exists leaves the
\* cursor on the section's first line.
SelectsSection ==
  /\ \E section \in Sections : Exists(section, NoFile) /\ Found(list', section, NoFile) # {}
  /\ ~Refresh /\ ~Update

\* After the list was read again the cursor is on a file, if there is one and the
\* cursor was not on the first line: status_restore's "stay in the context or select
\* a line with something that can be updated".  The one exception is the line that
\* status_exists has selected.
CursorOnFile ==
  [][ (list' # list /\ cursor > 1 /\ \E i \in DOMAIN list' : IsFile(list', i))
      => IsFile(list', cursor') \/ SelectsSection ]_vars

\* Staging or unstaging a file moves the cursor to the next one of the same section,
\* if the list is not old: pressing the key again and again works through the section.
WalkOn ==
  [][ (/\ Update /\ Fresh /\ ~only
       /\ IsFile(list, cursor) /\ IsFile(list, cursor + 1)
       /\ \A i \in DOMAIN list \ {cursor} : list[i].file # list[cursor].file)
      => /\ IsFile(list', cursor')
         /\ list'[cursor'].type = list[cursor].type
         /\ list'[cursor'].file = list[cursor + 1].file ]_vars

\* Tig changes the index only for the file the cursor is on, or for those of the
\* section whose first line it is on, and never the files of others.
OnlyTheSelected ==
  [][ \A f \in Files :
        repo'.index[f] # repo.index[f]
          => \/ list[cursor].file = f
             \/ /\ list[cursor].file = NoFile
                /\ \E i \in DOMAIN list : list[i].file = f /\ list[i].type = list[cursor].type
    ]_vars

\* "Revert changes in file" (tigrc): a revert changes no file but the one the
\* question was about.
RevertsOnlyAsked ==
  [][ \A f \in Files :
        (repo'.work[f] # repo.work[f] /\ repo'.changes = repo.changes)
          => asked.file = f ]_vars

=============================================================================
