------------------------------ MODULE Staging ------------------------------
(***************************************************************************)
(* The stage view's requests on a diff (stage.c): staging, unstaging and   *)
(* reverting files, chunks, parts of chunks and lines, and splitting       *)
(* chunks, while the diff is still being read and while other programs     *)
(* change the files behind it.                                             *)
(*                                                                         *)
(* The view shows one file, opened from the status view, or all of them,   *)
(* opened from the main view.  The cursor may be on any line.  HEAD has    *)
(* every file, and none is added, deleted, renamed or unmerged.            *)
(***************************************************************************)
EXTENDS Patch

CONSTANTS
  Files,      \* the files, in the order git lists them
  Committed,       \* their contents in HEAD
  Contents,   \* the contents an editor may give each of them
  All,        \* the subject of a view that shows all files
  Slices,     \* whether requests may arrive while the diff is being read
  MaxChanges  \* bound: changes to the files, by tig or other programs

VARIABLES
  index,      \* the contents of the files in the index
  work,       \* and in the working tree
  type,       \* stage_line_type
  subject,    \* stage_status: a file, or All
  view,       \* the lines of the view
  rest,       \* what git diff has yet to print
  asked,      \* what stage_revert asks whether to revert
  base,       \* history: the index and working tree git diff looked at
  early,      \* history: a chunk was split before its end was read
  changes     \* bound: changes to the files so far

vars == <<index, work, type, subject, view, rest, asked, base, early, changes>>

Names == ToSet(Files)
Types == {"staged", "unstaged"}

ASSUME FilesAssumption ==
  /\ Files \in Seq(Names)
  /\ Committed \in [Names -> Seq(Int)]
  /\ \A f \in Names : Contents[f] \subseteq Seq(Int)

Old(t, state) == IF t = "staged" THEN Committed ELSE state.index
New(t, state) == IF t = "staged" THEN state.index ELSE state.work

Now == [index |-> index, work |-> work]

\* The line of a chunk's header, or 0 for a whole file, and the file.
Asked(chunk, file) == [chunk |-> chunk, file |-> file]
Nobody == Asked(0, All)                   \* nothing is asked
Freed(a) == IF a.chunk = 0 THEN a ELSE [a EXCEPT !.chunk = -1]  \* its line is gone

\* What git diff prints for the subject, given the state of the files.
Shown(t, s, state) ==
  FlattenSeq([n \in DOMAIN Files |->
    LET f == Files[n]
    IN  IF s \in {f, All} THEN Diff(f, Old(t, state)[f], New(t, state)[f]) ELSE <<>>])

Init ==
  /\ index = Committed
  /\ work \in [Names -> UNION {Contents[f] : f \in Names}]
  /\ \A f \in Names : work[f] \in Contents[f]
  /\ type = "none"
  /\ subject = All
  /\ view = <<>>
  /\ rest = <<>>
  /\ asked = Nobody
  /\ base = Now
  /\ early = FALSE
  /\ changes = 0

-----------------------------------------------------------------------------
(***************************************************************************)
(* Reading the diff.                                                       *)
(***************************************************************************)

\* stage_open: git diff runs on the files as the step leaves them.
Load(t, s) ==
  /\ type' = t
  /\ subject' = s
  /\ view' = <<>>
  /\ base' = Now'
  /\ rest' = Shown(t, s, Now')
  /\ early' = FALSE

\* Mutant: the lines of the diff stay.
LeaveLines ==
  /\ type' = "none"
  /\ rest' = <<>>
  /\ UNCHANGED <<subject, base, early, view>>

\* stage_line_type is cleared, and the view is left.
Leave ==
  /\ type' = "none"
  /\ view' = <<>>
  /\ rest' = <<>>
  /\ UNCHANGED <<subject, base, early>>

\* Entering a line of the status or main view.
Open ==
  /\ asked = Nobody
  /\ UNCHANGED <<index, work, asked, changes>>
  /\ \E t \in Types, s \in Names \cup {All} : Shown(t, s, Now) # <<>> /\ Load(t, s)

\* The view is marked, and get_input reloads it, also while it waits for the
\* answer to a question.
Refresh ==
  /\ type # "none"
  /\ asked' = Freed(asked)
  /\ UNCHANGED <<index, work, changes>>
  /\ Load(type, subject)

\* stage_read, a slice of the output at a time.  More lines may not fit where
\* the lines are, and these then move (realloc_lines).
ReadLines ==
  /\ rest # <<>>
  /\ \E n \in IF Slices THEN DOMAIN rest ELSE {Len(rest)} :
       /\ view' = view \o SubSeq(rest, 1, n)
       /\ rest' = SubSeq(rest, n + 1, Len(rest))
  /\ asked' \in {asked, Freed(asked)}
  /\ UNCHANGED <<index, work, type, subject, base, early, changes>>

\* stage_read without any output: the diff is gone.
ReadNothing ==
  /\ type # "none"
  /\ rest = <<>> /\ view = <<>>
  /\ Leave
  /\ UNCHANGED <<index, work, asked, changes>>

-----------------------------------------------------------------------------
(***************************************************************************)
(* What a request does to the index.                                       *)
(***************************************************************************)
Staged == type = "staged"

\* The first chunk above line, of whatever file, goes to git apply --cached.
UpdateChunk(line, update, contents) ==
  LET file == FileOf(view, ChunkOf(view, line))
      result == GitApply(PatchFor(view, line, Staged, FALSE, update), contents[file])
  IN  [ok |-> result.ok,
       index |-> IF result.ok THEN [contents EXCEPT ![file] = result.file] ELSE contents]

\* status_update_file: git update-index
UpdateFile ==
  [ok |-> TRUE, index |-> [index EXCEPT ![subject] = (IF Staged THEN Committed ELSE work)[subject]]]

ChunkLines == {line \in DOMAIN view : view[line].kind = "chunk"}

\* Mutant: the loop ends after the first chunk.
UpdateFilesOnce ==
  IF ChunkLines = {} THEN [ok |-> FALSE, index |-> index]
  ELSE UpdateChunk(Min(ChunkLines), "normal", index)

UpdateNext(line, done) ==
  IF line \in ChunkLines /\ done.ok THEN UpdateChunk(line, "normal", done.index) ELSE done

\* stage_update_files: chunk by chunk, up to the first that is refused.
UpdateFiles ==
  LET after[line \in 0 .. Len(view)] ==
        IF line = 0 THEN [ok |-> ChunkLines # {}, index |-> index]
        ELSE UpdateNext(line, after[line - 1])
  IN  after[Len(view)]

\* stage_update
Update(line, update) ==
  IF ChunkOf(view, line) # 0 THEN UpdateChunk(line, update, index)
  ELSE IF subject = All THEN UpdateFiles
  ELSE UpdateFile

MayUpdate(line, update) ==
  /\ type # "none"
  /\ line \in DOMAIN view
  /\ update # "normal" => IsChange(view[line])

Change == changes < MaxChanges /\ changes' = changes + 1

\* stage_exists, and the end of stage_request.
After ==
  IF type = "none" \/ Shown(type, subject, Now') = <<>> THEN Leave ELSE Load(type, subject)

StageUpdate ==
  \E line \in DOMAIN view, update \in Updates :
    /\ asked = Nobody
    /\ MayUpdate(line, update)
    /\ Change
    /\ LET result == Update(line, update)
       IN  /\ index' = result.index
           /\ UNCHANGED <<work, asked>>
           /\ IF result.ok THEN After ELSE UNCHANGED <<type, subject, view, rest, base, early>>

(***************************************************************************)
(* stage_revert.  What is staged cannot be reverted, nor can several files *)
(* at once.  The chunk is found before the question and used after it.     *)
(***************************************************************************)
AskRevert ==
  /\ asked = Nobody
  /\ type = "unstaged"
  /\ \E line \in DOMAIN view :
       LET chunk == ChunkOf(view, line)
       IN  /\ chunk # 0 \/ subject # All
           /\ asked' = Asked(chunk, IF chunk # 0 THEN FileOf(view, chunk) ELSE subject)
  /\ UNCHANGED <<index, work, type, subject, view, rest, base, early, changes>>

\* The chunk goes to git apply -R.
RevertChunk(chunk) ==
  LET file == FileOf(view, chunk)
      result == GitApply(PatchFor(view, chunk, FALSE, TRUE, "normal"), work[file])
  IN  [ok |-> result.ok,
       work |-> IF result.ok THEN [work EXCEPT ![file] = result.file] ELSE work]

\* status_revert: git checkout -- file
RevertFile(file) == [ok |-> TRUE, work |-> [work EXCEPT ![file] = index[file]]]

Refuse == [ok |-> FALSE, work |-> work]

\* What was the line of a chunk may be that of another by now, or of none.
Outcomes ==
  CASE asked.chunk = 0 -> {RevertFile(asked.file)}
    [] asked.chunk > 0 -> {RevertChunk(asked.chunk)}
    [] OTHER -> {RevertChunk(c) : c \in ChunkLines} \cup {Refuse}

\* The answer is yes.
StageRevert ==
  /\ asked # Nobody
  /\ asked' = Nobody
  /\ Change
  /\ UNCHANGED index
  /\ \E result \in Outcomes :
       /\ work' = result.work
       /\ IF result.ok THEN After ELSE UNCHANGED <<type, subject, view, rest, base, early>>

AnswerNo ==
  /\ asked # Nobody
  /\ asked' = Nobody
  /\ UNCHANGED <<index, work, type, subject, view, rest, base, early, changes>>

\* The chunk goes on in what has not been read yet.
GoesOn(chunk) == rest # <<>> /\ BodyEnd(view, chunk) = Len(view)

SplitChunk ==
  \E line \in DOMAIN view :
    LET chunk == ChunkOf(view, line)
    IN  /\ asked = Nobody
        /\ type # "none" /\ chunk # 0
        /\ view' = StageSplitChunk(view, chunk)
        /\ early' = (early \/ (view' # view /\ GoesOn(chunk)))
        /\ UNCHANGED <<index, work, type, subject, rest, asked, base, changes>>

Close ==
  /\ asked = Nobody
  /\ type # "none"
  /\ Leave
  /\ UNCHANGED <<index, work, asked, changes>>

-----------------------------------------------------------------------------
\* An editor saves a file.
EditFile ==
  /\ Change
  /\ \E f \in Names : \E c \in Contents[f] : work' = [work EXCEPT ![f] = c]
  /\ UNCHANGED <<index, type, subject, view, rest, asked, base, early>>

\* Another program stages or unstages a file.
AddFile ==
  /\ Change
  /\ \E f \in Names, c \in {Committed, work} : index' = [index EXCEPT ![f] = c[f]]
  /\ UNCHANGED <<work, type, subject, view, rest, asked, base, early>>

\* Without changes there is no view to open.
Idle ==
  /\ type = "none"
  /\ asked = Nobody
  /\ \A t \in Types : Shown(t, All, Now) = <<>>
  /\ UNCHANGED vars

Next ==
  \/ Idle
  \/ Open
  \/ Refresh
  \/ ReadLines
  \/ ReadNothing
  \/ StageUpdate
  \/ AskRevert
  \/ StageRevert
  \/ AnswerNo
  \/ SplitChunk
  \/ Close
  \/ EditFile
  \/ AddFile

Spec == Init /\ [][Next]_vars

-----------------------------------------------------------------------------
(***************************************************************************)
(* Properties.  They ask of every line of every view the program can be in *)
(* what each request would do there.                                       *)
(***************************************************************************)
Ordered(file, other) ==
  SelectSeq(file, LAMBDA t : Contains(other, t)) = SelectSeq(other, LAMBDA t : Contains(file, t))

\* The variables have their types; the files keep to what Patch assumes.
TypeOK ==
  /\ index \in [Names -> Seq(Int)] /\ work \in [Names -> Seq(Int)]
  /\ base \in [index : [Names -> Seq(Int)], work : [Names -> Seq(Int)]]
  /\ type \in Types \cup {"none"}
  /\ subject \in Names \cup {All}
  /\ changes \in 0 .. MaxChanges
  /\ early \in BOOLEAN
  /\ asked \in [chunk : {-1, 0} \cup ChunkLines, file : Names \cup {All}]
  /\ type = "none" => view = <<>> /\ rest = <<>>
  /\ \A f \in Names : \A a, b \in {Committed[f], index[f], work[f]} :
       IsInjective(a) /\ Ordered(a, b)

Fresh == base = Now

\* The chunk has been made by splitting one, and is the last that it gave.
Made(line) == view[line].kind = "chunk" /\ ~Contains(Shown(type, subject, base), view[line])
IsLastPart(chunk) ==
  LET end == BodyEnd(view, chunk)
  IN  Made(chunk) /\ (end = Len(view) \/ ~Made(end + 1))

\* stage_split_chunk counts the lines up to the next chunk header, past that of the
\* next file or to the end of what has been read.
Miscounted(chunk) ==
  LET end == BodyEnd(view, chunk)
  IN  IsLastPart(chunk) /\ (early \/ (end < Len(view) /\ view[end + 1].kind = "header"))

HasNoeol(chunk) == Count(BodyOf(view, chunk), {"noeol"}) > 0

InChunk(line) == ChunkOf(view, line) # 0 /\ line <= BodyEnd(view, ChunkOf(view, line))

\* The changes a request on line is about.
Selected(line, update) ==
  LET chunk == ChunkOf(view, line)
      Joined(i) == \A j \in (i .. line) \cup (line .. i) : IsChange(view[j]) \/ view[j].kind = "noeol"
  IN  {i \in chunk + 1 .. BodyEnd(view, chunk) :
        /\ IsChange(view[i])
        /\ update = "part" => Joined(i)
        /\ update = "single" => i = line}

Texts(lines, kind) == {view[i].text : i \in {j \in lines : view[j].kind = kind}}

\* after is before without the lines gone and with the lines came, which take
\* their places among the lines of other.
Replaced(before, after, other, gone, came) ==
  /\ ToSet(after) = (ToSet(before) \ gone) \cup came
  /\ SelectSeq(before, LAMBDA t : t \notin gone) = SelectSeq(after, LAMBDA t : t \notin came)
  /\ Ordered(after, other)

(***************************************************************************)
(* Staging or unstaging a chunk, a part or a line of a current diff does   *)
(* exactly that, whether the chunk has been split and whether the rest of  *)
(* the diff has been read: git accepts the patch, and the index changes by *)
(* the selected lines and no others.  So does reverting a chunk, if its    *)
(* line is still there when the question is answered.  The exception is    *)
(* the last part of a chunk that was split while more of it was to come,   *)
(* or that another file follows: its header counts wrongly.                *)
(***************************************************************************)
StagesExactly ==
  \A line \in DOMAIN view, update \in Updates :
    LET chunk == ChunkOf(view, line)
        f == FileOf(view, chunk)
        added == Texts(Selected(line, update), "add")
        removed == Texts(Selected(line, update), "del")
        staging == Update(line, update)
        reverting == RevertChunk(chunk)
    IN  /\ MayUpdate(line, update) /\ InChunk(line)
        /\ Fresh /\ ~GoesOn(chunk) /\ ~Miscounted(chunk) /\ ~HasNoeol(chunk)
        => /\ staging.ok
           /\ \A g \in Names \ {f} : staging.index[g] = index[g]
           /\ IF Staged
              THEN Replaced(index[f], staging.index[f], Committed[f], added, removed)
              ELSE Replaced(index[f], staging.index[f], work[f], removed, added)
           /\ asked = Asked(chunk, f) /\ update = "normal"
              => /\ reverting.ok
                 /\ \A g \in Names \ {f} : reverting.work[g] = work[g]
                 /\ Replaced(work[f], reverting.work[f], index[f], added, removed)

(***************************************************************************)
(* However old or incomplete the diff, a request below a chunk header      *)
(* changes one file, and in it lines of that chunk only: also between the  *)
(* files of a diff, where "all changes in the displayed diff are staged"   *)
(* (doc/manual.adoc), but stage_update finds the last chunk above.         *)
(***************************************************************************)
OnlySelectedChange ==
  \A line \in DOMAIN view, update \in Updates :
    LET f == FileOf(view, ChunkOf(view, line))
        after == Update(line, update).index
        Lines(file) == {Abs(t) : t \in ToSet(file)}
        added == Texts(Selected(line, update), "add")
        removed == Texts(Selected(line, update), "del")
    IN  MayUpdate(line, update) /\ ChunkOf(view, line) # 0
        => /\ \A g \in Names \ {f} : after[g] = index[g]
           /\ Lines(index[f]) \ Lines(after[f]) \subseteq (IF Staged THEN added ELSE removed)
           /\ Lines(after[f]) \ Lines(index[f]) \subseteq (IF Staged THEN removed ELSE added)

(***************************************************************************)
(* Above the first chunk, a request is about all the view shows: of a      *)
(* current diff, as git printed it, all is staged, chunk by chunk.         *)
(***************************************************************************)
AllIsStaged ==
  \A line \in DOMAIN view :
    LET after == Update(line, "normal")
    IN  /\ MayUpdate(line, "normal") /\ ChunkOf(view, line) = 0
        /\ Fresh /\ view = Shown(type, subject, Now)
        /\ \A c \in ChunkLines : ~HasNoeol(c)
        => /\ after.ok
           /\ Shown(type, subject, [index |-> after.index, work |-> work]) = <<>>

(***************************************************************************)
(* The line numbers that the editor, blame and blob are opened with are    *)
(* those of the line in its file, also after the chunk has been split.     *)
(***************************************************************************)
LineNumbersRight ==
  \A line \in DOMAIN view :
    InChunk(line) /\ ~HasNoeol(ChunkOf(view, line)) /\ view[line].kind # "chunk"
    => LET f == FileOf(view, line)
           old == DiffGetLineno(view, line, TRUE)
           new == DiffGetLineno(view, line, FALSE)
       IN  /\ view[line].kind # "add" => Abs(Old(type, base)[f][old]) = view[line].text
           /\ view[line].kind # "del" => Abs(New(type, base)[f][new]) = view[line].text
=============================================================================
