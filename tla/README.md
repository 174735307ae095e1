# tig: a verification development

The repository is gnostr-tig: tig, a text-mode interface for git, with a small
Nostr event tool (`nostril`) and a packaging wrapper around it. This directory
holds TLA+ specifications of tig's core, TLC configurations that check them, and
proofs that TLAPS checks. Paths below are those of the repository.

    tlc -workers 2 -config MC_Search.cfg MC_Search     # one of the runs
    tlapm View_proofs.tla                              # the proofs of one module

`PROJECT.json` lists the components, the runs, the source lines each definition
stands for, the findings, and the hazards the properties are aimed at.

## 1. The system

tig is one thread around one loop. `main` (`src/tig.c`) opens a view and then
alternates `read_key_combo`, which waits for a key in `get_input`
(`src/display.c`), with `view_driver`, which carries the request out. Nothing runs
in parallel inside the process, yet much is in flight at once: every view reads
the output of its own git command a slice at a time while the loop waits for
keys, other processes change the repository, and views reload each other.

| Part | State it keeps | Operations | Talks to |
|---|---|---|---|
| A view (`view.c`) | its lines, the pipe it reads from, cursor and window (`pos`), the position to return to (`prev_pos`), `vid` | begin_update, update_view, end_update; move, scroll, select; sort | git (a pipe), Display |
| Display (`display.c`, `view.c`, `tig.c`) | `display[2]`, `current_view`, the `prev` and `parent` links of all views | open_view, load_view, split_view, maximize_view; next, maximize, close, walk the parent | all views |
| Watches (`watch.c`) | a list of watches (triggers, changed, state); four handlers with timestamps; the time of the last update | register, apply, update, dirty, periodic | files of the repository, all views that refresh, the wait of get_input |
| Main view (`main.c`) | commits; which kinds of changes there are | open, read, Enter, refresh | watches, stage and status view |
| Status view (`status.c`) | the list of changed files, `show_untracked_only`, the cursor to restore | open, Enter, update (stage), revert, refresh | the index, stage and main view, watches |
| Stage view (`stage.c`) | `stage_status`, `stage_line_type`, a diff | open, read, update and revert of files, chunks, lines and parts, split | the index, its parent view, watches |
| Refs (`refdb.c`, `repo.c`) | tables of refs by name and by commit, `repo.head` | load_refs, read_ref, invalidate, clean up | watches, all views that show refs |
| Search (`search.c`) | the regular expression, the list of matching lines | search, next, previous, next merge | a view's lines |
| Prompt and keys (`prompt.c`, `keys.c`, `options.c`) | key maps, run requests, options, history | set, toggle, bind, exec; run a command | the current view, watches |
| Processes (`io.c`) | pipe, buffer | io_run, io_get, io_done | every view |
| Graph (`graph-v1.c`, `graph-v2.c`) | rows of columns, the colours in use | add a commit, its parents, render | main view |

What makes it hard:

- *Interleaving of loading with everything else.* Between two keys `update_view`
  appends lines, ends the load, or starts a follow-up command; the user may have
  moved the cursor, resized the terminal, hidden the view or reloaded it.
- *Links that outlive what they link.* `prev` and `parent` survive when a view
  leaves the screen; they are changed before it is known that a view can be loaded.
- *Mutual notification.* A view that reloads reports what it found; whoever
  knows better reloads and reports in turn. Marks are set on hidden views and
  looked at when they are shown again.
- *State named by something else.* Whether the stage view is up to date is
  decided by the name of the line that is selected in another view.
- *Repository and program drift apart.* Commands, editors and other processes
  change the index and the refs behind tig's back.

What each part has to guarantee:

- View: the cursor is on a line; loading restores it and takes it from the user only
  to where the load was asked to go; the loop of moving and scrolling cannot fail an assertion; loading ends.
- Display: the view with the focus is on the screen; a split shows two views; a
  child belongs to the view above it; closing ends by quitting.
- Watches and refreshing: a view that is out of date is marked; two views that
  disagree are about to agree; the reloading ends.
- Polling: no change a handler can see is used up before every view has been told,
  and with refresh-mode `periodic` each view hears of it within a bounded time.
- Stage view: requests act on the diff that is shown; a chunk, a part of it or a
  line is staged exactly, whatever has been staged or split before; and an old diff
  can do no harm beyond the lines it shows.
- Status view: what is staged, unstaged or reverted is what was selected, and the
  cursor goes on to the next file.
- Search: the nearest matching line (or merge) in the direction is found, in
  whatever order lines arrive, and no list of matches outlives its lines.
- Refs: after a load of all refs the valid refs are those git named, each commit's list is
  in order, and a change of what is drawn is reported.
- Graph: there is a lane for every commit that is still awaited and for no other,
  and every lane that goes on is drawn.

## 2. Modules

    ViewPosition ──> View ──> Search ──> MC_Search
                      └──> MC_View │
                                   ├──> View_proofs (of these and of Display)
    Display ───────────────────────┘
      │  └──> MC_Display
      └ INSTANCE in ─┐
    Watch ──────> Refresh ──> MC_Refresh, Refresh_proofs
      └─────> Polling ──> MC_Polling, Polling_proofs

    Patch ──> Staging ──> MC_Staging, Staging_proofs
    StatusList ──> MC_StatusList, StatusList_proofs

    GraphV2 ──> Graph ──> MC_Graph, Graph_proofs    Refdb ──> MC_Refdb, Refdb_proofs
      │           └ INSTANCE GraphV1
      └ INSTANCE GraphLanes (what both implement)

`──>` is EXTENDS (View_proofs, Graph_proofs, StatusList_proofs, Refdb_proofs and Staging_proofs
also extend `Rounds_proofs`, lemmas about loops). Display's Init, Next and Spec are called
ScreenInit, ScreenNext and ScreenSpec, as View_proofs extends it beside View.
Operators commented "Mutant" are the definition below them with a plausible
bug; they show that a property depends on the code and are used by nothing else.

### ViewPosition and View (`src/view.c`)

`ViewPosition` is the arithmetic: a position is a cursor line, the window's
first line (offset) and a column, and each operator is a function of view.c on
positions: `GotoViewLine`, `DoScrollView`, `MoveBy` (move_view with a number of
lines), `MoveSteps`, `ScrollView`, `RestoredPosition`. The assertions are
operators of their own (`DoScrollAsserts`, ...), so that a step can say whether
the process survives it. `MoveLines` is a closed form of the loop with which
scroll_view drags the cursor line by line; `MoveLinesIsTheLoop` compares the two, and is proved.

`View` is one view of that kind with its loading. Its variables are fields of
`struct view`, but for `arriving` (what the command has yet to print) and
`aborted`. Actions: the navigation requests, `Open`, `Reload` and `ReloadAtOnce`
(load_view, reload_view, and views that fill themselves in open()), `ReadLines`,
`ReadLastLines`, `ReadAndContinue`, `ReadError`, `ReadFails` (one call of update_view
with what it finds in the pipe, or a line the view's read() cannot take),
`StopLoading`, and the window: `Resize`, `Hide`, `Uncover`, `Reopen`, `Split`. What a
line says is left out.

The read() that a view gives to update_view adds lines, and in half of the views it
also moves the cursor or the window itself. `reader` says which of these the load is:

| `reader` | Views | What read() does |
|---|---|---|
| `adds` | log, refs, reflog, stash, grep, help | adds lines, nothing else |
| `jumps` | main | goes to the commit or the changes it was asked for when their line is added (`goto_id`, start-on-head, `goto_line_type`; main.c:103-109, 152-153) |
| `returns` | diff, stage, blame, blob | goes to the line it was asked for when the output ends (`diff_restore_line`, `goto_lineno`; stage.c:813) |
| `follows` | pager | scrolls with its output (pager-autoscroll; pager.c:140-141) |
| `descends` | tree | goes from the first line to the first entry when that is read |

`jumps` counts how often a load may still go where it was asked to; `Moved` and
`Asked` are the positions that read() may leave, before restore_view_position. A load
is ended by force with read(view, NULL), so `Begin` and `StopLoading` move the cursor too.

### Search (`src/search.c`, `sort_view` in `src/view.c`)

A view that is searched. The pattern is abstracted to the set `matching` of lines it
matches; `matched` is `view->matched_line`, the list that the first request makes
and later ones use again. Lines that are read belong to the pattern or not, as they
come; a reload and a new pattern drop the list, and so does nothing else.
`doubtful` is a history variable: the view was sorted, or read while it was hidden,
since the list was made (both keep an old list). `MergeDistances` is the loop of
find_next_merge_line over a distance and a modulus; its backward search without
wrapping ends one line short of the first. Every step of `SearchSpec` is one of View's.

### Display (`src/view.c`, `src/tig.c`, Enter keys in `main.c`, `pager.c`, ...)

The screen is a record: `base` and `child` are `display[0]` and `display[1]`,
`focus` is `current_view`, `prev` and `parent` are the links. Every way of
opening a view has an outcome (loaded, shown without loading, failed), since
open_view changes links before load_view can fail. `WalkParent` is
REQ_NEXT and REQ_PREVIOUS in a child, which move the parent's cursor and send
it REQ_ENTER whether or not it is on the screen. `StageRead` and
`StageReadNothing` are the only steps that are not a key: the stage view
maximizes its previous view when its diff turns out empty. `EnterNothing` and
`WalkToNothing` are lines of the status view that open no stage view. `Children`
says which view opens which in a split: the main view the status view, and that
one the stage view, so that a child is the parent of another split.

### Watch (`src/watch.c`)

Watches as pure operators on a function from views to `struct watch`: a trigger
is a kind of change with TRUE (there is some) or FALSE (there is none), `head`
and `refs` having only one. `Registered`, `Applied` (watch_apply_changes),
`NoRefresh` (watch_no_refresh), `Dirty` and `Cleaned` (watch_dirty, which tests
and clears at once).

### Refresh (`main.c`, `status.c`, `stage.c`, `log.c`, `display.c`, `prompt.c`)

The composition: four views over one repository. `index` counts the changes of
each kind; `tig` is the program as a record: the screen (of Display, whose
operators are used through `INSTANCE`), the watches, which views have lines, which
kinds each lists as present (`shown`), which have changed since it read them
(`behind`), and the globals of stage.c and status.c (`type` is
`stage_line_type`, `selected` is `argv_env.status`, `vid` and `held` are the name
and the real subject of the stage view's diff). `silent` is a history variable:
the last change has been reverted in the stage view and no view has been told since, by
the stage view (`Told`) or after a command.

Each request is one action, from the key to the next time a key can be read: the
handler, what it ends with (`StatusAfter`, `StageAfter`), and the round of
get_input that reloads marked views (`Input`). `Poll` is a further round with no
key pending. `RunCommand` is a run request with its command; `OutsideChange`
another process.

| Code | Here |
|---|---|
| `main_check_index`, `status_run`: `watch_apply` of what is there | `ReadBy` |
| `load_view`: `watch_update_single`, `watch_dirty`, open | `Viewed`, with `Checked` |
| `view_no_refresh`: `strcmp(view->vid, ops->id)` | `StageAnew` |
| `stage_exists`, and the end of `stage_request` | `StageAfter` |
| `main_status_exists` | `MainHas` after a `Reloaded` main view |
| `get_input`: dirty views, `load_refs` for the first | `Polled`, `PolledAll` |
| handlers that look at a file for the first time | `files` in `Init` |

`files`: HEAD and the branch share one timestamp in `watch_head_handler`, and the
directories of refs one in `watch_refs_handler`; the first look reports a change
exactly if a later file is newer than the first one. Which it is is chosen in
`Init`; commands of tig's own set the timestamps to now.

### Polling (`src/watch.c`, `get_input` in `src/display.c`, `load_view`)

What Refresh leaves out: time. `now` counts seconds, as `stat` and `time` do; files
(HEAD, the directory refs/heads, each branch) have the second of their last
change, and the handlers the time of their last look, one for all views. The
program is again one record, and each operator a function of the code on it:

| Code | Here |
|---|---|
| `watch_index_handler`, `watch_head_handler`, `watch_refs_handler`, `check_file_mtime` | `IndexLooked`, `HeadLooked`, `RefsLooked`, `Latest`, `Found` |
| `watch_update_event`, `watch_unchanged_triggers` | `LookedAt` with `Asked`, `Unmarked` |
| `watch_update`, `watch_update_single` | `Updated`, `Single` |
| `watch_periodic`, with the delay it returns | `Periodic` |
| a round of `get_input`, up to `wtimeout` | `Looped` |
| `load_view` on switching to a view | `Switched` |

A key is one action with the round of the loop that follows it; `Tick` lets a second
pass as long as wgetch would wait. `Checkout`, `Commit` and `Edit` are other
processes; a branch with a slash (`Nested`) has its file in a directory below, whose
time the handler does not look at. `untold` is a history variable: since when a
view has not been told of a change that a handler can see. A change is one that a
handler *can see* if the handler has looked before, in an earlier second. What it
cannot see is not promised by anyone: a change in the second of the last look (or of
a command, which sets all times to now), before the first look (which only takes the
baseline), a commit on a nested branch for `refs`.

### Patch and Staging (`src/stage.c`, with `status_update_file`, `diff_get_lineno`)

What Refresh abstracts to "the index changes", these two spell out. A file is a
sequence of numbered lines; that lines are distinct and keep their order between the
versions of a file makes the diff unique (`TypeOK` checks that the steps keep it
so; `Script` makes a diff of any two files, which is all the proofs need). In `Patch`, `Diff` and `GitApply` are git, as far as stage.c relies on it: a
diff with context, and a patch that is applied if its header counts its lines and
the lines it expects are there. The rest is stage.c:

| Code | Here |
|---|---|
| `stage_diff_write`, `stage_diff_done` | `BodyOf`, `BodyEnd` |
| `stage_diff_range_write` | `RangeWritten` |
| `stage_apply_line`, `stage_apply_part` | `PartHeader`, `PartFirst`, `PartLast` |
| `stage_apply_chunk` | `PatchFor`, and `UpdateChunk` with git's answer |
| `stage_split_chunk`, `stage_insert_chunk` | `StageSplitChunk`: `SplitStep` for each line in turn |
| `stage_update_files` from the main view | `UpdateFiles`: chunk by chunk, up to one that is refused |
| `stage_exists`, end of `stage_request` | `After` |

`Staging` has the index, the working tree, the view's lines and what git has yet to
print as variables. A revert is two steps, as in stage_revert: `AskRevert` finds the
chunk and asks (prompt_yesno), `StageRevert` or `AnswerNo` is the answer, and in between
get_input goes on: the view may be refreshed, more of its diff may be read, and other
programs change files. `asked` holds the line of the chunk, by its number, until the
line is freed (`Freed`: by a refresh, or when the lines move as more are read); what was that memory may
then be any chunk's line or none (`Outcomes`). `early` is a history variable: a chunk
was split before its end was read. `base` is a history variable: the state of the files when git
looked. Requests take any line as the cursor's, and are enabled while the diff is being
read. `EditFile` and `AddFile` are other programs. The properties quantify over
all lines and requests of each state: they say what a request would do there.
Left out: files that are new, deleted, renamed or unmerged, and wrapped lines.

### StatusList (`src/status.c`)

The status view's own list. A file has one of two contents or does not exist, in HEAD,
the index and the working tree; `Listed` is what status_run makes of it. `FileLines` is
the loop of status_run and `Restored` is status_restore, with its search downwards and then
upwards; `Update` is status_update with the cursor's move by one line (`MovedOn`) and the refresh after
it; `AskRevert`, `Revert`, `RevertFreed` and `AnswerNo` are the two halves of
status_revert around its question, between which the list may be read again and the
line it holds be freed; git may refuse an update or a checkout, after which nothing is
read again; `Exists` is status_exists, `Close` the end of a view of untracked
files when there are none. `Edit` and `Commit` are other
programs, so that lists are old.

### Refdb (`src/refdb.c`)

The table: entries by name, which are never freed but become invalid, the refs of
each commit in the order in which they are drawn, the entry of HEAD, and
`repo.head`. `Load` is one `load_refs(true)` over any repository that differs
from the last in HEAD and a bounded number of refs: the head's entry is moved
(`HeadLoaded`), all entries are invalidated, each line of `git show-ref` is added
(`Added`: the key a tag gets, the type, moving an entry from one commit's list
to another's, replacements), and `CleanedUp` takes their commit from the entries that
have stayed invalid. `LoadFails` is a load whose git show-ref cannot be run, after refs have
changed, and `LoadHead` is what REQ_REFRESH does in the status view (status.c:767-770):
`load_repo_head()` alone, which adds the branch that is checked out and invalidates
nothing. In each of them git rev-parse may fail (`Unresolved`: HEAD is taken for a commit). `last`
says what the last load has read. A repository may have
annotated tags, a tag and a branch of the same name, a detached HEAD and replaced
commits.

### GraphLanes, GraphV2, GraphV1 and Graph (`src/graph-v2.c`, `src/graph-v1.c`)

`GraphLanes` is the abstract specification: below each commit there is a lane for
each commit named as a parent above and not listed since. `GraphV2` is the new
graph: `NextRow` is the rewriting of the row (clearing the commit's columns, inserting
its parents, collapsing, filling holes), `Symbol` the twenty flags that
graph_generate_symbols takes from three rows, `Glyph` the cascade of questions that
chooses one of the glyphs, and the colours a table with use counts. `GraphV1` is the
old one, which rewrites one row in place. `Graph` draws both for the same history:
any sequence of listed commits in which parents come after their children, boundary
commits, and the rows of uncommitted changes that main.c puts above HEAD. The model
of the new graph gives the rows of all 21 expected outputs in `src/test/graph`, that
of the old one the rows which the compiled C file prints for 60 histories.

## 3. Runs

| Run | Checks | Shows |
|---|---|---|
| view_loading | PositionValid, RestoreIsPrompt, ReadKeepsUserPosition, RestoredAtEnd, CursorStaysVisible, LoadingEnds | loading, reloading, hiding and navigating in every order, with each kind of read() |
| view_navigation | NoAssertionFailure, MoveLinesIsTheLoop, ScrollKeepsRow, ListIsCurrent, NextIsNearest, MergeIsNearest | the arithmetic, on longer views in windows that change height, and searching |
| display | SplitShowsTwoViews, ChildBelongsToBase, ClosingQuits | the screen and the links: main, diff, status, stage, of which main opens the other three and status opens stage |
| display_pager | EnterNeverAsserts (violated) | finding 1 |
| refresh_settles | StaleIsMarked, RefreshingSettles | main, status and stage view while changes are staged and reverted and commands run: nothing out of date is unmarked, and the views do not keep each other busy |
| refresh_outside | StaleIsMarked, ViewsAgreeOrMarked | main, status and log views with commands that move HEAD and other processes that touch untracked files |
| polling | NothingUsedUp, ToldInTime | changes by others, keys, switches and commands in any second |
| staging | TypeOK, StagesExactly, OnlySelectedChange, AllIsStaged, LineNumbersRight | requests do what was selected, on current, incomplete and old diffs |
| status | CursorOnFile, WalkOn, OnlyTheSelected | the status view's list and cursor over old and new lists |
| status_freed | RevertsOnlyAsked (violated) | finding 2 |
| refdb | TableIsGit, ListsAreTable, HeadKnown, ChangesReported | any sequence of loads of all refs, of HEAD alone and of loads that fail, also with git rev-parse failing |
| graph | TypeOK, ColorsOfLanes, ImplementsLanes, LanesDrawn, OldAwaitsNoOther, OldOverwrittenByMerge | both graphs over every short history |

### Exceptions that properties name

Where the code does not keep what one would expect, the property says for which cases it
speaks, and the case it leaves out is a fact about the code:

- ReadKeepsUserPosition and RestoredAtEnd: a load that was asked to go to a line goes there
  when the line is added (main) or at the end (diff, stage, blame, blob), even if the
  user has moved meanwhile; and the pager that scrolls with its output takes along
  a cursor that would leave the window at the top.
- CursorStaysVisible speaks of steps that keep the height: after a resize the cursor can be
  outside its window (see below).
- ChildBelongsToBase: a child that fails to load anew stays in the lower window without a
  parent, and the view its Enter key opens links to it, not to the view above
  (view.c:890 clears the link before the view is known to load).
- StagesExactly: the part of a chunk that is still being read; and the last part of a chunk
  that was split before its end was read or that the header of another file follows,
  as stage_split_chunk counts up to the next chunk header or the last line read
  (`Miscounted`); and chunks with a line about a missing end of line.
- CursorOnFile: status_exists, asked by the stage view for a section that has files,
  leaves the cursor on the section's first line (`SelectsSection`).
- OnlySelectedChange: between the files of a diff, what stage_update takes to be selected is the last
  chunk above the cursor, another file's perhaps; see the end of Findings.
- StagesExactly speaks of a revert whose chunk is still in the view when the answer comes. If the line
  has been freed meanwhile another chunk may be reverted, as in finding 2.
- HeadKnown: after HEAD alone has been read there may be two entries of type head (the
  branch left behind keeps the type), and it speaks only of HEAD on a branch with a commit:
  otherwise `get_ref_head` goes on answering with the old branch; see the end of Findings.
- ListIsCurrent: a sort, and lines that are read while the view is hidden (update_view
  only tells search of lines in a view that is shown), keep the old list.
- MergeIsNearest: backwards without wrapping, line 0 is never looked at (search.c:186).
- WalkOn: a file that is staged in part, or a view of untracked files only, makes the
  cursor skip a file; staging a whole section leaves it in the list of staged ones.
- OnlyTheSelected: the contents may be wrong ones. Unstaging writes the mode and id of the
  last listing, even if HEAD has moved since.
- StaleIsMarked: after a revert the other views are told when the next diff of the stage
  view has been read and is empty; between the two, and for good if the view is left
  before, nobody is (`silent`).
- StaleIsMarked and ViewsAgreeOrMarked speak of refresh-mode auto without a past in which
  changes were not told: after `:set refresh-mode = auto` from manual the views show
  what they showed, unmarked (the assumption `AutoIsKept` of the proofs). And toggling
  show-untracked reloads the main view only if it is on the screen (prompt.c), so a hidden
  one keeps showing untracked files, unmarked (`ToggleIsOutside`).
- RefreshingSettles: two cases in which it fails are outside its run, and it does not catch
  them: show-untracked switched off beside a status view (two views reload each other), and
  refresh-mode switched to manual (a mark that nothing clears). Both are under Findings.
- ChangesReported speaks of loads of all refs; what reading HEAD alone changes is told to nobody
  then, and is reported by the next such load. The end of a replacement is not reported if HEAD is not. In fact HEAD is
  reported at every reload (refs_head is set to NULL before it is compared), and as
  deleted and annotated refs are found "changed" by each load, so is WATCH_REFS: changes
  are reported too often, never too rarely.
- TableIsGit: the invalid entry of a deleted branch keeps the prefix on a later tag of
  the same name; a replacement takes the first ref out of its commit's list.
- NothingUsedUp and ToldInTime speak of changes a handler can see (see Polling).
- OldOverwrittenByMerge: in the old graph a merge writes its parents over lanes on its
  right, which are lost; `doc/tigrc.5.adoc:494` calls it "less accurate". 
- LanesDrawn speaks of the new graph's lines from a row to the next. A lane that has been moved
  to the left, because a lane beside it ended, can have a gap: below a row
  that awaits 4, 5, 4, 4 the commit 4 is drawn as a dot, a blank, a horizontal bar and a
  turn to the left, and nothing goes down to the lane of 5 (`Moved`). Nor does it where a
  later parent of a merge gets a lane in a column that another ends in. Horizontal lines
  can have gaps too, and where a merge ends several lanes while a parent waits further
  right, a dangling lane is drawn.

### Bounds, and why they are enough

- view_loading: at most 2 lines from a command after at most one the view adds
  itself, windows of 1 and 2 rows, one follow-up command, every kind of read(), and one
  line to go to for each load (17,432 states). A restored position is
  before, at or behind the end of the new output; a window is smaller than the
  view or not. More lines add distances, not cases; the arithmetic for those is in
  view_navigation with 6 lines and windows of 1, 2 and 4 rows (half pages of 0, 1
  and 2, pages that do and do not divide the length) and a pager that scrolls, and the
  theorems hold for every length. Searching is on views of up to 3 lines there: before, at and after
  the cursor (62,520 states); the theorems have no such bound.
- display: four views, of which one is a child that has a child of its own and
  one is the stage view; every view may fail to load. Longer chains of `prev` and
  rings of three and four views occur (52,056 states). That the main view can itself be a child, of the
  refs view, is left to the theorems, which cover it. display_pager: the two views it takes.
- refresh_settles, refresh_outside: one kind of change and three views. Presence of one
  kind is what watches compare; the kinds are independent in watch.c. `MaxChanges = 1`
  change of a kind: there are some or none. That one file's changes are gone while others
  of the kind remain is a choice in `StageAfter`. (535,038 and 96,796 states.)
- polling: two views of which one has both refs and index, two branches of which one is
  nested, an interval of 2 seconds, 7 seconds, 2 changes by others. The bound
  `3 * Interval - 2` is reached: an update, a key just before the next is due,
  which makes the wait almost two intervals long, and a change right after the first. 509,152
  states. The theorems hold for any interval, time and number of changes.
- staging: two files; the first has an edit and an addition in one chunk, with
  unchanged lines in between so that it can be split, or a removal and an addition
  in two chunks; the second only an addition. Context of one line: more of it would merge the
  chunks. Two changes by tig or other programs bring about a diff that is old, a
  chunk that is partly staged, and one staged after another (69,376 states). The files
  end with an end of line (see the hazards for those that do not).
- status, status_freed: three files, so that there is one before and one after the cursor's in a
  section, contents that exist or do not, one change by others (41,882 states).
- refdb: two branches and a tag that has the name of one, two commits, annotated tags, HEAD on either branch,
  on none or detached; before each load one ref or HEAD may change, and between two full loads there may be one that
  reads HEAD alone or fails (44,468 states). Two of those in a row, several changes at once and
  replaced commits are in the proofs, which bound none of them.
- graph: five commits of up to two parents, the smallest history in which a lane moves
  left over a merge; two colours, so that lanes have to share one (113,657 states).
  It is also too small for the gaps of moved lanes, which take six commits with three
  parents or seven with two: the proof of LanesDrawn led there. Parents are distinct, as git makes them.

CHECK_DEADLOCK is off in graph, where git's list of commits ends, and in polling, where time
does (`MaxTime`). Elsewhere it is on: `Terminated` is the process that is gone, and
`Idle` in Staging a repository without changes, for which there is no stage view.

### Fairness

- `View!FairSpec`: weak fairness of a read that makes progress. get_input
  polls without a delay while a view has a pipe (`update_views`), and git's
  output ends. No fairness of any key.
- `Display!ClosingSpec`: the user keeps pressing `q`. It is an assumption about
  the user, needed to say that closing ends.
- `Refresh!FairSpec`: weak fairness of the loop's own steps (`Background`): a
  marked view on the screen makes the delay 0, so that the loop comes round
  without a key. No key and no other process is fair; RefreshingSettles only
  speaks of behaviours in which these come to an end.
- Polling needs none: that views are told *in time* is a safety property, as time cannot
  pass the second in which wgetch returns.

### Findings

1. *A request to a hidden pager view aborts.* The diff view's parent is walked
   when it is not on the screen; pager_request calls functions that assert it is.
2. *Another file is reverted.* status_revert holds a line of its view while it asks; a
   refresh, which get_input does while it waits for the answer, frees it.

The models show more, which have no run of their own:

- *Another chunk is reverted.* stage_revert holds the line of a chunk while it asks, and goes on
  with it (stage.c:299-305) after a refresh has freed or a read has moved the lines (`Freed` and `Outcomes` in Staging).
- *HEAD is not where it was.* Refreshing the status view reads HEAD alone (status.c:769), and takes notice
  only of a branch that has a commit: after `git checkout --detach` elsewhere, or a switch to a
  new branch without a commit, `get_ref_head` goes on answering with the old branch
  until all refs are loaded (`LoadHead` in Refdb).
- *The wrong file is staged.* On the header of the second file, stage_update finds
  the first file's last chunk above the cursor and stages it, while
  `doc/manual.adoc:391` says that there all changes of the diff are staged (`ChunkOf` in Patch).
- *A child becomes a previous view.* open_view knows a child by its parent link, which an
  open_view that failed to load has cleared (the exception of ChildBelongsToBase).
- *Two views reload each other for ever.* With show-untracked off, the main view
  reports that there are no untracked files, without having looked
  (WATCH_INDEX_UNTRACKED_NO in main.c). A status view beside it knows better and
  says so. (`doc/tigrc.5.adoc:399`; Refresh with `MayToggle` and FairSpec.)
- *The stage view shows another diff than was asked for.* A reload while another
  line is selected names the old diff after the new line; entering that line
  then loads nothing (`vid` and `held` in Refresh). Steps: in the status view, Enter on a
  staged file, back, move to an unstaged one, refresh in the stage view, Enter.
- *Splitting runs into the next file.* stage_split_chunk only stops at the next chunk
  header; in a diff of several files it makes a chunk, with wrong counts, that begins
  before the next file's header. The second chunk of a file without a final end of line
  is miscounted likewise (`test/stage/split-chunk-test` shows `@@ -8,4 +8,1 @@` for it).
- *New commits with old refs.* A view that is reloaded because the user switches to it
  (view.c:808) takes its mark away, and the handler's time with it, without load_refs, which
  only get_input and REQ_REFRESH do; the refs drawn stay old until the next change.
- *Waiting grows.* watch_periodic adds the time since the last update where it should subtract
  it (watch.c:286), so that an update is up to 3 * Interval - 2 seconds late instead of
  one interval (`doc/tigrc.5.adoc:405`).
- After the window has shrunk above the cursor, REQ_MOVE_DOWN can move the cursor up:
  `resize_display` leaves the position alone, move_view scrolls by the distance it moved
  and do_scroll_view pulls the cursor to the last row.
- After `:set refresh-mode = manual` a marked view that is shown keeps update_views
  "loading": the keyboard is polled without pause and a script stops (`NewModes`).
- Unlike stage_update, stage_revert leaves telling the others to the next, empty diff;
  closing the view before it is read loses it (`silent`).
- sort_view loops for ever if the only sortable column is an ID that is not displayed.
- With no file in the list, status_restore ends on the first line, which its comment
  says is always skipped.

## 4. Proofs

| Module | Theorems | For every |
|---|---|---|
| View_proofs | InvariantHolds, TypeCorrect, PositionAlwaysValid, NeverAborts, AlwaysRestoresPromptly, ReadingKeepsCursor, EndsRestored, ScrollingKeepsRow, CursorAlwaysStaysVisible, MoveLinesAlwaysTheLoop | length of output, window height, kind of read(), bound |
| View_proofs (Search) | SearchImplementsView, ListAlwaysCurrent, NextAlwaysNearest, MergeAlwaysNearest | the same, and pattern and set of merges |
| View_proofs (Display) | ScreensStaySound, ScreenTypeCorrect, FocusAlwaysDisplayed, SplitsShowTwoViews, ChildrenBelongToBase | set of views with orderly Enter keys |
| Polling_proofs | StaysSound, TypeCorrect, NothingEverUsedUp, AlwaysToldInTime | views, branches, interval, number of changes and modes that watch |
| Refresh_proofs | RefreshKeepsTypes, StaleViewsAreMarked, ViewsAgree | choice of views, kinds of change, commands, changes by others |
| Staging_proofs | AlwaysTyped, AlwaysOnlySelected, PatchOfSelected, OnlyPatchedLines, AlwaysLineNumbersRight, ShownLeads, SplitLeads | files, their contents and edits, context, slices in which a diff is read |
| StatusList_proofs | InvariantHolds, TypeCorrect, CursorFindsFile, UpdateWalksOn, SelectedOnly | number of files, contents, changes by others |
| Refdb_proofs | LoadsHold, TableFollowsGit, ListsFollowTable, HeadFollowsGit, LoadsReport | refs, names, commits, replacements, number of refs that move at a time and of loads that do not read all |
| Graph_proofs | RowsWithoutHoles, GraphKeepsItsLanes, ColorsAreOfLanes, LanesAlwaysDrawn, OldGraphAwaitsNoOther, OldLanesLostUnderMerges | number of commits, of parents and of colours |

*View.* `IInv` is `TypeOK /\ Valid(pos, lines) /\ ~aborted`, where `Valid(p, n)` says
that p is a position, not above its window, and on one of n lines, or at the top if
n = 0. PositionValid alone is not inductive: it has no types, and whether an
assertion fails depends on the position being valid before the step. Nothing is
needed about the cursor being in its window, and rightly so: it may not be
(after a resize), and the assertions hold all the same. The lemmas about ViewPosition say
of each operator that it takes valid positions to valid ones and that its assertions hold on
the way; they rest on two facts about distances, that move_view's and scroll_view's
cuts keep the target inside the view. Then one lemma per group of actions shows
that IInv is kept. The only assumption is `ViewAssumption`, the types of the constants, with
windows of at least one row; on a terminal so small that a window has none, the
code aborts elsewhere (an assertion in draw.c), which is not modelled.

*View's steps.* Action properties from that invariant: what each operator of
ViewPosition does to a cursor that is visible. ScrollingKeepsRow is the hardest: scroll_view
first drags the cursor along line by line and then undoes part of it. MoveLinesAlwaysTheLoop
justifies the closed form for that dragging. ReadingKeepsCursor goes through each position a
read() may leave: a jump ends on a line that was not there before or above the last one that was
(`AskedIsAdded`), the pager's scrolling ends at or before the end of what has been read
(`FollowedIs`), the tree's step happens only with the cursor at the origin (`MovedCases`); and
restore_view_position leaves what it finds away from the origin alone. The loop is a recursive function: the
closed form satisfies its equation (`LoopedIsMoveLines`), so there is such a function, and two
of them would differ first at some round, where they cannot (`EveryRound`).

*Search.* Every step with searching is a step of View or a stutter of it (SearchImplementsView),
so View's invariant says where the cursor is. The rest is arithmetic: the least number of
a set exists because `<` is well-founded on the naturals (the library's
theorem, no induction of our own), and a distance modulo the number of lines is the line
it should be.

*Display.* The inductive invariant says more than the properties: a view's parent is one
whose Enter key opens it, the child of a split is in its base's set and links to the base, or to
the view that was the child before it and had lost its parent (`FromOrphan`). It needs
`Orderly`: no view opens itself by its Enter key, and a view that is opened by such a key and has
one is either the main view, which the refs view opens and nothing else, or one that the
main view opens, and whose own children the main view opens too (main.c:570-571 opens the status view, status.c:504 the
stage view). That is what the code has without the
grep view, which splits the screen while it is hidden (then SplitShowsTwoViews fails, see
the hazards) and is assumed away. In the chain of main, status and stage the stage view may take the
place of the status view in the lower window; the links are right because split_view and
open_view go by the parent of the view that opens, and not by what is on the screen.

*Polling.* A program *owes* a view a change that `untold` has. It is `Sound` if each debt is
not yet marked in a view that has registered for it, is not older than the last update,
and will be found by the handler or is among the changes found so far (`Owed`). The handlers
keep a program sound one after another (`LookedAtIsSound`), telling pays for what was
found, an update pays all debts (`UpdatedIsSound`), and the loop then waits until at most
3 * Interval - 2 after the update (`InTime`); time cannot pass that second, so no debt is older.
NothingUsedUp is not inductive without the registration: load_refs changes the branch whose file
the handler looks at, and only the views that are told of the new HEAD make up for it. The
assumption `Watching` says that the mode is `periodic` or `auto`; in the others tig does not look.

*Refresh.* While a handler runs, kinds have changed that nobody has been told of yet, and a
view has lost its mark because it is about to be reloaded. `Sound(t, i, Q, U)` says of a
program t over an index i that every view shows what there is or is marked, and that the
main and the status view agree or one is marked, the kinds of Q and the views of U left
out. Each part of a handler makes Q or U smaller or leaves them: loading a view tells the
others what it reports and takes the view out of U (`OpenedIsSound`), marking
harms nothing (`MoreMarkedIsSound`), a command's marks empty Q (`CommandedIsSound`), the
end of each status and stage request empties it of the kinds of the index
(`StatusAfterIsFine`, `ToldIsSound`). What remains between two keys is what has been reverted
silently: `IInv` is Sound with that Q and no U, together with what the argument needs of
the screen (the current view is one, and a status view that lists nothing but untracked
files was opened by the main view). Sound contains the two facts about watches
that make the marks reliable and that neither property mentions: a loaded view has
registered for what it shows, and the state it remembers says of the index only what it
shows, so that it never takes news for its own (`Says`). Two assumptions are stated with
the theorems. `AutoIsKept`: the user does not come to refresh-mode auto from a mode that
does not tell (manual, after-command), as the views may be out of date by then.
`ToggleIsOutside`: if show-untracked may be toggled, untracked files count among what
others change; a main view that is not on the screen is not reloaded. TLC finds
StaleIsMarked violated without either; with them the theorems hold for any combination
of views, where the runs have three views and one kind of change. The proof found
what the runs had not: in an earlier form of the property, where reading any diff to its end
ended the exception for reverts, two kinds of change at once violate it.

*Staging.* OnlySelectedChange holds in each state by itself, whatever the diff is a diff of:
the view may be old, end anywhere, and its headers count wrongly. The invariant (`Typed`) says only
that the files are sequences of numbered lines and that the view and what git has yet to print consist of
lines. The argument has two halves. The changes in the patch are among those selected
(PatchOfSelected): stage_diff_range_write turns a change outside its range into context or leaves it out
(`WrittenLines`), and the range that stage_apply_part finds around a change consists of changes only
(`PartIsChanges`). And git, if it accepts a patch at all, replaces what the patch expects in
the file by what it leads to, and both contain the same context, so that only lines the
patch removes go and only lines it adds come (OnlyPatchedLines). That the types are kept is
the longer part: what git prints for two files (`DiffLines`), the parts of a chunk that is
split (`SplitLines`) and a request on all chunks (`FilesUpdated`) are loops, which are followed
by rounds. The assumptions are the types of the constants and a context of at least one line.
A line that a patch both adds and removes (one that was moved) may stay or go: the
property, like the theorem, speaks of sets of lines; their order is StagesExactly's.

A question that waits for its answer is about a chunk header the view still has, or about a
whole file, or about a line known to be freed (`AskedInView`, part of AlwaysTyped). That other
chunks are not reverted is no theorem, as it is false.

LineNumbersRight needs to know what the lines of the view are. A *place* (`Places`) says which file
the lines below are of, whether they are in a chunk, and which lines of the old and the new file come
next; a line of a diff is right at a place if the files have it there, and moves to the place below
it (`Moves`). The inductive invariant, `Mapped`, says that the lines of the view and those
still to be read lead from place to place (`Leads`) through the files that git diff looked at (`base`).
It is made by reading again: the script of a diff goes through both files line by line, whatever
they contain (`ScriptTells`), so that its parts, its chunks and the diffs of all the files lead on from
where their headers say (`ShownLeads`). It is kept by splitting: at every line of the loop of
stage_split_chunk the counts so far are the distance from where the current part begins, and
between the last unchanged lines and the next change both files advance alike, which is why
the header of the next part may be computed backwards from them (`SplitAt`, `DoneSplits`, `SplitLeads`).
That diff_get_lineno counts along such a path, up to the first line about a missing end of
line, is `NumbersOfPath`. Nothing is assumed of the files: their lines need not be
distinct, nor in the same order.

*StatusList.* The invariant (`IInv`) does not say that the list is the repository's, as it may be
old, but that it is that of *some* repository (`Tells`): each line with a file is the one
status_run makes for it, below the first line of its section. That, and no_files_staged
agreeing with the list (`ListOK`), is all the properties need: that the files which an update of a
section takes are those of that section (SelectedOnly) follows by going up from each to
the first line. UpdateWalksOn is the hard one. The loop of status_run, run before and
after the update, adds the same lines in the same order but for one file (`FileLinesLose`, by
rounds), and the sections below the staged one move by the line that the file gets there, or
by none if it takes the place of "(no files)" (`BaseMoves`); together this is what
status_update adds to the cursor. The theorem would be false without the hypothesis of the property that
no other section lists the file, and the proof shows where: the staged section would not grow.

*Graph.* Each row of the new graph is a sequence of columns that the code's loops rewrite. The
loops are recursive functions here, and as the prover has no induction over data, what they
compute is proved by looking at the least round, or the rightmost column, at which the claim
would fail (`EveryRound`, `RoundsExist`, `ChainExists`). From what each loop does to the
set of awaited commits follows that a row has no holes (`RowsOK`), that its commits are
those of GraphLanes, step by step, and, for the colours, that the counts of the
table are exact and its entries those of the row (`ColorsOK`). Of the old graph the proofs
follow the single row it rewrites in place: it awaits nothing that the new one does not
(`OldAwaits`), and a lane goes missing only among those a merge writes its parents
over. LanesAlwaysDrawn relates the glyphs to the rows. A lane that goes on has a leftmost
column, which no loop moves and in which the symbol is continued down and not shifted, so that
the first of the seventeen questions that applies is one of those with a line down
(`LeftmostHasLine`); the first parent takes the column of the commit (`FirstParentBelow`)
and the others the columns behind the row, if no second column was freed (`InsertedAtEnd`). An
earlier form of the property claimed this of all lanes. The proof failed where the
column had come from the right, and a larger instance showed the gap; what `Moved` leaves out
is what the proof could not do without. The assumptions are those on the constants: a number of commits, and at least one colour.

*Refdb.* A load of all refs starts from whatever the table was, of which the proof needs no more
than its types: all entries are made invalid first. So the inductive invariant is the properties
themselves with those types, and the work is in one load, a loop over the lines of git
show-ref (`RefCourse`). Its lines list every ref there is, the commit of an annotated tag after
the tag's own object, and the tags after all others (`LinesDescribe`). After n lines the valid
entries stand for the last lines of their refs (`Track`). What makes that inductive is
that a line has one key (`OneKey`): a tag that has kept its prefix must go on keeping it
(`NotBoth`), although the code asks the table again at each line whether a branch has that name,
and no branch comes after a tag. The lists are a matter of sequences: an entry that is
taken off the list of its old commit and put before the first that does not come before
it leaves all lists in order (`StoredRight`), because only its own place depends on its type.
A load that fails leaves no valid entry and no list (`FailureHolds`). Reading HEAD alone is one
line added to any table whose lists are in order (`LoadHeadHolds`): that is enough for the lists, and
for the head if a branch is checked out, as the entry stored is that branch's, and nothing
more is claimed. ChangesReported survives it because a load of all refs sets refs_head to NULL before it
compares.
`Clear` restricts the first three theorems to what the properties are about, repositories
without replaced commits and without a branch that has a remote branch's name; LoadsReport
needs no such restriction. The assumption is `RefsAssumption`: refs are of the three kinds and
have numbers as names.

Only model-checked: the liveness properties (LoadingEnds, ClosingQuits, RefreshingSettles;
fairness is beyond the proof system) and, of Staging, what says exactly which lines a request
leaves and in which order (StagesExactly, AllIsStaged) with the order they rest on (TypeOK).
These are about the place where git finds the lines of a patch, which is
unique only as long as the lines of each file are distinct and in one order. For which
contents every sequence of requests and edits keeps that is a question about the contents,
and the assumptions on the constants leave them free; the runs check it for theirs.

## 5. What is not modelled, and why

Left out for good: drawing, colours, wording and layout; the vendored libraries
(the larger part of the lines of C here: secp256k1 with its tables, utf8proc), cryptography
and encodings; `nostril`, which builds one event from its options with library calls;
build, packaging and scripts. `PROJECT.json` lists every component with its status.

Simplified in the modules, where the code is:

- View: a read jumps at most once for each batch of lines. The main view drops the last line if
  it has no author (main.c:427-433); a stage view whose diff turns out empty
  is hidden by StageReadNothing's maximizing, which is ReadLastLines and Hide here. Going back in the main view
  (main.c:604-606) sets a remembered position as it is, without looking whether there is such a line.
- Polling: git diff is assumed to work when the index handler polls; if index_diff fails,
  watch.c:118-120 falls back to the time of the index file.
- Staging: memory that has been freed is taken for some chunk's line or for none that git would
  accept; that reading it may crash is left out, here and in StatusList.
- Refdb: git rev-parse fails as a whole or not at all; a load whose git show-ref stops half way, after
  some lines, is not there.

Left for whoever extends this:

- *The history of positions*: push_view_history_state (view.c:394) keeps
  the old position when the same state is pushed again, so that "back" in a blame view can
  return to an earlier line.
- *io_get*: a record splitter over a buffer that grows; View takes lines as they come.
- *Key maps* (prefixes of sequences of keys, rebinding), *options* (parsing, `:toggle`,
  `:set`), *argv formats*: tables and string substitution, with little state.
- The contents of tree, diff, pager, reflog, stash, grep and help views, beyond their part on the
  screen; unmerged and renamed files, the merge tool and untracked directories in the status
  view; files without a final end of line in Staging.
- The stash handler, tags and packed refs in Polling; the tracked remote branch in Refdb.
