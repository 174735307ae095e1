--------------------------------- MODULE Refdb ---------------------------------
(***************************************************************************)
(* The table of refs (src/refdb.c): refs_by_name, whose entries are never  *)
(* freed, refs_by_id, the refs of a commit in the order they are drawn,    *)
(* and refs_head.  Every load invalidates all entries and adds again what  *)
(* `git show-ref --head --dereference' lists.  Refreshing the status view  *)
(* only reads where HEAD is and adds its branch to what is there.          *)
(* Names are numbers, in the order in which git sorts them.                *)
(***************************************************************************)
EXTENDS Naturals, Sequences, FiniteSets, Functions, SequencesExt

CONSTANTS Refs,        \* the refs git may have: <<kind, name>>
          Replaceable, \* the commits that `git replace' may replace
          NNames,      \* bound: names are 1 .. NNames
          NCommits,    \* bound: commits are 1 .. NCommits
          MaxMoved,    \* bound: refs that change between two loads
          MaxPartial   \* bound: loads in a row that do not read all refs

Kinds == {"heads", "remotes", "tags"}

ASSUME RefsAssumption ==
  /\ NNames \in Nat /\ NCommits \in Nat /\ MaxMoved \in Nat /\ MaxPartial \in Nat
  /\ Replaceable \subseteq 1 .. NCommits
  /\ Refs \subseteq Kinds \X (1 .. NNames)

VARIABLES git,     \* what git has: [refs, annotated, replaced, head, detached]
          table,   \* refs_by_name, refs_by_id, refs_head, repo.head and opt->changed
          last,    \* history: what the last load has read
          clear,   \* history: what the lists were made of was Clear
          partial  \* bound: loads since all refs were read

vars == <<git, table, last, clear, partial>>

NoId == 0
NoName == 0            \* repo.head of a HEAD that is no branch
Commits == 1 .. NCommits
TagObject(c) == NCommits + c
NoKey == <<"", 0>>
Detached == <<"HEAD", 0>>

(***************************************************************************)
(* What git has, and the lines in which it lists it.  refs[r] is the       *)
(* commit r leads to or NoId; head is the name of the branch HEAD leads    *)
(* to, or NoName, when HEAD is the commit detached.                        *)
(***************************************************************************)
Repositories ==
  {g \in [refs : [Refs -> 0 .. NCommits], annotated : SUBSET {r \in Refs : r[1] = "tags"},
          replaced : SUBSET Replaceable, head : {r[2] : r \in {s \in Refs : s[1] = "heads"}} \cup {NoName},
          detached : 0 .. NCommits] :
     /\ (g.head = NoName) = (g.detached # NoId)
     /\ \A r \in g.annotated : g.refs[r] # NoId}

HeadId(g) == IF g.head = NoName THEN g.detached ELSE g.refs[<<"heads", g.head>>]

Line(kind, name, id, peeled) == [kind |-> kind, name |-> name, id |-> id, peeled |-> peeled]

\* git show-ref --dereference: the object of an annotated tag and the commit.
Listed(g, r) ==
  IF r \notin Refs \/ g.refs[r] = NoId THEN <<>>
  ELSE IF r \in g.annotated
  THEN <<Line(r[1], r[2], TagObject(g.refs[r]), FALSE), Line(r[1], r[2], g.refs[r], TRUE)>>
  ELSE <<Line(r[1], r[2], g.refs[r], FALSE)>>

\* All refs of a kind, by name.
ListedAll(g, kind) ==
  LET listed[n \in 0 .. NNames] ==
        IF n = 0 THEN <<>> ELSE listed[n - 1] \o Listed(g, <<kind, n>>)
  IN  listed[NNames]

ReplaceLines(g) ==
  LET listed[c \in 0 .. NCommits] ==
        IF c = 0 THEN <<>>
        ELSE IF c \in g.replaced THEN Append(listed[c - 1], Line("replace", c, NoId, FALSE))
        ELSE listed[c - 1]
  IN  listed[NCommits]

Lines(g) ==
  (IF HeadId(g) = NoId THEN <<>> ELSE <<Line("HEAD", 0, HeadId(g), FALSE)>>)
    \o ListedAll(g, "heads") \o ListedAll(g, "remotes") \o ReplaceLines(g) \o ListedAll(g, "tags")

(***************************************************************************)
(* The table.  ref has the entries of refs_by_name and, until the next     *)
(* load, those made for a replaced commit; list is refs_by_id.             *)
(***************************************************************************)
Rank == [head |-> 1, branch |-> 3, remote |-> 6, tag |-> 7, localTag |-> 8, replace |-> 9]
Types == DOMAIN Rank

Entry(id, type, valid) == [id |-> id, type |-> type, valid |-> valid]
EmptyTable ==
  [ref |-> [k \in {} |-> Entry(NoId, "head", FALSE)], list |-> [c \in {} |-> <<>>],
   head |-> NoKey, current |-> NoName, changed |-> {}]

IsTag(entry) == entry.type \in {"tag", "localTag"}
ListOf(t, id) == IF id \in DOMAIN t.list THEN t.list[id] ELSE <<>>

\* A map with one key more or changed, and one with a key less.
With(f, k, v) == [x \in DOMAIN f \cup {k} |-> IF x = k THEN v ELSE f[x]]
Without(f, k) == Restrict(f, DOMAIN f \ {k})
WithList(t, id, keys) ==
  [t EXCEPT !.list = IF keys = <<>> THEN Without(@, id) ELSE With(@, id, keys)]

\* ref_compare
RefBefore(t, k, l) ==
  LET rk == Rank[t.ref[k].type]
      rl == Rank[t.ref[l].type]
  IN rk < rl \/ (rk = rl /\ k[2] <= l[2])

\* remove_ref_from_id_map, and the first loop of add_ref_to_id_map
TakenOff(l, k) == IF k \in Range(l) THEN RemoveAt(l, CHOOSE i \in DOMAIN l : l[i] = k) ELSE l
Unlisted(t, k) == LET id == t.ref[k].id IN WithList(t, id, TakenOff(ListOf(t, id), k))

\* add_ref_to_id_map: before the first that does not come before it.
PutInto(t, l, k) ==
  LET after == {i \in DOMAIN l : RefBefore(t, k, l[i])}
  IN  InsertAt(l, CHOOSE i \in after \cup {Len(l) + 1} : \A j \in after : i <= j, k)
Inserted(t, k) ==
  LET id == t.ref[k].id IN WithList(t, id, PutInto(t, TakenOff(ListOf(t, id), k), k))

\* Mutant: a tag always loses its prefix.
KeyAlwaysShort(t, line) == IF line.kind = "HEAD" THEN Detached ELSE <<"", line.name>>

\* The prefix of a tag stays if there is a branch of that name.
KeyOf(t, line) ==
  LET short == <<"", line.name>>
  IN IF line.kind = "HEAD" THEN Detached
     ELSE IF line.kind = "tags" /\ short \in DOMAIN t.ref /\ ~IsTag(t.ref[short])
     THEN <<"refs/tags/", line.name>>
     ELSE short

TypeOf(line, current) ==
  CASE line.kind = "HEAD" -> "head"
    [] line.kind = "heads" -> IF line.name = current THEN "head" ELSE "branch"
    [] line.kind = "remotes" -> "remote"
    [] line.kind = "tags" -> IF line.peeled THEN "tag" ELSE "localTag"

\* Mutant: a ref with a new id is not taken off the list of its old one.
StoredTwice(t, k, id, type) ==
  LET old == IF k \in DOMAIN t.ref THEN t.ref[k] ELSE Entry(NoId, "head", FALSE)
  IN Inserted([t EXCEPT
                 !.ref = With(@, k, Entry(id, type, TRUE)),
                 !.head = IF type = "head" THEN k ELSE @,
                 !.changed = @ \cup (IF old.id # id \/ old.type # type THEN {"refs"} ELSE {})
                                \cup (IF type = "head" /\ t.head # k THEN {"head"} ELSE {})], k)

\* The end of add_to_refs, for the entry of key k.
Stored(t, k, id, type) ==
  LET old == IF k \in DOMAIN t.ref THEN t.ref[k] ELSE Entry(NoId, "head", FALSE)
      new == [t EXCEPT !.ref = With(@, k, old)]
      differs == old.id # id \/ old.type # type
      unlisted == IF differs /\ old.id # NoId THEN Unlisted(new, k) ELSE new
  IN Inserted([unlisted EXCEPT
                 !.ref = With(@, k, Entry(id, type, TRUE)),
                 !.head = IF type = "head" THEN k ELSE @,
                 !.changed = @ \cup (IF differs THEN {"refs"} ELSE {})
                                \cup (IF type = "head" /\ t.head # k THEN {"head"} ELSE {})], k)

\* A commit that is replaced takes the first ref that leads to it, with the
\* whole list, or an entry of its own.
Replaced(t, c) ==
  LET k == IF ListOf(t, c) = <<>> THEN <<"replaced", c>> ELSE t.list[c][1]
  IN Stored([t EXCEPT !.list = Without(@, c)], k, c, "replace")

\* add_to_refs
Added(t, line) ==
  IF line.kind = "HEAD" /\ t.current # NoName THEN t
  ELSE IF line.kind = "replace" THEN Replaced(t, line.name)
  ELSE Stored(t, KeyOf(t, line), line.id, TypeOf(line, t.current))

\* Mutant: the branch that is checked out is not added at once.
HeadOnlyNamed(t, g) ==
  [t EXCEPT !.current = IF g.head # NoName /\ HeadId(g) # NoId THEN g.head ELSE NoName]

\* load_repo_head: read_repo_info adds the branch that is checked out at
\* once; what has changed by that is not reported.
HeadLoaded(t, g) ==
  LET born == g.head # NoName /\ HeadId(g) # NoId
      now == [t EXCEPT !.current = IF born THEN g.head ELSE NoName]
  IN IF born
     THEN [Added(now, Line("heads", g.head, HeadId(g), FALSE)) EXCEPT !.changed = t.changed]
     ELSE now

\* Mutant: refs_head is kept to be compared with.
InvalidatedButHead(t) ==
  [t EXCEPT !.list = [c \in {} |-> <<>>],
            !.ref = [k \in {l \in DOMAIN t.ref : l[1] # "replaced"} |-> [t.ref[k] EXCEPT !.valid = FALSE]]]

\* string_map_clear and invalidate_refs
Invalidated(t) ==
  [t EXCEPT !.head = NoKey, !.list = [c \in {} |-> <<>>],
            !.ref = [k \in {l \in DOMAIN t.ref : l[1] # "replaced"} |-> [t.ref[k] EXCEPT !.valid = FALSE]]]

\* cleanup_refs
CleanedUp(t) ==
  [t EXCEPT !.ref = [k \in DOMAIN t.ref |-> IF t.ref[k].valid THEN t.ref[k] ELSE [t.ref[k] EXCEPT !.id = NoId]],
            !.changed = @ \cup (IF \E k \in DOMAIN t.ref : ~t.ref[k].valid THEN {"refs"} ELSE {})]

\* reload_refs up to running git, and the rest of it.
Begun(t, g) ==
  LET loaded == HeadLoaded([t EXCEPT !.changed = {}], g)
  IN Invalidated([loaded EXCEPT !.changed = IF loaded.current # t.current THEN {"head"} ELSE {}])

Reloaded(t, g) ==
  LET lines == Lines(g)
      after[n \in 0 .. Len(lines)] ==
        IF n = 0 THEN Begun(t, g) ELSE Added(after[n - 1], lines[n])
  IN  CleanedUp(after[Len(lines)])

(***************************************************************************)
(* The actions.  Refs may have changed before any load.                    *)
(***************************************************************************)
Valid(t) == {k \in DOMAIN t.ref : t.ref[k].valid}
Drawn(t) == [list |-> t.list, type |-> [k \in Valid(t) |-> t.ref[k].type], head |-> t.head]

\* A branch named like a remote one shares its entry, and a commit that is
\* replaced loses its list: the properties are about the rest.
Shadowed(g) ==
  {r \in Refs : /\ r[1] = "heads" /\ g.refs[r] # NoId
                /\ <<"remotes", r[2]>> \in Refs /\ g.refs[<<"remotes", r[2]>>] # NoId}
Clear(g) == g.replaced = {} /\ Shadowed(g) = {}

Loads == {"all refs", "nothing", "HEAD"}

\* If git rev-parse fails, HEAD is taken for a commit.
Unresolved(g) ==
  IF HeadId(g) = NoId THEN g ELSE [g EXCEPT !.head = NoName, !.detached = HeadId(g)]

Seen(g) == {g, Unresolved(g)}

Init ==
  /\ git \in Repositories
  /\ table = Reloaded(EmptyTable, git)
  /\ last = "all refs"
  /\ clear = Clear(git)
  /\ partial = 0

\* Somebody changes refs, HEAD or what is replaced.
Moved(g) ==
  /\ Cardinality({r \in Refs : g.refs[r] # git.refs[r]})
       + (IF g.head # git.head \/ g.detached # git.detached THEN 1 ELSE 0)
       + (IF g.replaced # git.replaced THEN 1 ELSE 0) <= MaxMoved
  /\ git' = g

Partial == partial < MaxPartial /\ partial' = partial + 1

\* load_refs(true).  watch_apply tells the views of what is in changed.
Load(g) ==
  /\ Moved(g)
  /\ \E seen \in Seen(g) : table' = Reloaded(table, seen)
  /\ last' = "all refs"
  /\ clear' = Clear(g)
  /\ partial' = 0

\* A load whose git show-ref cannot be run: io_run_load fails.
LoadFails(g) ==
  /\ Moved(g)
  /\ \E seen \in Seen(g) : table' = Begun(table, seen)
  /\ last' = "nothing"
  /\ clear' = TRUE
  /\ Partial

\* REQ_REFRESH in the status view: load_repo_head alone, of which nobody is told.
LoadHead(g) ==
  /\ Moved(g)
  /\ \E seen \in Seen(g) : table' = [HeadLoaded(table, seen) EXCEPT !.changed = {}]
  /\ last' = "HEAD"
  /\ UNCHANGED clear
  /\ Partial

Next == \E g \in Repositories : Load(g) \/ LoadFails(g) \/ LoadHead(g)

Spec == Init /\ [][Next]_vars
-------------------------------------------------------------------------------
KindOf(type) ==
  CASE type \in {"head", "branch"} -> "heads"
    [] type = "remote" -> "remotes"
    [] type \in {"tag", "localTag"} -> "tags"
    [] OTHER -> "other"

\* Whatever the loads before it have left in the table, after a load of all
\* refs the valid entries are the refs git has, each with the commit it leads
\* to: no tag takes the entry of a branch of the same name, no annotated tag
\* keeps the id of its object, and nothing that was deleted stays.
TableIsGit ==
  last = "all refs" /\ Clear(git) =>
    {<<KindOf(table.ref[k].type), k[2], table.ref[k].id>> : k \in Valid(table) \ {Detached}}
      = {<<r[1], r[2], git.refs[r]>> : r \in {s \in Refs : git.refs[s] # NoId}}

\* The refs drawn beside a commit are the valid entries with its id, each
\* once and in the order of their types and names, also when a ref has moved
\* or changed its type within a load, when a load has failed, and when HEAD
\* alone has been read.
ListsAreTable ==
  clear =>
  \A id \in 1 .. 2 * NCommits :
    LET l == ListOf(table, id)
    IN /\ Range(l) = {k \in Valid(table) : table.ref[k].id = id}
       /\ \A i, j \in DOMAIN l : i < j => l[i] # l[j] /\ RefBefore(table, l[i], l[j])

\* refs_head is a valid entry that leads to where git's HEAD does.
HeadRight ==
  /\ (table.head = NoKey) = (HeadId(git) = NoId)
  /\ table.head # NoKey => table.head \in Valid(table) /\ table.ref[table.head].id = HeadId(git)

\* get_ref_head answers with the one entry of type head, and it leads to
\* where git's HEAD does: after a switch, a commit, a detached HEAD, with no
\* commit at all, and when git rev-parse has failed.  Where HEAD alone has
\* been read, the answer is right if a branch is checked out, but there may
\* be more entries of type head.
HeadKnown ==
  /\ last = "all refs" /\ Clear(git) =>
       HeadRight /\ \A k \in Valid(table) : table.ref[k].type = "head" => k = table.head
  /\ last = "HEAD" /\ table.current # NoName => HeadRight

\* No load of all refs changes what the views draw of them without a report.
\* load_repo_head, then or earlier, has already moved the entry of the branch
\* that is checked out when the load compares, so this hangs on the report of
\* a new HEAD.  (Without a HEAD, the end of a replacement is not reported.)
ChangesReported ==
  [][last' = "all refs" /\ HeadId(git') # NoId /\ Drawn(table') # Drawn(table)
        => table'.changed # {}]_vars
===============================================================================
