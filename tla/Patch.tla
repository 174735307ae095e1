------------------------------- MODULE Patch -------------------------------
(***************************************************************************)
(* Diffs as the stage view holds them, and the patches stage.c makes of    *)
(* them: a chunk, part of a chunk or a single line, for git apply.         *)
(*                                                                         *)
(* A file is a sequence of lines.  A line is an integer; a negative one is *)
(* a last line without an end of line.  The lines of a file are distinct,  *)
(* and no two files have two of their lines in a different order, so that  *)
(* there is only one diff between them.                                    *)
(***************************************************************************)
EXTENDS Integers, Sequences, FiniteSets, SequencesExt

CONSTANT Context  \* opt_diff_context: unchanged lines around a change

ASSUME ContextAssumption == Context \in Nat \ {0}

(***************************************************************************)
(* A line of the view: of the header of a file, a chunk header, or a line  *)
(* of a chunk's body.                                                      *)
(***************************************************************************)
HeaderKinds == <<"header", "index", "old", "new">>
HeaderOf(file) == [n \in 1..4 |-> [kind |-> HeaderKinds[n], file |-> file]]

Body(kind, text) == [kind |-> kind, text |-> text]

\* The line's first character, by which stage_split_chunk tells lines apart.
First(line) ==
  CASE line.kind = "chunk" -> "@"
    [] line.kind = "noeol" -> "\\"
    [] line.kind = "ctx" -> " "
    [] line.kind \in {"del", "old"} -> "-"
    [] line.kind \in {"add", "new"} -> "+"
    [] OTHER -> "d"

IsChange(line) == line.kind \in {"del", "add"}

Count(lines, kinds) == Cardinality({i \in DOMAIN lines : lines[i].kind \in kinds})
OldLines(lines) == Count(lines, {"ctx", "del"})
NewLines(lines) == Count(lines, {"ctx", "add"})

-----------------------------------------------------------------------------
(***************************************************************************)
(* git diff.  The script that makes new of old goes through both: what the *)
(* rest of the new file lacks is removed, then what comes before the next  *)
(* line of both is added.  Each part of it knows the next lines of the     *)
(* files, old and new.                                                     *)
(***************************************************************************)
Abs(n) == IF n < 0 THEN -n ELSE n

ScriptStep(old, new, s) ==
  LET goes == s.old <= Len(old) /\ \A n \in s.new .. Len(new) : new[n] # old[s.old]
      stays == s.old <= Len(old) /\ s.new <= Len(new) /\ old[s.old] = new[s.new]
      comes == ~goes /\ ~stays /\ s.new <= Len(new)
      Part(kind, n) == [kind |-> kind, line |-> n, old |-> s.old, new |-> s.new]
  IN  CASE goes -> [script |-> Append(s.script, Part("del", old[s.old])),
                    old |-> s.old + 1, new |-> s.new]
        [] comes -> [script |-> Append(s.script, Part("add", new[s.new])),
                     old |-> s.old, new |-> s.new + 1]
        [] stays -> [script |-> Append(s.script, Part("ctx", old[s.old])),
                     old |-> s.old + 1, new |-> s.new + 1]
        [] OTHER -> s

Script(old, new) ==
  LET rounds == Len(old) + Len(new)
      after[n \in 0 .. rounds] ==
        IF n = 0 THEN [script |-> <<>>, old |-> 1, new |-> 1]
        ELSE ScriptStep(old, new, after[n - 1])
  IN  after[rounds].script

Printed(part) ==
  <<Body(part.kind, Abs(part.line))>>
    \o (IF part.line < 0 THEN <<[kind |-> "noeol"]>> ELSE <<>>)

\* The chunk of the parts from..to of a script.
ChunkAt(script, from, to) ==
  LET Position(next, count) == IF count = 0 THEN next - 1 ELSE next
      olines == Cardinality({i \in from .. to : script[i].kind # "add"})
      nlines == Cardinality({i \in from .. to : script[i].kind # "del"})
  IN  <<[kind |-> "chunk",
         opos |-> Position(script[from].old, olines), olines |-> olines,
         npos |-> Position(script[from].new, nlines), nlines |-> nlines]>>
        \o FlattenSeq([i \in 1 .. to - from + 1 |-> Printed(script[from + i - 1])])

\* The parts that are no further than Context from a change.
ShownParts(script) ==
  {i \in DOMAIN script : \E j \in DOMAIN script : IsChange(script[j]) /\ Abs(i - j) <= Context}

Chunks(script) ==
  LET shown == ShownParts(script)
      EndOf(i) == Min({j \in i .. Len(script) : j + 1 \notin shown})
  IN  FlattenSeq([i \in DOMAIN script |->
        IF i \in shown /\ i - 1 \notin shown THEN ChunkAt(script, i, EndOf(i)) ELSE <<>>])

Diff(file, old, new) ==
  IF old = new THEN <<>> ELSE HeaderOf(file) \o Chunks(Script(old, new))

(***************************************************************************)
(* git apply, with --cached to the index and with -R reversed: it reads as *)
(* many lines as the chunk header says, replaces the lines the chunk       *)
(* expects by those it leads to, and refuses when the patch ends too early *)
(* or the expected lines are not there.                                    *)
(***************************************************************************)
Refused == [ok |-> FALSE, file |-> <<>>]

Unprinted(lines, kinds) ==
  LET Text(i) == IF i < Len(lines) /\ lines[i + 1].kind = "noeol"
                   THEN -lines[i].text ELSE lines[i].text
  IN  FlattenSeq([i \in DOMAIN lines |->
        IF lines[i].kind \in kinds THEN <<Text(i)>> ELSE <<>>])

Read(patch) ==
  LET whole == {n \in 0 .. Len(patch.body) :
                  /\ OldLines(SubSeq(patch.body, 1, n)) = patch.header.olines
                  /\ NewLines(SubSeq(patch.body, 1, n)) = patch.header.nlines}
  IN  IF whole = {} THEN <<>> ELSE SubSeq(patch.body, 1, Max(whole))

\* The lines from become to, where they first are.
Applied(file, from, to, position, atEnd) ==
  LET places == {i \in 1 .. Len(file) - Len(from) + 1 :
                   /\ SubSeq(file, i, i + Len(from) - 1) = from
                   /\ position <= 1 => i = 1
                   /\ atEnd => i + Len(from) - 1 = Len(file)}
  IN  IF places = {} THEN Refused
      ELSE [ok |-> TRUE, file |-> ReplaceSubSeqAt(Min(places), to, from, file)]

GitApply(patch, file) ==
  LET lines == Read(patch)
      old == Unprinted(lines, {"ctx", "del"})
      new == Unprinted(lines, {"ctx", "add"})
      atEnd == lines[Len(lines)].kind # "ctx"
  IN  IF lines = <<>> THEN Refused
      ELSE IF patch.reverse THEN Applied(file, new, old, patch.header.npos, atEnd)
      ELSE Applied(file, old, new, patch.header.opos, atEnd)

-----------------------------------------------------------------------------
(***************************************************************************)
(* Finding one's way in the view.                                          *)
(***************************************************************************)
PrevOfKind(view, line, kind) == Max({0} \cup {i \in 1 .. line : view[i].kind = kind})

ChunkOf(view, line) == PrevOfKind(view, line, "chunk")

FileOf(view, line) == view[PrevOfKind(view, line, "header")].file

\* stage_diff_done: the last line of the body that starts after chunk.
BodyEnd(view, chunk) ==
  Min({i \in chunk .. Len(view) :
         i = Len(view) \/ view[i + 1].kind \in {"chunk", "header"}})

BodyOf(view, chunk) == SubSeq(view, chunk + 1, BodyEnd(view, chunk))

\* diff_get_lineno
DiffGetLineno(view, line, old) ==
  LET header == PrevOfKind(view, line, "header")
      chunk == ChunkOf(view, line)
      skipped == IF old THEN "add" ELSE "del"
  IN  IF header = 0 \/ chunk < header THEN 0
      ELSE (IF old THEN view[chunk].opos ELSE view[chunk].npos)
             + Cardinality({i \in chunk + 1 .. line - 1 : view[i].kind # skipped})

-----------------------------------------------------------------------------
(***************************************************************************)
(* stage_diff_range_write: the body of a patch that makes only the changes *)
(* of the lines first..last.  What the other changes would remove stays as *)
(* context, what they would add is left out.                               *)
(***************************************************************************)
RangeWritten(view, staged, chunk, first, last) ==
  LET asNormal == IF staged THEN "add" ELSE "del"
      ignored == IF staged THEN "del" ELSE "add"
      Written(i) ==
        CASE i \in first .. last -> <<view[i]>>
          [] i \notin first .. last /\ view[i].kind = asNormal -> <<Body("ctx", view[i].text)>>
          [] i \notin first .. last /\ view[i].kind = ignored -> <<>>
          [] OTHER -> <<view[i]>>
  IN  FlattenSeq([n \in 1 .. BodyEnd(view, chunk) - chunk |-> Written(chunk + n)])

\* The header for a patch that adds diff lines more than it removes.
PartHeader(header, staged, diff) ==
  IF staged THEN [header EXCEPT !.olines = header.nlines - diff]
            ELSE [header EXCEPT !.nlines = header.olines + diff]

\* Mutant: unchanged lines do not start a new part.
PartFirstOfChunk(view, line) ==
  Min({i \in ChunkOf(view, line) + 1 .. line : IsChange(view[i])})

\* stage_apply_part: where the changes around a line begin and end.
PartFirst(view, line) ==
  Min({i \in ChunkOf(view, line) + 1 .. line : \A j \in i .. line - 1 : IsChange(view[j])})

PartLast(view, line) ==
  LET first == PartFirst(view, line)
  IN  Max({first} \cup {i \in first .. Len(view) :
         \A j \in first .. i : IsChange(view[j]) \/ view[j].kind = "noeol"})

Updates == {"single", "part", "normal"}

(***************************************************************************)
(* stage_apply_chunk: the patch for the chunk above line.                  *)
(***************************************************************************)
PatchFor(view, line, staged, revert, update) ==
  LET chunk == ChunkOf(view, line)
      first == IF update = "single" THEN line ELSE PartFirst(view, line)
      last == IF update = "single" THEN line ELSE PartLast(view, line)
      chosen == SubSeq(view, first, last)
      diff == Count(chosen, {"add"}) - Count(chosen, {"del"})
      reverse == revert \/ staged
  IN  IF update = "normal"
      THEN [header |-> view[chunk], body |-> BodyOf(view, chunk), reverse |-> reverse]
      ELSE [header |-> PartHeader(view[chunk], staged, diff),
            body |-> RangeWritten(view, staged, chunk, first, last), reverse |-> reverse]

-----------------------------------------------------------------------------
\* Mutant: the second chunk starts after the shared lines.
NextHeaderAfter(header, shared) ==
  [kind |-> "chunk", opos |-> header.opos + header.olines, olines |-> shared,
                     npos |-> header.npos + header.nlines, nlines |-> shared]

\* Mutant: the shared lines are not counted.
NextHeaderUncounted(header, shared) ==
  [kind |-> "chunk", opos |-> header.opos + header.olines - shared, olines |-> 0,
                     npos |-> header.npos + header.nlines - shared, nlines |-> 0]

\* The header of a chunk that begins with the last lines of the one before.
NextHeader(header, shared) ==
  [kind |-> "chunk", opos |-> header.opos + header.olines - shared, olines |-> shared,
                     npos |-> header.npos + header.nlines - shared, nlines |-> shared]

(***************************************************************************)
(* stage_split_chunk: a new chunk starts at the first change after         *)
(* unchanged lines; these end one chunk and begin the next.  The loop goes *)
(* on until the next chunk header or a line about a missing end of line.   *)
(***************************************************************************)
SplitStep(view, state, i) ==
  LET char == First(view[i])
      cut == state.changed # 0 /\ state.changed < state.unchanged
      shared == i - state.unchanged
      done == IF ~cut THEN state
              ELSE [parts |-> Append(state.parts,
                      [header |-> state.header, from |-> state.from, to |-> i - 1]),
                    header |-> NextHeader(state.header, shared),
                    from |-> state.unchanged, changed |-> 0, unchanged |-> 0]
  IN  CASE char = " " ->
             [state EXCEPT !.header.olines = @ + 1, !.header.nlines = @ + 1,
                           !.unchanged = IF @ < state.changed THEN i ELSE @]
        [] char = "-" -> [done EXCEPT !.header.olines = @ + 1, !.changed = i]
        [] char = "+" -> [done EXCEPT !.header.nlines = @ + 1, !.changed = i]
        [] OTHER -> done

StageSplitChunk(view, chunk) ==
  LET stop == Min({i \in chunk + 1 .. Len(view) + 1 :
                     i > Len(view) \/ First(view[i]) \in {"@", "\\"}})
      start == [parts |-> <<>>, header |-> [view[chunk] EXCEPT !.olines = 0, !.nlines = 0],
                from |-> chunk + 1, changed |-> 0, unchanged |-> 0]
      after[n \in 0 .. stop - chunk - 1] ==
        IF n = 0 THEN start ELSE SplitStep(view, after[n - 1], chunk + n)
      state == after[stop - chunk - 1]
      Part(p) == <<p.header>> \o SubSeq(view, p.from, p.to)
  IN  IF state.parts = <<>> THEN view
      ELSE SubSeq(view, 1, chunk - 1)
             \o FlattenSeq([n \in DOMAIN state.parts |-> Part(state.parts[n])])
             \o Part([header |-> state.header, from |-> state.from, to |-> Len(view)])
=============================================================================
