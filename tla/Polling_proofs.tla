----------------------------- MODULE Polling_proofs -----------------------------
(***************************************************************************)
(* For any views, branches and interval: no handler uses up a change that  *)
(* some view has not been told of, and with refresh-mode periodic every    *)
(* view is told within three intervals.                                    *)
(*                                                                         *)
(* The argument is about programs (the variable tig).  A program owes a    *)
(* view a change if the view has not been told of it; it is sound if the   *)
(* handlers will find whatever it owes, or have found it and are about to  *)
(* tell.  Every operator of Polling makes a sound program of a sound one,  *)
(* an update pays all debts, and the loop has one made in time.            *)
(***************************************************************************)
EXTENDS Polling, TLAPS

\* The modes in which tig looks at files by itself.  In the others views stay as
\* they are until a command or the user has them reloaded, and load_refs takes a
\* new head without telling them.
Watching == PollModes \subseteq {"periodic", "auto"}

\* What t owes is neither marked in the view, which has registered for it, nor
\* older than the last update; and it will be found, or is among the changes.
Owed(t, changed) ==
  \A v \in Views, k \in Kinds : t.untold[v][k] # Never =>
    /\ TriggersOf({k}) \subseteq t.watch[v].triggers
    /\ TriggersOf({k}) \cap t.watch[v].changed = {}
    /\ t.update <= t.untold[v][k] /\ t.untold[v][k] <= now
    /\ WillBeFound(t, k) \/ TriggersOf({k}) \cap changed # {}

\* A view that has been loaded has registered for its kinds.
Registers(t) == \A v \in t.loaded : t.watch[v].triggers = TriggersOf(KindsOf(v))

Sound(t, changed) ==
  t \in Tig /\ Registers(t) /\ t.update <= now /\ Owed(t, changed)

\* get_input does not wait longer than this.
InTime(t) ==
  t.mode = "periodic" => now <= t.wake /\ t.wake <= t.update + 3 * Interval - 2

IInv ==
  /\ now \in Time
  /\ repo \in Repositories
  /\ \A f \in Files : repo.mtime[f] <= now
  /\ Sound(tig, {})
  /\ InTime(tig)

\* What the lemmas know of the time and the repository.
Here == now \in Time /\ repo \in Repositories /\ \A f \in Files : repo.mtime[f] <= now

-------------------------------------------------------------------------------
(* Triggers and modes.                                                     *)

LEMMA TimeIsNatural ==
  Time \subseteq Nat \ {0} /\ 1 \in Time /\ 2 \in Time
BY PollingAssumption DEF Time

LEMMA SeenIsNatural ==
  {Never} \cup Time \subseteq Nat
BY TimeIsNatural DEF Never

LEMMA KindHasTriggers ==
  ASSUME NEW k \in Kinds
  PROVE  /\ TriggersOf({k}) # {}
         /\ \A kinds : k \in kinds => TriggersOf({k}) \subseteq TriggersOf(kinds)
<1>1. <<k, TRUE>> \in Triggers
  BY DEF Kinds, Triggers, IndexTriggers, RefTriggers
<1>2. <<k, TRUE>> \in TriggersOf({k})
  BY <1>1 DEF TriggersOf
<1>3. QED
  BY <1>2 DEF TriggersOf

LEMMA AlwaysRefreshes ==
  ASSUME Watching, NEW t \in Tig, NEW event
  PROVE  NoRefresh(t.mode, event) = FALSE
<1>1. t.mode \in {"periodic", "auto"}
  BY DEF Watching, Tig
<1>2. QED
  BY <1>1 DEF NoRefresh

LEMMA KindsAre ==
  /\ IndexKinds \subseteq {"unstaged"} /\ RefKinds \subseteq {"head", "refs"}
  /\ Kinds \subseteq {"unstaged", "head", "refs"}
  /\ \A v \in Views : KindsOf(v) \subseteq Kinds
BY PollingAssumption, WatchAssumption DEF Kinds, KindsOf

-------------------------------------------------------------------------------
(* Telling the views.                                                      *)

\* What watch_apply_changes makes of a watch.
LEMMA AppliedWatch ==
  ASSUME NEW w \in [Views -> Watches], NEW mode, NEW event, NEW source,
         NEW changed \in SUBSET Triggers, ~NoRefresh(mode, event)
  PROVE  LET a == Applied(w, mode, event, source, changed)
         IN  /\ a \in [Views -> Watches]
             /\ \A v \in Views :
                  /\ a[v].triggers = w[v].triggers
                  /\ event # "after-command" \/ v = source =>
                       a[v].changed \subseteq w[v].changed \cup changed
<1> DEFINE heard(v) == changed \cap w[v].triggers
           after(v) ==
             CASE v = source -> [w[v] EXCEPT !.state = @ \cup heard(v)]
               [] v # source /\ event = "after-command" ->
                    [w[v] EXCEPT !.state = {}, !.changed = @ \cup w[v].triggers]
               [] OTHER -> [w[v] EXCEPT !.changed = @ \cup heard(v)]
<1>1. Applied(w, mode, event, source, changed) = [v \in Views |-> after(v)]
  BY DEF Applied
<1>2. ASSUME NEW v \in Views
      PROVE  /\ after(v) \in Watches /\ after(v).triggers = w[v].triggers
             /\ event # "after-command" \/ v = source =>
                  after(v).changed \subseteq w[v].changed \cup changed
  <2>1. w[v] \in Watches
    OBVIOUS
  <2>2. CASE v = source
    BY <2>1, <2>2 DEF Watches
  <2>3. CASE v # source /\ event = "after-command"
    BY <2>1, <2>3 DEF Watches
  <2>4. CASE v # source /\ event # "after-command"
    BY <2>1, <2>4 DEF Watches
  <2>5. QED
    BY <2>2, <2>3, <2>4
<1> HIDE DEF after
<1>3. QED
  BY <1>1, <1>2

\* m differs from t in its watches and what it has not told only.
OnlyTold(t, m) ==
  /\ m.mode = t.mode /\ m.view = t.view /\ m.loaded = t.loaded /\ m.ahead = t.ahead
  /\ m.head = t.head /\ m.diff = t.diff /\ m.looked = t.looked
  /\ m.headSeen = t.headSeen /\ m.refsSeen = t.refsSeen
  /\ m.update = t.update /\ m.wake = t.wake

\* What is known of the program m that has told the views.
Marking(t, m, event, source, changed) ==
  /\ m \in Tig /\ OnlyTold(t, m)
  /\ \A v \in Views :
       /\ m.watch[v].triggers = t.watch[v].triggers
       /\ event # "after-command" \/ v = source =>
            m.watch[v].changed \subseteq t.watch[v].changed \cup changed
  /\ \A v \in Views, k \in Kinds :
       m.untold[v][k] =
         IF /\ v # source
            /\ event = "after-command" \/ TriggersOf({k}) \cap changed # {}
         THEN Never ELSE t.untold[v][k]

LEMMA MarkedIs ==
  ASSUME Watching, NEW t \in Tig, NEW event, NEW source,
         NEW changed \in SUBSET Triggers,
         NEW m, m = Marked(t, event, source, changed)
  PROVE  Marking(t, m, event, source, changed)
<1> DEFINE a == Applied(t.watch, t.mode, event, source, changed)
           told(v, k) == /\ v # source /\ ~NoRefresh(t.mode, event)
                         /\ event = "after-command" \/ TriggersOf({k}) \cap changed # {}
           untold == [v \in Views |-> [k \in Kinds |->
                        IF told(v, k) THEN Never ELSE t.untold[v][k]]]
<1>1. ~NoRefresh(t.mode, event)
  BY AlwaysRefreshes
<1>2. /\ t.watch \in [Views -> Watches]
      /\ t.untold \in [Views -> [Kinds -> {Never} \cup Time]]
  BY DEF Tig
<1>3. m = [t EXCEPT !.watch = a, !.untold = untold]
  BY DEF Marked
<1>4. /\ a \in [Views -> Watches]
      /\ \A v \in Views :
           /\ a[v].triggers = t.watch[v].triggers
           /\ event # "after-command" \/ v = source =>
                a[v].changed \subseteq t.watch[v].changed \cup changed
  BY <1>1, <1>2, AppliedWatch
<1>5. untold \in [Views -> [Kinds -> {Never} \cup Time]]
  BY <1>2
<1>6. \A v \in Views, k \in Kinds :
        untold[v][k] = IF told(v, k) THEN Never ELSE t.untold[v][k]
  OBVIOUS
<1> HIDE DEF a, untold
<1>7. m \in Tig /\ m.watch = a /\ m.untold = untold /\ OnlyTold(t, m)
  BY <1>3, <1>4, <1>5 DEF Tig, OnlyTold
<1>8. QED
  BY <1>1, <1>4, <1>6, <1>7 DEF Marking

\* Telling the views of what has been found pays for it.
LEMMA MarkedIsSound ==
  ASSUME Watching, NEW t, NEW event, NEW source,
         NEW changed \in SUBSET Triggers,
         Sound(t, changed),
         source \in Views => \A k \in Kinds : t.untold[source][k] = Never,
         event # "after-command",
         NEW m, m = Marked(t, event, source, changed)
  PROVE  Sound(m, {})
<1>1. t \in Tig /\ Marking(t, m, event, source, changed)
  BY MarkedIs DEF Sound
<1>2. ASSUME NEW v \in Views, NEW k \in Kinds, m.untold[v][k] # Never
      PROVE  /\ TriggersOf({k}) \subseteq m.watch[v].triggers
             /\ TriggersOf({k}) \cap m.watch[v].changed = {}
             /\ m.update <= m.untold[v][k] /\ m.untold[v][k] <= now
             /\ WillBeFound(m, k)
  <2>1. /\ TriggersOf({k}) \cap changed = {}
        /\ m.untold[v][k] = t.untold[v][k] /\ t.untold[v][k] # Never
    <3>1. CASE v = source
      BY <1>1, <1>2, <3>1 DEF Marking
    <3>2. CASE v # source
      BY <1>1, <1>2, <3>2 DEF Marking
    <3>3. QED
      BY <3>1, <3>2
  <2>2. /\ TriggersOf({k}) \subseteq t.watch[v].triggers
        /\ TriggersOf({k}) \cap t.watch[v].changed = {}
        /\ t.update <= t.untold[v][k] /\ t.untold[v][k] <= now
        /\ WillBeFound(t, k)
    BY <2>1 DEF Sound, Owed
  <2>3. OnlyTold(t, m)
    BY <1>1 DEF Marking
  <2>4. WillBeFound(m, k)
    BY <2>2, <2>3 DEF WillBeFound, OnlyTold
  <2>5. /\ m.watch[v].triggers = t.watch[v].triggers
        /\ m.watch[v].changed \subseteq t.watch[v].changed \cup changed
    BY <1>1 DEF Marking
  <2>6. m.update = t.update
    BY <2>3 DEF OnlyTold
  <2>7. QED
    BY <2>1, <2>2, <2>4, <2>5, <2>6
<1>3. m \in Tig /\ m.update = t.update /\ m.loaded = t.loaded
  BY <1>1 DEF Marking, OnlyTold
<1>4. Registers(m)
  <2>1. t.loaded \subseteq Views
    BY <1>1 DEF Tig
  <2>2. QED
    BY <1>1, <1>3, <2>1 DEF Sound, Registers, Marking
<1>5. QED
  <2>1. Owed(m, {})
    BY <1>2 DEF Owed
  <2>2. QED
    BY <1>3, <1>4, <2>1 DEF Sound

\* Clearing a mark leaves no debt behind.
LEMMA CleanedIsSound ==
  ASSUME NEW t, NEW v \in Views, NEW changed, Sound(t, changed)
  PROVE  LET c == [t EXCEPT !.watch = Cleaned(@, v)]
         IN  Sound(c, changed) /\ OnlyTold(t, c) /\ c.untold = t.untold
<1> DEFINE w == Cleaned(t.watch, v)
           c == [t EXCEPT !.watch = w]
<1>1. t \in Tig /\ t.watch \in [Views -> Watches]
  BY DEF Sound, Tig
<1>2. /\ w \in [Views -> Watches]
      /\ \A u \in Views : /\ w[u].triggers = t.watch[u].triggers
                          /\ w[u].changed \subseteq t.watch[u].changed
  BY <1>1 DEF Cleaned, Watches
<1> HIDE DEF w
<1>3. c \in Tig /\ c.watch = w /\ c.untold = t.untold /\ OnlyTold(t, c)
  BY <1>1, <1>2 DEF Tig, OnlyTold
<1> HIDE DEF c
<1>4. \A k : WillBeFound(c, k) <=> WillBeFound(t, k)
  BY <1>3 DEF WillBeFound, OnlyTold
<1>5. c.update = t.update
  BY <1>3 DEF OnlyTold
<1>6. ASSUME NEW u \in Views, NEW k \in Kinds, c.untold[u][k] # Never
      PROVE  /\ TriggersOf({k}) \subseteq c.watch[u].triggers
             /\ TriggersOf({k}) \cap c.watch[u].changed = {}
             /\ c.update <= c.untold[u][k] /\ c.untold[u][k] <= now
             /\ WillBeFound(c, k) \/ TriggersOf({k}) \cap changed # {}
  <2>1. /\ TriggersOf({k}) \subseteq t.watch[u].triggers
        /\ TriggersOf({k}) \cap t.watch[u].changed = {}
        /\ t.update <= t.untold[u][k] /\ t.untold[u][k] <= now
        /\ WillBeFound(t, k) \/ TriggersOf({k}) \cap changed # {}
    BY <1>3, <1>6 DEF Sound, Owed
  <2>2. /\ w[u].triggers = t.watch[u].triggers
        /\ w[u].changed \subseteq t.watch[u].changed
    BY <1>2
  <2>3. QED
    BY <1>3, <1>4, <1>5, <2>1, <2>2
<1>7. Sound(c, changed)
  <2>1. Owed(c, changed)
    BY <1>6 DEF Owed
  <2>2. c.loaded = t.loaded /\ t.loaded \subseteq Views
    BY <1>1, <1>3 DEF OnlyTold, Tig
  <2>3. Registers(c)
    BY <1>2, <1>3, <2>2 DEF Registers, Sound
  <2>4. QED
    BY <1>3, <1>5, <2>1, <2>3 DEF Sound
<1>8. QED
  BY <1>3, <1>7 DEF c, w

-------------------------------------------------------------------------------
(* The handlers.                                                           *)

\* u differs from t in what the handlers remember only.
OnlyLooked(t, u) ==
  /\ u.mode = t.mode /\ u.view = t.view /\ u.loaded = t.loaded /\ u.ahead = t.ahead
  /\ u.head = t.head /\ u.update = t.update /\ u.wake = t.wake
  /\ u.watch = t.watch /\ u.untold = t.untold

\* A handler for the kinds `looked' keeps a program sound if it reports those it
\* would find, and does not touch what is remembered of the others.
LEMMA LookIsSound ==
  ASSUME NEW t, NEW changed \in SUBSET Triggers, Sound(t, changed),
         NEW u, NEW found \in SUBSET Triggers, u \in Tig, OnlyLooked(t, u),
         changed \subseteq found,
         \A k \in Kinds : WillBeFound(t, k) =>
                            WillBeFound(u, k) \/ TriggersOf({k}) \cap found # {}
  PROVE  Sound(u, found)
<1>1. u.update = t.update /\ u.watch = t.watch /\ u.untold = t.untold
  BY DEF OnlyLooked
<1>2. ASSUME NEW v \in Views, NEW k \in Kinds, u.untold[v][k] # Never
      PROVE  /\ TriggersOf({k}) \subseteq u.watch[v].triggers
             /\ TriggersOf({k}) \cap u.watch[v].changed = {}
             /\ u.update <= u.untold[v][k] /\ u.untold[v][k] <= now
             /\ WillBeFound(u, k) \/ TriggersOf({k}) \cap found # {}
  <2>1. /\ TriggersOf({k}) \subseteq t.watch[v].triggers
        /\ TriggersOf({k}) \cap t.watch[v].changed = {}
        /\ t.update <= t.untold[v][k] /\ t.untold[v][k] <= now
        /\ WillBeFound(t, k) \/ TriggersOf({k}) \cap changed # {}
    BY <1>1, <1>2 DEF Sound, Owed
  <2>2. WillBeFound(u, k) \/ TriggersOf({k}) \cap found # {}
    BY <2>1
  <2>3. QED
    BY <1>1, <2>1, <2>2
<1>3. Owed(u, found)
  BY <1>2 DEF Owed
<1>4. Registers(u)
  BY <1>1 DEF Sound, Registers, OnlyLooked
<1>5. QED
  BY <1>1, <1>3, <1>4 DEF Sound

\* A file's time is one the handlers can remember.
LEMMA LatestIsTime ==
  ASSUME Here, NEW file \in Files, NEW seen \in {Never} \cup Time
  PROVE  Latest(file, seen) \in {Never} \cup Time
BY DEF Here, Repositories, Latest

\* What each handler does: c is what it is given, d what it returns.
Looks(c, d, kinds) ==
  /\ Sound(d.t, d.changed) /\ OnlyLooked(c.t, d.t)
  /\ d.changed \in SUBSET Triggers /\ c.changed \subseteq d.changed
  /\ \A k \in kinds \cap Kinds :
       WillBeFound(c.t, k) => TriggersOf({k}) \cap d.changed # {}

LEMMA IndexLook ==
  ASSUME Here, NEW c, c.changed \in SUBSET Triggers, Sound(c.t, c.changed), NEW event
  PROVE  Looks(c, IndexLooked(c, event), IF event = "switch" THEN {} ELSE IndexKinds)
<1>1. CASE event = "switch"
  <2>1. IndexLooked(c, event) = c
    BY <1>1 DEF IndexLooked
  <2>2. QED
    BY <1>1, <2>1 DEF Looks, OnlyLooked
<1>2. CASE event # "switch"
  <2> DEFINE found == repo.unstaged # c.t.diff /\ c.t.looked
             u == [c.t EXCEPT !.diff = repo.unstaged, !.looked = TRUE]
             changed == c.changed \cup (IF found THEN TriggersOf(IndexKinds) ELSE {})
  <2>1. IndexLooked(c, event) = [t |-> u, changed |-> changed]
    BY <1>2 DEF IndexLooked
  <2>2. c.t \in Tig /\ repo.unstaged \in BOOLEAN
    BY DEF Sound, Here, Repositories
  <2>3. u \in Tig /\ OnlyLooked(c.t, u)
    BY <2>2 DEF Tig, OnlyLooked
  <2>4. u.headSeen = c.t.headSeen /\ u.refsSeen = c.t.refsSeen /\ u.head = c.t.head
    BY <2>2 DEF Tig
  <2>5. changed \in SUBSET Triggers /\ c.changed \subseteq changed
    BY DEF TriggersOf
  <2>6. ASSUME NEW k \in IndexKinds, WillBeFound(c.t, k)
        PROVE  TriggersOf({k}) \cap changed # {}
    <3>1. k \in Kinds /\ k = "unstaged"
      BY KindsAre DEF Kinds
    <3>2. found
      BY <2>6, <3>1 DEF WillBeFound
    <3>3. TriggersOf({k}) # {} /\ TriggersOf({k}) \subseteq TriggersOf(IndexKinds)
      BY <3>1, KindHasTriggers
    <3>4. QED
      BY <3>2, <3>3
  <2> HIDE DEF u, changed
  <2>7. ASSUME NEW k \in Kinds, WillBeFound(c.t, k)
        PROVE  WillBeFound(u, k) \/ TriggersOf({k}) \cap changed # {}
    <3>1. CASE k \in IndexKinds
      BY <2>6, <2>7, <3>1
    <3>2. CASE k \in {"head", "refs"}
      BY <2>4, <2>7, <3>2 DEF WillBeFound
    <3>3. QED
      BY <3>1, <3>2, KindsAre DEF Kinds
  <2>8. Sound(u, changed)
    BY <2>3, <2>5, <2>7, LookIsSound
  <2>9. QED
    BY <1>2, <2>1, <2>3, <2>5, <2>6, <2>8 DEF Looks
<1>3. QED
  BY <1>1, <1>2

LEMMA HeadLook ==
  ASSUME Here, NEW c, c.changed \in SUBSET Triggers, Sound(c.t, c.changed), NEW event
  PROVE  Looks(c, HeadLooked(c, event), {"head"})
<1> DEFINE seen == c.t.headSeen
           here == Latest(HeadFile, seen)
           moved == Found(HeadFile, seen)
           grown == Found(c.t.head, here)
           last == IF moved THEN here ELSE Latest(c.t.head, here)
           u == [c.t EXCEPT !.headSeen = last]
           changed == c.changed \cup (IF moved \/ grown THEN TriggersOf({"head"}) ELSE {})
<1>1. HeadLooked(c, event) = [t |-> u, changed |-> changed]
  BY DEF HeadLooked
<1>2. c.t \in Tig /\ seen \in {Never} \cup Time /\ c.t.head \in Files
  BY DEF Sound, Tig, Files
<1>3. here \in {Never} \cup Time /\ last \in {Never} \cup Time
  <2>1. HeadFile \in Files
    BY DEF Files
  <2>2. here \in {Never} \cup Time
    BY <1>2, <2>1, LatestIsTime
  <2> HIDE DEF here
  <2>3. QED
    BY <1>2, <2>2, LatestIsTime
<1>4. changed \in SUBSET Triggers /\ c.changed \subseteq changed
  BY DEF TriggersOf
<1>5. ASSUME NEW k \in {"head"} \cap Kinds, WillBeFound(c.t, k)
      PROVE  TriggersOf({k}) \cap changed # {}
  <2>1. moved \/ Found(c.t.head, seen)
    BY <1>5 DEF WillBeFound
  <2>2. ~moved /\ seen # Never => here = seen
    BY DEF Found, Latest
  <2>3. moved \/ grown
    BY <2>1, <2>2 DEF Found
  <2>4. TriggersOf({k}) # {} /\ TriggersOf({k}) \subseteq TriggersOf({"head"})
    BY KindHasTriggers
  <2>5. QED
    BY <2>3, <2>4
<1> HIDE DEF changed, last, here, seen
<1>6. u \in Tig /\ OnlyLooked(c.t, u) /\ u.refsSeen = c.t.refsSeen
      /\ u.diff = c.t.diff /\ u.looked = c.t.looked
  BY <1>2, <1>3 DEF Tig, OnlyLooked
<1> HIDE DEF u
<1>7. ASSUME NEW k \in Kinds, WillBeFound(c.t, k)
      PROVE  WillBeFound(u, k) \/ TriggersOf({k}) \cap changed # {}
  <2>1. CASE k = "head"
    BY <1>5, <1>7, <2>1
  <2>2. CASE k # "head"
    BY <1>6, <1>7, <2>2 DEF WillBeFound
  <2>3. QED
    BY <2>1, <2>2
<1>8. Sound(u, changed)
  BY <1>4, <1>6, <1>7, LookIsSound
<1>9. QED
  BY <1>1, <1>4, <1>5, <1>6, <1>8 DEF Looks

LEMMA RefsLook ==
  ASSUME Here, NEW c, c.changed \in SUBSET Triggers, Sound(c.t, c.changed), NEW event
  PROVE  Looks(c, RefsLooked(c, event), {"refs"})
<1> DEFINE found == Found(HeadsDir, c.t.refsSeen)
           last == IF found THEN now ELSE Latest(HeadsDir, c.t.refsSeen)
           u == [c.t EXCEPT !.refsSeen = last]
           changed == c.changed \cup (IF found THEN TriggersOf({"refs"}) ELSE {})
<1>1. RefsLooked(c, event) = [t |-> u, changed |-> changed]
  BY DEF RefsLooked
<1>2. c.t \in Tig /\ c.t.refsSeen \in {Never} \cup Time
  BY DEF Sound, Tig
<1>3. last \in {Never} \cup Time
  <2>1. HeadsDir \in Files /\ now \in Time
    BY DEF Files, Here
  <2>2. QED
    BY <1>2, <2>1, LatestIsTime
<1>4. changed \in SUBSET Triggers /\ c.changed \subseteq changed
  BY DEF TriggersOf
<1>5. ASSUME NEW k \in {"refs"} \cap Kinds, WillBeFound(c.t, k)
      PROVE  TriggersOf({k}) \cap changed # {}
  <2>1. found
    BY <1>5 DEF WillBeFound
  <2>2. TriggersOf({k}) # {} /\ TriggersOf({k}) \subseteq TriggersOf({"refs"})
    BY KindHasTriggers
  <2>3. QED
    BY <2>1, <2>2
<1> HIDE DEF changed, last
<1>6. u \in Tig /\ OnlyLooked(c.t, u) /\ u.headSeen = c.t.headSeen /\ u.head = c.t.head
      /\ u.diff = c.t.diff /\ u.looked = c.t.looked
  BY <1>2, <1>3 DEF Tig, OnlyLooked
<1> HIDE DEF u
<1>7. ASSUME NEW k \in Kinds, WillBeFound(c.t, k)
      PROVE  WillBeFound(u, k) \/ TriggersOf({k}) \cap changed # {}
  <2>1. CASE k = "refs"
    BY <1>5, <1>7, <2>1
  <2>2. CASE k # "refs"
    BY <1>6, <1>7, <2>2 DEF WillBeFound
  <2>3. QED
    BY <2>1, <2>2
<1>8. Sound(u, changed)
  BY <1>4, <1>6, <1>7, LookIsSound
<1>9. QED
  BY <1>1, <1>4, <1>5, <1>6, <1>8 DEF Looks

-------------------------------------------------------------------------------
(* An update: the handlers in turn, then telling.                          *)

\* What is known after a handler that makes d of c was asked, or was not.
After(c, d, triggers, kinds) == IF Asked(c, triggers, kinds) THEN d ELSE c

\* e reports what c owes of its own kinds and was asked for.
Reports(c, e, own, triggers) ==
  \A v \in Views, k \in Kinds :
    k \in own /\ c.t.untold[v][k] # Never /\ TriggersOf({k}) \subseteq triggers
      => TriggersOf({k}) \cap e.changed # {}

LEMMA AskedIsSound ==
  ASSUME NEW c, c.changed \in SUBSET Triggers, Sound(c.t, c.changed),
         NEW d, NEW kinds, NEW own \in SUBSET kinds, Looks(c, d, own),
         NEW triggers, NEW e, e = After(c, d, triggers, kinds)
  PROVE  /\ Sound(e.t, e.changed) /\ OnlyLooked(c.t, e.t)
         /\ e.changed \in SUBSET Triggers /\ c.changed \subseteq e.changed
         /\ Reports(c, e, own, triggers)
<1>1. CASE Asked(c, triggers, kinds)
  <2>1. e = d
    BY <1>1 DEF After
  <2>2. ASSUME NEW v \in Views, NEW k \in own \cap Kinds, c.t.untold[v][k] # Never
        PROVE  TriggersOf({k}) \cap e.changed # {}
    BY <2>1, <2>2 DEF Looks, Sound, Owed
  <2>3. QED
    BY <2>1, <2>2 DEF Looks, Reports
<1>2. CASE ~Asked(c, triggers, kinds)
  <2>1. e = c
    BY <1>2 DEF After
  <2>2. ASSUME NEW k \in own \cap Kinds, TriggersOf({k}) \subseteq triggers
        PROVE  TriggersOf({k}) \cap e.changed # {}
    <3>1. TriggersOf({k}) # {} /\ TriggersOf({k}) \subseteq TriggersOf(kinds)
      BY KindHasTriggers
    <3>2. TriggersOf(kinds) \subseteq c.changed
      BY <1>2, <2>2, <3>1 DEF Asked
    <3>3. QED
      BY <2>1, <3>1, <3>2
  <2>3. OnlyLooked(c.t, e.t)
    BY <2>1 DEF OnlyLooked
  <2>4. Reports(c, e, own, triggers)
    BY <2>2 DEF Reports
  <2>5. QED
    BY <2>1, <2>3, <2>4
<1>3. QED
  BY <1>1, <1>2

\* u has the mode, the views, the refs and the times of t.
Kept(t, u) ==
  /\ u.mode = t.mode /\ u.view = t.view /\ u.loaded = t.loaded /\ u.ahead = t.ahead
  /\ u.head = t.head /\ u.update = t.update /\ u.wake = t.wake

\* d, made of t by the handlers asked for the triggers, tells what they found.
Told(t, d, event, triggers) ==
  /\ Sound(d.t, {}) /\ Kept(t, d.t) /\ d.changed \in SUBSET Triggers
  /\ \A v \in Views, k \in Kinds :
       d.t.untold[v][k] = t.untold[v][k] \/ d.t.untold[v][k] = Never
  /\ event # "switch" =>
       \A v \in Views, k \in Kinds :
         TriggersOf({k}) \subseteq triggers => d.t.untold[v][k] = Never

LEMMA LookedAtIsSound ==
  ASSUME Watching, Here, NEW t, NEW changed \in SUBSET Triggers, Sound(t, changed),
         NEW event, event # "after-command", NEW triggers,
         NEW d, d = LookedAt(t, event, triggers, changed)
  PROVE  Told(t, d, event, triggers)
<1> DEFINE c0 == [t |-> t, changed |-> changed]
           c1 == IF Asked(c0, triggers, IndexKinds) THEN IndexLooked(c0, event) ELSE c0
           c2 == IF Asked(c1, triggers, {"head"}) THEN HeadLooked(c1, event) ELSE c1
           c3 == IF Asked(c2, triggers, RefKinds) THEN RefsLooked(c2, event) ELSE c2
           m == Marked(c3.t, event, NoView, c3.changed)
           paid(c, k) == TriggersOf({k}) \cap c.changed # {}
<1>1. t \in Tig
  BY DEF Sound
<1>2. d = [t |-> m, changed |-> c3.changed]
  BY <1>1, AlwaysRefreshes DEF LookedAt
<1>3. c0.t = t /\ c0.changed = changed
  OBVIOUS
<1> HIDE DEF c0
<1> DEFINE index == IF event = "switch" THEN {} ELSE IndexKinds
<1>4. /\ Sound(c1.t, c1.changed) /\ OnlyLooked(c0.t, c1.t)
      /\ c1.changed \in SUBSET Triggers /\ c0.changed \subseteq c1.changed
      /\ Reports(c0, c1, index, triggers)
  <2> PICK l : l = IndexLooked(c0, event)
    OBVIOUS
  <2>1. Looks(c0, l, index) /\ index \in SUBSET IndexKinds
    BY <1>3, IndexLook
  <2>2. c1 = After(c0, l, triggers, IndexKinds)
    BY DEF After
  <2> HIDE DEF c1, index
  <2>3. QED
    BY <1>3, <2>1, <2>2, AskedIsSound
<1> HIDE DEF c1
<1> DEFINE head == {"head"}
<1>5. /\ Sound(c2.t, c2.changed) /\ OnlyLooked(c1.t, c2.t)
      /\ c2.changed \in SUBSET Triggers /\ c1.changed \subseteq c2.changed
      /\ Reports(c1, c2, head, triggers)
  <2> PICK l : l = HeadLooked(c1, event)
    OBVIOUS
  <2>1. Looks(c1, l, head) /\ head \in SUBSET head
    BY <1>4, HeadLook
  <2>2. c2 = After(c1, l, triggers, head)
    BY DEF After
  <2> HIDE DEF c2, head
  <2>3. QED
    BY <1>4, <2>1, <2>2, AskedIsSound
<1> HIDE DEF c2
<1> DEFINE refs == {"refs"} \cap RefKinds
<1>6. /\ Sound(c3.t, c3.changed) /\ OnlyLooked(c2.t, c3.t)
      /\ c3.changed \in SUBSET Triggers /\ c2.changed \subseteq c3.changed
      /\ Reports(c2, c3, refs, triggers)
  <2> PICK l : l = RefsLooked(c2, event)
    OBVIOUS
  <2>1. Looks(c2, l, refs) /\ refs \in SUBSET RefKinds
    BY <1>5, RefsLook DEF Looks
  <2>2. c3 = After(c2, l, triggers, RefKinds)
    BY DEF After
  <2> HIDE DEF c3, refs
  <2>3. QED
    BY <1>5, <2>1, <2>2, AskedIsSound
<1> HIDE DEF c3
<1>7. NoView \notin Views
  BY PollingAssumption
<1> HIDE DEF m
<1>8. /\ Sound(m, {}) /\ OnlyTold(c3.t, m)
      /\ \A v \in Views, k \in Kinds :
           /\ m.untold[v][k] = c3.t.untold[v][k] \/ m.untold[v][k] = Never
           /\ paid(c3, k) => m.untold[v][k] = Never
  <2>1. m = Marked(c3.t, event, NoView, c3.changed) /\ c3.t \in Tig
    BY <1>6 DEF m, Sound
  <2>2. Marking(c3.t, m, event, NoView, c3.changed)
    BY <1>6, <2>1, MarkedIs
  <2>3. Sound(m, {})
    BY <1>6, <1>7, <2>1, MarkedIsSound
  <2>4. QED
    BY <1>7, <2>2, <2>3 DEF Marking
<1>9. Kept(t, m)
  BY <1>3, <1>4, <1>5, <1>6, <1>8 DEF OnlyLooked, OnlyTold, Kept
<1>10. \A v \in Views, k \in Kinds : m.untold[v][k] = t.untold[v][k] \/ m.untold[v][k] = Never
  <2>1. c3.t.untold = t.untold
    BY <1>3, <1>4, <1>5, <1>6 DEF OnlyLooked
  <2>2. QED
    BY <1>8, <2>1
<1>11. ASSUME event # "switch", NEW v \in Views, NEW k \in Kinds,
              TriggersOf({k}) \subseteq triggers
       PROVE  m.untold[v][k] = Never
  <2>1. /\ c1.t.untold = t.untold /\ c2.t.untold = t.untold /\ c3.t.untold = t.untold
        /\ c0.t.untold = t.untold
    BY <1>3, <1>4, <1>5, <1>6 DEF OnlyLooked
  <2>2. CASE t.untold[v][k] = Never
    BY <1>8, <2>1, <2>2
  <2>3. CASE t.untold[v][k] # Never /\ k \in IndexKinds
    <3>1. paid(c1, k)
      BY <1>4, <1>11, <2>1, <2>3 DEF Reports
    <3>2. QED
      BY <1>5, <1>6, <1>8, <3>1
  <2>4. CASE t.untold[v][k] # Never /\ k = "head"
    <3>1. paid(c2, k)
      BY <1>5, <1>11, <2>1, <2>4 DEF Reports
    <3>2. QED
      BY <1>6, <1>8, <3>1
  <2>5. CASE t.untold[v][k] # Never /\ k = "refs"
    <3>1. k \in refs
      BY <2>5, KindsAre DEF Kinds
    <3>2. paid(c3, k)
      BY <1>6, <1>11, <2>1, <2>5, <3>1 DEF Reports
    <3>3. QED
      BY <1>8, <3>2
  <2>6. QED
    BY <2>2, <2>3, <2>4, <2>5, KindsAre DEF Kinds
<1>12. QED
  BY <1>2, <1>6, <1>8, <1>9, <1>10, <1>11 DEF Told

\* An update pays all debts.
LEMMA UpdatedIsSound ==
  ASSUME Watching, Here, NEW t, Sound(t, {})
  PROVE  /\ Sound(Updated(t), {}) /\ Kept(t, Updated(t))
         /\ \A v \in Views, k \in Kinds : Updated(t).untold[v][k] = Never
<1> DEFINE triggers == UNION {Unmarked(t, v) : v \in Views}
<1> PICK d : d = LookedAt(t, "periodic", triggers, {})
  OBVIOUS
<1>1. Updated(t) = d.t
  BY DEF Updated
<1>2. ASSUME NEW k \in Kinds, NEW v \in Views, t.untold[v][k] # Never
      PROVE  TriggersOf({k}) \subseteq triggers
  BY <1>2 DEF Sound, Owed, Unmarked
<1> HIDE DEF triggers
<1>3. /\ Sound(d.t, {}) /\ Kept(t, d.t)
      /\ \A v \in Views, k \in Kinds :
           /\ d.t.untold[v][k] = t.untold[v][k] \/ d.t.untold[v][k] = Never
           /\ TriggersOf({k}) \subseteq triggers => d.t.untold[v][k] = Never
  <2> PICK event, none : event = "periodic" /\ none = {}
    OBVIOUS
  <2>1. none \in SUBSET Triggers /\ Sound(t, none)
    OBVIOUS
  <2>2. event # "after-command" /\ d = LookedAt(t, event, triggers, none)
    OBVIOUS
  <2>3. Told(t, d, event, triggers)
    BY <2>1, <2>2, LookedAtIsSound
  <2>4. QED
    BY <2>3 DEF Told
<1>4. \A v \in Views, k \in Kinds : d.t.untold[v][k] = Never
  BY <1>2, <1>3
<1>5. QED
  BY <1>1, <1>3, <1>4

\* What is sound after looking for some changes is so before.
LEMMA SoundBefore ==
  ASSUME NEW t, NEW changed, Sound(t, {})
  PROVE  Sound(t, changed)
BY DEF Sound, Owed

\* What is owed does not depend on the screen, the refs drawn or the next wait.
LEMMA SameIsSound ==
  ASSUME NEW t, NEW u \in Tig, Sound(t, {}),
         u.watch = t.watch, u.untold = t.untold, u.update = t.update, u.loaded = t.loaded,
         \A v \in Views, k \in Kinds :
           t.untold[v][k] # Never /\ WillBeFound(t, k) => WillBeFound(u, k)
  PROVE  Sound(u, {})
<1>1. Owed(u, {})
  BY DEF Sound, Owed
<1>2. Registers(u)
  BY DEF Sound, Registers
<1>3. QED
  BY <1>1, <1>2 DEF Sound

\* watch_update_single
LEMMA SingleIsSound ==
  ASSUME Watching, Here, NEW t, Sound(t, {}), NEW v \in Views,
         NEW d, d = Single(t, v)
  PROVE  Sound(d.t, {}) /\ Kept(t, d.t)
<1> PICK event : event = "switch"
  OBVIOUS
<1> PICK changed, triggers : changed = t.watch[v].changed /\ triggers = Unmarked(t, v)
  OBVIOUS
<1>1. changed \in SUBSET Triggers
  BY DEF Sound, Tig, Watches
<1>2. Sound(t, changed)
  BY SoundBefore
<1>3. event # "after-command" /\ d = LookedAt(t, event, triggers, changed)
  BY DEF Single
<1>4. Told(t, d, event, triggers)
  BY <1>1, <1>2, <1>3, LookedAtIsSound
<1>5. QED
  BY <1>4 DEF Told

\* A command has all views reloaded.
LEMMA CommandedIsSound ==
  ASSUME Watching, Here, NEW t, Sound(t, {})
  PROVE  Sound(Commanded(t), {}) /\ Kept(t, Commanded(t))
<1> DEFINE u == [t EXCEPT !.looked = TRUE, !.headSeen = now, !.refsSeen = now]
<1> PICK event, changed :
      event = "after-command" /\ changed = TriggersOf(RefKinds)
  OBVIOUS
<1> PICK m : m = Marked(u, event, NoView, changed)
  OBVIOUS
<1>1. t \in Tig /\ now \in Time /\ NoView \notin Views
  BY PollingAssumption DEF Sound, Here
<1>2. Commanded(t) = m
  BY <1>1, AlwaysRefreshes DEF Commanded
<1>3. /\ u \in Tig /\ u.update = t.update /\ u.loaded = t.loaded
      /\ u.watch = t.watch /\ Kept(t, u)
  BY <1>1 DEF Tig, Kept
<1> HIDE DEF u
<1>4. Marking(u, m, event, NoView, changed)
  <2>1. changed \in SUBSET Triggers
    BY DEF TriggersOf
  <2>2. QED
    BY <1>3, <2>1, MarkedIs
<1>5. m \in Tig /\ OnlyTold(u, m)
  BY <1>4 DEF Marking
<1>6. \A v \in Views, k \in Kinds : m.untold[v][k] = Never
  BY <1>1, <1>4 DEF Marking
<1>7. Owed(m, {})
  BY <1>6 DEF Owed
<1>8. Registers(m)
  <2>1. m.loaded = t.loaded /\ t.loaded \subseteq Views
    BY <1>1, <1>3, <1>5 DEF OnlyTold, Tig
  <2>2. \A v \in Views : m.watch[v].triggers = t.watch[v].triggers
    BY <1>3, <1>4 DEF Marking
  <2>3. QED
    BY <2>1, <2>2 DEF Sound, Registers
<1>9. m.update <= now
  BY <1>3, <1>5 DEF OnlyTold, Sound
<1>10. Kept(t, m)
  BY <1>3, <1>5 DEF Kept, OnlyTold
<1>11. QED
  BY <1>2, <1>5, <1>7, <1>8, <1>9, <1>10 DEF Sound

\* u waits for the same keys as t.
Waits(t, u) ==
  u.mode = t.mode /\ u.view = t.view /\ u.update = t.update /\ u.wake = t.wake

LEMMA OpenedIsSound ==
  ASSUME Watching, Here, NEW t, Sound(t, {}), NEW v \in Views,
         NEW m, m = Opened(t, v)
  PROVE  Sound(m, {}) /\ Waits(t, m) /\ v \in m.loaded
<1> DEFINE there == {<<k, repo.unstaged>> : k \in KindsOf(v) \cap IndexKinds}
           w == Registered(t.watch, v, KindsOf(v))
           untold == [u \in Views |-> IF u = v THEN [k \in Kinds |-> Never] ELSE t.untold[u]]
           read == [t EXCEPT !.loaded = @ \cup {v}, !.watch = w, !.untold = untold]
<1> PICK event : event = "load"
  OBVIOUS
<1>1. m = Marked(read, event, v, there)
  BY DEF Opened
<1>2. there \in SUBSET Triggers
  BY DEF Here, Repositories, Triggers, IndexTriggers
<1>3. t \in Tig /\ t.watch \in [Views -> Watches] /\ t.loaded \subseteq Views
      /\ t.untold \in [Views -> [Kinds -> {Never} \cup Time]]
  BY DEF Sound, Tig
<1>4. /\ w \in [Views -> Watches]
      /\ w[v].triggers = TriggersOf(KindsOf(v))
      /\ \A u \in Views : u # v => w[u] = t.watch[u]
  BY <1>3 DEF Registered, Watches, TriggersOf
<1>5. /\ untold \in [Views -> [Kinds -> {Never} \cup Time]]
      /\ \A k \in Kinds : untold[v][k] = Never
      /\ \A u \in Views : u # v => untold[u] = t.untold[u]
  BY <1>3
<1> HIDE DEF w, untold
<1>6. /\ read \in Tig /\ Waits(t, read) /\ read.loaded = t.loaded \cup {v}
      /\ read.watch = w /\ read.untold = untold
      /\ read.head = t.head /\ read.diff = t.diff /\ read.looked = t.looked
      /\ read.headSeen = t.headSeen /\ read.refsSeen = t.refsSeen
  BY <1>3, <1>4, <1>5 DEF Tig, Waits
<1> HIDE DEF read, there
<1>7. Sound(read, {})
  <2>1. ASSUME NEW u \in Views, NEW k \in Kinds, read.untold[u][k] # Never
        PROVE  /\ TriggersOf({k}) \subseteq read.watch[u].triggers
               /\ TriggersOf({k}) \cap read.watch[u].changed = {}
               /\ read.update <= read.untold[u][k] /\ read.untold[u][k] <= now
               /\ WillBeFound(read, k)
    <3>1. u # v /\ read.untold[u] = t.untold[u] /\ read.watch[u] = t.watch[u]
      BY <1>4, <1>5, <1>6, <2>1
    <3>2. /\ TriggersOf({k}) \subseteq t.watch[u].triggers
          /\ TriggersOf({k}) \cap t.watch[u].changed = {}
          /\ t.update <= t.untold[u][k] /\ t.untold[u][k] <= now
          /\ WillBeFound(t, k)
      BY <2>1, <3>1 DEF Sound, Owed
    <3>3. WillBeFound(read, k)
      BY <1>6, <3>2 DEF WillBeFound
    <3>4. QED
      BY <1>6, <3>1, <3>2, <3>3 DEF Waits
  <2>2. Owed(read, {})
    BY <2>1 DEF Owed
  <2>3. Registers(read)
    BY <1>3, <1>4, <1>6 DEF Sound, Registers
  <2>4. QED
    BY <1>6, <2>2, <2>3 DEF Sound, Waits
<1>8. Sound(m, {})
  <2>1. Sound(read, there)
    BY <1>7, SoundBefore
  <2>2. \A k \in Kinds : read.untold[v][k] = Never
    BY <1>5, <1>6
  <2>3. event # "after-command"
    OBVIOUS
  <2>4. QED
    BY <1>1, <1>2, <2>1, <2>2, <2>3, MarkedIsSound
<1>9. Marking(read, m, event, v, there)
  BY <1>1, <1>2, <1>6, MarkedIs
<1>10. OnlyTold(read, m)
  BY <1>9 DEF Marking
<1>11. QED
  BY <1>6, <1>8, <1>10 DEF OnlyTold, Waits

\* The table is read with a new head, and views of the old one are told.
LEMMA RefsLoadedIsSound ==
  ASSUME Watching, Here, NEW t, Sound(t, {}), NEW u, u = RefsLoaded(t)
  PROVE  Sound(u, {}) /\ Waits(t, u) /\ u.loaded = t.loaded
<1> PICK event, changed :
      event = "load" /\ changed = TriggersOf(t.ahead \cup {"head"})
  OBVIOUS
<1> PICK m : m = Marked(t, event, NoView, changed)
  OBVIOUS
<1>1. u = [m EXCEPT !.head = repo.branch, !.ahead = {}]
  BY DEF RefsLoaded
<1>2. /\ t \in Tig /\ NoView \notin Views /\ event # "after-command"
      /\ changed \in SUBSET Triggers /\ repo.branch \in Branches
  BY PollingAssumption DEF Sound, TriggersOf, Here, Repositories
<1>3. Marking(t, m, event, NoView, changed)
  BY <1>2, MarkedIs
<1>4. Sound(m, {})
  <2>1. Sound(t, changed)
    BY SoundBefore
  <2>2. QED
    BY <1>2, <2>1, MarkedIsSound
<1>5. m \in Tig /\ OnlyTold(t, m)
  BY <1>3 DEF Marking
<1>6. /\ u \in Tig /\ u.watch = m.watch /\ u.untold = m.untold /\ u.update = m.update
      /\ u.loaded = m.loaded /\ u.diff = m.diff /\ u.looked = m.looked
      /\ u.refsSeen = m.refsSeen /\ Waits(m, u)
  BY <1>1, <1>2, <1>5 DEF Tig, Waits
<1>7. ASSUME NEW v \in Views, NEW k \in Kinds, m.untold[v][k] # Never, WillBeFound(m, k)
      PROVE  WillBeFound(u, k)
  <2>1. k # "head"
    <3>1. SUFFICES ASSUME k = "head"
                   PROVE  m.untold[v][k] = Never
      BY <1>7
    <3>2. TriggersOf({k}) # {} /\ TriggersOf({k}) \subseteq changed
      BY <3>1, KindHasTriggers
    <3>3. QED
      BY <1>2, <1>3, <3>2 DEF Marking
  <2>2. QED
    BY <1>6, <1>7, <2>1 DEF WillBeFound
<1>8. Sound(u, {})
  BY <1>4, <1>6, <1>7, SameIsSound
<1>9. QED
  BY <1>5, <1>6, <1>8 DEF OnlyTold, Waits

\* Switching to a view owes nothing new, and shows it.
LEMMA SwitchedIsSound ==
  ASSUME Watching, Here, NEW t, Sound(t, {}), NEW v \in Views
  PROVE  Sound(Switched(t, v), {})
<1> PICK d : d = Single(t, v)
  OBVIOUS
<1> PICK o : o = Opened(t, v)
  OBVIOUS
<1> DEFINE checked == [d.t EXCEPT !.watch = IF d.changed = {} THEN @ ELSE Cleaned(@, v)]
<1> PICK r : r = Opened(checked, v)
  OBVIOUS
<1>1. \/ Switched(t, v) = [o EXCEPT !.view = v]
      \/ Switched(t, v) = [r EXCEPT !.view = v]
      \/ Switched(t, v) = [checked EXCEPT !.view = v]
  BY DEF Switched
<1>2. ASSUME NEW s, Sound(s, {})
      PROVE  Sound([s EXCEPT !.view = v], {})
  <2> PICK u : u = [s EXCEPT !.view = v]
    OBVIOUS
  <2>1. s \in Tig
    BY <1>2 DEF Sound
  <2>2. /\ u \in Tig /\ u.watch = s.watch /\ u.untold = s.untold /\ u.update = s.update
        /\ u.loaded = s.loaded /\ u.head = s.head /\ u.diff = s.diff
        /\ u.looked = s.looked /\ u.headSeen = s.headSeen /\ u.refsSeen = s.refsSeen
    BY <2>1 DEF Tig
  <2>3. \A k \in Kinds : WillBeFound(s, k) => WillBeFound(u, k)
    BY <2>2 DEF WillBeFound
  <2>4. Sound(u, {})
    BY <1>2, <2>2, <2>3, SameIsSound
  <2>5. QED
    BY <2>4
<1>3. Sound(d.t, {})
  BY SingleIsSound
<1>4. Sound(checked, {})
  <2>1. CASE d.changed = {}
    <3>1. d.t \in Tig
      BY <1>3 DEF Sound
    <3>2. checked = d.t
      BY <2>1, <3>1 DEF Tig
    <3>3. QED
      BY <1>3, <3>2
  <2>2. CASE d.changed # {}
    <3> PICK s, none : s = d.t /\ none = {}
      OBVIOUS
    <3>1. Sound([s EXCEPT !.watch = Cleaned(@, v)], none)
      BY <1>3, CleanedIsSound
    <3>2. QED
      BY <2>2, <3>1
  <2>3. QED
    BY <2>1, <2>2
<1> HIDE DEF checked
<1>5. Sound(o, {}) /\ Sound(r, {})
  BY <1>4, OpenedIsSound
<1>6. QED
  BY <1>1, <1>2, <1>4, <1>5

-------------------------------------------------------------------------------
(* The loop.                                                               *)

LEMMA PeriodicInTime ==
  ASSUME Watching, Here, NEW t, Sound(t, {}), NEW p, p = Periodic(t)
  PROVE  /\ Sound(p, {}) /\ p.mode = t.mode /\ p.view = t.view
         /\ now <= p.wake /\ p.wake <= p.update + 3 * Interval - 2
         /\ now <= p.update + 3 * Interval - 2
<1> DEFINE due == t.update = Never \/ t.update + Interval <= now
<1> PICK n : n = Updated(t)
  OBVIOUS
<1> DEFINE updated == IF due THEN [n EXCEPT !.update = now] ELSE t
           wake == now + (now - updated.update + Interval)
<1>1. p = [updated EXCEPT !.wake = wake]
  BY DEF Periodic
<1>2. /\ Time \subseteq Nat \ {0} /\ now \in Time /\ Interval \in Nat \ {0}
      /\ t \in Tig /\ t.update \in {Never} \cup Time /\ t.update <= now
  BY PollingAssumption, TimeIsNatural DEF Here, Sound, Tig
<1>3. Sound(n, {}) /\ Kept(t, n) /\ \A v \in Views, k \in Kinds : n.untold[v][k] = Never
  BY UpdatedIsSound
<1>4. /\ updated \in Tig /\ updated.mode = t.mode /\ updated.view = t.view
      /\ Sound(updated, {})
      /\ updated.update \in Nat /\ updated.update <= now
      /\ now - updated.update <= Interval - 1
  <2>1. CASE due
    <3> PICK u : u = updated
      OBVIOUS
    <3>1. n \in Tig
      BY <1>3 DEF Sound
    <3>2. /\ u \in Tig /\ u.update = now /\ u.untold = n.untold /\ u.watch = n.watch
          /\ u.loaded = n.loaded /\ u.mode = n.mode /\ u.view = n.view
      BY <1>2, <2>1, <3>1 DEF Tig
    <3>3. Owed(u, {})
      BY <1>3, <3>2 DEF Owed
    <3>4. Registers(u)
      BY <1>3, <3>2 DEF Sound, Registers
    <3>5. Sound(u, {})
      BY <1>2, <3>2, <3>3, <3>4 DEF Sound
    <3> HIDE DEF updated
    <3>6. now - u.update <= Interval - 1
      BY <1>2, <3>2
    <3>7. QED
      BY <1>2, <1>3, <3>2, <3>5, <3>6 DEF Kept
  <2>2. CASE ~due
    <3>1. updated = t
      BY <2>2
    <3>2. t.update \in Nat /\ now \in Nat
      <4>1. now \in Nat
        BY <1>2
      <4>2. t.update \in Time
        BY <1>2, <2>2
      <4>3. QED
        BY <1>2, <4>1, <4>2
    <3>3. ~(t.update + Interval <= now)
      BY <2>2
    <3>4. now - t.update <= Interval - 1
      BY <1>2, <3>2, <3>3
    <3>5. QED
      BY <1>2, <3>1, <3>2, <3>4
  <2>3. QED
    BY <2>1, <2>2
<1> HIDE DEF updated, due
<1>5. /\ wake \in Nat /\ now <= wake /\ wake <= updated.update + 3 * Interval - 2
      /\ now <= updated.update + 3 * Interval - 2
  BY <1>2, <1>4
<1> HIDE DEF wake
<1>6. /\ p \in Tig /\ p.wake = wake /\ p.update = updated.update
      /\ p.mode = updated.mode /\ p.view = updated.view
      /\ p.watch = updated.watch /\ p.untold = updated.untold /\ p.loaded = updated.loaded
      /\ p.head = updated.head /\ p.diff = updated.diff /\ p.looked = updated.looked
      /\ p.headSeen = updated.headSeen /\ p.refsSeen = updated.refsSeen
  BY <1>1, <1>4, <1>5 DEF Tig
<1>7. \A k \in Kinds : WillBeFound(updated, k) => WillBeFound(p, k)
  BY <1>6 DEF WillBeFound
<1>8. Sound(p, {})
  BY <1>4, <1>6, <1>7, SameIsSound
<1>9. QED
  BY <1>4, <1>5, <1>6, <1>8

LEMMA WakeIsSound ==
  ASSUME NEW t, Sound(t, {}), NEW wake \in Nat,
         NEW e, e = [t EXCEPT !.wake = wake]
  PROVE  Sound(e, {}) /\ e.wake = wake /\ e.mode = t.mode /\ e.update = t.update
<1>1. t \in Tig
  BY DEF Sound
<1>2. /\ e \in Tig /\ e.wake = wake /\ e.mode = t.mode
      /\ e.watch = t.watch /\ e.untold = t.untold /\ e.update = t.update
      /\ e.loaded = t.loaded /\ e.head = t.head /\ e.diff = t.diff
      /\ e.looked = t.looked /\ e.headSeen = t.headSeen /\ e.refsSeen = t.refsSeen
  BY <1>1 DEF Tig
<1>3. \A k \in Kinds : WillBeFound(t, k) => WillBeFound(e, k)
  BY <1>2 DEF WillBeFound
<1>4. QED
  BY <1>2, <1>3, SameIsSound

\* Once round the loop: nothing is owed, and the wait is short.
LEMMA LoopedIsSound ==
  ASSUME Watching, Here, NEW t, Sound(t, {})
  PROVE  Sound(Looped(t), {}) /\ InTime(Looped(t))
<1> PICK p, v : /\ p = (IF t.mode = "periodic" THEN Periodic(t) ELSE [t EXCEPT !.wake = Never])
                /\ v = t.view
  OBVIOUS
<1> PICK c : c = [p EXCEPT !.watch = Cleaned(@, v)]
  OBVIOUS
<1> PICK l : l = RefsLoaded(c)
  OBVIOUS
<1> PICK o : o = Opened(l, v)
  OBVIOUS
<1> PICK done : done = IF IsDirty(p, v) THEN o ELSE c
  OBVIOUS
<1> DEFINE wake == IF done.watch[v].changed # {} THEN now ELSE done.wake
           e == [done EXCEPT !.wake = wake]
<1>1. /\ t \in Tig /\ v \in Views /\ t.mode \in {"periodic", "auto"}
      /\ now \in Nat /\ Interval \in Nat
  BY PollingAssumption, TimeIsNatural DEF Sound, Tig, Watching, Here
<1>2. Looped(t) = e
  BY <1>1 DEF Looped
<1>3. /\ Sound(p, {}) /\ p.mode = t.mode
      /\ p.mode = "periodic" =>
           /\ now <= p.wake /\ p.wake <= p.update + 3 * Interval - 2
           /\ now <= p.update + 3 * Interval - 2
  <2>1. CASE t.mode = "periodic"
    BY <2>1, PeriodicInTime
  <2>2. CASE t.mode # "periodic"
    <3>1. /\ p \in Tig /\ p.mode = t.mode
          /\ p.watch = t.watch /\ p.untold = t.untold /\ p.update = t.update
          /\ p.loaded = t.loaded /\ p.head = t.head /\ p.diff = t.diff
          /\ p.looked = t.looked /\ p.headSeen = t.headSeen /\ p.refsSeen = t.refsSeen
      BY <1>1, <2>2 DEF Tig, Never
    <3>2. \A k \in Kinds : WillBeFound(t, k) => WillBeFound(p, k)
      BY <3>1 DEF WillBeFound
    <3>3. Sound(p, {})
      BY <3>1, <3>2, SameIsSound
    <3>4. QED
      BY <2>2, <3>1, <3>3
  <2>3. QED
    BY <2>1, <2>2
<1>4. Sound(c, {}) /\ Waits(p, c)
  <2> PICK none : none = {}
    OBVIOUS
  <2>1. Sound([p EXCEPT !.watch = Cleaned(@, v)], none)
        /\ OnlyTold(p, [p EXCEPT !.watch = Cleaned(@, v)])
    BY <1>1, <1>3, CleanedIsSound
  <2>2. QED
    BY <2>1 DEF OnlyTold, Waits
<1>5. Sound(l, {}) /\ Waits(c, l)
  BY <1>4, RefsLoadedIsSound
<1>6. Sound(o, {}) /\ Waits(l, o)
  BY <1>1, <1>5, OpenedIsSound
<1>7. Sound(done, {}) /\ Waits(p, done)
  BY <1>4, <1>5, <1>6 DEF Waits
<1>8. done \in Tig
  BY <1>7 DEF Sound
<1>9. wake \in Nat /\ (wake = now \/ wake = done.wake)
  BY <1>1, <1>8 DEF Tig
<1> HIDE DEF wake
<1>10. /\ Sound(e, {}) /\ e.wake = wake
       /\ e.mode = done.mode /\ e.update = done.update
  BY <1>7, <1>9, WakeIsSound
<1> HIDE DEF e
<1>12. InTime(e)
  <2>1. SUFFICES ASSUME e.mode = "periodic"
                 PROVE  now <= e.wake /\ e.wake <= e.update + 3 * Interval - 2
    BY DEF InTime
  <2>2. /\ now <= p.wake /\ p.wake <= p.update + 3 * Interval - 2
        /\ e.update = p.update /\ (e.wake = now \/ e.wake = p.wake)
    BY <1>3, <1>7, <1>9, <1>10, <2>1 DEF Waits
  <2>3. p.wake \in Nat /\ p.update \in Nat
    BY <1>3, TimeIsNatural DEF Sound, Tig, Never
  <2>4. CASE e.wake = p.wake
    BY <2>2, <2>4
  <2>5. CASE e.wake = now
    <3>1. now <= p.update + 3 * Interval - 2
      BY <1>3, <1>7, <1>10, <2>1 DEF Waits
    <3>2. now <= now
      BY <1>1
    <3>3. QED
      BY <2>2, <2>5, <3>1, <3>2, Zenon
  <2>6. QED
    BY <2>2, <2>4, <2>5
<1>13. QED
  BY <1>2, <1>10, <1>12

-------------------------------------------------------------------------------
(* The steps.                                                              *)

LEMMA Initially ==
  ASSUME Watching, Init
  PROVE  IInv
<1>1. PICK b \in Branches :
        repo = [mtime |-> [f \in Files |-> 1], branch |-> b, unstaged |-> FALSE, changes |-> 0]
  BY DEF Init
<1>2. now = 2 /\ now \in Time /\ MaxChanges \in Nat /\ Time \subseteq Nat \ {0} /\ 1 \in Time
  BY PollingAssumption, TimeIsNatural DEF Init
<1>3. repo \in Repositories
  <2>1. [f \in Files |-> 1] \in [Files -> Time] /\ 0 \in 0 .. MaxChanges
    BY <1>2
  <2>2. QED
    BY <1>1, <2>1 DEF Repositories
<1>4. Here
  <2>1. \A f \in Files : repo.mtime[f] = 1
    BY <1>1
  <2>2. QED
    BY <1>2, <1>3, <2>1 DEF Here
<1> DEFINE start(mode, v) ==
             [mode |-> mode, watch |-> [u \in Views |-> NoWatch], view |-> v,
              loaded |-> {}, ahead |-> {},
              head |-> repo.branch, diff |-> FALSE, looked |-> FALSE,
              headSeen |-> Never, refsSeen |-> Never, update |-> Never,
              wake |-> Never, untold |-> [u \in Views |-> [k \in Kinds |-> Never]]]
<1>5. PICK mode \in PollModes, v \in Views : tig = Looped(Opened(start(mode, v), v))
  BY DEF Init
<1> PICK t : t = start(mode, v)
  OBVIOUS
<1>6. t \in Tig /\ t.update = Never /\ t.loaded = {}
  <2>1. repo.branch \in Branches /\ NoWatch \in Watches
    BY <1>3 DEF Repositories, NoWatch, Watches
  <2>2. QED
    BY <1>5, <2>1 DEF Tig, Never
<1>7. \A u \in Views, k \in Kinds : t.untold[u][k] = Never
  OBVIOUS
<1> HIDE DEF start
<1>8. Sound(t, {})
  <2>1. Owed(t, {})
    BY <1>7 DEF Owed
  <2>2. t.update <= now
    BY <1>2, <1>6 DEF Never
  <2>3. QED
    BY <1>6, <2>1, <2>2 DEF Sound, Registers
<1> PICK o : o = Opened(t, v)
  OBVIOUS
<1>9. Sound(o, {})
  BY <1>4, <1>8, OpenedIsSound
<1>10. Sound(tig, {}) /\ InTime(tig)
  BY <1>4, <1>5, <1>9, LoopedIsSound
<1>11. QED
  BY <1>4, <1>10 DEF IInv, Here

\* What tig does by itself and on a key.
LEMMA TigSteps ==
  ASSUME Watching, IInv, UNCHANGED <<now, repo>>,
         NEW t, Sound(t, {}), tig' = Looped(t)
  PROVE  IInv'
<1> PICK u : u = Looped(t)
  OBVIOUS
<1>1. Here
  BY DEF IInv, Here
<1>2. Sound(u, {}) /\ InTime(u)
  BY <1>1, LoopedIsSound
<1>3. tig' = u /\ now' = now /\ repo' = repo
  OBVIOUS
<1>4. Sound(tig, {})'
  <2>1. tig' \in Tig /\ tig'.update <= now'
    BY <1>2, <1>3 DEF Sound
  <2>2. Registers(tig)'
    BY <1>2, <1>3 DEF Sound, Registers
  <2>3. \A k : WillBeFound(u, k) => WillBeFound(tig, k)'
    BY <1>3 DEF WillBeFound, Found, Newer
  <2>4. Owed(tig, {})'
    BY <1>2, <1>3, <2>3 DEF Sound, Owed
  <2>5. QED
    BY <2>1, <2>2, <2>4 DEF Sound
<1>5. InTime(tig)'
  BY <1>2, <1>3 DEF InTime
<1>6. QED
  BY <1>3, <1>4, <1>5 DEF IInv

LEMMA TickIsSound ==
  ASSUME Watching, IInv, Tick
  PROVE  IInv'
<1>1. /\ now' = now + 1 /\ repo' = repo /\ tig' = tig /\ now < MaxTime
      /\ tig.wake = Never \/ now < tig.wake
  BY DEF Tick
<1>2. /\ now \in Nat \ {0} /\ now' \in Time /\ now' \in Nat /\ now < now'
      /\ repo \in Repositories /\ Sound(tig, {}) /\ InTime(tig)
  <2>1. now \in 1 .. MaxTime /\ MaxTime \in Nat
    BY PollingAssumption DEF IInv, Time
  <2>2. QED
    BY <1>1, <2>1 DEF IInv, Time
<1>3. \A f \in Files : repo'.mtime[f] <= now'
  <2>1. \A f \in Files : repo.mtime[f] \in Nat /\ repo.mtime[f] <= now
    BY TimeIsNatural DEF IInv, Repositories
  <2>2. \A m \in Nat : m <= now => m <= now'
    BY <1>2
  <2>3. QED
    BY <1>1, <2>1, <2>2
<1>4. Sound(tig, {})'
  <2>1. tig \in Tig /\ tig.update \in Nat /\ tig.update <= now'
    <3>1. tig \in Tig /\ tig.update <= now
      BY <1>2 DEF Sound
    <3>2. tig.update \in Nat
      BY <3>1, SeenIsNatural DEF Tig
    <3>3. QED
      BY <1>2, <3>1, <3>2
  <2>2. Registers(tig)'
    BY <1>1, <1>2 DEF Sound, Registers
  <2>3. \A k : WillBeFound(tig, k) => WillBeFound(tig, k)'
    BY <1>1 DEF WillBeFound, Found, Newer
  <2>4. ASSUME NEW v \in Views, NEW k \in Kinds, tig.untold[v][k] # Never
        PROVE  /\ TriggersOf({k}) \subseteq tig.watch[v].triggers
               /\ TriggersOf({k}) \cap tig.watch[v].changed = {}
               /\ tig.update <= tig.untold[v][k] /\ tig.untold[v][k] <= now'
               /\ WillBeFound(tig, k)
    <3>1. tig.untold[v][k] \in Nat
      BY <2>1, SeenIsNatural DEF Tig
    <3>2. /\ TriggersOf({k}) \subseteq tig.watch[v].triggers
          /\ TriggersOf({k}) \cap tig.watch[v].changed = {}
          /\ tig.update <= tig.untold[v][k] /\ tig.untold[v][k] <= now
          /\ WillBeFound(tig, k)
      BY <1>2, <2>4 DEF Sound, Owed
    <3>3. tig.untold[v][k] <= now'
      BY <1>2, <3>1, <3>2
    <3>4. QED
      BY <3>2, <3>3
  <2>5. Owed(tig, {})'
    BY <1>1, <2>3, <2>4 DEF Owed
  <2>6. QED
    BY <1>1, <2>1, <2>2, <2>5 DEF Sound
<1>5. InTime(tig)'
  <2>1. SUFFICES ASSUME tig.mode = "periodic"
                 PROVE  now' <= tig.wake /\ tig.wake <= tig.update + 3 * Interval - 2
    BY <1>1 DEF InTime
  <2>2. now <= tig.wake /\ tig.wake <= tig.update + 3 * Interval - 2
    BY <1>2, <2>1 DEF InTime
  <2>3. tig.wake \in Nat
    BY <1>2 DEF Sound, Tig
  <2>4. now < tig.wake
    BY <1>1, <1>2, <2>2 DEF Never
  <2>5. now' <= tig.wake
    BY <1>1, <1>2, <2>3, <2>4
  <2>6. QED
    BY <2>2, <2>5
<1>6. QED
  BY <1>1, <1>2, <1>3, <1>4, <1>5 DEF IInv

\* What others change is owed to those who have registered for it, if a handler
\* will find it; what was to be found before still is.
LEMMA FallenIsSound ==
  ASSUME Watching, IInv, now' = now, repo' \in Repositories,
         \A f \in Files : repo'.mtime[f] = now \/ repo'.mtime[f] = repo.mtime[f],
         NEW t, Sound(t, {}), InTime(t),
         \A v \in Views, k \in Kinds :
           t.untold[v][k] # Never /\ WillBeFound(t, k) => WillBeFound(t, k)',
         NEW kinds, NEW visible,
         \A k \in Kinds \cap kinds \cap visible : WillBeFound(t, k)',
         tig' = Fallen(t, kinds, visible)
  PROVE  IInv'
<1> DEFINE falls(v, k) == /\ v \in t.loaded /\ k \in kinds \cap visible \cap KindsOf(v)
                          /\ TriggersOf({k}) \cap t.watch[v].changed = {}
           untold == [v \in Views |-> [k \in Kinds |->
                        IF falls(v, k) /\ t.untold[v][k] = Never THEN now
                        ELSE t.untold[v][k]]]
           ahead == t.ahead \cup (kinds \cap RefKinds)
<1> PICK u : u = [t EXCEPT !.ahead = ahead, !.untold = untold]
  OBVIOUS
<1>1. tig' = u
  <2>1. \A v \in Views, k \in Kinds :
          (IF falls(v, k)
           THEN IF t.untold[v][k] = Never THEN now ELSE t.untold[v][k]
           ELSE t.untold[v][k]) = untold[v][k]
    OBVIOUS
  <2>2. QED
    BY DEF Fallen
<1>2. /\ t \in Tig /\ now \in Time /\ Time \subseteq Nat \ {0}
      /\ t.untold \in [Views -> [Kinds -> {Never} \cup Time]]
      /\ t.update \in Nat /\ t.update <= now
  BY TimeIsNatural DEF IInv, Sound, Tig, Never
<1>3. untold \in [Views -> [Kinds -> {Never} \cup Time]] /\ ahead \subseteq RefKinds
  BY <1>2 DEF Tig
<1> HIDE DEF ahead
<1>4. /\ u \in Tig /\ u.untold = untold /\ u.watch = t.watch /\ u.loaded = t.loaded
      /\ u.update = t.update /\ u.wake = t.wake /\ u.mode = t.mode
      /\ u.head = t.head /\ u.diff = t.diff /\ u.looked = t.looked
      /\ u.headSeen = t.headSeen /\ u.refsSeen = t.refsSeen
  <2> HIDE DEF untold
  <2>1. QED
    BY <1>2, <1>3 DEF Tig
<1>5. ASSUME NEW v \in Views, NEW k \in Kinds, untold[v][k] # Never
      PROVE  /\ TriggersOf({k}) \subseteq t.watch[v].triggers
             /\ TriggersOf({k}) \cap t.watch[v].changed = {}
             /\ t.update <= untold[v][k] /\ untold[v][k] <= now
             /\ WillBeFound(t, k)'
  <2>1. CASE t.untold[v][k] # Never
    <3>1. untold[v][k] = t.untold[v][k]
      BY <2>1
    <3>2. /\ TriggersOf({k}) \subseteq t.watch[v].triggers
          /\ TriggersOf({k}) \cap t.watch[v].changed = {}
          /\ t.update <= t.untold[v][k] /\ t.untold[v][k] <= now
          /\ WillBeFound(t, k)
      BY <2>1 DEF Sound, Owed
    <3>3. WillBeFound(t, k)'
      BY <2>1, <3>2
    <3>4. QED
      BY <3>1, <3>2, <3>3
  <2>2. CASE t.untold[v][k] = Never
    <3>1. falls(v, k) /\ untold[v][k] = now
      BY <1>5, <2>2
    <3>2. t.watch[v].triggers = TriggersOf(KindsOf(v))
      BY <3>1 DEF Sound, Registers
    <3>3. TriggersOf({k}) \subseteq TriggersOf(KindsOf(v))
      BY <3>1, KindHasTriggers
    <3>4. WillBeFound(t, k)'
      BY <3>1
    <3>5. now <= now
      BY <1>2
    <3>6. QED
      BY <1>2, <3>1, <3>2, <3>3, <3>4, <3>5
  <2>3. QED
    BY <2>1, <2>2
<1> HIDE DEF untold, falls
<1>6. \A k : WillBeFound(t, k)' => WillBeFound(tig, k)'
  <2>1. /\ tig'.head = t.head /\ tig'.diff = t.diff /\ tig'.looked = t.looked
        /\ tig'.headSeen = t.headSeen /\ tig'.refsSeen = t.refsSeen
    BY <1>1, <1>4
  <2>2. QED
    BY <2>1 DEF WillBeFound, Found, Newer
<1>7. Owed(tig, {})'
  <2>1. /\ tig'.untold = untold /\ tig'.watch = t.watch /\ tig'.update = t.update
    BY <1>1, <1>4
  <2>2. ASSUME NEW v \in Views, NEW k \in Kinds, tig'.untold[v][k] # Never
        PROVE  /\ TriggersOf({k}) \subseteq tig'.watch[v].triggers
               /\ TriggersOf({k}) \cap tig'.watch[v].changed = {}
               /\ tig'.update <= tig'.untold[v][k] /\ tig'.untold[v][k] <= now'
               /\ WillBeFound(tig, k)'
    <3>1. /\ TriggersOf({k}) \subseteq t.watch[v].triggers
          /\ TriggersOf({k}) \cap t.watch[v].changed = {}
          /\ t.update <= untold[v][k] /\ untold[v][k] <= now
          /\ WillBeFound(t, k)'
      BY <1>5, <2>1, <2>2
    <3>2. QED
      BY <1>6, <2>1, <3>1
  <2>3. QED
    BY <2>2 DEF Owed
<1>8. Registers(tig)'
  BY <1>1, <1>4 DEF Sound, Registers
<1>9. Sound(tig, {})'
  BY <1>1, <1>2, <1>4, <1>7, <1>8 DEF Sound
<1>10. InTime(tig)'
  BY <1>1, <1>4 DEF InTime
<1>11. \A f \in Files : repo'.mtime[f] <= now'
  <2>1. now <= now
    BY <1>2
  <2>2. QED
    BY <2>1 DEF IInv
<1>12. QED
  BY <1>2, <1>9, <1>10, <1>11 DEF IInv

\* A file that others write to now has the time of now, and no other file another.
LEMMA TouchedLater ==
  ASSUME IInv, NEW files, NEW m, m = Touched(files)
  PROVE  /\ m \in [Files -> Time]
         /\ \A f \in Files : m[f] = IF f \in files THEN now ELSE repo.mtime[f]
BY DEF IInv, Touched, Repositories

\* Files do not become older, so what was newer than the last look still is.
LEMMA StillFound ==
  ASSUME IInv, repo' \in Repositories, repo'.unstaged = repo.unstaged,
         \A f \in Files : repo'.mtime[f] = now \/ repo'.mtime[f] = repo.mtime[f],
         NEW t \in Tig, NEW k \in Kinds, WillBeFound(t, k)
  PROVE  WillBeFound(t, k)'
<1>1. ASSUME NEW f \in Files, NEW seen \in {Never} \cup Time, Found(f, seen)
      PROVE  Found(f, seen)'
  <2>1. seen # Never /\ repo.mtime[f] > seen
    BY <1>1 DEF Found, Newer
  <2>2. /\ repo.mtime[f] \in Nat /\ now \in Nat /\ seen \in Nat
        /\ repo.mtime[f] <= now
    BY SeenIsNatural DEF IInv, Repositories
  <2>3. repo'.mtime[f] > seen
    <3>1. CASE repo'.mtime[f] = now
      BY <2>1, <2>2, <3>1
    <3>2. CASE repo'.mtime[f] = repo.mtime[f]
      BY <2>1, <3>2
    <3>3. QED
      BY <3>1, <3>2
  <2>4. QED
    BY <2>1, <2>3 DEF Found, Newer
<1>2. /\ t.headSeen \in {Never} \cup Time /\ t.refsSeen \in {Never} \cup Time
      /\ HeadFile \in Files /\ HeadsDir \in Files /\ t.head \in Files
  BY DEF Tig, Files
<1>3. CASE k = "head"
  <2>1. Found(HeadFile, t.headSeen) \/ Found(t.head, t.headSeen)
    BY <1>3 DEF WillBeFound
  <2>2. Found(HeadFile, t.headSeen)' \/ Found(t.head, t.headSeen)'
    BY <1>1, <1>2, <2>1
  <2>3. QED
    BY <1>3, <2>2 DEF WillBeFound
<1>4. CASE k = "refs"
  <2>1. Found(HeadsDir, t.refsSeen)
    BY <1>4 DEF WillBeFound
  <2>2. Found(HeadsDir, t.refsSeen)'
    BY <1>1, <1>2, <2>1
  <2>3. QED
    BY <1>4, <2>2 DEF WillBeFound
<1>5. CASE k # "head" /\ k # "refs"
  BY <1>5 DEF WillBeFound
<1>6. QED
  BY <1>3, <1>4, <1>5

\* A handler that looked before this second will find a file that is written now.
LEMMA WrittenIsFound ==
  ASSUME IInv, NEW f \in Files, repo'.mtime[f] = now,
         NEW seen \in {Never} \cup Time, Visible(seen)
  PROVE  Found(f, seen)'
<1>1. seen # Never /\ seen < now /\ seen \in Nat /\ now \in Nat
  BY SeenIsNatural DEF Visible, IInv
<1>2. repo'.mtime[f] > seen
  BY <1>1
<1>3. QED
  BY <1>1, <1>2 DEF Found, Newer

LEMMA CheckoutIsSound ==
  ASSUME Watching, IInv, NEW b \in Branches, Checkout(b)
  PROVE  IInv'
<1> PICK t, m : t = tig /\ m = Touched({HeadFile})
  OBVIOUS
<1> PICK kinds, visible :
      kinds = {"head"} /\ visible = IF Visible(t.headSeen) THEN {"head"} ELSE {}
  OBVIOUS
<1>1. /\ repo' = [repo EXCEPT !.mtime = m, !.branch = b, !.changes = @ + 1]
      /\ now' = now /\ repo.changes < MaxChanges
      /\ tig' = Fallen(t, kinds, visible)
  BY DEF Checkout, Others
<1>2. /\ m \in [Files -> Time]
      /\ \A f \in Files : m[f] = IF f \in {HeadFile} THEN now ELSE repo.mtime[f]
  BY TouchedLater
<1>3. /\ repo \in Repositories /\ repo.changes \in 0 .. MaxChanges /\ MaxChanges \in Nat
      /\ Sound(t, {}) /\ InTime(t) /\ t \in Tig
  BY PollingAssumption DEF IInv, Repositories, Sound
<1>4. repo' \in Repositories /\ repo'.mtime = m /\ repo'.unstaged = repo.unstaged
  <2> PICK n : n = repo.changes + 1
    OBVIOUS
  <2>1. n \in 0 .. MaxChanges
    BY <1>1, <1>3
  <2>2. QED
    BY <1>1, <1>2, <1>3, <2>1 DEF Repositories
<1>5. \A f \in Files : repo'.mtime[f] = now \/ repo'.mtime[f] = repo.mtime[f]
  BY <1>2, <1>4
<1>6. \A v \in Views, k \in Kinds :
        t.untold[v][k] # Never /\ WillBeFound(t, k) => WillBeFound(t, k)'
  BY <1>3, <1>4, <1>5, StillFound
<1>7. ASSUME NEW k \in Kinds \cap kinds \cap visible
      PROVE  WillBeFound(t, k)'
  <2>1. k = "head" /\ Visible(t.headSeen)
    BY <1>7
  <2>2. HeadFile \in Files /\ t.headSeen \in {Never} \cup Time
    BY <1>3 DEF Files, Tig
  <2>3. repo'.mtime[HeadFile] = now
    BY <1>2, <1>4, <2>2
  <2>4. Found(HeadFile, t.headSeen)'
    BY <2>1, <2>2, <2>3, WrittenIsFound
  <2>5. QED
    BY <2>1, <2>4 DEF WillBeFound
<1>8. QED
  BY <1>1, <1>3, <1>4, <1>5, <1>6, <1>7, FallenIsSound

LEMMA CommitIsSound ==
  ASSUME Watching, IInv, Commit
  PROVE  IInv'
<1> PICK b : b = repo.branch
  OBVIOUS
<1> PICK dir : dir = IF b \in Nested THEN {} ELSE {HeadsDir}
  OBVIOUS
<1> PICK t, m : t = tig /\ m = Touched({b} \cup dir)
  OBVIOUS
<1> PICK kinds, visible :
      /\ kinds = {"head", "refs"}
      /\ visible = (IF Visible(t.headSeen) /\ t.head = b THEN {"head"} ELSE {})
                   \cup (IF Visible(t.refsSeen) /\ dir # {} THEN {"refs"} ELSE {})
  OBVIOUS
<1>1. /\ repo' = [repo EXCEPT !.mtime = m, !.changes = @ + 1]
      /\ now' = now /\ repo.changes < MaxChanges
      /\ tig' = Fallen(t, kinds, visible)
  BY DEF Commit, Others
<1>2. /\ m \in [Files -> Time]
      /\ \A f \in Files : m[f] = IF f \in {b} \cup dir THEN now ELSE repo.mtime[f]
  BY TouchedLater
<1>3. /\ repo \in Repositories /\ repo.changes \in 0 .. MaxChanges /\ MaxChanges \in Nat
      /\ Sound(t, {}) /\ InTime(t) /\ t \in Tig /\ b \in Branches
  BY PollingAssumption DEF IInv, Repositories, Sound
<1>4. repo' \in Repositories /\ repo'.mtime = m /\ repo'.unstaged = repo.unstaged
  <2> PICK n : n = repo.changes + 1
    OBVIOUS
  <2>1. n \in 0 .. MaxChanges
    BY <1>1, <1>3
  <2>2. QED
    BY <1>1, <1>2, <1>3, <2>1 DEF Repositories
<1>5. \A f \in Files : repo'.mtime[f] = now \/ repo'.mtime[f] = repo.mtime[f]
  BY <1>2, <1>4
<1>6. \A v \in Views, k \in Kinds :
        t.untold[v][k] # Never /\ WillBeFound(t, k) => WillBeFound(t, k)'
  BY <1>3, <1>4, <1>5, StillFound
<1>7. ASSUME NEW k \in Kinds \cap kinds \cap visible
      PROVE  WillBeFound(t, k)'
  <2>1. \/ k = "head" /\ Visible(t.headSeen) /\ t.head = b
        \/ k = "refs" /\ Visible(t.refsSeen) /\ dir # {}
    BY <1>7
  <2>2. /\ HeadsDir \in Files /\ b \in Files
        /\ t.headSeen \in {Never} \cup Time /\ t.refsSeen \in {Never} \cup Time
    BY <1>3 DEF Files, Tig
  <2>3. CASE k = "head"
    <3>1. repo'.mtime[b] = now
      BY <1>2, <1>4, <2>2
    <3>2. Visible(t.headSeen) /\ t.head = b
      BY <2>1, <2>3
    <3>3. Found(b, t.headSeen)'
      BY <2>2, <3>1, <3>2, WrittenIsFound
    <3>4. QED
      BY <2>3, <3>2, <3>3 DEF WillBeFound
  <2>4. CASE k = "refs"
    <3>1. Visible(t.refsSeen) /\ dir = {HeadsDir}
      BY <2>1, <2>4
    <3>2. repo'.mtime[HeadsDir] = now
      BY <1>2, <1>4, <2>2, <3>1
    <3>3. Found(HeadsDir, t.refsSeen)'
      BY <2>2, <3>1, <3>2, WrittenIsFound
    <3>4. QED
      BY <2>4, <3>3 DEF WillBeFound
  <2>5. QED
    BY <2>1, <2>3, <2>4
<1>8. QED
  BY <1>1, <1>3, <1>4, <1>5, <1>6, <1>7, FallenIsSound

LEMMA EditIsSound ==
  ASSUME Watching, IInv, Edit
  PROVE  IInv'
<1>1. /\ repo' = [repo EXCEPT !.unstaged = ~@, !.changes = @ + 1]
      /\ now' = now /\ repo.changes < MaxChanges
  BY DEF Edit, Others
<1>2. /\ repo \in Repositories /\ repo.changes \in 0 .. MaxChanges /\ MaxChanges \in Nat
      /\ Sound(tig, {}) /\ InTime(tig) /\ tig \in Tig
  BY PollingAssumption DEF IInv, Repositories, Sound
<1>3. /\ repo' \in Repositories /\ repo'.mtime = repo.mtime
      /\ repo'.unstaged = ~repo.unstaged
  <2> PICK n, unstaged : n = repo.changes + 1 /\ unstaged = ~repo.unstaged
    OBVIOUS
  <2>1. n \in 0 .. MaxChanges /\ unstaged \in BOOLEAN
    BY <1>1, <1>2
  <2>2. repo' = [repo EXCEPT !.unstaged = unstaged, !.changes = n]
    BY <1>1
  <2>3. QED
    BY <1>2, <2>1, <2>2 DEF Repositories
<1>4. \A f \in Files : repo'.mtime[f] = now \/ repo'.mtime[f] = repo.mtime[f]
  BY <1>3
<1>5. \A k \in {"head", "refs"} : \A t : WillBeFound(t, k) => WillBeFound(t, k)'
  BY <1>3 DEF WillBeFound, Found, Newer
<1>6. CASE tig.looked /\ tig.diff # repo'.unstaged
  <2> PICK t, kinds : t = tig /\ kinds = IndexKinds
    OBVIOUS
  <2>1. tig' = Fallen(t, kinds, kinds) /\ t.looked /\ t.diff # repo'.unstaged
    BY <1>6 DEF Edit
  <2>2. WillBeFound(t, "unstaged")'
    BY <2>1 DEF WillBeFound
  <2>3. \A v \in Views, k \in Kinds :
          t.untold[v][k] # Never /\ WillBeFound(t, k) => WillBeFound(t, k)'
    BY <1>5, <2>2, KindsAre
  <2>4. \A k \in Kinds \cap kinds \cap kinds : WillBeFound(t, k)'
    BY <2>2, KindsAre
  <2>5. QED
    BY <1>1, <1>2, <1>3, <1>4, <2>1, <2>3, <2>4, FallenIsSound
<1>7. CASE ~(tig.looked /\ tig.diff # repo'.unstaged)
  <2> DEFINE untold == [v \in Views |-> [tig.untold[v] EXCEPT !["unstaged"] = Never]]
  <2> PICK t, kinds, visible :
        t = [tig EXCEPT !.untold = untold] /\ kinds = IndexKinds /\ visible = {}
    OBVIOUS
  <2>1. tig' = Fallen(t, kinds, visible)
    BY <1>7 DEF Edit
  <2>2. tig.untold \in [Views -> [Kinds -> {Never} \cup Time]]
    BY <1>2 DEF Tig
  <2>3. /\ untold \in [Views -> [Kinds -> {Never} \cup Time]]
        /\ \A v \in Views, k \in Kinds :
             untold[v][k] = IF k = "unstaged" THEN Never ELSE tig.untold[v][k]
    BY <2>2
  <2> HIDE DEF untold
  <2>4. /\ t \in Tig /\ t.untold = untold /\ t.watch = tig.watch /\ t.loaded = tig.loaded
        /\ t.update = tig.update /\ t.wake = tig.wake /\ t.mode = tig.mode
        /\ t.head = tig.head /\ t.diff = tig.diff /\ t.looked = tig.looked
        /\ t.headSeen = tig.headSeen /\ t.refsSeen = tig.refsSeen
    BY <1>2, <2>3 DEF Tig
  <2>5. Sound(t, {})
    <3>1. \A k : WillBeFound(tig, k) => WillBeFound(t, k)
      BY <2>4 DEF WillBeFound
    <3>2. \A v \in Views, k \in Kinds :
            t.untold[v][k] # Never => t.untold[v][k] = tig.untold[v][k]
      BY <2>3, <2>4
    <3>3. Owed(t, {})
      BY <1>2, <2>4, <3>1, <3>2 DEF Sound, Owed
    <3>4. QED
      BY <1>2, <2>4, <3>3 DEF Sound, Registers
  <2>6. InTime(t)
    BY <1>2, <2>4 DEF InTime
  <2>7. \A v \in Views, k \in Kinds :
          t.untold[v][k] # Never /\ WillBeFound(t, k) => WillBeFound(t, k)'
    BY <1>5, <2>3, <2>4, KindsAre
  <2>8. \A k \in Kinds \cap kinds \cap visible : WillBeFound(t, k)'
    OBVIOUS
  <2>9. QED
    BY <1>1, <1>3, <1>4, <2>1, <2>5, <2>6, <2>7, <2>8, FallenIsSound
<1>8. QED
  BY <1>6, <1>7

LEMMA NextIsSound ==
  ASSUME Watching, IInv, [Next]_vars
  PROVE  IInv'
<1>1. Here /\ Sound(tig, {}) /\ tig.view \in Views /\ tig \in Tig
  BY DEF IInv, Here, Sound, Tig
<1>2. CASE Key
  <2> PICK t : t = tig
    OBVIOUS
  <2>1. Sound(t, {}) /\ tig' = Looped(t) /\ UNCHANGED <<now, repo>>
    BY <1>1, <1>2 DEF Key
  <2>2. QED
    BY <2>1, TigSteps
<1>3. ASSUME NEW v \in Views, Switch(v)
      PROVE  IInv'
  <2> PICK t, s : t = tig /\ s = Switched(t, v)
    OBVIOUS
  <2>1. tig' = Looped(s) /\ UNCHANGED <<now, repo>>
    BY <1>3 DEF Switch
  <2>2. Sound(s, {})
    BY <1>1, SwitchedIsSound
  <2>3. QED
    BY <2>1, <2>2, TigSteps
<1>4. CASE Refresh
  <2> PICK t, v : t = tig /\ v = tig.view
    OBVIOUS
  <2> PICK l : l = RefsLoaded(t)
    OBVIOUS
  <2> PICK o : o = Opened(l, v)
    OBVIOUS
  <2>1. tig' = Looped(o) /\ UNCHANGED <<now, repo>>
    BY <1>4 DEF Refresh
  <2>2. Sound(l, {})
    BY <1>1, RefsLoadedIsSound
  <2>3. Sound(o, {})
    BY <1>1, <2>2, OpenedIsSound
  <2>4. QED
    BY <2>1, <2>3, TigSteps
<1>5. ASSUME NEW editor \in BOOLEAN, Command(editor)
      PROVE  IInv'
  <2> PICK t, v : t = tig /\ v = tig.view
    OBVIOUS
  <2> PICK d : d = Commanded(t)
    OBVIOUS
  <2> PICK c : c = [d EXCEPT !.watch = Cleaned(@, v)]
    OBVIOUS
  <2> PICK l : l = RefsLoaded(c)
    OBVIOUS
  <2> PICK r : r = IF editor \/ v \notin RefViews THEN c ELSE l
    OBVIOUS
  <2> PICK o : o = Opened(r, v)
    OBVIOUS
  <2> PICK s : s = IF IsDirty(d, v) THEN o ELSE c
    OBVIOUS
  <2>1. tig' = Looped(s) /\ UNCHANGED <<now, repo>>
    BY <1>5 DEF Command
  <2>2. Sound(d, {})
    BY <1>1, CommandedIsSound
  <2>3. Sound(c, {})
    <3> PICK none : none = {}
      OBVIOUS
    <3>1. Sound([d EXCEPT !.watch = Cleaned(@, v)], none)
      BY <1>1, <2>2, CleanedIsSound
    <3>2. QED
      BY <3>1
  <2>4. Sound(l, {})
    BY <1>1, <2>3, RefsLoadedIsSound
  <2>5. Sound(r, {})
    BY <2>3, <2>4
  <2>6. Sound(o, {})
    BY <1>1, <2>5, OpenedIsSound
  <2>7. Sound(s, {})
    BY <2>3, <2>6
  <2>8. QED
    BY <2>1, <2>7, TigSteps
<1>6. CASE Tick
  BY <1>6, TickIsSound
<1>7. CASE Commit
  BY <1>7, CommitIsSound
<1>8. CASE Edit
  BY <1>8, EditIsSound
<1>9. ASSUME NEW b \in Branches, Checkout(b)
      PROVE  IInv'
  BY <1>9, CheckoutIsSound
<1>10. CASE UNCHANGED vars
  <2>1. now' = now /\ repo' = repo /\ tig' = tig
    BY <1>10 DEF vars
  <2>2. Sound(tig, {})' /\ InTime(tig)'
    BY <2>1 DEF IInv, InTime, Sound, Registers, Owed, WillBeFound, Found, Newer
  <2>3. QED
    BY <2>1, <2>2 DEF IInv
<1>11. QED
  BY <1>2, <1>3, <1>4, <1>5, <1>6, <1>7, <1>8, <1>9, <1>10 DEF Next

-------------------------------------------------------------------------------
(* The theorems.                                                           *)

\* If tig looks at files by itself, the program stays sound and in time.
THEOREM StaysSound ==
  ASSUME Watching
  PROVE  Spec => []IInv
<1>1. Init => IInv
  BY Initially
<1>2. IInv /\ [Next]_vars => IInv'
  BY NextIsSound
<1>3. QED
  BY <1>1, <1>2, PTL DEF Spec

\* The variables have their types.
THEOREM TypeCorrect ==
  ASSUME Watching
  PROVE  Spec => []TypeOK
<1>1. IInv => TypeOK
  BY DEF IInv, Sound, TypeOK
<1>2. QED
  BY <1>1, StaysSound, PTL

\* No look of a handler for one view uses up a change that another view, which
\* has registered for it, has not been told of.
THEOREM NothingEverUsedUp ==
  ASSUME Watching
  PROVE  Spec => []NothingUsedUp
<1>1. IInv => NothingUsedUp
  BY DEF IInv, Sound, Owed, NothingUsedUp
<1>2. QED
  BY <1>1, StaysSound, PTL

\* However the user times the keys, with refresh-mode periodic every view is told
\* of a change that a handler can see within three intervals.
THEOREM AlwaysToldInTime ==
  ASSUME Watching
  PROVE  Spec => []ToldInTime
<1>1. IInv => ToldInTime
  <2>1. SUFFICES ASSUME IInv, tig.mode = "periodic",
                        NEW v \in Views, NEW k \in Kinds, tig.untold[v][k] # Never
                 PROVE  now - tig.untold[v][k] <= 3 * Interval - 2
    BY DEF ToldInTime
  <2>2. /\ now <= tig.wake /\ tig.wake <= tig.update + 3 * Interval - 2
        /\ tig.update <= tig.untold[v][k]
    BY <2>1 DEF IInv, InTime, Sound, Owed
  <2>3. /\ tig.untold[v][k] \in Nat /\ tig.update \in Nat /\ tig.wake \in Nat
        /\ now \in Nat /\ Interval \in Nat
    BY <2>1, SeenIsNatural, PollingAssumption DEF IInv, Sound, Tig
  <2>4. QED
    BY <2>2, <2>3
<1>2. QED
  BY <1>1, StaysSound, PTL
================================================================================
