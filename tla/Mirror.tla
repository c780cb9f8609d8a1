------------------------------- MODULE Mirror -------------------------------
(***************************************************************************)
(* The derived mirror beside the row files: `catalog.rs` and `mirror/`.    *)
(* A command brings the mirror in line with the folder, trusting the       *)
(* timestamps of files it need not read; plans a change and observes the   *)
(* state it would make inside a savepoint; commits it through the journal  *)
(* (one step here: module Journal); and keeps beside the rows what history *)
(* recorded, with the set of paths on which the two may differ.  Editors   *)
(* change files at any moment, and the command may die between any two     *)
(* steps.                                                                  *)
(***************************************************************************)
EXTENDS Naturals, FiniteSets, Sequences

CONSTANTS
  Path,       \* row files
  Table,      \* tables
  TableOf,    \* the table whose directory a path is in
  Row,        \* canonical rows, by their hash
  NoRow,      \* a file that holds no row, or no row at a path
  Content,    \* the bytes a file may hold: [row, style]
  SizeOf,     \* their length
  Absent,     \* no file, no entry
  Planned,    \* the bytes a change of this program may write
  AskWhen,    \* the observations a folder monitor answers for
  MaxTime,    \* bound: ticks of the filesystem's clock
  MaxEdits,   \* bound: changes made by others
  MaxPlans,   \* bound: changes this program commits
  MaxKills    \* bound: deaths of the process

ASSUME Kinds == /\ TableOf \in [Path -> Table]
                /\ \A c \in Content: c.row \in Row \union {NoRow}
                /\ SizeOf \in [Content -> Nat]
                /\ Planned \subseteq {c \in Content: c.row # NoRow}
                /\ AskWhen \subseteq {"observe", "prospect"}

(* What tells files apart without reading them, and the row of a file with *)
(* its stamp: when it was last read, and the stat it had.                  *)
Stat == [mtime: Nat, ino: Nat, size: Nat]
DiskFile == [data: Content, mtime: Nat, ino: Nat]
Entry == [data: Content, stat: Stat, seen: Nat]

\* What is not there is none of these.
ASSUME AbsentIsNothing == Absent \notin Content \union Stat \union DiskFile \union Entry
ASSUME Bounds == {MaxTime, MaxEdits, MaxPlans, MaxKills} \subseteq Nat

VARIABLES
  now,      \* the filesystem's clock
  disk,     \* path -> file
  schemas,  \* the tables a schema file governs
  heads,    \* the recorded trees, path -> row, the last one being the head
  mir,      \* the mirror as the open connection sees it
  base,     \* the mirror as last committed to its file
  pc,       \* what the command is doing
  seen,     \* the scan marker's time
  watched,  \* the scan reads only the paths the monitor reported
  listing,  \* path -> what the directory listing said of it
  todo,     \* paths of the scan still to be looked at
  plan,     \* the change being planned or committed: rows and schemas
  delta,    \* the row changes its revision records
  held,     \* path -> what the file has held since the observation began
  edits, plans, kills, inodes

scan == <<seen, watched, listing, todo, held>>
change == <<plan, delta>>
counts == <<edits, plans, kills>>
world == <<now, disk, schemas, heads, inodes>>
vars == <<world, mir, base, pc, scan, change, counts>>

Nothing == [p \in {} |-> Absent]
NoPlan == [rows |-> Nothing, schemas |-> {}, pre |-> Nothing]
HeadTree == heads[Len(heads)]
StatOf(f) == [mtime |-> f.mtime, ino |-> f.ino, size |-> SizeOf[f.data]]
BytesOf(f) == IF f = Absent THEN Absent ELSE f.data
RowOf(e) == IF e = Absent THEN NoRow ELSE e.data.row

(***************************************************************************)
(* The mirror's tables.  A change of a file's row, of a recorded row, or   *)
(* of whether either is there leaves the path unsettled: the triggers.     *)
(***************************************************************************)
Removed(m, p) ==
  [m EXCEPT !.files[p] = Absent,
            !.unsettled = IF m.files[p] = Absent THEN @ ELSE @ \union {p}]

Put(m, p, data, stat, at) ==
  [m EXCEPT !.files[p] = [data |-> data, stat |-> stat, seen |-> at],
            !.unsettled = @ \union {p}]

Touch(m, p, stat, at) ==
  [m EXCEPT !.files[p] = [data |-> m.files[p].data, stat |-> stat, seen |-> at]]

\* Mutant: recording settles every path, whatever its file holds.
SettleAll(m) == [m EXCEPT !.unsettled = {}]

Settle(m) ==
  [m EXCEPT !.unsettled = {p \in @: RowOf(m.files[p]) # m.recorded[p]}]

With(tree, d) == [p \in Path |-> IF p \in DOMAIN d THEN d[p] ELSE tree[p]]

ApplyRecorded(m, d) ==
  Settle([m EXCEPT !.recorded = With(@, d),
                   !.unsettled = @ \union DOMAIN d,
                   !.at = Len(heads)])

ReplaceRecorded(m) ==
  Settle([m EXCEPT !.recorded = HeadTree,
                   !.unsettled = @ \union {p \in Path: {HeadTree[p], m.recorded[p]} # {NoRow}},
                   !.at = Len(heads)])

(* By the difference from the tree the mirror describes, if the store      *)
(* still holds it, or wholesale.                                           *)
SyncRecorded(m, whole) ==
  IF m.at = Len(heads) THEN m
  ELSE IF whole THEN ReplaceRecorded(m)
  ELSE ApplyRecorded(m, [p \in {x \in Path: HeadTree[x] # heads[m.at][x]} |-> HeadTree[p]])

(* A table that lost its schema, or gained one, starts with no rows. *)
SyncSchemas(m, governed) ==
  [m EXCEPT !.files = [p \in Path |-> IF TableOf[p] \in governed \intersect m.tables
                                        THEN @[p] ELSE Absent],
            !.unsettled = @ \union {p \in Path: /\ m.files[p] # Absent
                                                /\ TableOf[p] \notin governed \intersect m.tables},
            !.tables = governed]

(* What the mirror says differs from the recorded head: the paths the      *)
(* triggers marked, looked up one by one.                                  *)
RowChanges(m) ==
  [p \in {u \in m.unsettled: RowOf(m.files[u]) # m.recorded[u]} |-> RowOf(m.files[p])]

\* Mutant: a time as late as the scan's own is trusted.
TrustedAtOnce(e, stat) == e.stat = stat /\ stat.mtime <= e.seen

(* The stamp still describes a file with this stat.  One tick is the       *)
(* filesystem's timestamp granularity.                                     *)
TrustedFor(e, stat) == e.stat = stat /\ stat.mtime + 1 < e.seen

(***************************************************************************)
(* The tree through a set of planned changes (`Overlay`): a planned file   *)
(* has metadata no file has, its size apart, and a deleted one none.       *)
(***************************************************************************)
PlannedStat(c) == [mtime |-> 0, ino |-> 0, size |-> SizeOf[c]]

Metadata(p) ==
  CASE p \notin DOMAIN plan.rows -> IF disk[p] = Absent THEN Absent ELSE StatOf(disk[p])
    [] p \in DOMAIN plan.rows -> IF plan.rows[p] = Absent THEN Absent
                                ELSE PlannedStat(plan.rows[p])

\* Mutant: a planned file's bytes are read from the disk.
ReadThrough(p) == BytesOf(disk[p])

Read(p) == IF p \in DOMAIN plan.rows THEN plan.rows[p] ELSE BytesOf(disk[p])
Governed == IF pc = "prospect" THEN plan.schemas ELSE schemas
RowFiles(tables) == {p \in Path: TableOf[p] \in tables}

Init ==
  /\ now = 1
  /\ disk \in [Path -> {Absent} \union [data: Planned, mtime: {1}, ino: {1}]]
  /\ schemas = Table
  /\ heads = <<[p \in Path |-> NoRow]>>
  /\ mir = [files |-> [p \in Path |-> Absent], recorded |-> HeadTree, at |-> 1, unsettled |-> {},
            tables |-> {}, marked |-> FALSE, reported |-> {}, stray |-> FALSE]
  /\ base = mir
  /\ pc = "down"
  /\ seen = 0 /\ watched = FALSE /\ listing = Absent /\ todo = {}
  /\ plan = NoPlan /\ delta = Nothing
  /\ held = Nothing
  /\ edits = 0 /\ plans = 0 /\ kills = 0 /\ inodes = 1

(***************************************************************************)
(* The world: time passes between two steps that read the clock; editors   *)
(* save, replace and remove files.  The monitor hears of each (module      *)
(* Monitor) and will report it to whoever asks from an earlier mark.       *)
(***************************************************************************)
Heard(ps) == /\ mir' = [mir EXCEPT !.reported = @ \union ps]
             /\ base' = [base EXCEPT !.reported = @ \union ps]

Passes == now' \in now..MaxTime

Edited(p, f) ==
  /\ edits < MaxEdits
  /\ edits' = edits + 1
  /\ disk' = [disk EXCEPT ![p] = f]
  /\ held' = IF held = Nothing THEN held ELSE [held EXCEPT ![p] = @ \union {BytesOf(f)}]
  /\ Heard({p})
  /\ UNCHANGED <<schemas, heads, pc, seen, watched, listing, todo, change, plans, kills>>

(* Written over in place: the same file, at the time it is written. *)
Save(p, c) ==
  /\ disk[p] # Absent
  /\ Passes
  /\ Edited(p, [data |-> c, mtime |-> now', ino |-> disk[p].ino])
  /\ UNCHANGED inodes

(* Another file under this name, which may keep an older time. *)
Replace(p, c, t) ==
  /\ Passes
  /\ t <= now'
  /\ inodes' = inodes + 1
  /\ Edited(p, [data |-> c, mtime |-> t, ino |-> inodes'])

Unlink(p) == /\ disk[p] # Absent
             /\ Edited(p, Absent)
             /\ UNCHANGED <<now, inodes>>

(***************************************************************************)
(* Observing (`refresh`): the scan's marker is written, the monitor asked, *)
(* the folder listed, and each file read after its stat was taken.         *)
(***************************************************************************)

(* `take_watched` is refused unless the reported paths alone can differ.   *)
(* A monitor that is not there, or an answer that cannot be used, means    *)
(* the folder is examined whole.                                           *)
Asked(tables) ==
  \E answered \in BOOLEAN:
    /\ answered => pc' \in AskWhen
    /\ watched' = (/\ answered
                   /\ mir.marked /\ mir.reported \subseteq RowFiles(tables)
                   /\ tables \subseteq mir.tables
                   /\ ~mir.stray)
    /\ todo' = IF watched' THEN mir.reported ELSE RowFiles(tables)
    /\ mir' = [SyncSchemas(mir, tables) EXCEPT !.marked = answered, !.reported = {}]
    /\ listing' = Absent
    /\ Passes
    /\ seen' = now'
    /\ held' = [p \in Path |-> {BytesOf(disk[p])}]

Open ==
  /\ pc \in {"down", "open"}
  /\ pc' = "observe"
  /\ Asked(schemas)
  /\ UNCHANGED <<disk, schemas, heads, inodes, base, change, counts>>

List ==
  /\ pc \in {"observe", "prospect"} /\ listing = Absent
  /\ listing' = [p \in {x \in todo: Metadata(x) # Absent} |-> Metadata(p)]
  /\ UNCHANGED <<world, mir, base, pc, seen, watched, todo, held, change, counts>>

Look(p) ==
  /\ listing # Absent
  /\ p \in todo
  /\ LET entry == mir.files[p]
         raw == Read(p)
     IN  mir' =
           CASE p \notin DOMAIN listing -> Removed(mir, p)
             [] /\ p \in DOMAIN listing
                /\ ~watched /\ entry # Absent /\ TrustedFor(entry, listing[p]) -> mir
             [] OTHER -> IF raw = Absent THEN Removed(mir, p)
                         ELSE IF BytesOf(entry) = raw THEN Touch(mir, p, listing[p], seen)
                         ELSE Put(mir, p, raw, listing[p], seen)
  /\ todo' = todo \ {p}
  /\ UNCHANGED <<world, base, pc, seen, watched, listing, held, change, counts>>

(* Files no schema governs: `find_ungoverned`, kept with the rows. *)
Observed(m) ==
  [m EXCEPT !.stray = IF watched THEN @
                        ELSE \E p \in Path \ RowFiles(Governed): Read(p) # Absent]

Looked == /\ listing # Absent /\ todo = {}
          /\ listing' = Absent
          /\ mir' = Observed(mir)

Release ==
  /\ pc = "observe" /\ Looked
  /\ base' = mir'
  /\ pc' = "observed"
  /\ UNCHANGED <<world, seen, watched, todo, held, change, counts>>

(* Between commands, and between a command's observations and changes. *)
Rests == /\ seen' = 0 /\ watched' = FALSE /\ listing' = Absent /\ todo' = {}
         /\ held' = Nothing

(* The recorded head is brought to history's. *)
LoadHead ==
  /\ pc = "observed"
  /\ \E whole \in BOOLEAN: mir' = SyncRecorded(mir, whole)
  /\ base' = mir'
  /\ pc' = "open" /\ Rests
  /\ UNCHANGED <<world, change, counts>>

(***************************************************************************)
(* A change.  Rows alone are taken into the mirror from the planned bytes  *)
(* (`ingest_rows`); one that touches a schema is judged by observing the   *)
(* folder again through an overlay (`prospect`).                           *)
(***************************************************************************)
IngestRows(m, rows) ==
  LET Taken(p) == IF rows[p] = Absent THEN Absent
                    ELSE [data |-> rows[p], stat |-> PlannedStat(rows[p]), seen |-> now']
  IN  [m EXCEPT !.files = [p \in Path |-> IF p \in DOMAIN rows THEN Taken(p) ELSE @[p]],
                !.unsettled = @ \union DOMAIN rows]

(* The mirror vouches for what a path it knows holds. *)
PreImage(p) == IF mir.files[p] # Absent THEN mir.files[p].data ELSE BytesOf(disk[p])

Plans(rows, tables) ==
  /\ pc = "open" /\ plans < MaxPlans
  /\ plans' = plans + 1
  /\ \A p \in DOMAIN rows: IF rows[p] = Absent THEN mir.files[p] # Absent
                                               ELSE TableOf[p] \in tables
  /\ plan' = [rows |-> rows, schemas |-> tables, pre |-> [p \in DOMAIN rows |-> PreImage(p)]]
  /\ UNCHANGED <<disk, schemas, heads, inodes, base, delta, edits, kills>>

PlanRows(rows) ==
  /\ Plans(rows, schemas)
  /\ Passes
  /\ mir' = IngestRows(mir, rows)
  /\ pc' = "planned"
  /\ held' = [p \in Path |-> {BytesOf(disk[p]), BytesOf(mir.files[p])}]
  /\ UNCHANGED <<seen, watched, listing, todo>>

PlanWhole(rows, tables) ==
  /\ tables # schemas
  /\ Plans(rows, tables)
  /\ pc' = "prospect"
  /\ Asked(tables)

Prospected ==
  /\ pc = "prospect" /\ Looked
  /\ pc' = "planned"
  /\ UNCHANGED <<world, base, seen, watched, todo, held, change, counts>>

(* Only a valid state is recorded. *)
Valid(m) == \A p \in Path: m.files[p] # Absent => m.files[p].data.row # NoRow

Records(m) ==
  /\ delta' = IF Valid(m) THEN RowChanges(m) ELSE Nothing
  /\ heads' = IF delta' = Nothing THEN heads ELSE Append(heads, With(HeadTree, delta'))

(* Refused, or a dry run: back to the savepoint. *)
Abandon ==
  /\ pc \in {"prospect", "planned"}
  /\ mir' = base
  /\ pc' = "open" /\ plan' = NoPlan /\ Rests
  /\ UNCHANGED <<world, base, delta, counts>>

(* The journal makes the files and the revision that records them there at *)
(* once, unless a file moved since the change was planned against it.      *)
Commit ==
  /\ pc = "planned"
  /\ \A p \in DOMAIN plan.pre: BytesOf(disk[p]) = plan.pre[p]
  /\ Records(mir)
  /\ Passes
  /\ inodes' = inodes + 1
  /\ disk' = [p \in Path |->
                IF p \notin DOMAIN plan.rows THEN disk[p]
                ELSE IF plan.rows[p] = Absent THEN Absent
                ELSE [data |-> plan.rows[p], mtime |-> now', ino |-> inodes']]
  /\ schemas' = plan.schemas
  /\ Heard(DOMAIN plan.rows \union (plan.schemas \ schemas) \union (schemas \ plan.schemas))
  /\ pc' = "committed"
  /\ UNCHANGED <<scan, plan, counts>>

Keep ==
  /\ pc = "committed"
  /\ base' = mir
  /\ pc' = "kept"
  /\ UNCHANGED <<world, mir, scan, change, counts>>

(* What changed outside is recorded before any change is planned, if the   *)
(* files still hold what was observed.                                     *)
Adopt ==
  /\ pc = "open"
  /\ RowChanges(mir) # Nothing /\ Valid(mir)
  /\ \A p \in DOMAIN RowChanges(mir): BytesOf(mir.files[p]) \in {Absent, BytesOf(disk[p])}
  /\ Records(mir)
  /\ pc' = "kept"
  /\ UNCHANGED <<now, disk, schemas, inodes, mir, base, scan, plan, counts>>

AfterRecording ==
  /\ pc = "kept"
  /\ mir' = IF delta = Nothing THEN mir ELSE ApplyRecorded(mir, delta)
  /\ base' = mir'
  /\ pc' = "open" /\ plan' = NoPlan /\ delta' = Nothing /\ Rests
  /\ UNCHANGED <<world, counts>>

(* The process dies; what its mirror had not committed is gone. *)
Kill ==
  /\ pc # "down" /\ kills < MaxKills
  /\ kills' = kills + 1
  /\ mir' = base
  /\ pc' = "down" /\ plan' = NoPlan /\ delta' = Nothing /\ Rests
  /\ UNCHANGED <<world, base, edits, plans>>

RowSets == UNION {[ps -> {Absent} \union Planned]: ps \in SUBSET Path}

Next ==
  \/ Open \/ List \/ Release \/ LoadHead
  \/ Prospected \/ Abandon \/ Commit \/ Keep \/ Adopt \/ AfterRecording \/ Kill
  \/ \E p \in Path: \/ Look(p)
                    \/ Unlink(p)
                    \/ \E c \in Content: Save(p, c)
                    \/ \E c \in Content, t \in 1..MaxTime: Replace(p, c, t)
  \/ \E rows \in RowSets: \/ rows # Nothing /\ PlanRows(rows)
                          \/ \E tables \in SUBSET Table: PlanWhole(rows, tables)

Spec == Init /\ [][Next]_vars

-----------------------------------------------------------------------------
(* What an observation leaves in the mirror for a file is what the file    *)
(* held at some moment since the observation began (catalog.rs:1041,       *)
(* mirror/mod.rs:111): no timestamp trusted in place of the bytes, and no  *)
(* path left to the monitor, hides an edit made before it.                 *)
ObservedIsHeld ==
  pc = "observed" => \A p \in RowFiles(schemas): BytesOf(mir.files[p]) \in held[p]

(* The observation of a planned change is the state the change would       *)
(* leave: its own files as planned, every other as it was (catalog.rs:187).*)
ProspectIsFuture ==
  pc \in {"planned", "committed", "kept"} =>
    \A p \in RowFiles(plan.schemas):
      IF p \in DOMAIN plan.rows THEN BytesOf(mir.files[p]) = plan.rows[p]
                                ELSE BytesOf(mir.files[p]) \in held[p]

(* The recorded rows kept in the mirror are those of the revision it names,*)
(* and once the folder is open that revision is the head, whatever step a  *)
(* process died at (history.rs:998).                                       *)
RecordedIsHead ==
  /\ mir.recorded = heads[mir.at] /\ base.recorded = heads[base.at]
  /\ pc = "open" => mir.at = Len(heads)

(* What is found through the unsettled paths is what comparing every row   *)
(* with the recorded head would find (mirror/recorded.rs:8), and what it   *)
(* is compared with is the head.                                           *)
DeltaIsWhole ==
  /\ \A m \in {mir, base}: \A p \in Path:
       RowOf(m.files[p]) # m.recorded[p] => p \in m.unsettled
  /\ RecordedIsHead

=============================================================================
