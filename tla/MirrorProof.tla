---------------------------- MODULE MirrorProof ----------------------------
(***************************************************************************)
(* Proofs about the mirror (Mirror), whatever its bounds: that what a       *)
(* finished observation left is what each file held at some moment since   *)
(* it began; that a change is judged by the state it would leave; that     *)
(* what differs from history is among the paths marked for a comparison.   *)
(*                                                                         *)
(* The invariant, Inv, says of an entry whose stamp would be trusted       *)
(* against the file on the disk that it holds what the file does (Stamps); *)
(* of a monitor that is believed, that it has told of every file the       *)
(* mirror does not have as it is (Watching); of a scan, what it has found  *)
(* and what its listing says (Scanned); and of the recorded rows whose     *)
(* they are (Recorded).                                                    *)
(***************************************************************************)
EXTENDS Mirror, TLAPS

Tree == [Path -> Row \union {NoRow}]
Copy == [files : [Path -> {Absent} \union Entry], recorded : Tree, at : Nat,
         unsettled : SUBSET Path, tables : SUBSET Table, marked : BOOLEAN,
         reported : SUBSET (Path \union Table), stray : BOOLEAN]

-----------------------------------------------------------------------------
(* What the operations do to a mirror                                      *)

\* What history is concerned with is as it was, but for the marks.
SameHistory(m, n) ==
  /\ n.recorded = m.recorded /\ n.at = m.at
  /\ m.unsettled \subseteq n.unsettled
  /\ \A p \in Path : RowOf(n.files[p]) # RowOf(m.files[p]) => p \in n.unsettled

\* What the monitor is concerned with is as it was.
SameWatch(m, n) ==
  n.tables = m.tables /\ n.marked = m.marked /\ n.reported = m.reported

LEMMA Bytes ==
  /\ BytesOf(Absent) = Absent /\ RowOf(Absent) = NoRow
  /\ \A e \in Entry : /\ e # Absent /\ BytesOf(e) = e.data /\ RowOf(e) = e.data.row
                      /\ e.data # Absent /\ e.data.row \in Row \union {NoRow}
  /\ \A f \in DiskFile : f # Absent /\ BytesOf(f) = f.data /\ f.data # Absent
  BY AbsentIsNothing, Kinds DEF BytesOf, RowOf, Entry, DiskFile

LEMMA RemovedFacts ==
  ASSUME NEW m \in Copy, NEW p \in Path
  PROVE  /\ Removed(m, p) \in Copy /\ SameHistory(m, Removed(m, p))
         /\ SameWatch(m, Removed(m, p))
         /\ Removed(m, p).files = [m.files EXCEPT ![p] = Absent]
  BY Bytes DEF Removed, Copy, SameHistory, SameWatch

LEMMA PutFacts ==
  ASSUME NEW m \in Copy, NEW p \in Path, NEW c \in Content, NEW stat \in Stat, NEW at \in Nat
  PROVE  /\ Put(m, p, c, stat, at) \in Copy /\ SameHistory(m, Put(m, p, c, stat, at))
         /\ SameWatch(m, Put(m, p, c, stat, at))
         /\ Put(m, p, c, stat, at).files =
              [m.files EXCEPT ![p] = [data |-> c, stat |-> stat, seen |-> at]]
  BY DEF Put, Copy, Entry, SameHistory, SameWatch

LEMMA TouchFacts ==
  ASSUME NEW m \in Copy, NEW p \in Path, NEW stat \in Stat, NEW at \in Nat, m.files[p] # Absent
  PROVE  /\ Touch(m, p, stat, at) \in Copy /\ SameHistory(m, Touch(m, p, stat, at))
         /\ SameWatch(m, Touch(m, p, stat, at))
         /\ Touch(m, p, stat, at).files =
              [m.files EXCEPT ![p] = [data |-> m.files[p].data, stat |-> stat, seen |-> at]]
<1> DEFINE e == [data |-> m.files[p].data, stat |-> stat, seen |-> at]
<1>1. m.files[p] \in Entry /\ e \in Entry
  BY DEF Copy, Entry
<1>2. Touch(m, p, stat, at) = [m EXCEPT !.files[p] = e]
  BY DEF Touch
<1>3. RowOf(e) = RowOf(m.files[p])
  BY <1>1, Bytes
<1> HIDE DEF e
<1> QED BY <1>1, <1>2, <1>3 DEF Copy, SameHistory, SameWatch, e

LEMMA SchemasFacts ==
  ASSUME NEW m \in Copy, NEW tables \in SUBSET Table
  PROVE  /\ SyncSchemas(m, tables) \in Copy /\ SameHistory(m, SyncSchemas(m, tables))
         /\ SyncSchemas(m, tables).tables = tables
         /\ SyncSchemas(m, tables).marked = m.marked
         /\ \A p \in Path : SyncSchemas(m, tables).files[p] =
              IF TableOf[p] \in tables \intersect m.tables THEN m.files[p] ELSE Absent
<1> DEFINE n == SyncSchemas(m, tables)
           F == [p \in Path |-> IF TableOf[p] \in tables \intersect m.tables
                                  THEN m.files[p] ELSE Absent]
           U == m.unsettled \union {p \in Path : /\ m.files[p] # Absent
                                                 /\ TableOf[p] \notin tables \intersect m.tables}
<1>1. n = [m EXCEPT !.files = F, !.unsettled = U, !.tables = tables]
  BY DEF SyncSchemas, Copy
<1>2. F \in [Path -> {Absent} \union Entry] /\ U \in SUBSET Path
  BY DEF Copy
<1>3. n.files = F /\ n.unsettled = U /\ n.tables = tables /\ n \in Copy
      /\ n.recorded = m.recorded /\ n.at = m.at /\ n.marked = m.marked
  BY <1>1, <1>2 DEF Copy
<1>4. \A p \in Path : RowOf(F[p]) # RowOf(m.files[p]) => p \in U
  OBVIOUS
<1> HIDE DEF n, F, U
<1>5. SameHistory(m, n)
  <2>1. m.unsettled \subseteq U
    BY DEF U
  <2> QED BY <1>3, <1>4, <2>1 DEF SameHistory
<1> QED BY <1>3, <1>5 DEF n, F

LEMMA IngestFacts ==
  ASSUME NEW m \in Copy, NEW rows, DOMAIN rows \subseteq Path,
         \A p \in DOMAIN rows : rows[p] \in {Absent} \union Planned, now' \in Nat
  PROVE  /\ IngestRows(m, rows) \in Copy /\ SameHistory(m, IngestRows(m, rows))
         /\ SameWatch(m, IngestRows(m, rows))
         /\ \A p \in Path : IngestRows(m, rows).files[p] =
              IF p \notin DOMAIN rows THEN m.files[p]
              ELSE IF rows[p] = Absent THEN Absent
              ELSE [data |-> rows[p], stat |-> PlannedStat(rows[p]), seen |-> now']
<1> DEFINE n == IngestRows(m, rows)
           E(p) == [data |-> rows[p], stat |-> PlannedStat(rows[p]), seen |-> now']
           F == [p \in Path |-> IF p \in DOMAIN rows
                                  THEN IF rows[p] = Absent THEN Absent ELSE E(p)
                                  ELSE m.files[p]]
           U == m.unsettled \union DOMAIN rows
<1>1. n = [m EXCEPT !.files = F, !.unsettled = U]
  BY DEF IngestRows, Copy
<1>2. \A p \in DOMAIN rows : rows[p] # Absent => E(p) \in Entry
  BY Kinds DEF Entry, Stat, PlannedStat
<1>3. F \in [Path -> {Absent} \union Entry] /\ U \in SUBSET Path
  BY <1>2 DEF Copy
<1>4. /\ n.files = F /\ n.unsettled = U /\ n \in Copy
      /\ n.recorded = m.recorded /\ n.at = m.at
      /\ n.tables = m.tables /\ n.marked = m.marked /\ n.reported = m.reported
  BY <1>1, <1>3 DEF Copy
<1>5. \A p \in Path : RowOf(F[p]) # RowOf(m.files[p]) => p \in U
  OBVIOUS
<1> HIDE DEF n, E, F, U
<1>6. SameHistory(m, n) /\ SameWatch(m, n)
  <2>1. m.unsettled \subseteq U
    BY DEF U
  <2> QED BY <1>4, <1>5, <2>1 DEF SameHistory, SameWatch
<1> QED BY <1>4, <1>6 DEF n, F, E

-----------------------------------------------------------------------------
(* What history recorded                                                   *)

\* Where files and recorded rows differ, the path is marked.
Marked(m) == \A p \in Path : RowOf(m.files[p]) # m.recorded[p] => p \in m.unsettled

\* The recorded rows are those of a revision.
Traced(m, h) == m.at \in 1..Len(h) /\ m.recorded = h[m.at] /\ Marked(m)

\* The rows of a revision's delta.
RowDelta(d) == DOMAIN d \subseteq Path /\ \A p \in DOMAIN d : d[p] \in Row \union {NoRow}

LEMMA WithTyped ==
  ASSUME NEW tree \in Tree, NEW d, RowDelta(d)
  PROVE  With(tree, d) \in Tree
  BY DEF With, Tree, RowDelta

LEMMA RowTyped ==
  ASSUME NEW m \in Copy, NEW p \in Path
  PROVE  RowOf(m.files[p]) \in Row \union {NoRow}
<1>1. CASE m.files[p] = Absent
  BY <1>1, Bytes
<1>2. CASE m.files[p] # Absent
  BY <1>2, Bytes DEF Copy
<1> QED BY <1>1, <1>2

LEMMA ChangesTyped ==
  ASSUME NEW m \in Copy
  PROVE  RowDelta(RowChanges(m))
  BY RowTyped DEF RowChanges, RowDelta, Copy

\* The rows of a tree take the place of the recorded ones.
InPlace(m, tree, U) ==
  [m EXCEPT !.recorded = tree, !.unsettled = m.unsettled \union U, !.at = Len(heads)]

LEMMA RecordingFacts ==
  ASSUME NEW m \in Copy, Marked(m), heads \in Seq(Tree), NEW tree \in Tree, NEW U \in SUBSET Path,
         \A p \in Path : tree[p] # m.recorded[p] => p \in U,
         NEW r, r = Settle(InPlace(m, tree, U))
  PROVE  /\ r \in Copy /\ Marked(r) /\ SameWatch(m, r)
         /\ r.recorded = tree /\ r.at = Len(heads) /\ r.files = m.files
<1> DEFINE k == InPlace(m, tree, U)
           W == {p \in k.unsettled : RowOf(k.files[p]) # k.recorded[p]}
           n == [k EXCEPT !.unsettled = W]
<1>1. Len(heads) \in Nat
  OBVIOUS
<1>2. /\ k \in Copy /\ SameWatch(m, k) /\ k.recorded = tree /\ k.at = Len(heads)
      /\ k.files = m.files /\ k.unsettled = m.unsettled \union U
  BY <1>1 DEF Copy, SameWatch, InPlace
<1>3. Settle(k) = n
  BY DEF Settle
<1> HIDE DEF k
<1>4. W \in SUBSET Path
  BY <1>2 DEF Copy
<1>5. /\ n \in Copy /\ SameWatch(k, n) /\ n.recorded = k.recorded /\ n.at = k.at
      /\ n.files = k.files /\ n.unsettled = W
  <2> HIDE DEF W
  <2> QED BY <1>2, <1>4 DEF Copy, SameWatch
<1>6. \A p \in Path : RowOf(m.files[p]) # tree[p] => p \in W
  BY <1>2 DEF Marked
<1> HIDE DEF n, W
<1>7. Marked(n)
  BY <1>2, <1>5, <1>6 DEF Marked
<1>8. SameWatch(m, n)
  BY <1>2, <1>5 DEF SameWatch
<1>9. n.recorded = tree /\ n.at = Len(heads) /\ n.files = m.files
  BY <1>2, <1>5
<1> QED BY <1>3, <1>5, <1>7, <1>8, <1>9 DEF k

LEMMA ApplyFacts ==
  ASSUME NEW m \in Copy, Marked(m), heads \in Seq(Tree), NEW d, RowDelta(d)
  PROVE  /\ ApplyRecorded(m, d) \in Copy /\ Marked(ApplyRecorded(m, d))
         /\ SameWatch(m, ApplyRecorded(m, d))
         /\ ApplyRecorded(m, d).recorded = With(m.recorded, d)
         /\ ApplyRecorded(m, d).at = Len(heads)
         /\ ApplyRecorded(m, d).files = m.files
<1> DEFINE tree == With(m.recorded, d)
           U == DOMAIN d
           r == ApplyRecorded(m, d)
<1>1. tree \in Tree /\ U \in SUBSET Path
  BY WithTyped DEF RowDelta, Copy
<1>2. \A p \in Path : tree[p] # m.recorded[p] => p \in U
  BY DEF With
<1>3. r = Settle(InPlace(m, tree, U))
  BY DEF ApplyRecorded, InPlace
<1> HIDE DEF tree, U, r
<1>4. /\ r \in Copy /\ Marked(r) /\ SameWatch(m, r)
      /\ r.recorded = tree /\ r.at = Len(heads) /\ r.files = m.files
  BY <1>1, <1>2, <1>3, RecordingFacts
<1> QED BY <1>4 DEF tree, r

LEMMA HeadTyped ==
  ASSUME heads \in Seq(Tree), heads # << >>
  PROVE  Len(heads) \in 1..Len(heads) /\ HeadTree \in Tree
  BY DEF HeadTree

LEMMA ReplaceFacts ==
  ASSUME NEW m \in Copy, Marked(m), heads \in Seq(Tree), heads # << >>
  PROVE  /\ ReplaceRecorded(m) \in Copy /\ Marked(ReplaceRecorded(m))
         /\ SameWatch(m, ReplaceRecorded(m))
         /\ ReplaceRecorded(m).recorded = HeadTree
         /\ ReplaceRecorded(m).at = Len(heads)
         /\ ReplaceRecorded(m).files = m.files
<1> DEFINE tree == HeadTree
           U == {p \in Path : {tree[p], m.recorded[p]} # {NoRow}}
           r == ReplaceRecorded(m)
<1>1. tree \in Tree /\ U \in SUBSET Path
  BY HeadTyped
<1>2. \A p \in Path : tree[p] # m.recorded[p] => p \in U
  OBVIOUS
<1>3. r = Settle(InPlace(m, tree, U))
  BY DEF ReplaceRecorded, InPlace
<1> HIDE DEF tree, U, r
<1>4. /\ r \in Copy /\ Marked(r) /\ SameWatch(m, r)
      /\ r.recorded = tree /\ r.at = Len(heads) /\ r.files = m.files
  BY <1>1, <1>2, <1>3, RecordingFacts
<1> QED BY <1>4 DEF tree, r

LEMMA SyncFacts ==
  ASSUME NEW m \in Copy, NEW whole \in BOOLEAN, heads \in Seq(Tree), heads # << >>,
         Traced(m, heads)
  PROVE  /\ SyncRecorded(m, whole) \in Copy /\ SameWatch(m, SyncRecorded(m, whole))
         /\ Traced(SyncRecorded(m, whole), heads)
         /\ SyncRecorded(m, whole).at = Len(heads)
         /\ SyncRecorded(m, whole).files = m.files
<1>1. CASE m.at = Len(heads)
  BY <1>1 DEF SyncRecorded, SameWatch
<1>2. CASE m.at # Len(heads) /\ whole
  BY <1>2, ReplaceFacts, HeadTyped DEF SyncRecorded, Traced, HeadTree
<1>3. CASE m.at # Len(heads) /\ ~whole
  <2> DEFINE d == [p \in {x \in Path : HeadTree[x] # heads[m.at][x]} |-> HeadTree[p]]
  <2>1. HeadTree \in Tree /\ heads[m.at] \in Tree
    BY HeadTyped DEF Traced
  <2>2. RowDelta(d)
    BY <2>1 DEF RowDelta, Tree
  <2>3. With(m.recorded, d) = HeadTree
    <3>1. \A p \in Path : (IF p \in DOMAIN d THEN d[p] ELSE m.recorded[p]) = HeadTree[p]
      BY DEF Traced
    <3> HIDE DEF d
    <3> QED BY <2>1, <3>1 DEF With, Tree
  <2>4. SyncRecorded(m, whole) = ApplyRecorded(m, d)
    BY <1>3 DEF SyncRecorded
  <2> HIDE DEF d
  <2> QED BY <2>2, <2>3, <2>4, ApplyFacts, HeadTyped DEF Traced, HeadTree
<1> QED BY <1>1, <1>2, <1>3

LEMMA TracedStays ==
  ASSUME NEW m \in Copy, NEW n \in Copy, NEW h, Traced(m, h), SameHistory(m, n)
  PROVE  Traced(n, h)
  BY DEF Traced, Marked, SameHistory

LEMMA TracedGrows ==
  ASSUME NEW m, NEW h \in Seq(Tree), NEW tree \in Tree, Traced(m, h)
  PROVE  Traced(m, Append(h, tree))
  BY DEF Traced

-----------------------------------------------------------------------------
(* The invariant                                                           *)

Steps == {"down", "observe", "observed", "open", "prospect", "planned", "committed", "kept"}
Scanning == {"observe", "prospect"}

TypeOK ==
  /\ now \in Nat /\ seen \in 0..now /\ inodes \in Nat \ {0}
  /\ disk \in [Path -> {Absent} \union DiskFile]
  /\ \A p \in Path : disk[p] # Absent => disk[p].ino \in 1..inodes
  /\ schemas \in SUBSET Table
  /\ heads \in Seq(Tree) /\ heads # << >>
  /\ mir \in Copy /\ base \in Copy
  /\ pc \in Steps /\ watched \in BOOLEAN /\ todo \in SUBSET Path
  /\ DOMAIN plan.rows \subseteq Path
  /\ \A p \in DOMAIN plan.rows : plan.rows[p] \in {Absent} \union Planned
  /\ plan.schemas \in SUBSET Table
  /\ RowDelta(delta)

\* Between commands nothing is uncommitted, and nothing planned.
AtRest ==
  /\ pc \in {"down", "observed", "open", "kept"} => mir = base
  /\ pc \in {"down", "observe", "observed", "open"} => plan = NoPlan

\* The recorded rows are those of a revision: of the head, but for a change that
\* is being recorded.
Recorded ==
  /\ Traced(mir, heads) /\ Traced(base, heads)
  /\ pc \in {"open", "prospect", "planned"} => mir.at = Len(heads) /\ base.at = Len(heads)
  /\ pc \in {"committed", "kept"} =>
       /\ delta = Nothing => mir.at = Len(heads)
       /\ delta # Nothing => /\ mir.at + 1 = Len(heads)
                             /\ heads[Len(heads)] = With(heads[mir.at], delta)

\* What the stamp of an entry says of a file: if it is to be trusted, the file holds
\* what the entry does.
Stamped(e, f, i, t) ==
  e # Absent =>
    /\ e.seen <= t /\ e.stat.ino <= i
    /\ f # Absent /\ TrustedFor(e, StatOf(f)) => f.data = e.data

\* An entry with a planned file's stat, which no file on the disk has.
PlannedStamp(e) == e # Absent /\ e.stat.ino = 0

Stamps ==
  \A p \in Path : /\ Stamped(mir.files[p], disk[p], inodes, now)
                  /\ Stamped(base.files[p], disk[p], inodes, now)

\* From its mark on, the monitor has told of every file that is not as the mirror
\* has it, or is stamped as planned, but for those still to be looked at or planned.
Told(m, d, but) ==
  m.marked =>
    \A p \in Path \ but :
      p \notin m.reported =>
        /\ TableOf[p] \in m.tables => BytesOf(m.files[p]) = BytesOf(d[p])
        /\ ~PlannedStamp(m.files[p])

Pending ==
  CASE pc \in Scanning -> todo \union DOMAIN plan.rows
    [] pc = "planned" -> DOMAIN plan.rows
    [] OTHER -> {}

\* A listed file it has not told of is as it was listed.
AsListed(p) ==
  IF disk[p] = Absent THEN p \notin DOMAIN listing
                      ELSE p \in DOMAIN listing /\ listing[p] = StatOf(disk[p])

Watching ==
  /\ Told(base, disk, {}) /\ Told(mir, disk, Pending)
  /\ listing # Absent /\ mir.marked =>
       \A p \in todo \ DOMAIN plan.rows : p \notin mir.reported => AsListed(p)

\* What is to be found at a path: what is planned there, or something it has held.
Found(p) ==
  IF p \in DOMAIN plan.rows THEN BytesOf(mir.files[p]) = plan.rows[p]
                            ELSE BytesOf(mir.files[p]) \in held[p]

\* What the listing says of a path.
Listed(p) ==
  /\ p \in DOMAIN listing =>
       /\ listing[p] \in Stat
       /\ p \in DOMAIN plan.rows => /\ plan.rows[p] # Absent
                                    /\ listing[p] = PlannedStat(plan.rows[p])
       /\ p \notin DOMAIN plan.rows =>
            /\ listing[p].ino \in 1..inodes
            /\ mir.files[p] # Absent /\ TrustedFor(mir.files[p], listing[p]) =>
                 mir.files[p].data \in held[p]
  /\ p \notin DOMAIN listing =>
       IF p \in DOMAIN plan.rows THEN plan.rows[p] = Absent ELSE Absent \in held[p]

Remembers ==
  \/ pc \in Scanning \union {"observed", "planned", "committed"}
  \/ pc = "kept" /\ plan.schemas # {}

Scanned ==
  /\ Remembers => held = [p \in Path |-> held[p]]
  /\ pc \in Scanning => \A p \in Path : BytesOf(disk[p]) \in held[p]
  /\ listing # Absent => pc \in Scanning /\ \A p \in todo : Listed(p)
  /\ pc = "observe" => /\ \A p \in RowFiles(schemas) \ todo : Found(p)
                       /\ \A p \in Path \ todo : ~PlannedStamp(mir.files[p])
  /\ pc = "observed" => /\ \A p \in RowFiles(schemas) : Found(p)
                        /\ \A p \in Path : ~PlannedStamp(mir.files[p])

Inv == TypeOK /\ AtRest /\ Recorded /\ Stamps /\ Watching /\ Scanned

-----------------------------------------------------------------------------
(* Every step keeps it                                                     *)

LEMMA EmptyPlan ==
  /\ DOMAIN Nothing = {} /\ RowDelta(Nothing)
  /\ NoPlan.rows = Nothing /\ NoPlan.schemas = {}
  BY DEF Nothing, NoPlan, RowDelta

LEMMA Resting ==
  ASSUME pc' \in {"down", "open"}, listing' = Absent
  PROVE  Scanned'
  BY DEF Scanned, Remembers, Scanning

\* What only the monitor's word distinguishes is stamped, and told of, alike.
LEMMA SameFiles ==
  ASSUME NEW m, NEW n, n.files = m.files, n.tables = m.tables, n.marked = m.marked,
         n.reported = m.reported, NEW d, NEW but, Told(m, d, but)
  PROVE  Told(n, d, but)
  BY DEF Told

LEMMA RestingTyped ==
  ASSUME TypeOK, UNCHANGED world, Rests, plan' = NoPlan,
         mir' \in Copy, base' \in Copy, pc' \in Steps, RowDelta(delta')
  PROVE  TypeOK'
<1>1. DOMAIN plan'.rows = {} /\ plan'.schemas = {}
  BY EmptyPlan
<1>2. now' \in Nat /\ seen' \in 0..now' /\ inodes' \in Nat \ {0}
  BY DEF TypeOK, Rests, world
<1>3. \A p \in DOMAIN plan'.rows : plan'.rows[p] \in {Absent} \union Planned
  BY <1>1
<1>4. DOMAIN plan'.rows \subseteq Path /\ plan'.schemas \in SUBSET Table
  BY <1>1
<1>5. watched' \in BOOLEAN /\ todo' \in SUBSET Path
  BY DEF Rests
<1>6. disk' = disk /\ schemas' = schemas /\ heads' = heads /\ inodes' = inodes
  BY DEF world
<1> QED BY <1>2, <1>3, <1>4, <1>5, <1>6 DEF TypeOK

LEMMA KillInv ==
  ASSUME Inv, Kill
  PROVE  Inv'
<1> USE EmptyPlan DEF Kill, Rests, world, Inv
<1>1. TypeOK'
  <2>1. mir' \in Copy /\ base' \in Copy /\ pc' \in Steps /\ RowDelta(delta')
    BY DEF TypeOK, Steps
  <2> QED BY <2>1, RestingTyped
<1>2. AtRest'
  BY DEF AtRest
<1>3. Recorded'
  BY DEF Recorded
<1>4. Stamps'
  BY DEF Stamps
<1>5. Watching'
  BY DEF Watching, Pending, Scanning
<1>6. Scanned'
  BY Resting
<1> QED BY <1>1, <1>2, <1>3, <1>4, <1>5, <1>6

LEMMA AbandonInv ==
  ASSUME Inv, Abandon
  PROVE  Inv'
<1> USE EmptyPlan DEF Abandon, Rests, world, Inv
<1>1. TypeOK'
  <2>1. mir' \in Copy /\ base' \in Copy /\ pc' \in Steps /\ RowDelta(delta')
    BY DEF TypeOK, Steps
  <2> QED BY <2>1, RestingTyped
<1>2. AtRest'
  BY DEF AtRest
<1>3. Recorded'
  BY DEF Recorded
<1>4. Stamps'
  BY DEF Stamps
<1>5. Watching'
  BY DEF Watching, Pending, Scanning
<1>6. Scanned'
  BY Resting
<1> QED BY <1>1, <1>2, <1>3, <1>4, <1>5, <1>6

LEMMA KeepInv ==
  ASSUME Inv, Keep
  PROVE  Inv'
<1> USE DEF Keep, world, scan, change, Inv
<1>1. TypeOK'
  BY DEF TypeOK, Steps
<1>2. AtRest'
  BY DEF AtRest
<1>3. Recorded'
  BY DEF Recorded
<1>4. Stamps'
  BY DEF Stamps
<1>5. Watching'
  BY DEF Watching, Pending, Scanning, AsListed
<1>6. Scanned'
  BY DEF Scanned, Remembers, Scanning, Found
<1> QED BY <1>1, <1>2, <1>3, <1>4, <1>5, <1>6

LEMMA LoadHeadInv ==
  ASSUME Inv, LoadHead
  PROVE  Inv'
<1> USE DEF LoadHead, Rests, world, change, Inv
<1>1. PICK whole \in BOOLEAN : mir' = SyncRecorded(mir, whole)
  OBVIOUS
<1>2. /\ mir' \in Copy /\ SameWatch(mir, mir') /\ Traced(mir', heads)
      /\ mir'.at = Len(heads) /\ mir'.files = mir.files
  BY <1>1, SyncFacts DEF TypeOK, Recorded
<1>3. TypeOK'
  <2>1. pc' \in Steps /\ RowDelta(delta') /\ plan' = NoPlan
    BY DEF TypeOK, Steps, AtRest
  <2> QED BY <1>2, <2>1, RestingTyped
<1>4. AtRest'
  BY DEF AtRest
<1>5. Recorded'
  BY <1>2 DEF Recorded
<1>6. Stamps'
  BY <1>2 DEF Stamps
<1>7. Watching'
  <2>1. Told(mir, disk, {})
    BY DEF Watching, Pending, Scanning
  <2>2. Told(mir', disk, {})
    BY <1>2, <2>1, SameFiles DEF SameWatch
  <2> QED BY <2>2 DEF Watching, Pending, Scanning
<1>8. Scanned'
  BY Resting
<1> QED BY <1>3, <1>4, <1>5, <1>6, <1>7, <1>8

LEMMA AfterRecordingInv ==
  ASSUME Inv, AfterRecording
  PROVE  Inv'
<1> USE DEF AfterRecording, Rests, world, Inv
<1>1. heads \in Seq(Tree) /\ heads # << >> /\ mir \in Copy /\ RowDelta(delta)
      /\ Traced(mir, heads) /\ Len(heads) \in 1..Len(heads)
  BY HeadTyped DEF TypeOK, Recorded
<1>2. /\ mir' \in Copy /\ SameWatch(mir, mir') /\ Traced(mir', heads)
      /\ mir'.at = Len(heads) /\ mir'.files = mir.files
  <2>1. CASE delta = Nothing
    BY <1>1, <2>1 DEF Recorded, SameWatch
  <2>2. CASE delta # Nothing
    <3>1. mir' = ApplyRecorded(mir, delta)
      BY <2>2
    <3>2. Marked(mir)
      BY <1>1 DEF Traced
    <3>3. /\ mir' \in Copy /\ Marked(mir') /\ SameWatch(mir, mir')
          /\ mir'.recorded = With(mir.recorded, delta)
          /\ mir'.at = Len(heads) /\ mir'.files = mir.files
      BY <1>1, <3>1, <3>2, ApplyFacts
    <3>4. mir'.recorded = heads[mir'.at]
      BY <1>1, <2>2, <3>3 DEF Recorded, Traced
    <3> QED BY <1>1, <3>3, <3>4 DEF Traced
  <2> QED BY <2>1, <2>2
<1>3. TypeOK'
  <2>1. pc' \in Steps /\ RowDelta(delta')
    BY EmptyPlan DEF Steps
  <2> QED BY <1>2, <2>1, RestingTyped
<1>4. AtRest'
  BY DEF AtRest
<1>5. Recorded'
  BY <1>2 DEF Recorded
<1>6. Stamps'
  BY <1>2 DEF Stamps, AtRest
<1>7. Watching'
  <2>1. Told(mir, disk, {})
    BY DEF Watching, Pending, Scanning
  <2>2. Told(mir', disk, {})
    BY <1>2, <2>1, SameFiles DEF SameWatch
  <2> QED BY <2>2 DEF Watching, Pending, Scanning
<1>8. Scanned'
  BY Resting
<1> QED BY <1>3, <1>4, <1>5, <1>6, <1>7, <1>8

\* A revision is recorded on top of the mirror's, or none is.
LEMMA RecordsFacts ==
  ASSUME Inv, Records(mir), mir.at = Len(heads)
  PROVE  /\ RowDelta(delta') /\ heads' \in Seq(Tree) /\ heads' # << >>
         /\ \A m : Traced(m, heads) => Traced(m, heads')
         /\ delta' = Nothing => mir.at = Len(heads')
         /\ delta' # Nothing => /\ mir.at + 1 = Len(heads')
                                /\ heads'[Len(heads')] = With(heads'[mir.at], delta')
<1>1. heads \in Seq(Tree) /\ heads # << >> /\ mir \in Copy /\ Traced(mir, heads)
  BY DEF Inv, TypeOK, Recorded
<1>2. RowDelta(delta')
  BY <1>1, ChangesTyped, EmptyPlan DEF Records
<1>3. CASE delta' = Nothing
  <2>1. heads' = heads
    BY <1>3 DEF Records
  <2> QED BY <1>1, <1>2, <1>3, <2>1
<1>4. CASE delta' # Nothing
  <2> DEFINE tree == With(HeadTree, delta')
  <2>1. tree \in Tree /\ heads' = Append(heads, tree)
    BY <1>1, <1>2, <1>4, WithTyped, HeadTyped DEF Records
  <2>2. HeadTree = heads[mir.at] /\ mir.at \in 1..Len(heads)
    BY <1>1 DEF HeadTree, Traced
  <2>3. tree = With(heads[mir.at], delta')
    BY <2>2
  <2> HIDE DEF tree
  <2>4. /\ heads' \in Seq(Tree) /\ heads' # << >> /\ Len(heads') = Len(heads) + 1
        /\ heads'[Len(heads')] = tree /\ heads'[mir.at] = heads[mir.at]
    BY <1>1, <2>1, <2>2
  <2>5. \A m : Traced(m, heads) => Traced(m, heads')
    BY <1>1, <2>1, TracedGrows
  <2> QED BY <1>1, <1>2, <1>4, <2>2, <2>3, <2>4, <2>5
<1> QED BY <1>3, <1>4

LEMMA AdoptInv ==
  ASSUME Inv, Adopt
  PROVE  Inv'
<1> USE DEF Adopt, scan, Inv
<1>1. mir.at = Len(heads) /\ plan = NoPlan /\ mir = base
  BY DEF Recorded, AtRest
<1>2. /\ RowDelta(delta') /\ heads' \in Seq(Tree) /\ heads' # << >>
      /\ \A m : Traced(m, heads) => Traced(m, heads')
      /\ delta' = Nothing => mir.at = Len(heads')
      /\ delta' # Nothing => /\ mir.at + 1 = Len(heads')
                             /\ heads'[Len(heads')] = With(heads'[mir.at], delta')
  BY <1>1, RecordsFacts
<1>3. TypeOK'
  BY <1>2 DEF TypeOK, Steps
<1>4. AtRest'
  BY <1>1 DEF AtRest
<1>5. Recorded'
  BY <1>2 DEF Recorded
<1>6. Stamps'
  BY DEF Stamps
<1>7. Watching'
  BY DEF Watching, Pending, Scanning, AsListed
<1>8. Scanned'
  BY <1>1, EmptyPlan DEF Scanned, Remembers, Scanning, RowFiles
<1> QED BY <1>3, <1>4, <1>5, <1>6, <1>7, <1>8

\* Whatever happens to a file later than the stamp of an entry, it does not look as
\* stamped.
LEMMA StampedEdit ==
  ASSUME NEW e \in {Absent} \union Entry, NEW f, NEW g, NEW i \in Nat, NEW t \in Nat,
         NEW i2 \in Nat, NEW t2 \in Nat, i <= i2, t <= t2, Stamped(e, f, i, t),
         g # Absent => g \in DiskFile /\ (g.ino > i \/ g.mtime >= t)
  PROVE  Stamped(e, g, i2, t2)
<1>1. SUFFICES ASSUME e # Absent
               PROVE  /\ e.seen <= t2 /\ e.stat.ino <= i2
                      /\ g # Absent => ~TrustedFor(e, StatOf(g))
  BY DEF Stamped
<1>2. e \in Entry /\ e.seen \in Nat /\ e.stat.ino \in Nat /\ e.seen <= t /\ e.stat.ino <= i
  BY <1>1 DEF Stamped, Entry, Stat
<1>3. ASSUME g # Absent, TrustedFor(e, StatOf(g))
      PROVE  FALSE
  <2>1. g.mtime \in Nat /\ g.ino \in Nat
    BY <1>3 DEF DiskFile
  <2>2. g.mtime + 1 < e.seen /\ g.ino = e.stat.ino
    BY <1>3 DEF TrustedFor, StatOf
  <2> QED BY <1>2, <1>3, <2>1, <2>2
<1> QED BY <1>2, <1>3

LEMMA StampedLater ==
  ASSUME NEW e \in {Absent} \union Entry, NEW f, NEW i \in Nat, NEW t \in Nat,
         NEW i2 \in Nat, NEW t2 \in Nat, i <= i2, t <= t2, Stamped(e, f, i, t)
  PROVE  Stamped(e, f, i2, t2)
<1>1. CASE e = Absent
  BY <1>1 DEF Stamped
<1>2. CASE e # Absent
  <2>1. e.seen \in Nat /\ e.stat.ino \in Nat
    BY <1>2 DEF Entry, Stat
  <2> QED BY <1>2, <2>1 DEF Stamped
<1> QED BY <1>1, <1>2

LEMMA CommitInv ==
  ASSUME Inv, Commit
  PROVE  Inv'
<1> USE DEF Commit, scan, counts, Inv
<1> DEFINE ps == DOMAIN plan.rows
           F(p) == IF plan.rows[p] = Absent THEN Absent
                     ELSE [data |-> plan.rows[p], mtime |-> now', ino |-> inodes']
           told == ps \union (plan.schemas \ schemas) \union (schemas \ plan.schemas)
<1>1. mir.at = Len(heads)
  BY DEF Recorded
<1>2. /\ RowDelta(delta') /\ heads' \in Seq(Tree) /\ heads' # << >>
      /\ \A m : Traced(m, heads) => Traced(m, heads')
      /\ delta' = Nothing => mir.at = Len(heads')
      /\ delta' # Nothing => /\ mir.at + 1 = Len(heads')
                             /\ heads'[Len(heads')] = With(heads'[mir.at], delta')
  BY <1>1, RecordsFacts
<1>3. /\ now \in Nat /\ now' \in Nat /\ now <= now'
      /\ inodes \in Nat /\ inodes' = inodes + 1 /\ inodes' \in Nat
  BY Bounds DEF TypeOK, Passes
<1>4. /\ disk' = [p \in Path |-> IF p \notin ps THEN disk[p] ELSE F(p)]
      /\ mir' = [mir EXCEPT !.reported = @ \union told]
      /\ base' = [base EXCEPT !.reported = @ \union told]
  BY DEF Heard
<1>5. told \in SUBSET (Path \union Table) /\ ps \subseteq told
  BY DEF TypeOK
<1>6. \A p \in ps : F(p) # Absent => F(p) \in DiskFile /\ F(p).ino = inodes'
  BY <1>3, Kinds DEF TypeOK, DiskFile
<1>7. /\ \A m \in {mir, base} : m \in Copy
      /\ \A m \in Copy : [m EXCEPT !.reported = @ \union told] \in Copy
  <2> HIDE DEF told
  <2> QED BY <1>5 DEF TypeOK, Copy
<1>8. /\ mir'.files = mir.files /\ mir'.tables = mir.tables /\ mir'.marked = mir.marked
      /\ mir'.reported = mir.reported \union told /\ mir'.at = mir.at
      /\ mir'.recorded = mir.recorded /\ mir'.unsettled = mir.unsettled
      /\ base'.files = base.files /\ base'.tables = base.tables /\ base'.marked = base.marked
      /\ base'.reported = base.reported \union told /\ base'.at = base.at
      /\ base'.recorded = base.recorded /\ base'.unsettled = base.unsettled
  BY <1>4, <1>7 DEF Copy
<1>9. mir' \in Copy /\ base' \in Copy
  BY <1>4, <1>7
<1> HIDE DEF ps, F, told
<1>10. TypeOK'
  <2>1. disk' \in [Path -> {Absent} \union DiskFile]
    BY <1>4, <1>6 DEF TypeOK
  <2>2. \A p \in Path : disk'[p] # Absent => disk'[p].ino \in 1..inodes'
    BY <1>3, <1>4, <1>6 DEF TypeOK, DiskFile
  <2>3. schemas' \in SUBSET Table /\ seen' \in 0..now' /\ inodes' \in Nat \ {0}
    BY <1>3 DEF TypeOK
  <2>4. pc' \in Steps
    BY DEF Steps
  <2> QED BY <1>2, <1>3, <1>9, <2>1, <2>2, <2>3, <2>4 DEF TypeOK
<1>11. AtRest'
  BY DEF AtRest
<1>12. Recorded'
  <2>1. Traced(mir', heads') /\ Traced(base', heads')
    BY <1>2, <1>8 DEF Recorded, Traced, Marked
  <2> QED BY <1>2, <1>8, <2>1 DEF Recorded
<1>13. Stamps'
  <2>1. ASSUME NEW p \in Path, NEW e \in {mir.files[p], base.files[p]}
        PROVE  Stamped(e, disk'[p], inodes', now')
    <3>1. e \in {Absent} \union Entry /\ Stamped(e, disk[p], inodes, now)
      BY <2>1, <1>7 DEF Stamps, Copy
    <3>2. CASE p \notin ps
      BY <1>3, <1>4, <3>1, <3>2, StampedLater
    <3>3. CASE p \in ps
      <4>1. disk'[p] # Absent => disk'[p] \in DiskFile /\ disk'[p].ino > inodes
        BY <1>3, <1>4, <1>6, <3>3
      <4> QED BY <1>3, <3>1, <4>1, StampedEdit
    <3> QED BY <3>2, <3>3
  <2> QED BY <1>8, <2>1 DEF Stamps
<1>14. Watching'
  <2>1. Told(mir, disk, ps) /\ Told(base, disk, {})
    BY DEF Watching, Pending, Scanning, ps
  <2>2. Told(mir', disk', {}) /\ Told(base', disk', {})
    BY <1>4, <1>5, <1>8, <2>1 DEF Told
  <2>3. listing' = Absent
    BY DEF Scanned, Scanning
  <2> QED BY <2>2, <2>3 DEF Watching, Pending, Scanning
<1>15. Scanned'
  <2>1. listing' = Absent /\ held' = held /\ plan' = plan
    BY DEF Scanned, Scanning
  <2>2. held = [p \in Path |-> held[p]]
    BY DEF Scanned, Remembers
  <2> QED BY <2>1, <2>2 DEF Scanned, Remembers, Scanning
<1> QED BY <1>10, <1>11, <1>12, <1>13, <1>14, <1>15

LEMMA ObservedFacts ==
  ASSUME NEW m \in Copy
  PROVE  /\ Observed(m) \in Copy /\ SameWatch(m, Observed(m)) /\ Observed(m).files = m.files
         /\ \A h : Traced(m, h) => Traced(Observed(m), h)
         /\ Observed(m).at = m.at
<1> DEFINE b == IF watched THEN m.stray
                  ELSE \E p \in Path \ RowFiles(Governed) : Read(p) # Absent
           n == Observed(m)
<1>1. b \in BOOLEAN
  BY DEF Copy
<1>2. n = [m EXCEPT !.stray = b]
  BY DEF Observed
<1> HIDE DEF b
<1>3. /\ n \in Copy /\ n.files = m.files /\ n.recorded = m.recorded /\ n.at = m.at
      /\ n.unsettled = m.unsettled /\ n.tables = m.tables /\ n.marked = m.marked
      /\ n.reported = m.reported
  BY <1>1, <1>2 DEF Copy
<1> HIDE DEF n
<1> QED BY <1>3 DEF SameWatch, Traced, Marked, n

LEMMA ReleaseInv ==
  ASSUME Inv, Release
  PROVE  Inv'
<1> USE DEF Release, Looked, world, change, counts, Inv
<1>1. mir \in Copy /\ todo = {} /\ plan = NoPlan /\ DOMAIN plan.rows = {}
  BY EmptyPlan DEF TypeOK, AtRest
<1>2. /\ mir' \in Copy /\ SameWatch(mir, mir') /\ mir'.files = mir.files
      /\ \A h : Traced(mir, h) => Traced(mir', h)
  BY <1>1, ObservedFacts
<1>3. TypeOK'
  BY <1>2 DEF TypeOK, Steps
<1>4. AtRest'
  BY <1>1 DEF AtRest
<1>5. Recorded'
  BY <1>2 DEF Recorded
<1>6. Stamps'
  BY <1>2 DEF Stamps
<1>7. Watching'
  <2>1. Told(mir, disk, {})
    BY <1>1 DEF Watching, Pending, Scanning
  <2>2. Told(mir', disk, {})
    BY <1>2, <2>1, SameFiles DEF SameWatch
  <2> QED BY <2>2 DEF Watching, Pending, Scanning
<1>8. Scanned'
  BY <1>1, <1>2 DEF Scanned, Remembers, Scanning, Found
<1> QED BY <1>3, <1>4, <1>5, <1>6, <1>7, <1>8

LEMMA ProspectedInv ==
  ASSUME Inv, Prospected
  PROVE  Inv'
<1> USE DEF Prospected, Looked, world, change, counts, Inv
<1>1. mir \in Copy /\ todo = {}
  BY DEF TypeOK
<1>2. /\ mir' \in Copy /\ SameWatch(mir, mir') /\ mir'.files = mir.files /\ mir'.at = mir.at
      /\ \A h : Traced(mir, h) => Traced(mir', h)
  BY <1>1, ObservedFacts
<1>3. TypeOK'
  BY <1>2 DEF TypeOK, Steps
<1>4. AtRest'
  BY <1>1 DEF AtRest
<1>5. Recorded'
  BY <1>2 DEF Recorded
<1>6. Stamps'
  BY <1>2 DEF Stamps
<1>7. Watching'
  <2>1. Told(mir, disk, DOMAIN plan.rows) /\ Told(base, disk, {})
    BY <1>1 DEF Watching, Pending, Scanning
  <2>2. Told(mir', disk, DOMAIN plan.rows)
    BY <1>2, <2>1, SameFiles DEF SameWatch
  <2> QED BY <2>1, <2>2 DEF Watching, Pending, Scanning
<1>8. Scanned'
  BY <1>1, <1>2 DEF Scanned, Remembers, Scanning, Found
<1> QED BY <1>3, <1>4, <1>5, <1>6, <1>7, <1>8

\* What a file is changed to is among what it has held.
LEMMA HeldGrows ==
  ASSUME Inv, NEW p \in Path, NEW f, Edited(p, f), Remembers
  PROVE  /\ held' = [x \in Path |-> held'[x]]
         /\ \A x \in Path : held[x] \subseteq held'[x]
         /\ BytesOf(f) \in held'[p]
<1>1. held = [x \in Path |-> held[x]]
  BY DEF Inv, Scanned
<1>2. DOMAIN held = Path
  BY <1>1
<1>3. held # Nothing
  BY <1>2, EmptyPlan
<1>4. held' = [held EXCEPT ![p] = @ \union {BytesOf(f)}]
  BY <1>3 DEF Edited
<1> QED BY <1>1, <1>4

\* An editor's change, wherever the command is.
LEMMA EditedInv ==
  ASSUME Inv, NEW p \in Path, NEW f, Edited(p, f),
         now' \in Nat, now <= now', inodes' \in Nat, inodes <= inodes',
         f # Absent => /\ f \in DiskFile /\ f.ino \in 1..inodes'
                       /\ f.ino > inodes \/ f.mtime >= now
  PROVE  Inv'
<1> USE DEF Edited, change, Inv
<1>1. /\ disk' = [disk EXCEPT ![p] = f]
      /\ mir' = [mir EXCEPT !.reported = @ \union {p}]
      /\ base' = [base EXCEPT !.reported = @ \union {p}]
  BY DEF Heard
<1>2. /\ mir'.files = mir.files /\ mir'.tables = mir.tables /\ mir'.marked = mir.marked
      /\ mir'.reported = mir.reported \union {p} /\ mir'.at = mir.at
      /\ mir'.recorded = mir.recorded /\ mir'.unsettled = mir.unsettled
      /\ base'.files = base.files /\ base'.tables = base.tables /\ base'.marked = base.marked
      /\ base'.reported = base.reported \union {p} /\ base'.at = base.at
      /\ base'.recorded = base.recorded /\ base'.unsettled = base.unsettled
  BY <1>1 DEF TypeOK, Copy
<1>3. mir' \in Copy /\ base' \in Copy
  BY <1>1 DEF TypeOK, Copy
<1>4. /\ disk'[p] = f /\ \A x \in Path \ {p} : disk'[x] = disk[x]
      /\ now \in Nat /\ inodes \in Nat
  BY <1>1 DEF TypeOK
<1>5. Remembers => /\ held' = [x \in Path |-> held'[x]]
                   /\ \A x \in Path : held[x] \subseteq held'[x]
                   /\ BytesOf(f) \in held'[p]
  BY HeldGrows
<1>6. TypeOK'
  <2>1. disk' \in [Path -> {Absent} \union DiskFile]
    BY <1>1 DEF TypeOK
  <2>2. \A x \in Path : disk'[x] # Absent => disk'[x].ino \in 1..inodes'
    BY <1>4 DEF TypeOK, DiskFile
  <2>3. seen' \in 0..now' /\ inodes' \in Nat \ {0}
    BY DEF TypeOK
  <2> QED BY <1>3, <2>1, <2>2, <2>3 DEF TypeOK
<1>7. AtRest'
  BY <1>1 DEF AtRest
<1>8. Recorded'
  <2>1. Traced(mir', heads) /\ Traced(base', heads)
    BY <1>2 DEF Recorded, Traced, Marked
  <2> QED BY <1>2, <2>1 DEF Recorded
<1>9. Stamps'
  <2>1. ASSUME NEW x \in Path, NEW e \in {mir.files[x], base.files[x]}
        PROVE  Stamped(e, disk'[x], inodes', now')
    <3>1. e \in {Absent} \union Entry /\ Stamped(e, disk[x], inodes, now)
      BY <2>1 DEF Stamps, TypeOK, Copy
    <3>2. CASE x # p
      BY <1>4, <3>1, <3>2, StampedLater
    <3>3. CASE x = p
      BY <1>4, <3>1, <3>3, StampedEdit
    <3> QED BY <3>2, <3>3
  <2> QED BY <1>2, <2>1 DEF Stamps
<1>10. Watching'
  <2>1. Told(base', disk', {}) /\ Told(mir', disk', Pending)
    BY <1>2, <1>4 DEF Watching, Told
  <2>2. Pending' = Pending
    BY DEF Pending
  <2>3. ASSUME listing # Absent, mir.marked, NEW x \in todo \ DOMAIN plan.rows,
               x \notin mir'.reported
        PROVE  AsListed(x)'
    <3>1. x \in Path /\ x # p /\ AsListed(x)
      BY <1>2, <2>3 DEF Watching, TypeOK
    <3> QED BY <1>4, <3>1 DEF AsListed
  <2> QED BY <1>2, <2>1, <2>2, <2>3 DEF Watching
<1>11. Scanned'
  <2>1. \A x \in Path : Remembers /\ Found(x) => Found(x)'
    BY <1>2, <1>5 DEF Found
  <2>2. \A x \in Path : Remembers /\ Listed(x) => Listed(x)'
    BY <1>2, <1>4, <1>5 DEF Listed, Stat
  <2>3. pc \in Scanning => \A x \in Path : BytesOf(disk'[x]) \in held'[x]
    BY <1>4, <1>5 DEF Scanned, Remembers
  <2>4. Remembers' = Remembers
    BY DEF Remembers
  <2>5. listing # Absent => pc \in Scanning /\ \A x \in todo : Listed(x)'
    BY <2>2 DEF Scanned, Remembers, TypeOK
  <2>6. pc = "observe" => /\ \A x \in RowFiles(schemas) \ todo : Found(x)'
                         /\ \A x \in Path \ todo : ~PlannedStamp(mir'.files[x])
    BY <1>2, <2>1 DEF Scanned, Remembers, RowFiles, Scanning
  <2>7. pc = "observed" => /\ \A x \in RowFiles(schemas) : Found(x)'
                          /\ \A x \in Path : ~PlannedStamp(mir'.files[x])
    BY <1>2, <2>1 DEF Scanned, Remembers, RowFiles
  <2>8. Remembers => held' = [x \in Path |-> held'[x]]
    BY <1>5
  <2> QED BY <2>3, <2>4, <2>5, <2>6, <2>7, <2>8 DEF Scanned, RowFiles
<1> QED BY <1>6, <1>7, <1>8, <1>9, <1>10, <1>11

LEMMA OthersInv ==
  ASSUME Inv, NEW p \in Path,
         \/ Unlink(p)
         \/ \E c \in Content : Save(p, c)
         \/ \E c \in Content, t \in 1..MaxTime : Replace(p, c, t)
  PROVE  Inv'
<1>1. /\ now \in Nat /\ inodes \in Nat
      /\ disk \in [Path -> {Absent} \union DiskFile]
      /\ disk[p] # Absent => disk[p].ino \in 1..inodes
  BY DEF Inv, TypeOK
<1>2. CASE Unlink(p)
  <2>1. Edited(p, Absent) /\ now' = now /\ inodes' = inodes
    BY <1>2 DEF Unlink
  <2> QED BY <1>1, <2>1, EditedInv
<1>3. ASSUME NEW c \in Content, Save(p, c)
      PROVE  Inv'
  <2> DEFINE f == [data |-> c, mtime |-> now', ino |-> disk[p].ino]
  <2>1. Edited(p, f) /\ disk[p] # Absent /\ inodes' = inodes
    BY <1>3 DEF Save
  <2>2. now' \in Nat /\ now <= now'
    BY <1>1, <1>3, Bounds DEF Save, Passes
  <2>3. f \in DiskFile /\ f.ino \in 1..inodes' /\ f.mtime >= now
    BY <1>1, <2>1, <2>2 DEF DiskFile
  <2> HIDE DEF f
  <2> QED BY <1>1, <2>1, <2>2, <2>3, EditedInv
<1>4. ASSUME NEW c \in Content, NEW t \in 1..MaxTime, Replace(p, c, t)
      PROVE  Inv'
  <2> DEFINE f == [data |-> c, mtime |-> t, ino |-> inodes']
  <2>1. Edited(p, f) /\ inodes' = inodes + 1
    BY <1>4 DEF Replace
  <2>2. now' \in Nat /\ now <= now' /\ t \in Nat
    BY <1>1, <1>4, Bounds DEF Replace, Passes
  <2>3. f \in DiskFile /\ f.ino \in 1..inodes' /\ f.ino > inodes
    BY <1>1, <2>1, <2>2 DEF DiskFile
  <2> HIDE DEF f
  <2> QED BY <1>1, <2>1, <2>2, <2>3, EditedInv
<1> QED BY <1>2, <1>3, <1>4

\* What an observation that begins takes from the mirror and the monitor.
LEMMA AskedFacts ==
  ASSUME Inv, NEW tables \in SUBSET Table, Asked(tables), Told(mir, disk, {})
  PROVE  /\ mir' \in Copy /\ SameHistory(mir, mir')
         /\ \A p \in Path : mir'.files[p] \in {mir.files[p], Absent}
         /\ now' \in Nat /\ now <= now' /\ seen' \in 0..now'
         /\ watched' \in BOOLEAN /\ todo' \in SUBSET Path /\ listing' = Absent
         /\ held' = [p \in Path |-> {BytesOf(disk[p])}]
         /\ Told(mir', disk, todo')
         /\ \A p \in RowFiles(tables) \ todo' : BytesOf(mir'.files[p]) = BytesOf(disk[p])
         /\ \A p \in Path \ todo' : ~PlannedStamp(mir'.files[p])
         /\ pc' \notin AskWhen => todo' = RowFiles(tables)
<1> DEFINE n == SyncSchemas(mir, tables)
<1>1. PICK answered \in BOOLEAN :
        /\ answered => pc' \in AskWhen
        /\ watched' = (/\ answered
                       /\ mir.marked /\ mir.reported \subseteq RowFiles(tables)
                       /\ tables \subseteq mir.tables
                       /\ ~mir.stray)
        /\ todo' = IF watched' THEN mir.reported ELSE RowFiles(tables)
        /\ mir' = [n EXCEPT !.marked = answered, !.reported = {}]
        /\ listing' = Absent
        /\ Passes
        /\ seen' = now'
        /\ held' = [p \in Path |-> {BytesOf(disk[p])}]
  BY DEF Asked
<1>2. /\ n \in Copy /\ SameHistory(mir, n) /\ n.tables = tables
      /\ \A p \in Path : n.files[p] =
           IF TableOf[p] \in tables \intersect mir.tables THEN mir.files[p] ELSE Absent
  BY SchemasFacts DEF Inv, TypeOK
<1> HIDE DEF n
<1>3. /\ mir' \in Copy /\ mir'.files = n.files /\ mir'.tables = tables
      /\ mir'.marked = answered /\ mir'.reported = {} /\ mir'.recorded = n.recorded
      /\ mir'.at = n.at /\ mir'.unsettled = n.unsettled
  BY <1>1, <1>2 DEF Copy
<1>4. SameHistory(mir, mir')
  BY <1>2, <1>3 DEF SameHistory
<1>5. now' \in Nat /\ now <= now' /\ seen' \in 0..now'
  BY <1>1, Bounds DEF Passes, Inv, TypeOK
<1>6. RowFiles(tables) \in SUBSET Path /\ todo' \in SUBSET Path /\ watched' \in BOOLEAN
  BY <1>1 DEF RowFiles
<1>7. ASSUME NEW p \in RowFiles(tables) \ todo'
      PROVE  BytesOf(mir'.files[p]) = BytesOf(disk[p])
  <2>1. /\ watched' /\ p \in Path /\ TableOf[p] \in tables /\ mir.marked
        /\ tables \subseteq mir.tables /\ p \notin mir.reported
    BY <1>1, <1>7 DEF RowFiles
  <2>2. BytesOf(mir.files[p]) = BytesOf(disk[p])
    BY <2>1 DEF Told
  <2>3. mir'.files[p] = mir.files[p]
    BY <1>2, <1>3, <2>1
  <2> QED BY <2>2, <2>3
<1>8. ASSUME NEW p \in Path \ todo'
      PROVE  ~PlannedStamp(mir'.files[p])
  <2>1. CASE mir'.files[p] = Absent
    BY <2>1 DEF PlannedStamp
  <2>2. CASE mir'.files[p] # Absent
    <3>1. TableOf[p] \in tables \intersect mir.tables /\ mir'.files[p] = mir.files[p]
      BY <1>2, <1>3, <2>2
    <3>2. p \in RowFiles(tables)
      BY <3>1 DEF RowFiles
    <3>3. mir.marked /\ p \notin mir.reported
      BY <1>1, <1>8, <3>2
    <3> QED BY <3>1, <3>3 DEF Told
  <2> QED BY <2>1, <2>2
<1>9. Told(mir', disk, todo')
  BY <1>3, <1>7, <1>8 DEF Told, RowFiles
<1>10. pc' \notin AskWhen => todo' = RowFiles(tables)
  BY <1>1
<1>11. \A p \in Path : mir'.files[p] \in {mir.files[p], Absent}
  BY <1>2, <1>3
<1> QED BY <1>1, <1>3, <1>4, <1>5, <1>6, <1>7, <1>8, <1>9, <1>10, <1>11

\* The stamps of a mirror whose entries are kept or dropped, and no file moved.
LEMMA StampsKept ==
  ASSUME Inv, disk' = disk, inodes' = inodes, now' \in Nat, now <= now',
         \A p \in Path : mir'.files[p] \in {mir.files[p], Absent},
         base' = base
  PROVE  Stamps'
<1>1. ASSUME NEW p \in Path, NEW e \in {mir.files[p], base.files[p], Absent}
      PROVE  Stamped(e, disk[p], inodes, now')
  <2>1. CASE e = Absent
    BY <2>1 DEF Stamped
  <2>2. CASE e # Absent
    <3>1. e \in {Absent} \union Entry /\ Stamped(e, disk[p], inodes, now)
      BY <1>1, <2>2 DEF Inv, Stamps, TypeOK, Copy
    <3> QED BY <3>1, StampedLater DEF Inv, TypeOK
  <2> QED BY <2>1, <2>2
<1> QED BY <1>1 DEF Stamps

LEMMA OpenInv ==
  ASSUME Inv, Open
  PROVE  Inv'
<1> USE DEF Open, change, counts
<1>1. plan = NoPlan /\ DOMAIN plan.rows = {} /\ schemas \in SUBSET Table
      /\ Traced(mir, heads) /\ Traced(base, heads) /\ mir \in Copy
  BY EmptyPlan DEF Inv, AtRest, TypeOK, Recorded
<1>2. Told(mir, disk, {}) /\ Told(base, disk, {})
  BY DEF Inv, Watching, Pending, Scanning
<1>3. /\ mir' \in Copy /\ SameHistory(mir, mir')
      /\ \A p \in Path : mir'.files[p] \in {mir.files[p], Absent}
      /\ now' \in Nat /\ now <= now' /\ seen' \in 0..now'
      /\ watched' \in BOOLEAN /\ todo' \in SUBSET Path /\ listing' = Absent
      /\ held' = [p \in Path |-> {BytesOf(disk[p])}]
      /\ Told(mir', disk, todo')
      /\ \A p \in RowFiles(schemas) \ todo' : BytesOf(mir'.files[p]) = BytesOf(disk[p])
      /\ \A p \in Path \ todo' : ~PlannedStamp(mir'.files[p])
  BY <1>1, <1>2, AskedFacts
<1>4. TypeOK'
  BY <1>3 DEF Inv, TypeOK, Steps
<1>5. AtRest'
  BY <1>1 DEF AtRest
<1>6. Recorded'
  BY <1>1, <1>3, TracedStays DEF Recorded
<1>7. Stamps'
  BY <1>3, StampsKept
<1>8. Watching'
  <2>1. Pending' = todo'
    BY <1>1 DEF Pending, Scanning
  <2> QED BY <1>2, <1>3, <2>1 DEF Watching
<1>9. Scanned'
  <2>1. held' = [p \in Path |-> held'[p]]
    BY <1>3
  <2>2. \A p \in Path : BytesOf(disk'[p]) \in held'[p]
    BY <1>3
  <2>3. \A p \in RowFiles(schemas) \ todo' : Found(p)'
    BY <1>1, <1>3, <2>2 DEF Found, RowFiles
  <2> QED BY <1>3, <2>1, <2>2, <2>3 DEF Scanned, Scanning, RowFiles
<1> QED BY <1>4, <1>5, <1>6, <1>7, <1>8, <1>9 DEF Inv

LEMMA PlanTyped ==
  ASSUME NEW rows \in RowSets
  PROVE  DOMAIN rows \subseteq Path /\ \A p \in DOMAIN rows : rows[p] \in {Absent} \union Planned
  BY DEF RowSets

LEMMA PlanWholeInv ==
  ASSUME Inv, NEW rows \in RowSets, NEW tables \in SUBSET Table, PlanWhole(rows, tables)
  PROVE  Inv'
<1>1. /\ pc = "open" /\ pc' = "prospect" /\ plan'.rows = rows /\ plan'.schemas = tables
      /\ UNCHANGED <<disk, schemas, heads, inodes, base, delta>>
      /\ Asked(tables)
  BY DEF PlanWhole, Plans
<1>2. /\ Traced(mir, heads) /\ Traced(base, heads) /\ mir \in Copy
      /\ mir.at = Len(heads) /\ base.at = Len(heads)
  BY <1>1 DEF Inv, AtRest, TypeOK, Recorded
<1>3. Told(mir, disk, {}) /\ Told(base, disk, {})
  BY <1>1 DEF Inv, Watching, Pending, Scanning
<1>4. /\ mir' \in Copy /\ SameHistory(mir, mir')
      /\ \A p \in Path : mir'.files[p] \in {mir.files[p], Absent}
      /\ now' \in Nat /\ now <= now' /\ seen' \in 0..now'
      /\ watched' \in BOOLEAN /\ todo' \in SUBSET Path /\ listing' = Absent
      /\ held' = [p \in Path |-> {BytesOf(disk[p])}]
      /\ Told(mir', disk, todo')
  BY <1>1, <1>3, AskedFacts
<1>5. TypeOK'
  <2>1. pc' \in Steps
    BY <1>1 DEF Steps
  <2> QED BY <1>1, <1>4, <2>1, PlanTyped DEF Inv, TypeOK
<1>6. AtRest'
  BY <1>1 DEF AtRest
<1>7. Recorded'
  <2>1. Traced(mir', heads) /\ mir'.at = mir.at
    BY <1>2, <1>4, TracedStays DEF SameHistory
  <2> QED BY <1>1, <1>2, <2>1 DEF Recorded
<1>8. Stamps'
  BY <1>1, <1>4, StampsKept
<1>9. Watching'
  <2>1. Pending' = todo' \union DOMAIN rows
    BY <1>1 DEF Pending, Scanning
  <2>2. Told(mir', disk, todo' \union DOMAIN rows)
    BY <1>4 DEF Told
  <2> QED BY <1>1, <1>3, <1>4, <2>1, <2>2 DEF Watching
<1>10. Scanned'
  <2>1. held' = [p \in Path |-> held'[p]]
    BY <1>4
  <2>2. \A p \in Path : BytesOf(disk'[p]) \in held'[p]
    BY <1>1, <1>4
  <2> QED BY <1>1, <1>4, <2>1, <2>2 DEF Scanned, Scanning
<1> QED BY <1>5, <1>6, <1>7, <1>8, <1>9, <1>10 DEF Inv

LEMMA PlanRowsInv ==
  ASSUME Inv, NEW rows \in RowSets, PlanRows(rows)
  PROVE  Inv'
<1> DEFINE N(p) == [data |-> rows[p], stat |-> PlannedStat(rows[p]), seen |-> now']
<1>1. /\ pc = "open" /\ pc' = "planned" /\ plan'.rows = rows /\ plan'.schemas = schemas
      /\ UNCHANGED <<disk, schemas, heads, inodes, base, delta, seen, watched, listing, todo>>
      /\ Passes /\ mir' = IngestRows(mir, rows)
      /\ held' = [p \in Path |-> {BytesOf(disk[p]), BytesOf(mir.files[p])}]
  BY DEF PlanRows, Plans
<1>2. /\ Traced(mir, heads) /\ Traced(base, heads) /\ mir \in Copy
      /\ mir.at = Len(heads) /\ base.at = Len(heads) /\ mir = base
      /\ now \in Nat /\ inodes \in Nat
  BY <1>1 DEF Inv, AtRest, TypeOK, Recorded
<1>3. now' \in Nat /\ now <= now'
  BY <1>1, Bounds DEF Passes, Inv, TypeOK
<1>4. Told(mir, disk, {}) /\ Told(base, disk, {}) /\ listing = Absent
  BY <1>1 DEF Inv, Watching, Pending, Scanning, Scanned
<1>5. DOMAIN rows \subseteq Path /\ \A p \in DOMAIN rows : rows[p] \in {Absent} \union Planned
  BY PlanTyped
<1>6. /\ mir' \in Copy /\ SameHistory(mir, mir') /\ SameWatch(mir, mir')
      /\ \A p \in Path : mir'.files[p] = IF p \notin DOMAIN rows THEN mir.files[p]
                                         ELSE IF rows[p] = Absent THEN Absent ELSE N(p)
  BY <1>1, <1>2, <1>3, <1>5, IngestFacts
<1>7. \A p \in DOMAIN rows : rows[p] # Absent =>
        N(p) \in Entry /\ N(p).seen = now' /\ N(p).stat.ino = 0
  BY <1>3, <1>5, Kinds DEF PlannedStat, Entry, Stat
<1> HIDE DEF N
<1>8. TypeOK'
  <2>1. pc' \in Steps
    BY <1>1 DEF Steps
  <2>2. seen' \in 0..now'
    BY <1>1, <1>3 DEF Inv, TypeOK
  <2> QED BY <1>1, <1>3, <1>5, <1>6, <2>1, <2>2 DEF Inv, TypeOK
<1>9. AtRest'
  BY <1>1 DEF AtRest
<1>10. Recorded'
  <2>1. Traced(mir', heads) /\ mir'.at = mir.at
    BY <1>2, <1>6, TracedStays DEF SameHistory
  <2> QED BY <1>1, <1>2, <2>1 DEF Recorded
<1>11. Stamps'
  <2>1. ASSUME NEW p \in Path, NEW e \in {mir.files[p], base.files[p]}
        PROVE  Stamped(e, disk[p], inodes, now')
    <3>1. e \in {Absent} \union Entry /\ Stamped(e, disk[p], inodes, now)
      BY <2>1 DEF Inv, Stamps, TypeOK, Copy
    <3> QED BY <1>2, <1>3, <3>1, StampedLater
  <2>2. ASSUME NEW p \in DOMAIN rows, rows[p] # Absent
        PROVE  Stamped(N(p), disk[p], inodes, now')
    <3>1. disk[p] # Absent => StatOf(disk[p]).ino # 0
      BY <1>5 DEF StatOf, Inv, TypeOK, DiskFile
    <3> QED BY <1>2, <1>3, <1>7, <2>2, <3>1 DEF Stamped, TrustedFor
  <2>3. \A p \in Path : Stamped(Absent, disk[p], inodes, now')
    BY DEF Stamped
  <2> QED BY <1>1, <1>6, <2>1, <2>2, <2>3 DEF Stamps
<1>12. Watching'
  <2>1. Pending' = DOMAIN rows
    BY <1>1 DEF Pending, Scanning
  <2>2. Told(mir', disk, DOMAIN rows)
    BY <1>4, <1>6 DEF Told, SameWatch
  <2> QED BY <1>1, <1>4, <2>1, <2>2 DEF Watching
<1>13. Scanned'
  <2>1. held' = [p \in Path |-> held'[p]]
    BY <1>1
  <2> QED BY <1>1, <1>4, <2>1 DEF Scanned, Scanning
<1> QED BY <1>8, <1>9, <1>10, <1>11, <1>12, <1>13 DEF Inv

LEMMA Stats ==
  /\ \A f \in DiskFile : StatOf(f) \in Stat /\ StatOf(f).ino = f.ino
  /\ \A c \in Planned : PlannedStat(c) \in Stat /\ PlannedStat(c).ino = 0
  /\ \A s \in Stat : s # Absent
  BY AbsentIsNothing, Kinds DEF StatOf, PlannedStat, Stat, DiskFile

LEMMA ListInv ==
  ASSUME Inv, List
  PROVE  Inv'
<1> USE DEF List, world, change, counts
<1>1. /\ pc \in Scanning /\ todo \in SUBSET Path
      /\ disk \in [Path -> {Absent} \union DiskFile]
      /\ \A p \in Path : disk[p] # Absent => disk[p].ino \in 1..inodes
      /\ \A p \in DOMAIN plan.rows : plan.rows[p] \in {Absent} \union Planned
  BY DEF Inv, TypeOK, Scanning
<1>2. /\ \A p \in todo : p \in DOMAIN listing' <=> Metadata(p) # Absent
      /\ \A p \in DOMAIN listing' : listing'[p] = Metadata(p)
  OBVIOUS
<1>3. ASSUME NEW p \in todo, p \notin DOMAIN plan.rows
      PROVE  /\ p \in DOMAIN listing' <=> disk[p] # Absent
             /\ p \in DOMAIN listing' => listing'[p] = StatOf(disk[p])
  <2>1. CASE disk[p] = Absent
    BY <1>2, <1>3, <2>1 DEF Metadata
  <2>2. CASE disk[p] # Absent
    <3>1. Metadata(p) = StatOf(disk[p]) /\ disk[p] \in DiskFile
      BY <1>1, <1>3, <2>2 DEF Metadata
    <3> QED BY <1>2, <2>2, <3>1, Stats
  <2> QED BY <2>1, <2>2
<1>4. ASSUME NEW p \in todo, p \in DOMAIN plan.rows
      PROVE  /\ p \in DOMAIN listing' <=> plan.rows[p] # Absent
             /\ p \in DOMAIN listing' => listing'[p] = PlannedStat(plan.rows[p])
  <2>1. CASE plan.rows[p] = Absent
    BY <1>2, <1>4, <2>1 DEF Metadata
  <2>2. CASE plan.rows[p] # Absent
    <3>1. Metadata(p) = PlannedStat(plan.rows[p]) /\ plan.rows[p] \in Planned
      BY <1>1, <1>4, <2>2 DEF Metadata
    <3> QED BY <1>2, <2>2, <3>1, Stats
  <2> QED BY <2>1, <2>2
<1>5. TypeOK'
  BY DEF Inv, TypeOK
<1>6. AtRest'
  BY <1>1 DEF Inv, AtRest
<1>7. Recorded'
  BY DEF Inv, Recorded
<1>8. Stamps'
  BY DEF Inv, Stamps
<1>9. Watching'
  <2>1. Pending' = Pending
    BY DEF Pending
  <2>2. \A p \in todo \ DOMAIN plan.rows : AsListed(p)'
    BY <1>3 DEF AsListed
  <2> QED BY <2>1, <2>2 DEF Inv, Watching
<1>10. Scanned'
  <2>1. \A p \in Path : BytesOf(disk[p]) \in held[p]
    BY <1>1 DEF Inv, Scanned
  <2>2. ASSUME NEW p \in todo
        PROVE  Listed(p)'
    <3>1. CASE p \notin DOMAIN plan.rows
      <4>1. CASE disk[p] = Absent
        BY <1>1, <1>3, <2>1, <3>1, <4>1, Bytes DEF Listed
      <4>2. CASE disk[p] # Absent
        <5>1. /\ disk[p] \in DiskFile /\ p \in DOMAIN listing' /\ listing'[p] = StatOf(disk[p])
              /\ disk[p].data \in held[p] /\ disk[p].ino \in 1..inodes
          BY <1>1, <1>3, <2>1, <3>1, <4>2, Bytes
        <5>2. /\ mir.files[p] # Absent /\ TrustedFor(mir.files[p], StatOf(disk[p])) =>
                   disk[p].data = mir.files[p].data
          BY <1>1, <4>2 DEF Inv, Stamps, Stamped
        <5> QED BY <3>1, <5>1, <5>2, Stats DEF Listed
      <4> QED BY <4>1, <4>2
    <3>2. CASE p \in DOMAIN plan.rows
      BY <1>1, <1>4, <3>2, Stats DEF Listed
    <3> QED BY <3>1, <3>2
  <2>3. Remembers' = Remembers
    BY DEF Remembers
  <2>4. \A p \in Path : Found(p)' = Found(p)
    BY DEF Found
  <2>5. pc = "observe" => \A p \in RowFiles(schemas) \ todo : Found(p)'
    BY <2>4 DEF Inv, Scanned, RowFiles
  <2> QED BY <1>1, <2>2, <2>3, <2>5 DEF Inv, Scanned, Scanning, RowFiles
<1> QED BY <1>5, <1>6, <1>7, <1>8, <1>9, <1>10 DEF Inv

\* One file of the scan: what the mirror holds of it afterwards.
LEMMA LookFacts ==
  ASSUME Inv, NEW p \in Path, Look(p)
  PROVE  /\ mir' \in Copy /\ SameHistory(mir, mir') /\ SameWatch(mir, mir')
         /\ \A x \in Path \ {p} : mir'.files[x] = mir.files[x]
         /\ Stamped(mir'.files[p], disk[p], inodes, now)
         /\ p \notin DOMAIN plan.rows => BytesOf(mir'.files[p]) \in held[p]
         /\ p \notin DOMAIN plan.rows /\ mir.marked /\ p \notin mir.reported =>
              BytesOf(mir'.files[p]) = BytesOf(disk[p])
         /\ p \notin DOMAIN plan.rows => ~PlannedStamp(mir'.files[p])
         /\ p \in DOMAIN plan.rows /\ ~PlannedStamp(mir.files[p]) =>
              BytesOf(mir'.files[p]) = plan.rows[p]
<1> DEFINE entry == mir.files[p]
           raw == Read(p)
           New == [data |-> raw, stat |-> listing[p], seen |-> seen]
<1>1. /\ listing # Absent /\ p \in todo /\ Listed(p)
      /\ \A x \in Path : BytesOf(disk[x]) \in held[x]
  BY DEF Look, Inv, Scanned
<1>2. /\ mir \in Copy /\ entry \in {Absent} \union Entry /\ disk[p] \in {Absent} \union DiskFile
      /\ now \in Nat /\ seen \in 0..now /\ inodes \in Nat
      /\ disk[p] # Absent => disk[p].ino \in 1..inodes
      /\ p \in DOMAIN plan.rows => plan.rows[p] \in {Absent} \union Planned
      /\ Stamped(entry, disk[p], inodes, now)
  BY DEF Inv, TypeOK, Stamps, Copy
<1>3. p \notin DOMAIN plan.rows /\ mir.marked /\ p \notin mir.reported => AsListed(p)
  BY <1>1 DEF Inv, Watching
<1>4. \/ p \notin DOMAIN listing /\ mir' = Removed(mir, p)
      \/ p \in DOMAIN listing /\ entry # Absent /\ TrustedFor(entry, listing[p]) /\ mir' = mir
      \/ p \in DOMAIN listing /\ raw = Absent /\ mir' = Removed(mir, p)
      \/ p \in DOMAIN listing /\ raw # Absent /\ BytesOf(entry) = raw
         /\ mir' = Touch(mir, p, listing[p], seen)
      \/ p \in DOMAIN listing /\ raw # Absent /\ mir' = Put(mir, p, raw, listing[p], seen)
  BY DEF Look
<1>5. raw \in {Absent} \union Content
  BY <1>2, Bytes, Kinds DEF Read, DiskFile
<1>6. /\ p \notin DOMAIN plan.rows => raw = BytesOf(disk[p])
      /\ p \in DOMAIN plan.rows => raw = plan.rows[p]
  BY DEF Read
<1> HIDE DEF raw
\* The path is taken to hold nothing.
<1>7. ASSUME mir' = Removed(mir, p), p \notin DOMAIN listing \/ raw = Absent,
             p \in DOMAIN listing => raw = Absent
      PROVE  /\ mir' \in Copy /\ SameHistory(mir, mir') /\ SameWatch(mir, mir')
             /\ \A x \in Path \ {p} : mir'.files[x] = mir.files[x]
             /\ Stamped(mir'.files[p], disk[p], inodes, now)
             /\ p \notin DOMAIN plan.rows => BytesOf(mir'.files[p]) \in held[p]
             /\ p \notin DOMAIN plan.rows /\ mir.marked /\ p \notin mir.reported =>
                  BytesOf(mir'.files[p]) = BytesOf(disk[p])
             /\ ~PlannedStamp(mir'.files[p])
             /\ p \in DOMAIN plan.rows => BytesOf(mir'.files[p]) = plan.rows[p]
  <2>1. /\ mir' \in Copy /\ SameHistory(mir, mir') /\ SameWatch(mir, mir')
        /\ mir'.files = [mir.files EXCEPT ![p] = Absent]
    BY <1>2, <1>7, RemovedFacts
  <2>2. mir'.files[p] = Absent /\ \A x \in Path \ {p} : mir'.files[x] = mir.files[x]
    BY <1>2, <2>1 DEF Copy
  <2>3. Stamped(Absent, disk[p], inodes, now)
    BY DEF Stamped
  <2>4. p \notin DOMAIN plan.rows => Absent \in held[p]
    BY <1>1, <1>6, <1>7 DEF Listed
  <2>5. p \in DOMAIN plan.rows => plan.rows[p] = Absent
    BY <1>1, <1>6, <1>7 DEF Listed
  <2>6. p \notin DOMAIN plan.rows /\ mir.marked /\ p \notin mir.reported =>
          BytesOf(disk[p]) = Absent
    BY <1>3, <1>6, <1>7, Bytes DEF AsListed
  <2>7. ~PlannedStamp(Absent)
    BY DEF PlannedStamp
  <2> QED BY <2>1, <2>2, <2>3, <2>4, <2>5, <2>6, <2>7, Bytes
\* The stamp is trusted.
<1>8. ASSUME mir' = mir, p \in DOMAIN listing, entry # Absent, TrustedFor(entry, listing[p])
      PROVE  /\ p \notin DOMAIN plan.rows => BytesOf(entry) \in held[p]
             /\ p \notin DOMAIN plan.rows /\ mir.marked /\ p \notin mir.reported =>
                  BytesOf(entry) = BytesOf(disk[p])
             /\ p \notin DOMAIN plan.rows => ~PlannedStamp(entry)
             /\ p \in DOMAIN plan.rows => PlannedStamp(entry)
  <2>1. entry \in Entry /\ BytesOf(entry) = entry.data
    BY <1>2, <1>8, Bytes
  <2>2. p \notin DOMAIN plan.rows => BytesOf(entry) \in held[p]
    BY <1>1, <1>8, <2>1 DEF Listed
  <2>3. ASSUME AsListed(p)
        PROVE  BytesOf(entry) = BytesOf(disk[p])
    <3>1. disk[p] # Absent /\ listing[p] = StatOf(disk[p])
      BY <1>8, <2>3 DEF AsListed
    <3> QED BY <1>2, <1>8, <2>1, <3>1, Bytes DEF Stamped
  <2>4. /\ p \notin DOMAIN plan.rows => entry.stat.ino # 0
        /\ p \in DOMAIN plan.rows => entry.stat.ino = 0
    BY <1>1, <1>2, <1>8, Stats DEF Listed, TrustedFor
  <2> QED BY <1>3, <1>8, <2>2, <2>3, <2>4 DEF PlannedStamp
\* The file was read.
<1>9. ASSUME p \in DOMAIN listing, raw # Absent,
             \/ BytesOf(entry) = raw /\ mir' = Touch(mir, p, listing[p], seen)
             \/ mir' = Put(mir, p, raw, listing[p], seen)
      PROVE  /\ mir' \in Copy /\ SameHistory(mir, mir') /\ SameWatch(mir, mir')
             /\ \A x \in Path \ {p} : mir'.files[x] = mir.files[x]
             /\ Stamped(mir'.files[p], disk[p], inodes, now)
             /\ BytesOf(mir'.files[p]) = raw
             /\ p \notin DOMAIN plan.rows => ~PlannedStamp(mir'.files[p])
  <2>1. raw \in Content /\ listing[p] \in Stat /\ seen \in Nat
    BY <1>1, <1>2, <1>5, <1>9 DEF Listed
  <2>2. /\ mir' \in Copy /\ SameHistory(mir, mir') /\ SameWatch(mir, mir')
        /\ mir'.files = [mir.files EXCEPT ![p] = New]
    <3>1. CASE BytesOf(entry) = raw /\ mir' = Touch(mir, p, listing[p], seen)
      <4>1. entry # Absent /\ entry.data = raw
        BY <1>2, <1>9, <3>1, Bytes
      <4> QED BY <1>2, <2>1, <3>1, <4>1, TouchFacts
    <3>2. CASE mir' = Put(mir, p, raw, listing[p], seen)
      <4>1. /\ Put(mir, p, raw, listing[p], seen) \in Copy
            /\ SameHistory(mir, Put(mir, p, raw, listing[p], seen))
            /\ SameWatch(mir, Put(mir, p, raw, listing[p], seen))
            /\ Put(mir, p, raw, listing[p], seen).files = [mir.files EXCEPT ![p] = New]
        BY <1>2, <2>1, PutFacts
      <4> QED BY <3>2, <4>1
    <3> QED BY <1>9, <3>1, <3>2
  <2>3. mir'.files[p] = New /\ \A x \in Path \ {p} : mir'.files[x] = mir.files[x]
    BY <1>2, <2>2 DEF Copy
  <2>4. New \in Entry /\ New.data = raw /\ New.stat = listing[p] /\ New.seen = seen
    BY <2>1 DEF Entry
  <2> HIDE DEF New
  <2>5. CASE p \in DOMAIN plan.rows
    <3>1. raw \in Planned /\ listing[p] = PlannedStat(raw) /\ listing[p].ino = 0
      BY <1>1, <1>2, <1>6, <1>9, <2>5, Stats DEF Listed
    <3>2. disk[p] # Absent => StatOf(disk[p]).ino # 0
      BY <1>2, Stats
    <3>3. Stamped(New, disk[p], inodes, now)
      BY <1>2, <2>4, <3>1, <3>2 DEF Stamped, TrustedFor
    <3> QED BY <2>2, <2>3, <2>4, <2>5, <3>3, Bytes
  <2>6. CASE p \notin DOMAIN plan.rows
    <3>1. raw = BytesOf(disk[p]) /\ listing[p].ino \in 1..inodes /\ listing[p].ino # 0
      BY <1>1, <1>2, <1>6, <1>9, <2>6 DEF Listed
    <3>2. disk[p] # Absent => disk[p].data = raw
      BY <1>2, <3>1, Bytes
    <3>3. Stamped(New, disk[p], inodes, now)
      BY <1>2, <2>4, <3>1, <3>2 DEF Stamped
    <3>4. ~PlannedStamp(New)
      BY <2>4, <3>1 DEF PlannedStamp
    <3> QED BY <2>2, <2>3, <2>4, <3>3, <3>4, Bytes
  <2> QED BY <2>5, <2>6
<1>10. SameHistory(mir, mir) /\ SameWatch(mir, mir)
  BY DEF SameHistory, SameWatch
<1>11. CASE p \in DOMAIN listing /\ entry # Absent /\ TrustedFor(entry, listing[p]) /\ mir' = mir
  BY <1>2, <1>8, <1>10, <1>11
<1>12. CASE mir' = Removed(mir, p) /\ (p \in DOMAIN listing => raw = Absent)
  BY <1>7, <1>12
<1>13. CASE /\ p \in DOMAIN listing /\ raw # Absent
            /\ \/ BytesOf(entry) = raw /\ mir' = Touch(mir, p, listing[p], seen)
               \/ mir' = Put(mir, p, raw, listing[p], seen)
  BY <1>1, <1>6, <1>9, <1>13
<1> QED BY <1>4, <1>11, <1>12, <1>13

LEMMA LookInv ==
  ASSUME Inv, NEW p \in Path, Look(p)
  PROVE  Inv'
<1>1. /\ mir' \in Copy /\ SameHistory(mir, mir') /\ SameWatch(mir, mir')
      /\ \A x \in Path \ {p} : mir'.files[x] = mir.files[x]
      /\ Stamped(mir'.files[p], disk[p], inodes, now)
      /\ p \notin DOMAIN plan.rows => BytesOf(mir'.files[p]) \in held[p]
      /\ p \notin DOMAIN plan.rows /\ mir.marked /\ p \notin mir.reported =>
           BytesOf(mir'.files[p]) = BytesOf(disk[p])
      /\ p \notin DOMAIN plan.rows => ~PlannedStamp(mir'.files[p])
  BY LookFacts
<1>2. /\ UNCHANGED <<world, base, pc, seen, watched, listing, held, change, counts>>
      /\ todo' = todo \ {p} /\ p \in todo /\ listing # Absent /\ pc \in Scanning
  BY DEF Look, Inv, Scanned
<1> USE DEF world, change, counts
<1>3. TypeOK'
  BY <1>1, <1>2 DEF Inv, TypeOK
<1>4. AtRest'
  BY <1>2 DEF Inv, AtRest, Scanning
<1>5. Recorded'
  <2>1. Traced(mir', heads) /\ mir'.at = mir.at
    BY <1>1, TracedStays DEF Inv, Recorded, TypeOK, SameHistory
  <2> QED BY <1>2, <2>1 DEF Inv, Recorded, Scanning
<1>6. Stamps'
  BY <1>1, <1>2 DEF Inv, Stamps
<1>7. Watching'
  <2>1. Pending = todo \union DOMAIN plan.rows /\ Pending' = todo' \union DOMAIN plan.rows
    BY <1>2 DEF Pending, Scanning
  <2>2. Told(mir', disk, todo' \union DOMAIN plan.rows)
    <3>1. SUFFICES ASSUME mir.marked, NEW x \in Path \ (todo' \union DOMAIN plan.rows),
                          x \notin mir.reported
                   PROVE  /\ TableOf[x] \in mir.tables => BytesOf(mir'.files[x]) = BytesOf(disk[x])
                          /\ ~PlannedStamp(mir'.files[x])
      BY <1>1 DEF Told, SameWatch
    <3>2. CASE x = p
      BY <1>1, <3>1, <3>2
    <3>3. CASE x # p
      <4>1. x \in Path \ Pending
        BY <1>2, <2>1, <3>1, <3>3
      <4>2. /\ TableOf[x] \in mir.tables => BytesOf(mir.files[x]) = BytesOf(disk[x])
            /\ ~PlannedStamp(mir.files[x])
        BY <3>1, <4>1 DEF Inv, Watching, Told
      <4> QED BY <1>1, <3>3, <4>2
    <3> QED BY <3>2, <3>3
  <2>3. \A x : AsListed(x)' = AsListed(x)
    BY <1>2 DEF AsListed
  <2> QED BY <1>1, <1>2, <2>1, <2>2, <2>3 DEF Inv, Watching, SameWatch
<1>8. Scanned'
  <2>1. Remembers' = Remembers
    BY <1>2 DEF Remembers
  <2>2. \A x \in todo' : Listed(x)'
    <3>1. SUFFICES ASSUME NEW x \in todo'
                   PROVE  Listed(x)'
      OBVIOUS
    <3>2. x \in todo /\ x \in Path \ {p} /\ Listed(x)
      BY <1>2 DEF Inv, Scanned, TypeOK
    <3> QED BY <1>1, <1>2, <3>2 DEF Listed
  <2>3. \A x \in Path \ {p} : Found(x) => Found(x)'
    BY <1>1, <1>2 DEF Found
  <2>4. ASSUME pc = "observe"
        PROVE  /\ \A x \in RowFiles(schemas) \ todo' : Found(x)'
               /\ \A x \in Path \ todo' : ~PlannedStamp(mir'.files[x])
    <3>1. DOMAIN plan.rows = {}
      BY <2>4, EmptyPlan DEF Inv, AtRest
    <3>2. Found(p)' /\ ~PlannedStamp(mir'.files[p])
      BY <1>1, <1>2, <3>1 DEF Found
    <3>3. /\ \A x \in RowFiles(schemas) \ todo : Found(x)
          /\ \A x \in Path \ todo : ~PlannedStamp(mir.files[x])
      BY <2>4 DEF Inv, Scanned
    <3> QED BY <1>1, <1>2, <2>3, <3>2, <3>3 DEF RowFiles
  <2>5. \A x \in Path : BytesOf(disk'[x]) \in held'[x]
    BY <1>2 DEF Inv, Scanned
  <2> QED BY <1>2, <2>1, <2>2, <2>4, <2>5 DEF Inv, Scanned, Scanning, RowFiles
<1> QED BY <1>3, <1>4, <1>5, <1>6, <1>7, <1>8 DEF Inv

LEMMA StutterInv ==
  ASSUME Inv, UNCHANGED vars
  PROVE  Inv'
<1> USE DEF vars, world, scan, change, counts, Inv
<1>1. TypeOK'
  BY DEF TypeOK
<1>2. AtRest'
  BY DEF AtRest
<1>3. Recorded'
  BY DEF Recorded
<1>4. Stamps'
  BY DEF Stamps
<1>5. Watching'
  BY DEF Watching, Pending, AsListed
<1>6. Scanned'
  BY DEF Scanned, Remembers, Found, Listed
<1> QED BY <1>1, <1>2, <1>3, <1>4, <1>5, <1>6

LEMMA InitInv ==
  ASSUME Init
  PROVE  Inv
<1> DEFINE tree == [p \in Path |-> NoRow]
           empty == [files |-> [p \in Path |-> Absent], recorded |-> tree, at |-> 1,
                     unsettled |-> {}, tables |-> {}, marked |-> FALSE, reported |-> {},
                     stray |-> FALSE]
<1>1. tree \in Tree /\ heads = <<tree>> /\ HeadTree = tree /\ mir = empty /\ base = empty
  BY DEF Init, HeadTree, Tree
<1>2. heads \in Seq(Tree) /\ heads # << >> /\ Len(heads) = 1 /\ heads[1] = tree
  BY <1>1
<1>3. empty \in Copy /\ empty.files = [p \in Path |-> Absent] /\ empty.at = 1
      /\ empty.recorded = tree /\ empty.marked = FALSE
  BY <1>1 DEF Copy
<1> HIDE DEF empty
<1>4. Marked(empty)
  BY <1>3, Bytes DEF Marked
<1> HIDE DEF tree
<1>5. TypeOK
  <2>1. disk \in [Path -> {Absent} \union DiskFile]
    BY Kinds DEF Init, DiskFile
  <2>2. \A p \in Path : disk[p] # Absent => disk[p].ino \in 1..inodes
    BY DEF Init
  <2>3. now \in Nat /\ seen \in 0..now /\ inodes \in Nat \ {0} /\ schemas \in SUBSET Table
    BY DEF Init
  <2>4. pc \in Steps /\ watched \in BOOLEAN /\ todo \in SUBSET Path
    BY DEF Init, Steps
  <2>5. DOMAIN plan.rows = {} /\ plan.schemas = {} /\ RowDelta(delta)
    BY EmptyPlan DEF Init
  <2>6. \A p \in DOMAIN plan.rows : plan.rows[p] \in {Absent} \union Planned
    BY <2>5
  <2> QED BY <1>1, <1>2, <1>3, <2>1, <2>2, <2>3, <2>4, <2>5, <2>6 DEF TypeOK
<1>6. AtRest
  BY <1>1 DEF Init, AtRest
<1>7. Recorded
  <2>1. Traced(empty, heads)
    BY <1>2, <1>3, <1>4 DEF Traced
  <2>2. pc = "down"
    BY DEF Init
  <2> QED BY <1>1, <2>1, <2>2 DEF Recorded
<1>8. Stamps
  BY <1>1, <1>3 DEF Stamps, Stamped
<1>9. Watching
  BY <1>1, <1>3 DEF Watching, Told, Init
<1>10. Scanned
  BY DEF Init, Scanned, Remembers, Scanning
<1> QED BY <1>5, <1>6, <1>7, <1>8, <1>9, <1>10 DEF Inv

LEMMA NextInv ==
  ASSUME Inv, Next
  PROVE  Inv'
<1>1. CASE Open
  BY <1>1, OpenInv
<1>2. CASE List
  BY <1>2, ListInv
<1>3. CASE Release
  BY <1>3, ReleaseInv
<1>4. CASE LoadHead
  BY <1>4, LoadHeadInv
<1>5. CASE Prospected
  BY <1>5, ProspectedInv
<1>6. CASE Abandon
  BY <1>6, AbandonInv
<1>7. CASE Commit
  BY <1>7, CommitInv
<1>8. CASE Keep
  BY <1>8, KeepInv
<1>9. CASE Adopt
  BY <1>9, AdoptInv
<1>10. CASE AfterRecording
  BY <1>10, AfterRecordingInv
<1>11. CASE Kill
  BY <1>11, KillInv
<1>12. ASSUME NEW p \in Path, Look(p)
       PROVE  Inv'
  BY <1>12, LookInv
<1>13. ASSUME NEW p \in Path,
              \/ Unlink(p)
              \/ \E c \in Content : Save(p, c)
              \/ \E c \in Content, t \in 1..MaxTime : Replace(p, c, t)
       PROVE  Inv'
  BY <1>13, OthersInv
<1>14. ASSUME NEW rows \in RowSets, PlanRows(rows)
       PROVE  Inv'
  BY <1>14, PlanRowsInv
<1>15. ASSUME NEW rows \in RowSets, NEW tables \in SUBSET Table, PlanWhole(rows, tables)
       PROVE  Inv'
  BY <1>15, PlanWholeInv
<1> QED BY <1>1, <1>2, <1>3, <1>4, <1>5, <1>6, <1>7, <1>8, <1>9, <1>10, <1>11, <1>12, <1>13,
           <1>14, <1>15 DEF Next

LEMMA Invariant == Spec => []Inv
<1>1. Inv /\ [Next]_vars => Inv'
  BY NextInv, StutterInv
<1> QED BY InitInv, <1>1, PTL DEF Spec

-----------------------------------------------------------------------------
(* What the mirror may be relied on for                                    *)

(* The variables have their types, whatever the folder and the bounds: in  *)
(* particular a recorded delta holds rows, and a scan is of row files.     *)
THEOREM Typed == Spec => []TypeOK
<1>1. Inv => TypeOK
  BY DEF Inv
<1> QED BY Invariant, <1>1, PTL

(* What a finished observation left in the mirror for a file is what the   *)
(* file held at some moment since it began, whether the file was read, its *)
(* stamp trusted (`trusted_for`), or the path left to the monitor.         *)
THEOREM ObservationsHold == Spec => []ObservedIsHeld
<1>1. Inv => ObservedIsHeld
  <2>1. SUFFICES ASSUME Inv, pc = "observed", NEW p \in RowFiles(schemas)
                 PROVE  BytesOf(mir.files[p]) \in held[p]
    BY DEF ObservedIsHeld
  <2>2. plan = NoPlan /\ Found(p)
    BY <2>1 DEF Inv, AtRest, Scanned
  <2> QED BY <2>2, EmptyPlan DEF Found
<1> QED BY Invariant, <1>1, PTL

(* The differences found at the marked paths are all there are, in the     *)
(* mirror a command works on and in the one its death would leave, and the *)
(* rows they are differences from are those of the revision the mirror     *)
(* names: in an open folder, of the head.                                  *)
THEOREM DeltasAreWhole == Spec => []DeltaIsWhole
<1>1. Inv => DeltaIsWhole
  BY DEF Inv, Recorded, Traced, Marked, DeltaIsWhole, RecordedIsHead
<1> QED BY Invariant, <1>1, PTL

-----------------------------------------------------------------------------
(* The state a change would leave                                          *)

\* A change that touches a schema is planned in a mirror observed since the last
\* change: no entry is stamped as a planned file.  An observation leaves none
\* (ObservationsClear), and a command opens the folder for each change it makes.
Afresh ==
  pc = "open" /\ pc' = "prospect" => \A p \in Path : ~PlannedStamp(mir.files[p])

Foreseen ==
  /\ pc = "prospect" =>
       \A p \in RowFiles(plan.schemas) : IF p \in todo THEN ~PlannedStamp(mir.files[p])
                                                       ELSE Found(p)
  /\ pc \in {"planned", "committed", "kept"} => \A p \in RowFiles(plan.schemas) : Found(p)

\* What was found stays so while the mirror's files and the plan stay.
LEMMA FoundStays ==
  ASSUME mir'.files = mir.files, plan' = plan, NEW x \in Path, held[x] \subseteq held'[x],
         Found(x)
  PROVE  Found(x)'
  BY DEF Found

LEMMA EditedForeseen ==
  ASSUME Inv, Foreseen, NEW p \in Path, NEW f, Edited(p, f)
  PROVE  Foreseen'
<1>1. /\ plan' = plan /\ pc' = pc /\ todo' = todo
      /\ mir'.files = mir.files
  BY DEF Edited, Heard, change, Inv, TypeOK, Copy
<1>2. CASE Remembers
  <2>1. \A x \in Path : held[x] \subseteq held'[x]
    BY <1>2, HeldGrows
  <2>2. \A x \in Path : Found(x) => Found(x)'
    BY <1>1, <2>1, FoundStays
  <2> QED BY <1>1, <2>2 DEF Foreseen, RowFiles
<1>3. CASE ~Remembers
  BY <1>1, <1>3 DEF Foreseen, RowFiles, Remembers, Scanning
<1> QED BY <1>2, <1>3

LEMMA PlanRowsForeseen ==
  ASSUME Inv, NEW rows \in RowSets, PlanRows(rows)
  PROVE  Foreseen'
<1>1. /\ pc' = "planned" /\ plan'.rows = rows /\ Passes /\ mir' = IngestRows(mir, rows)
      /\ held' = [p \in Path |-> {BytesOf(disk[p]), BytesOf(mir.files[p])}]
  BY DEF PlanRows, Plans
<1>2. now' \in Nat /\ mir \in Copy
  BY <1>1, Bounds DEF Passes, Inv, TypeOK
<1>3. DOMAIN rows \subseteq Path /\ \A p \in DOMAIN rows : rows[p] \in {Absent} \union Planned
  BY PlanTyped
<1>4. \A p \in Path : mir'.files[p] =
        IF p \notin DOMAIN rows THEN mir.files[p]
        ELSE IF rows[p] = Absent THEN Absent
        ELSE [data |-> rows[p], stat |-> PlannedStat(rows[p]), seen |-> now']
  BY <1>1, <1>2, <1>3, IngestFacts
<1>5. ASSUME NEW p \in Path
      PROVE  Found(p)'
  <2>1. CASE p \in DOMAIN rows
    <3>1. BytesOf(mir'.files[p]) = rows[p]
      <4>1. CASE rows[p] = Absent
        BY <1>4, <2>1, <4>1, Bytes
      <4>2. CASE rows[p] # Absent
        <5>1. [data |-> rows[p], stat |-> PlannedStat(rows[p]), seen |-> now'] \in Entry
          BY <1>2, <1>3, <2>1, <4>2, Kinds DEF Entry, Stat, PlannedStat
        <5> QED BY <1>4, <2>1, <4>2, <5>1, Bytes
      <4> QED BY <4>1, <4>2
    <3> QED BY <1>1, <2>1, <3>1 DEF Found
  <2>2. CASE p \notin DOMAIN rows
    BY <1>1, <1>4, <2>2 DEF Found
  <2> QED BY <2>1, <2>2
<1> QED BY <1>1, <1>5 DEF Foreseen, RowFiles

LEMMA PlanWholeForeseen ==
  ASSUME Inv, "prospect" \notin AskWhen, Afresh,
         NEW rows \in RowSets, NEW tables \in SUBSET Table, PlanWhole(rows, tables)
  PROVE  Foreseen'
<1>1. pc = "open" /\ pc' = "prospect" /\ plan'.schemas = tables /\ Asked(tables)
  BY DEF PlanWhole, Plans
<1>2. Told(mir, disk, {})
  BY <1>1 DEF Inv, Watching, Pending, Scanning
<1>3. todo' = RowFiles(tables) /\ \A p \in Path : mir'.files[p] \in {mir.files[p], Absent}
  BY <1>1, <1>2, AskedFacts
<1>4. \A p \in Path : ~PlannedStamp(mir'.files[p])
  BY <1>1, <1>3 DEF Afresh, PlannedStamp
<1> QED BY <1>1, <1>3, <1>4 DEF Foreseen, RowFiles

LEMMA LookForeseen ==
  ASSUME Inv, Foreseen, NEW p \in Path, Look(p)
  PROVE  Foreseen'
<1>1. /\ \A x \in Path \ {p} : mir'.files[x] = mir.files[x]
      /\ p \notin DOMAIN plan.rows => BytesOf(mir'.files[p]) \in held[p]
      /\ p \in DOMAIN plan.rows /\ ~PlannedStamp(mir.files[p]) =>
           BytesOf(mir'.files[p]) = plan.rows[p]
  BY LookFacts
<1>2. /\ pc' = pc /\ held' = held /\ plan' = plan /\ pc \in Scanning
      /\ p \in todo /\ todo' = todo \ {p}
  BY DEF Look, change, Inv, Scanned
<1>3. \A x \in Path \ {p} : Found(x) => Found(x)'
  BY <1>1, <1>2 DEF Found
<1>4. ~PlannedStamp(mir.files[p]) => Found(p)'
  BY <1>1, <1>2 DEF Found
<1> QED BY <1>1, <1>2, <1>3, <1>4 DEF Foreseen, RowFiles, Scanning

\* The steps that neither plan nor look at a file leave what was found.
LEMMA QuietForeseen ==
  ASSUME Inv, Foreseen,
         \/ Open \/ List \/ Release \/ LoadHead \/ Prospected \/ Abandon \/ Commit
         \/ Keep \/ Adopt \/ AfterRecording \/ Kill \/ UNCHANGED vars
  PROVE  Foreseen'
<1> USE DEF world, scan, change, counts
<1>1. CASE Open \/ Release \/ LoadHead \/ Abandon \/ AfterRecording \/ Kill
  BY <1>1 DEF Open, Release, LoadHead, Abandon, AfterRecording, Kill, Foreseen
<1>2. CASE Adopt
  BY <1>2, EmptyPlan DEF Adopt, Inv, AtRest, Foreseen, RowFiles
<1>3. CASE List \/ UNCHANGED vars
  BY <1>3 DEF List, vars, Foreseen, Found, RowFiles
<1>4. CASE Keep
  BY <1>4 DEF Keep, Foreseen, Found, RowFiles
<1>5. CASE Prospected
  <2>1. mir'.files = mir.files /\ todo = {}
    BY <1>5, ObservedFacts DEF Prospected, Looked, Inv, TypeOK
  <2> QED BY <1>5, <2>1 DEF Prospected, Foreseen, Found, RowFiles
<1>6. CASE Commit
  <2>1. mir'.files = mir.files
    BY <1>6 DEF Commit, Heard, Inv, TypeOK, Copy
  <2> QED BY <1>6, <2>1 DEF Commit, Foreseen, Found, RowFiles
<1> QED BY <1>1, <1>2, <1>3, <1>4, <1>5, <1>6

LEMMA NextForeseen ==
  ASSUME Inv, Foreseen, "prospect" \notin AskWhen, Afresh, Next
  PROVE  Foreseen'
<1>1. CASE \/ Open \/ List \/ Release \/ LoadHead \/ Prospected \/ Abandon \/ Commit
           \/ Keep \/ Adopt \/ AfterRecording \/ Kill
  BY <1>1, QuietForeseen
<1>2. ASSUME NEW p \in Path, Look(p)
      PROVE  Foreseen'
  BY <1>2, LookForeseen
<1>3. ASSUME NEW p \in Path,
             \/ Unlink(p)
             \/ \E c \in Content : Save(p, c)
             \/ \E c \in Content, t \in 1..MaxTime : Replace(p, c, t)
      PROVE  Foreseen'
  BY <1>3, EditedForeseen DEF Unlink, Save, Replace
<1>4. ASSUME NEW rows \in RowSets, PlanRows(rows)
      PROVE  Foreseen'
  BY <1>4, PlanRowsForeseen
<1>5. ASSUME NEW rows \in RowSets, NEW tables \in SUBSET Table, PlanWhole(rows, tables)
      PROVE  Foreseen'
  BY <1>5, PlanWholeForeseen
<1> QED BY <1>1, <1>2, <1>3, <1>4, <1>5 DEF Next

(* A planned change is judged, committed and kept by the state it would    *)
(* leave, whatever is saved meanwhile, if the monitor is not asked about a *)
(* prospect and the folder was observed since the last change.             *)
THEOREM ProspectsForesee ==
  ASSUME "prospect" \notin AskWhen
  PROVE  Spec /\ [][Afresh]_vars => []ProspectIsFuture
<1>1. Init => Foreseen
  BY DEF Init, Foreseen
<1>2. Inv /\ Foreseen /\ [Next]_vars /\ [Afresh]_vars => Foreseen'
  <2>1. ASSUME Inv, Foreseen, Next, Afresh
        PROVE  Foreseen'
    BY <2>1, NextForeseen
  <2>2. ASSUME Inv, Foreseen, UNCHANGED vars
        PROVE  Foreseen'
    BY <2>2, QuietForeseen
  <2> QED BY <2>1, <2>2
<1>3. Foreseen => ProspectIsFuture
  BY DEF Foreseen, ProspectIsFuture, Found
<1> QED BY Invariant, <1>1, <1>2, <1>3, PTL DEF Spec

(* An observation leaves no entry with a planned file's stat behind, not   *)
(* even where the monitor was believed: the changes made since are among   *)
(* what it reports.                                                        *)
THEOREM ObservationsClear ==
  Spec => [](pc = "observed" => \A p \in Path : ~PlannedStamp(mir.files[p]))
<1>1. Inv => (pc = "observed" => \A p \in Path : ~PlannedStamp(mir.files[p]))
  BY DEF Inv, Scanned
<1> QED BY Invariant, <1>1, PTL

=============================================================================
