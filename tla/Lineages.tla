------------------------------ MODULE Lineages ------------------------------
(***************************************************************************)
(* Damaged history and what is done about it: snapshots taken and put back *)
(* (snapshot.rs), history set aside and begun anew (db.rs, store/refs.rs), *)
(* and collection past what is set aside (store/dag.rs).                   *)
(*                                                                         *)
(* PackStore models the packs of an undamaged store step by step, with     *)
(* power losses and readers.  Here a publication and a collection are one  *)
(* step each; what is taken apart is begin_new_lineage, which moves heads  *)
(* and packs one after the other, each move made durable before the next.  *)
(***************************************************************************)
EXTENDS Integers, FiniteSets, FiniteSetsExt, Sequences, SequencesExt

CONSTANTS MaxRevision,  \* how many revisions are recorded
          MaxShelf,     \* how many packs are written
          Damage,       \* what befalls packs: "entry", "index", "lost"
          MaxDamage,    \* how often
          MaxKilled     \* how often a process is killed

ASSUME LineagesAssumption == /\ MaxRevision \in Nat /\ MaxShelf \in Nat /\ MaxDamage \in Nat
                             /\ MaxKilled \in Nat /\ Damage \subseteq {"entry", "index", "lost"}

VARIABLES
  files,       \* the two row files
  revisions,   \* every revision made: its parents, the state it holds, whether it begins a lineage
  tips,        \* the heads
  shelf,       \* the packs: objects, those damaged, whether its index is, and where it lies
  asides,      \* the heads in quarantines
  snapshot,    \* the state the one snapshot names, if there is one
  stage,       \* where the process holding the lock is in begin_new_lineage
  corrupt,     \* the packs it found corrupt
  ended,       \* how the last command ended
  forgotten,   \* the objects that collections took from a name that reached them
  damages, killings

historyVars == <<revisions, tips, shelf, asides, snapshot>>
lineagesVars == <<files, historyVars, stage, corrupt, ended, forgotten, damages, killings>>

\* Another program's save of q may be no row.
Faulty == 3
Contents == [p : {1, 2}, q : {1, Faulty}]
ValidState(s) == s.q # Faulty
NoSnapshot == [p |-> 0, q |-> 0]

-----------------------------------------------------------------------------
(* Objects, and what the packs hold of them                                *)

Rev(n) == <<"revision", n>>
Tree(s) == <<"tree", s>>
Blobs(s) == {<<"blob", "p", s.p>>, <<"blob", "q", s.q>>}

Parents(n) == revisions[n].parents
NamesOf(o) == CASE o[1] = "revision" -> {Rev(m) : m \in Parents(o[2])} \cup {Tree(revisions[o[2]].holds)}
                [] o[1] = "tree" -> Blobs(o[2])
                [] o[1] = "blob" -> {}

\* What is reached from the objects in from, along objects in within.
Along(from, within) ==
  LET reach[i \in 0..(MaxRevision + 1)] ==
        IF i = 0 THEN from \cap within
        ELSE reach[i - 1] \cup ((UNION {NamesOf(o) : o \in reach[i - 1]}) \cap within)
  IN  reach[MaxRevision + 1]

Everything == {Rev(n) : n \in DOMAIN revisions} \cup UNION {{Tree(s)} \cup Blobs(s) : s \in Contents}

\* A pack whose index was moved aside before it is not read.
Live == {k \in DOMAIN shelf : shelf[k].lies = "live"}
PacksOpen == \A k \in Live : ~shelf[k].torn
Indexed == UNION {shelf[k].objs : k \in Live}
\* A damaged copy is passed over for one that proves itself.
Readable == UNION {shelf[k].objs \ shelf[k].bad : k \in Live}

-----------------------------------------------------------------------------
(* Opening: load_history, verify_head, and adopt                           *)

HeadSound(n) == Rev(n) \in Readable /\ Tree(revisions[n].holds) \in Readable
Degraded == ~PacksOpen \/ \E n \in tips : ~HeadSound(n)

Ends(how) == stage' = "idle" /\ corrupt' = {} /\ ended' = how

\* A recording stores its tree, and the files no index lists; one that begins a
\* lineage stores all it names.
Shelve(objs) == Append(shelf, [objs |-> objs, bad |-> {}, torn |-> FALSE, lies |-> "live"])
NewObjects(s) == ({Tree(s)} \cup Blobs(s)) \ Indexed

\* Mutant: what an index lists is trusted.
ToStoreUnlisted(s, begins) == {Tree(s)} \cup (Blobs(s) \ Indexed)
ToStore(s, begins) == {Tree(s)} \cup (IF begins THEN Blobs(s) ELSE Blobs(s) \ Indexed)

RecordState(s, begins) ==
  /\ Len(revisions) < MaxRevision /\ Len(shelf) < MaxShelf
  /\ revisions' = Append(revisions, [parents |-> tips, holds |-> s, begins |-> begins])
  /\ tips' = {Len(revisions) + 1}
  /\ shelf' = Shelve({Rev(Len(revisions) + 1)} \cup ToStore(s, begins))

RecordedAlready(s) == \E n \in tips : revisions[n].holds = s
Settled == RecordedAlready(files)
\* No command runs before what changed is recorded, unless it cannot be.
Current == stage = "idle" /\ (Degraded \/ ~ValidState(files) \/ Settled)

AdoptState ==
  /\ stage = "idle" /\ ~Current
  /\ RecordState(files, FALSE) /\ Ends("done")
  /\ UNCHANGED <<files, asides, snapshot, forgotten, damages, killings>>

-----------------------------------------------------------------------------
(* Snapshots                                                               *)

\* A recorded state is named; of another, with its faulty files, what no index
\* lists is stored.
TakeSnapshot ==
  /\ Current /\ ~Degraded /\ snapshot = NoSnapshot /\ Len(shelf) < MaxShelf
  /\ snapshot' = files
  /\ shelf' = IF Settled \/ NewObjects(files) = {} THEN shelf ELSE Shelve(NewObjects(files))
  /\ Ends("done")
  /\ UNCHANGED <<files, revisions, tips, asides, forgotten, damages, killings>>

\* Every file that differs is read from history, or nothing is put back.
PutBack ==
  /\ Current /\ ~Degraded /\ snapshot \notin {NoSnapshot, files}
  /\ IF Tree(snapshot) \in Readable /\ Blobs(snapshot) \ Blobs(files) \subseteq Readable
     THEN /\ files' = snapshot /\ Ends("done")
          /\ IF ValidState(snapshot) /\ ~RecordedAlready(snapshot) THEN RecordState(snapshot, FALSE)
             ELSE UNCHANGED <<revisions, tips, shelf>>
     ELSE Ends("damaged") /\ UNCHANGED <<files, revisions, tips, shelf>>
  /\ UNCHANGED <<asides, snapshot, forgotten, damages, killings>>

DropSnapshot ==
  /\ Current /\ ~Degraded /\ snapshot # NoSnapshot
  /\ snapshot' = NoSnapshot /\ Ends("done")
  /\ UNCHANGED <<files, revisions, tips, shelf, asides, forgotten, damages, killings>>

-----------------------------------------------------------------------------
(* Beginning a new lineage                                                 *)

\* Refused over faulty rows; packs are verified only if the store opens.
BeginLineage ==
  /\ Current /\ ValidState(files)
  /\ stage' = "quarantine" /\ ended' = "done"
  /\ corrupt' = IF PacksOpen THEN {k \in Live : shelf[k].bad # {}} ELSE {}
  /\ UNCHANGED <<files, historyVars, forgotten, damages, killings>>

\* The quarantine is built whole and renamed into place ...
Quarantine ==
  /\ stage = "quarantine" /\ stage' = "retire" /\ asides' = asides \cup tips
  /\ UNCHANGED <<files, revisions, tips, shelf, snapshot, corrupt, ended, forgotten, damages, killings>>

\* ... before any head goes.
RetireHead ==
  /\ stage = "retire" /\ tips # {}
  /\ \E n \in tips : tips' = tips \ {n}
  /\ UNCHANGED <<files, revisions, shelf, asides, snapshot, stage, corrupt, ended, forgotten, damages,
                 killings>>

Retired ==
  /\ stage = "retire" /\ tips = {} /\ stage' = "aside"
  /\ UNCHANGED <<files, historyVars, corrupt, ended, forgotten, damages, killings>>

\* Of each pack the index goes first.
MoveAside ==
  /\ stage = "aside" /\ corrupt # {}
  /\ LET k == Min(corrupt) IN
     IF shelf[k].lies = "live"
     THEN shelf' = [shelf EXCEPT ![k].lies = "unindexed"] /\ UNCHANGED corrupt
     ELSE shelf' = [shelf EXCEPT ![k].lies = "aside"] /\ corrupt' = corrupt \ {k}
  /\ UNCHANGED <<files, revisions, tips, asides, snapshot, stage, ended, forgotten, damages, killings>>

\* The store is opened again, which fails over a damaged index.
RecordLineage ==
  /\ stage = "aside" /\ corrupt = {}
  /\ IF PacksOpen THEN RecordState(files, TRUE) /\ Ends("new lineage")
     ELSE Ends("no lineage") /\ UNCHANGED <<revisions, tips, shelf>>
  /\ UNCHANGED <<files, asides, snapshot, forgotten, damages, killings>>

-----------------------------------------------------------------------------
(* Collecting                                                              *)

\* Revisions and trees are read on the way; blobs are only named.
NodesIn(objs) == {o \in objs : o[1] # "blob"}
Whole == Along({Rev(n) : n \in tips} \cup (IF snapshot = NoSnapshot THEN {} ELSE {Tree(snapshot)}),
               Everything)
\* What no index lists is not passed, whether set aside or missing; but the blobs
\* of a tree that is passed are all named.
Held == LET nodes == Along({Rev(n) : n \in asides}, NodesIn(Indexed))
        IN  nodes \cup UNION {Blobs(o[2]) : o \in {o \in nodes : o[1] = "tree"}}

\* Mutant: what quarantined heads reach is not kept.
KeepLive == Whole
Keep == Whole \cup Held

\* Of each object the first copy is read, and must prove itself.
Rewritten(keep) ==
  \A o \in keep : \E k \in Live : /\ o \in shelf[k].objs \ shelf[k].bad
                                  /\ \A j \in Live : j < k => o \notin shelf[j].objs

CollectGarbage ==
  LET keep == Keep
      dropped == MapThenSumSet(LAMBDA k : Cardinality(shelf[k].objs), Live) - Cardinality(keep)
      swept == [k \in DOMAIN shelf |-> IF k \in Live THEN [shelf[k] EXCEPT !.lies = "gone"] ELSE shelf[k]]
  IN
  /\ Current /\ ~Degraded /\ Len(shelf) < MaxShelf
  /\ IF ~(NodesIn(keep) \subseteq Readable) THEN Ends("damaged") /\ UNCHANGED <<shelf, forgotten>>
     ELSE IF dropped <= 0 THEN Ends("done") /\ UNCHANGED <<shelf, forgotten>>
     ELSE IF ~Rewritten(keep) THEN Ends("damaged") /\ UNCHANGED <<shelf, forgotten>>
     ELSE /\ shelf' = Append(swept, [objs |-> keep, bad |-> {}, torn |-> FALSE, lies |-> "live"])
          /\ forgotten' = forgotten \cup
               (Along({Rev(n) : n \in tips \cup asides}
                        \cup (IF snapshot = NoSnapshot THEN {} ELSE {Tree(snapshot)}), Readable) \ keep)
          /\ Ends("collected")
  /\ UNCHANGED <<files, revisions, tips, asides, snapshot, damages, killings>>

-----------------------------------------------------------------------------
(* The environment                                                         *)

SaveFile(s) ==
  /\ stage = "idle" /\ s # files /\ files' = s
  /\ UNCHANGED <<historyVars, stage, corrupt, ended, forgotten, damages, killings>>

Harm(what) == what \in Damage /\ damages < MaxDamage /\ damages' = damages + 1

DamageEntry(k, o) ==
  /\ o \in shelf[k].objs \ shelf[k].bad /\ Harm("entry")
  /\ shelf' = [shelf EXCEPT ![k].bad = @ \cup {o}] /\ ended' = "done"
  /\ UNCHANGED <<files, revisions, tips, asides, snapshot, stage, corrupt, forgotten, killings>>

DamageIndex(k) ==
  /\ ~shelf[k].torn /\ Harm("index")
  /\ shelf' = [shelf EXCEPT ![k].torn = TRUE] /\ ended' = "done"
  /\ UNCHANGED <<files, revisions, tips, asides, snapshot, stage, corrupt, forgotten, killings>>

\* A clone is made, or a backup put back, without one of the packs.
LosePack(k) ==
  /\ Harm("lost") /\ shelf' = [shelf EXCEPT ![k].lies = "gone"] /\ ended' = "done"
  /\ UNCHANGED <<files, revisions, tips, asides, snapshot, stage, corrupt, forgotten, killings>>

KillLineage ==
  /\ stage # "idle" /\ killings < MaxKilled /\ killings' = killings + 1 /\ Ends("done")
  /\ UNCHANGED <<files, historyVars, forgotten, damages>>

-----------------------------------------------------------------------------

LineagesInit ==
  /\ files = [p |-> 1, q |-> 1]
  /\ revisions = <<>> /\ tips = {} /\ shelf = <<>> /\ asides = {} /\ snapshot = NoSnapshot
  /\ stage = "idle" /\ corrupt = {} /\ ended = "done" /\ forgotten = {} /\ damages = 0 /\ killings = 0

Beginning ==
  \/ BeginLineage \/ Quarantine \/ RetireHead \/ Retired \/ MoveAside \/ RecordLineage \/ KillLineage

LineagesNext ==
  \/ AdoptState \/ TakeSnapshot \/ PutBack \/ DropSnapshot \/ Beginning \/ CollectGarbage
  \/ \E s \in Contents : SaveFile(s)
  \/ \E k \in Live : LosePack(k) \/ DamageIndex(k) \/ \E o \in shelf[k].objs : DamageEntry(k, o)

\* Nothing happens here: a step of another part of the database.
LineagesIdle == UNCHANGED lineagesVars

LineagesSpec == LineagesInit /\ [][LineagesNext]_lineagesVars

-----------------------------------------------------------------------------
(* Properties                                                              *)

\* A lineage that has begun, over whatever damage, is wholly there: every object its
\* head reaches can be read (docs/recover.md, "check --deep verifies it").
LineageWhole ==
  ended = "new lineage" => ~Degraded /\ Along({Rev(n) : n \in tips}, Everything) \subseteq Readable

\* A collection takes nothing that a head, the snapshot or a quarantined head still
\* reached through the packs in use (docs/format.md).
NothingForgotten == forgotten = {}

\* Where rows are valid, a new lineage begins when asked (docs/recover.md, "When
\* history does not verify").  Not so over a damaged index: the heads are moved
\* aside, and the command fails, then and whenever it is run again.
LineageBegins == ended # "no lineage"

\* While nothing in use is damaged or missing, garbage can be collected.  Not so where
\* a blob of a quarantined lineage was set aside, and the tree that names it was not.
CollectsPastAsides ==
  ended = "damaged" => \/ \E o \in Whole : o \notin Readable
                       \/ \E k \in Live : shelf[k].bad # {}

Shelved(o) == \E k \in DOMAIN shelf : o \in shelf[k].objs /\ shelf[k].lies # "gone"

\* Collection takes no object that a quarantined head reaches (store/refs.rs).  Not so
\* for what is reached only through a revision that was itself set aside.
AsidesStay ==
  [][ended' = "collected" =>
       \A o \in Along({Rev(n) : n \in asides}, Everything) : Shelved(o) => Shelved(o)'
    ]_lineagesVars

=============================================================================
