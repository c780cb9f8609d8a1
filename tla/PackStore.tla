------------------------------ MODULE PackStore ------------------------------
(***************************************************************************)
(* The object store of history: store/objects.rs, pack.rs, consolidate.rs. *)
(*                                                                         *)
(* Objects live in packs.  A pack is two files, the pack and its index, in *)
(* .db/objects/pack; it is visible when its index is there.  A recording   *)
(* publishes a pack, its index and a name of history -- a head or a        *)
(* snapshot -- through the journal, which finishes the publication after a *)
(* crash.  A collection (reldir gc) rewrites what the names reach into one *)
(* new pack and removes the others, without a journal.  Readers hold no    *)
(* lock: they list the packs, load the indexes, and read.                  *)
(*                                                                         *)
(* Of the journal this module keeps what Journal shows of it: jnl is on    *)
(* every disk from the commit point until it is removed (WriteAhead), and  *)
(* what it has to place is staged or in place (NeverLost).                 *)
(***************************************************************************)
EXTENDS Folder, Integers, FiniteSets, FiniteSetsExt

CONSTANTS NNames,     \* the names of history are 1..NNames, in order of making
          NSweeps,    \* how many collections may write a pack
          Faults,     \* what may strike: "power", "kill", "killdelete"
          MaxFaults   \* how often

AllFaults == {"power", "kill", "killdelete"}

ASSUME CountAssumption == NNames \in Nat /\ NSweeps \in Nat /\ MaxFaults \in Nat
ASSUME FaultsAssumption == Faults \subseteq AllFaults

Name == 1..NNames
Object == 1..NNames                \* object n is the new one that name n brings
Pack == 1..(NNames + NSweeps)      \* pack n <= NNames is published with name n
None == 0

VARIABLES
  pack,       \* pack[n]: cell of pack n's two files, staged and in place
  name,       \* name[n]: cell, whether history has name n
  holds,      \* holds[n]: the objects in pack n
  reaches,    \* reaches[n]: the objects name n reaches
  retires,    \* retires[n]: the names that name n takes the place of
  snapshots,  \* the names that are snapshots
  jnl,        \* the name whose publication the journal would finish
  \* the process holding the lock
  pc,         \* what it does next
  at,         \* the snapshot it deletes, the pack it writes or removes
  removing,   \* the packs a collection has still to remove
  \* a reader
  rpc,        \* what it does next
  listing,    \* the packs it has loaded
  seen,       \* the files of its last enumeration of the directory
  toload,     \* the packs whose indexes it has still to load
  fresh,      \* the listing it is making
  want,       \* the object it looks for
  knew,       \* whether it knew a pack of it that was there when it began
  swept,      \* the collections that removed packs since it began to look
  faults

store == <<pack, name, holds, reaches, retires, snapshots, jnl>>
writer == <<pc, at, removing>>
reader == <<rpc, listing, seen, toload, fresh, want, knew>>
vars == <<store, writer, reader, swept, faults>>

Files == [staged : BOOLEAN, stagedidx : BOOLEAN, pack : BOOLEAN, idx : BOOLEAN]
NoFiles == [staged |-> FALSE, stagedidx |-> FALSE, pack |-> FALSE, idx |-> FALSE]
Staged == [NoFiles EXCEPT !.staged = TRUE, !.stagedidx = TRUE]
Published == [NoFiles EXCEPT !.pack = TRUE, !.idx = TRUE]
NoneSeen == [packs |-> {}, idxs |-> {}]

-----------------------------------------------------------------------------
(* The store as the cache shows it                                         *)

Visible == {n \in Pack : pack[n].now.idx}
Bare == {n \in Pack : pack[n].now.idx /\ ~pack[n].now.pack}
Stored == UNION {holds[n] : n \in Visible}
Named == {n \in Name : name[n].now}
Reachable == UNION {reaches[n] : n \in Named}

\* Create the two staged files, in a directory nobody syncs.
Stage(c) ==
  LET SamePack(m) == m.staged = c.now.staged
      NewPack(m) == [m EXCEPT !.staged = TRUE]
      SameIdx(m) == m.stagedidx = c.now.stagedidx
      NewIdx(m) == [m EXCEPT !.stagedidx = TRUE]
  IN  Issue(Issue(c, SamePack, NewPack), SameIdx, NewIdx)

\* Rename a staged pack, or its index, into place.
RenamePack(c) ==
  LET Same(m) == m.pack = c.now.pack /\ m.staged = c.now.staged
      New(m) == [m EXCEPT !.pack = TRUE, !.staged = FALSE]
  IN  Issue(c, Same, New)

RenameIdx(c) ==
  LET Same(m) == m.idx = c.now.idx /\ m.stagedidx = c.now.stagedidx
      New(m) == [m EXCEPT !.idx = TRUE, !.stagedidx = FALSE]
  IN  Issue(c, Same, New)

UnlinkPack(c) ==
  LET Same(m) == m.pack = c.now.pack
      New(m) == [m EXCEPT !.pack = FALSE]
  IN  Issue(c, Same, New)

UnlinkIdx(c) ==
  LET Same(m) == m.idx = c.now.idx
      New(m) == [m EXCEPT !.idx = FALSE]
  IN  Issue(c, Same, New)

\* A name of history appears, or goes.
SetName(c, b) ==
  LET Same(m) == m = c.now
      New(m) == b
  IN  Issue(c, Same, New)

\* fsync of the pack directory, and of the directories of the names.
SyncPacks ==
  pack' = [n \in Pack |-> Sync(pack[n], LAMBDA m : /\ m.pack = pack[n].now.pack
                                                   /\ m.idx = pack[n].now.idx)]
SyncNames == name' = [n \in Name |-> Sync(name[n], LAMBDA m : m = name[n].now)]

Goto(l) == pc' = l
Idle == Goto("idle") /\ at' = None /\ removing' = {}

-----------------------------------------------------------------------------
(* Recording: history::prepare, snapshot::create, and journal::apply       *)

\* At the commit point: a new name n reaching what is stored already (old, also
\* objects that no name reaches any more) and what its pack brings.
Bring(n, old, brought) ==
  /\ pc = "idle" /\ jnl = None /\ Bare = {} /\ Goto("pack") /\ jnl' = n
  /\ reaches[n] = {} /\ \A m \in 1..(n - 1) : reaches[m] # {}
  /\ old \cup brought # {} /\ reaches' = [reaches EXCEPT ![n] = old \cup brought]
  /\ holds' = [holds EXCEPT ![n] = brought]
  /\ pack' = IF brought = {} THEN pack ELSE [pack EXCEPT ![n] = Durable(Staged)]
  /\ UNCHANGED <<name, at, removing, reader, swept, faults>>

\* A recording descends from the heads, and retires them: it reaches what they
\* reach, and its own revision object is new.
Record(n) ==
  LET heads == Named \ snapshots IN
  \E old \in SUBSET Stored :
    /\ Bring(n, old \cup UNION {reaches[m] : m \in heads}, {n})
    /\ retires' = [retires EXCEPT ![n] = heads]
    /\ UNCHANGED snapshots

\* A snapshot names a tree, which history may hold already.
Snapshot(n) ==
  \E old \in SUBSET Stored, brought \in SUBSET {n} :
    /\ Bring(n, old, brought)
    /\ snapshots' = snapshots \cup {n}
    /\ UNCHANGED retires

\* After a crash, the next command makes durable what it finds, and goes on.
Recover ==
  /\ pc = "idle" /\ jnl # None /\ Goto("pack")
  /\ SyncPacks /\ SyncNames
  /\ UNCHANGED <<holds, reaches, retires, snapshots, jnl, at, removing, reader, swept,
                 faults>>

\* The pack is put in place, then its index, then the name, each if it is not.
PlacePack ==
  /\ pc = "pack" /\ Goto("idx")
  /\ pack' = IF holds[jnl] = {} \/ pack[jnl].now.pack THEN pack
             ELSE [pack EXCEPT ![jnl] = RenamePack(@)]
  /\ UNCHANGED <<name, holds, reaches, retires, snapshots, jnl, at, removing, reader,
                 swept, faults>>

PlaceIdx ==
  /\ pc = "idx" /\ Goto("name")
  /\ pack' = IF holds[jnl] = {} \/ pack[jnl].now.idx THEN pack
             ELSE [pack EXCEPT ![jnl] = RenameIdx(@)]
  /\ UNCHANGED <<name, holds, reaches, retires, snapshots, jnl, at, removing, reader,
                 swept, faults>>

PlaceName ==
  /\ pc = "name" /\ Goto("retire")
  /\ name' = IF name[jnl].now THEN name ELSE [name EXCEPT ![jnl] = SetName(@, TRUE)]
  /\ UNCHANGED <<pack, holds, reaches, retires, snapshots, jnl, at, removing, reader,
                 swept, faults>>

\* The heads it descends from go, one by one.
RetireName ==
  /\ pc = "retire"
  /\ \E h \in retires[jnl] \cap Named : name' = [name EXCEPT ![h] = SetName(@, FALSE)]
  /\ UNCHANGED <<pack, holds, reaches, retires, snapshots, jnl, writer, reader, swept, faults>>

\* Mutant: the directory of the packs is not among those to sync.
PacksUnsynced ==
  /\ pc = "retire" /\ retires[jnl] \cap Named = {} /\ Goto("finish")
  /\ SyncNames
  /\ UNCHANGED <<pack, holds, reaches, retires, snapshots, jnl, at, removing, reader, swept,
                 faults>>

SyncPublished ==
  /\ pc = "retire" /\ retires[jnl] \cap Named = {} /\ Goto("finish")
  /\ SyncPacks /\ SyncNames
  /\ UNCHANGED <<holds, reaches, retires, snapshots, jnl, at, removing, reader, swept,
                 faults>>

Finish ==
  /\ pc = "finish" /\ Idle /\ jnl' = None
  /\ UNCHANGED <<pack, name, holds, reaches, retires, snapshots, reader, swept, faults>>

-----------------------------------------------------------------------------
(* Deleting a snapshot: refs::delete_snapshot                              *)

Delete ==
  /\ pc = "idle" /\ jnl = None /\ Goto("deleted")
  /\ \E n \in snapshots \cap Named :
       at' = n /\ name' = [name EXCEPT ![n] = SetName(@, FALSE)]
  /\ UNCHANGED <<pack, holds, reaches, retires, snapshots, jnl, removing, reader, swept, faults>>

SyncDelete ==
  /\ pc = "deleted" /\ Idle /\ SyncNames
  /\ UNCHANGED <<pack, holds, reaches, retires, snapshots, jnl, reader, swept, faults>>

-----------------------------------------------------------------------------
(* Collecting: Database::collect_garbage, consolidate::repack              *)

\* How many objects the indexes list, one in two packs counted twice.
Records == Cardinality({r \in Visible \X Object : r[2] \in holds[r[1]]})

\* There is something to drop, and nothing that is to be kept is missing.
Garbage ==
  /\ pc = "idle" /\ jnl = None /\ Bare = {}
  /\ Records > Cardinality(Reachable) /\ Reachable \subseteq Stored
  /\ removing' = Visible

\* Mutant: whatever is stored is kept.
WriteAll ==
  /\ Garbage /\ Reachable # {} /\ Goto("movepack")
  /\ \E n \in Pack \ Name :
       /\ holds[n] = {} /\ \A m \in Pack \ Name : m < n => holds[m] # {}
       /\ holds' = [holds EXCEPT ![n] = Stored]
       /\ pack' = [pack EXCEPT ![n] = Stage(@)]
       /\ at' = n
  /\ UNCHANGED <<name, reaches, retires, snapshots, jnl, reader, swept, faults>>

\* The pack of what is kept is written in the staging directory, which is not
\* synced.
WriteKept ==
  /\ Garbage /\ Reachable # {} /\ Goto("movepack")
  /\ \E n \in Pack \ Name :
       /\ holds[n] = {} /\ \A m \in Pack \ Name : m < n => holds[m] # {}
       /\ holds' = [holds EXCEPT ![n] = Reachable]
       /\ pack' = [pack EXCEPT ![n] = Stage(@)]
       /\ at' = n
  /\ UNCHANGED <<name, reaches, retires, snapshots, jnl, reader, swept, faults>>

\* From here on a reader that looks for something counts this collection.
Sweep == Goto("sweep") /\ swept' = IF want = None THEN 0 ELSE Min({2, swept + 1})

KeepNothing ==
  /\ Garbage /\ Reachable = {} /\ Sweep
  /\ UNCHANGED <<store, at, reader, faults>>

MovePack ==
  /\ pc = "movepack" /\ Goto("moveidx")
  /\ pack' = [pack EXCEPT ![at] = RenamePack(@)]
  /\ UNCHANGED <<name, holds, reaches, retires, snapshots, jnl, at, removing, reader, swept,
                 faults>>

MoveIdx ==
  /\ pc = "moveidx" /\ Goto("syncmoved")
  /\ pack' = [pack EXCEPT ![at] = RenameIdx(@)]
  /\ UNCHANGED <<name, holds, reaches, retires, snapshots, jnl, at, removing, reader, swept,
                 faults>>

SyncMoved ==
  /\ pc = "syncmoved" /\ Sweep /\ SyncPacks
  /\ UNCHANGED <<name, holds, reaches, retires, snapshots, jnl, at, removing, reader, faults>>

\* Mutant: the pack goes before its index.
RemovePackFirst ==
  /\ pc = "sweep" /\ Goto("removepack")
  /\ \E n \in removing :
       at' = n /\ removing' = removing \ {n} /\ pack' = [pack EXCEPT ![n] = UnlinkPack(@)]
  /\ UNCHANGED <<name, holds, reaches, retires, snapshots, jnl, reader, swept, faults>>

\* Each old pack loses its index first.
RemoveIndex ==
  /\ pc = "sweep" /\ Goto("removepack")
  /\ \E n \in removing :
       at' = n /\ removing' = removing \ {n} /\ pack' = [pack EXCEPT ![n] = UnlinkIdx(@)]
  /\ UNCHANGED <<name, holds, reaches, retires, snapshots, jnl, reader, swept, faults>>

RemoveThen ==
  /\ pc = "removepack" /\ Goto("sweep") /\ pack' = [pack EXCEPT ![at] = UnlinkPack(@)]
  /\ UNCHANGED <<name, holds, reaches, retires, snapshots, jnl, at, removing, reader, swept,
                 faults>>

SyncRemoved ==
  /\ pc = "sweep" /\ removing = {} /\ Goto("collected") /\ SyncPacks
  /\ UNCHANGED <<name, holds, reaches, retires, snapshots, jnl, at, removing, reader, swept,
                 faults>>

EndCollect ==
  /\ pc = "collected" /\ Idle
  /\ UNCHANGED <<store, reader, swept, faults>>

-----------------------------------------------------------------------------
(* Reading: Store::refresh, Store::get                                     *)

Answers == {"found", "missing", "failed", "corrupt"}
Answer(a) == rpc' = a /\ UNCHANGED <<listing, seen, toload, fresh, want, knew>>

\* Names in the directory, at one moment: at opening, and again after a miss.
Enumerate ==
  /\ rpc \in {"opening", "missed"}
  /\ seen' = [packs |-> {n \in Pack : pack[n].now.pack}, idxs |-> Visible]
  /\ rpc' = "stat"
  /\ UNCHANGED <<store, writer, listing, toload, fresh, want, knew, swept, faults>>

\* Each of them is inspected; one that went meanwhile is an error.
StatVanished ==
  /\ rpc = "stat"
  /\ \/ \E n \in seen.packs : ~pack[n].now.pack
     \/ \E n \in seen.idxs : ~pack[n].now.idx
  /\ Answer("failed")
  /\ UNCHANGED <<store, writer, swept, faults>>

\* An index without its pack is damage; packs loaded before are kept.
Stat ==
  /\ rpc = "stat"
  /\ \A n \in seen.packs : pack[n].now.pack
  /\ \A n \in seen.idxs : pack[n].now.idx
  /\ IF seen.idxs \subseteq seen.packs
     THEN /\ rpc' = "load"
          /\ toload' = seen.idxs \ listing /\ fresh' = seen.idxs \cap listing
          /\ UNCHANGED <<listing, seen, want, knew>>
     ELSE Answer("corrupt")
  /\ UNCHANGED <<store, writer, swept, faults>>

\* A pack whose index went meanwhile was retired and is passed over; one that went
\* and left its index is an error.
Load(n) ==
  /\ rpc = "load" /\ n \in toload
  /\ IF pack[n].now.idx /\ ~pack[n].now.pack
     THEN Answer("failed")
     ELSE /\ toload' = toload \ {n}
          /\ fresh' = IF pack[n].now.idx THEN fresh \cup {n} ELSE fresh
          /\ UNCHANGED <<rpc, listing, seen, want, knew>>
  /\ UNCHANGED <<store, writer, swept, faults>>

Loaded ==
  /\ rpc = "load" /\ toload = {}
  /\ listing' = fresh /\ fresh' = {} /\ seen' = NoneSeen
  /\ rpc' = IF want = None THEN "idle" ELSE "again"
  /\ UNCHANGED <<store, writer, toload, want, knew, swept, faults>>

\* The loaded packs whose index has object o.
Listed(o) == {n \in listing : o \in holds[n]}

Present(o) == \E n \in Listed(o) : pack[n].now.pack

\* Look for an object that a name in place reaches.
Pick ==
  /\ rpc = "idle" /\ rpc' = "try"
  /\ \E n \in Named : \E o \in reaches[n] : want' = o /\ knew' = Present(o)
  /\ swept' = IF pc \in {"sweep", "removepack"} THEN 1 ELSE 0
  /\ UNCHANGED <<store, writer, listing, seen, toload, fresh, faults>>

\* Mutant: a miss is final without listing the directory again.
TryOnce ==
  /\ rpc = "try"
  /\ Answer(IF Present(want) THEN "found" ELSE "again")
  /\ UNCHANGED <<store, writer, swept, faults>>

\* The first try: packs that vanished are passed over.
Try ==
  /\ rpc = "try"
  /\ Answer(IF Present(want) THEN "found" ELSE "missed")
  /\ UNCHANGED <<store, writer, swept, faults>>

\* The second try is final.  Packs are tried in the order of their names, which
\* is left open here.
TryAgain ==
  /\ rpc = "again"
  /\ \/ Listed(want) = {} /\ Answer("missing")
     \/ \E n \in Listed(want) : Answer(IF pack[n].now.pack THEN "found" ELSE "failed")
  /\ UNCHANGED <<store, writer, swept, faults>>

\* The next question: to the same store, or to one opened anew.
Ask ==
  /\ rpc \in Answers
  /\ \/ want # None /\ rpc' = "idle" /\ UNCHANGED listing
     \/ rpc' = "opening" /\ listing' = {}
  /\ seen' = NoneSeen /\ toload' = {} /\ fresh' = {}
  /\ want' = None /\ knew' = FALSE /\ swept' = 0
  /\ UNCHANGED <<store, writer, faults>>

\* Readers do not outlive the machine.
NobodyReads ==
  /\ rpc' = "opening" /\ listing' = {} /\ seen' = NoneSeen /\ toload' = {} /\ fresh' = {}
  /\ want' = None /\ knew' = FALSE /\ swept' = 0

-----------------------------------------------------------------------------
(* The environment                                                         *)

Strikes(f) == f \in Faults /\ faults < MaxFaults /\ faults' = faults + 1

\* The process that holds the lock dies.  Deleting a snapshot is apart: see Kept.
Kill ==
  /\ pc # "idle" /\ Idle
  /\ Strikes(IF pc = "deleted" THEN "killdelete" ELSE "kill")
  /\ UNCHANGED <<store, reader, swept>>

\* The cells of S as some power loss leaves them.
Left(cell, S) ==
  LET open == {n \in S : cell[n].may # {cell[n].now}} IN
  {[n \in S |-> IF n \in open THEN f[n] ELSE cell[n].now] :
     f \in {g \in [open -> UNION {cell[n].may : n \in open}] :
              \A n \in open : g[n] \in cell[n].may}}

PowerLoss ==
  /\ Strikes("power") /\ Idle /\ NobodyReads
  /\ \E pp \in Left(pack, Pack), nn \in Left(name, Name) :
       /\ pack' = [n \in Pack |-> Durable(pp[n])]
       /\ name' = [n \in Name |-> Durable(nn[n])]
  /\ UNCHANGED <<holds, reaches, retires, snapshots, jnl>>

\* Opening a valid database for writing records a first head; a snapshot of one
\* that is not valid may come before any.
InitFrom(first) ==
  /\ pack = [n \in Pack |-> Durable(IF n \in first THEN Published ELSE NoFiles)]
  /\ name = [n \in Name |-> Durable(n \in first)]
  /\ holds = [n \in Pack |-> {n} \cap first] /\ reaches = [n \in Name |-> {n} \cap first]
  /\ retires = [n \in Name |-> {}]
  /\ snapshots = {} /\ jnl = None
  /\ pc = "idle" /\ at = None /\ removing = {}
  /\ rpc = "opening" /\ listing = {} /\ seen = NoneSeen /\ toload = {} /\ fresh = {}
  /\ want = None /\ knew = FALSE /\ swept = 0 /\ faults = 0

Init == \E first \in SUBSET (Name \cap {1}) : InitFrom(first)

Publish == \/ Recover \/ PlacePack \/ PlaceIdx \/ PlaceName \/ RetireName \/ SyncPublished
           \/ Finish
Collect == \/ WriteKept \/ KeepNothing \/ MovePack \/ MoveIdx \/ SyncMoved
           \/ RemoveIndex \/ RemoveThen \/ SyncRemoved \/ EndCollect
Read == \/ Enumerate \/ StatVanished \/ Stat \/ Loaded \/ Pick \/ Try \/ TryAgain \/ Ask
        \/ \E n \in toload : Load(n)

\* What the lock's holder does.
Write == \/ \E n \in Name : Record(n) \/ Snapshot(n)
         \/ Publish \/ Delete \/ SyncDelete \/ Collect

Next == Write \/ Read \/ Kill \/ PowerLoss

Spec == Init /\ [][Next]_vars

-----------------------------------------------------------------------------
(* Properties                                                              *)

\* History has a head.
Headed == Named \ snapshots # {}

\* Pack n can be read on every disk a power loss may leave, once the journal, if
\* it is the journal's, has placed what is staged.
Survives(n) ==
  \A m \in pack[n].may : /\ m.pack \/ (n = jnl /\ m.staged)
                         /\ m.idx \/ (n = jnl /\ m.stagedidx)

\* Whatever crash comes, a name of history that is there afterwards reaches only
\* objects that are there: no name before its pack, no old pack away before its
\* successor is safe.  (The order of publish, rewrite and apply's artifacts.)
Kept ==
  \A n \in Name : n = jnl \/ TRUE \in name[n].may =>
    \A o \in reaches[n] : \E q \in Pack : o \in holds[q] /\ Survives(q)

\* Whoever is killed, and whatever is under way, no index is there without its
\* pack: a store with one is not read (Corruption::IdxWithoutPack).  (The order of
\* publish and of rewrite's removals.)
IndexHasPack == Bare = {}

\* A collection leaves exactly what the names reach, once each.
CollectsAll ==
  pc = "collected" => Stored = Reachable /\ Records = Cardinality(Reachable)

\* A lock-free reader that is told an object of history is missing looked through
\* two collections, or through one and knew no pack of it that was there.
NoFalseMiss ==
  rpc = "missing" =>
    want \notin Reachable \/ swept = 2 \/ (swept = 1 /\ ~knew)
=============================================================================
