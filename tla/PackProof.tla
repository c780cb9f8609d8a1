------------------------------ MODULE PackProof ------------------------------
(***************************************************************************)
(* Proofs about the object store (MCPacks), whatever its bounds.           *)
(*                                                                         *)
(* Base is what is so in every history: what was never made left no trace, *)
(* a publication has placed what its step says, a collection has written   *)
(* what is reached and removes the rest.  Where the power fails, Surviving *)
(* is so too: whatever can be read now, not only what names reach, has a   *)
(* pack that survives, for the power loss may bring back a name that went. *)
(* Where nobody is killed, Sought says where a reader stands by how many   *)
(* collections passed it: what it looks for is still ahead of it, or is    *)
(* nowhere.                                                                *)
(*                                                                         *)
(* Of a damaged history (Lineages), LineageInv says that a lineage begins  *)
(* where no head is left, with a pack that has all its head names.  That a *)
(* collection keeps what is reached rests on what Along is: the least set  *)
(* with what it begins from that names do not lead out of (AlongLeast,     *)
(* AlongClosed), for they lead to older revisions.                         *)
(***************************************************************************)
EXTENDS MCPacks, FiniteSetTheorems, WellFoundedInduction, TLAPS

Publishing == {"pack", "idx", "name", "retire", "finish"}
Writing == {"movepack", "moveidx", "syncmoved"}
Sweeping == {"sweep", "removepack"}
Steps == {"idle", "deleted", "collected"} \cup Publishing \cup Writing \cup Sweeping

PackType == pack \in [Pack -> Cells(Files)] /\ \A n \in Pack : pack[n].now \in pack[n].may
NameType == name \in [Name -> Cells(BOOLEAN)] /\ \A n \in Name : name[n].now \in name[n].may

TypeOK ==
  /\ PackType /\ NameType
  /\ holds \in [Pack -> SUBSET Object] /\ reaches \in [Name -> SUBSET Object]
  /\ retires \in [Name -> SUBSET Name] /\ snapshots \subseteq Name
  /\ jnl \in Name \cup {None} /\ pc \in Steps
  /\ at \in Pack \cup {None} /\ removing \subseteq Pack
  /\ jnl # None => pc \in Publishing \cup {"idle"}
  /\ pc \in Publishing => jnl # None

\* What is not made yet has left no trace.
Unmade ==
  /\ \A n \in Pack : holds[n] = {} => pack[n] = Durable(NoFiles)
  /\ \A n \in Name : reaches[n] = {} =>
       name[n] = Durable(FALSE) /\ holds[n] = {} /\ n \notin snapshots /\ retires[n] = {}
  /\ jnl # None => reaches[jnl] # {}
  /\ \A n \in snapshots : retires[n] = {}
  /\ \A n \in Name : n \notin retires[n]

Solid(n) == \A m \in pack[n].may : m.pack /\ m.idx

\* What is published is in place, in its order, and made durable.
Placed ==
  /\ jnl # None /\ holds[jnl] # {} =>
       /\ pc \in {"idx", "name", "retire", "finish"} => pack[jnl].now.pack
       /\ pc \in {"name", "retire", "finish"} => pack[jnl].now.idx
       /\ pc = "finish" => Solid(jnl)
  /\ pc \in {"retire", "finish"} => name[jnl].now

NamesDurable == \A n \in Name : name[n].may = {name[n].now}
NamesSettled == (pc = "finish" \/ (jnl = None /\ pc # "deleted")) => NamesDurable

\* A collection under way: the pack it makes holds what is reached, and the
\* packs it removes are the others.
Collecting ==
  /\ pc \in Writing =>
       /\ at \in Pack \ Name /\ holds[at] = Reachable /\ Reachable # {}
       /\ at \notin removing /\ Visible \ {at} = removing
       /\ pc \in {"movepack", "moveidx"} => ~pack[at].now.idx
       /\ pc \in {"moveidx", "syncmoved"} => pack[at].now.pack
       /\ pc = "syncmoved" => pack[at].now.idx
  /\ pc \in Sweeping =>
       \/ Reachable = {} /\ Visible = removing
       \/ \E q \in Pack \ removing : /\ holds[q] = Reachable /\ pack[q].now.pack
                                     /\ Visible = removing \cup {q}
  /\ pc = "removepack" => at \in Pack /\ holds[at] # {} /\ ~pack[at].now.idx
  /\ pc = "collected" =>
       \/ Reachable = {} /\ Visible = {}
       \/ \E q \in Pack : holds[q] = Reachable /\ Visible = {q}

Paired(n) == pack[n].now.pack /\ pack[n].now.idx
Safe(o) == \E q \in Pack : o \in holds[q] /\ Survives(q)

\* Whatever can be read here survives somewhere.
Surviving ==
  /\ \A n \in Pack : n = jnl /\ holds[n] # {} => Survives(n)
  /\ pc \in Sweeping \cup {"collected"} => \A n \in Pack : Paired(n) => Solid(n)
  /\ \A n \in Pack : Paired(n) => \A o \in holds[n] : Safe(o)
  /\ Kept

HeadStays ==
  \E n \in Name \ snapshots : reaches[n] # {} /\ (n = jnl \/ FALSE \notin name[n].may)

-----------------------------------------------------------------------------
(* What the operations do to a cell                                        *)

LEMMA StageFacts ==
  ASSUME NEW c \in Cells(Files), c.now \in c.may
  PROVE  /\ Stage(c) \in Cells(Files) /\ Stage(c).now \in Stage(c).may
         /\ Stage(c).now.pack = c.now.pack /\ Stage(c).now.idx = c.now.idx
<1> DEFINE NewPack(m) == [m EXCEPT !.staged = TRUE]
           NewIdx(m) == [m EXCEPT !.stagedidx = TRUE]
           d == [now |-> NewPack(c.now),
                 may |-> c.may \cup {NewPack(m) : m \in {x \in c.may : x.staged = c.now.staged}}]
<1>1. \A m \in Files : /\ NewPack(m) \in Files /\ NewIdx(m) \in Files
                       /\ NewPack(m).pack = m.pack /\ NewPack(m).idx = m.idx
                       /\ NewIdx(m).pack = m.pack /\ NewIdx(m).idx = m.idx
  BY DEF Files
<1>2. Stage(c) = [now |-> NewIdx(d.now),
                  may |-> d.may \cup {NewIdx(m) : m \in {x \in d.may : x.stagedidx = d.now.stagedidx}}]
  <2> DEFINE S1(m) == m.staged = c.now.staged
             S2(m) == m.stagedidx = c.now.stagedidx
             e == Issue(c, S1, NewPack)
  <2>1. e = d
    BY DEF Issue
  <2>2. Stage(c) = Issue(e, S2, NewIdx)
    BY DEF Stage
  <2>3. d.now.stagedidx = c.now.stagedidx
    BY DEF Cells, Files
  <2> HIDE DEF e, d
  <2> QED BY <2>1, <2>2, <2>3 DEF Issue
<1>3. c.now \in Files /\ c.may \subseteq Files
  BY DEF Cells
<1> HIDE DEF NewPack, NewIdx
<1>4. d.now \in Files /\ d.may \subseteq Files /\ d.now \in d.may
      /\ d.now.pack = c.now.pack /\ d.now.idx = c.now.idx
  BY <1>1, <1>3
<1> HIDE DEF d
<1> QED BY <1>1, <1>2, <1>4 DEF Cells

LEMMA RenamePackFacts ==
  ASSUME NEW c \in Cells(Files), c.now \in c.may
  PROVE  /\ RenamePack(c) \in Cells(Files) /\ RenamePack(c).now \in RenamePack(c).may
         /\ RenamePack(c).now.pack /\ RenamePack(c).now.idx = c.now.idx
         /\ \A m \in RenamePack(c).may : \E l \in c.may :
              /\ l.pack => m.pack
              /\ l.staged => m.pack \/ m.staged
              /\ m.idx = l.idx /\ m.stagedidx = l.stagedidx
<1> DEFINE New(m) == [m EXCEPT !.pack = TRUE, !.staged = FALSE]
           Old == {x \in c.may : x.pack = c.now.pack /\ x.staged = c.now.staged}
<1>1. RenamePack(c) = [now |-> New(c.now), may |-> c.may \cup {New(m) : m \in Old}]
  BY DEF RenamePack, Issue
<1>2. \A m \in Files : /\ New(m) \in Files /\ New(m).pack /\ ~New(m).staged
                       /\ New(m).idx = m.idx /\ New(m).stagedidx = m.stagedidx
  BY DEF Files
<1>3. c.now \in Files /\ c.may \subseteq Files
  BY DEF Cells
<1> HIDE DEF New
<1>4. /\ RenamePack(c).now = New(c.now)
      /\ RenamePack(c).may = c.may \cup {New(m) : m \in Old}
  BY <1>1
<1>5. RenamePack(c) \in Cells(Files) /\ RenamePack(c).now \in RenamePack(c).may
  BY <1>1, <1>2, <1>3 DEF Cells
<1>6. ASSUME NEW m \in RenamePack(c).may
      PROVE  \E l \in c.may : /\ l.pack => m.pack
                              /\ l.staged => m.pack \/ m.staged
                              /\ m.idx = l.idx /\ m.stagedidx = l.stagedidx
  BY <1>4, <1>2, <1>3
<1> QED BY <1>2, <1>3, <1>4, <1>5, <1>6

LEMMA RenameIdxFacts ==
  ASSUME NEW c \in Cells(Files), c.now \in c.may
  PROVE  /\ RenameIdx(c) \in Cells(Files) /\ RenameIdx(c).now \in RenameIdx(c).may
         /\ RenameIdx(c).now.idx /\ RenameIdx(c).now.pack = c.now.pack
         /\ \A m \in RenameIdx(c).may : \E l \in c.may :
              /\ l.idx => m.idx
              /\ l.stagedidx => m.idx \/ m.stagedidx
              /\ m.pack = l.pack /\ m.staged = l.staged
<1> DEFINE New(m) == [m EXCEPT !.idx = TRUE, !.stagedidx = FALSE]
           Old == {x \in c.may : x.idx = c.now.idx /\ x.stagedidx = c.now.stagedidx}
<1>1. RenameIdx(c) = [now |-> New(c.now), may |-> c.may \cup {New(m) : m \in Old}]
  BY DEF RenameIdx, Issue
<1>2. \A m \in Files : /\ New(m) \in Files /\ New(m).idx /\ ~New(m).stagedidx
                       /\ New(m).pack = m.pack /\ New(m).staged = m.staged
  BY DEF Files
<1>3. c.now \in Files /\ c.may \subseteq Files
  BY DEF Cells
<1> HIDE DEF New
<1>4. /\ RenameIdx(c).now = New(c.now)
      /\ RenameIdx(c).may = c.may \cup {New(m) : m \in Old}
  BY <1>1
<1>5. RenameIdx(c) \in Cells(Files) /\ RenameIdx(c).now \in RenameIdx(c).may
  BY <1>1, <1>2, <1>3 DEF Cells
<1>6. ASSUME NEW m \in RenameIdx(c).may
      PROVE  \E l \in c.may : /\ l.idx => m.idx
                              /\ l.stagedidx => m.idx \/ m.stagedidx
                              /\ m.pack = l.pack /\ m.staged = l.staged
  BY <1>4, <1>2, <1>3
<1> QED BY <1>2, <1>3, <1>4, <1>5, <1>6

LEMMA UnlinkFacts ==
  ASSUME NEW c \in Cells(Files), c.now \in c.may
  PROVE  /\ UnlinkIdx(c) \in Cells(Files) /\ UnlinkIdx(c).now \in UnlinkIdx(c).may
         /\ ~UnlinkIdx(c).now.idx /\ UnlinkIdx(c).now.pack = c.now.pack
         /\ UnlinkPack(c) \in Cells(Files) /\ UnlinkPack(c).now \in UnlinkPack(c).may
         /\ ~UnlinkPack(c).now.pack /\ UnlinkPack(c).now.idx = c.now.idx
<1> DEFINE NoPack(m) == [m EXCEPT !.pack = FALSE]
           NoIdx(m) == [m EXCEPT !.idx = FALSE]
<1>1. UnlinkPack(c) = [now |-> NoPack(c.now),
                       may |-> c.may \cup {NoPack(m) : m \in {x \in c.may : x.pack = c.now.pack}}]
  BY DEF UnlinkPack, Issue
<1>2. UnlinkIdx(c) = [now |-> NoIdx(c.now),
                      may |-> c.may \cup {NoIdx(m) : m \in {x \in c.may : x.idx = c.now.idx}}]
  BY DEF UnlinkIdx, Issue
<1>3. \A m \in Files : /\ NoPack(m) \in Files /\ ~NoPack(m).pack /\ NoPack(m).idx = m.idx
                       /\ NoIdx(m) \in Files /\ ~NoIdx(m).idx /\ NoIdx(m).pack = m.pack
  BY DEF Files
<1>4. c.now \in Files /\ c.may \subseteq Files
  BY DEF Cells
<1> HIDE DEF NoPack, NoIdx
<1>5. /\ UnlinkPack(c) \in Cells(Files) /\ UnlinkPack(c).now \in UnlinkPack(c).may
      /\ UnlinkPack(c).now = NoPack(c.now)
  BY <1>1, <1>3, <1>4 DEF Cells
<1>6. /\ UnlinkIdx(c) \in Cells(Files) /\ UnlinkIdx(c).now \in UnlinkIdx(c).may
      /\ UnlinkIdx(c).now = NoIdx(c.now)
  BY <1>2, <1>3, <1>4 DEF Cells
<1> QED BY <1>3, <1>4, <1>5, <1>6

LEMMA SetNameFacts ==
  ASSUME NEW c \in Cells(BOOLEAN), c.now \in c.may, NEW b \in BOOLEAN
  PROVE  /\ SetName(c, b) \in Cells(BOOLEAN) /\ SetName(c, b).now = b
         /\ SetName(c, b).may = c.may \cup {b}
BY DEF SetName, Issue, Cells

LEMMA LossFacts ==
  ASSUME NEW S, NEW cell, NEW f \in Left(cell, S), NEW n \in S, cell[n].now \in cell[n].may
  PROVE  f[n] \in cell[n].may
BY DEF Left

LEMMA DurableFacts ==
  ASSUME NEW S, NEW v \in S
  PROVE  Durable(v) \in Cells(S) /\ Durable(v).now = v /\ Durable(v).may = {v}
BY DEF Durable, Cells

LEMMA Fixed ==
  /\ Staged \in Files /\ Published \in Files /\ NoFiles \in Files
  /\ ~Staged.pack /\ ~Staged.idx /\ Staged.staged /\ Staged.stagedidx
  /\ Published.pack /\ Published.idx /\ ~NoFiles.pack /\ ~NoFiles.idx
BY DEF Staged, Published, NoFiles, Files

LEMMA Sets == Name \subseteq Pack /\ Name = Object /\ None \notin Pack /\ None \notin Name /\ NNames \in Nat
BY CountAssumption DEF Name, Pack, Object, None

-----------------------------------------------------------------------------
(* Types                                                                   *)

LEMMA OnePack ==
  ASSUME PackType, NEW n \in Pack, NEW c \in Cells(Files), c.now \in c.may,
         pack' = [pack EXCEPT ![n] = c]
  PROVE  PackType'
BY DEF PackType

LEMMA OneName ==
  ASSUME NameType, NEW n \in Name, NEW b \in BOOLEAN,
         name' = [name EXCEPT ![n] = SetName(@, b)]
  PROVE  NameType' /\ name'[n].now = b /\ name'[n].may = name[n].may \cup {b}
         /\ \A m \in Name \ {n} : name'[m] = name[m]
<1>1. name[n] \in Cells(BOOLEAN) /\ name[n].now \in name[n].may
  BY DEF NameType
<1>2. name' = [name EXCEPT ![n] = SetName(name[n], b)]
  OBVIOUS
<1>3. /\ SetName(name[n], b) \in Cells(BOOLEAN) /\ SetName(name[n], b).now = b
      /\ SetName(name[n], b).may = name[n].may \cup {b}
  BY <1>1, SetNameFacts
<1> QED BY <1>2, <1>3 DEF NameType

LEMMA PacksSynced ==
  ASSUME PackType, SyncPacks
  PROVE  /\ PackType'
         /\ \A n \in Pack :
              /\ pack'[n].now = pack[n].now
              /\ pack'[n].may =
                   {m \in pack[n].may : m.pack = pack[n].now.pack /\ m.idx = pack[n].now.idx}
<1>1. \A n \in Pack : pack[n] \in Cells(Files) /\ pack[n].now \in pack[n].may
  BY DEF PackType
<1>2. ASSUME NEW n \in Pack
      PROVE  /\ pack'[n] \in Cells(Files) /\ pack'[n].now = pack[n].now
             /\ pack'[n].may =
                  {m \in pack[n].may : m.pack = pack[n].now.pack /\ m.idx = pack[n].now.idx}
  BY <1>1 DEF SyncPacks, Sync, Cells
<1>3. pack' = [n \in Pack |-> pack'[n]]
  BY DEF SyncPacks
<1>4. \A n \in Pack : pack'[n].now \in pack'[n].may
  BY <1>1, <1>2
<1> QED BY <1>2, <1>3, <1>4 DEF PackType

LEMMA NamesSynced ==
  ASSUME NameType, SyncNames
  PROVE  NameType' /\ \A n \in Name : name'[n].now = name[n].now /\ name'[n].may = {name[n].now}
<1>1. \A n \in Name : name[n] \in Cells(BOOLEAN) /\ name[n].now \in name[n].may
  BY DEF NameType
<1>2. ASSUME NEW n \in Name
      PROVE  /\ name'[n] \in Cells(BOOLEAN) /\ name'[n].now = name[n].now
             /\ name'[n].may = {name[n].now}
  BY <1>1 DEF SyncNames, Sync, Cells
<1>3. name' = [n \in Name |-> name'[n]]
  BY DEF SyncNames
<1> QED BY <1>2, <1>3 DEF NameType

\* A power loss leaves of every cell one of the values it may.
LEMMA Lost ==
  ASSUME TypeOK, PowerLoss
  PROVE  /\ PackType' /\ NameType'
         /\ \A n \in Pack : pack'[n].now \in pack[n].may /\ pack'[n].may = {pack'[n].now}
         /\ \A n \in Name : name'[n].now \in name[n].may /\ name'[n].may = {name'[n].now}
<1>1. PICK pp \in Left(pack, Pack), nn \in Left(name, Name) :
        /\ pack' = [n \in Pack |-> Durable(pp[n])]
        /\ name' = [n \in Name |-> Durable(nn[n])]
  BY DEF PowerLoss
<1>2. \A n \in Pack : pp[n] \in pack[n].may /\ pack[n] \in Cells(Files)
  BY LossFacts DEF TypeOK, PackType
<1>3. \A n \in Name : nn[n] \in name[n].may /\ name[n] \in Cells(BOOLEAN)
  BY LossFacts DEF TypeOK, NameType
<1>4. \A n \in Pack : pp[n] \in Files
  BY <1>2 DEF Cells
<1>5. \A n \in Name : nn[n] \in BOOLEAN
  BY <1>3 DEF Cells
<1>6. \A n \in Pack : /\ pack'[n] \in Cells(Files) /\ pack'[n].now = pp[n]
                      /\ pack'[n].may = {pp[n]}
  BY <1>1, <1>4, DurableFacts
<1>7. \A n \in Name : /\ name'[n] \in Cells(BOOLEAN) /\ name'[n].now = nn[n]
                      /\ name'[n].may = {nn[n]}
  BY <1>1, <1>5, DurableFacts
<1>8. PackType'
  BY <1>1, <1>6 DEF PackType
<1>9. NameType'
  BY <1>1, <1>7 DEF NameType
<1> QED BY <1>2, <1>3, <1>6, <1>7, <1>8, <1>9

\* Of pack n nothing is lost that was not lost before.
Grows(n) ==
  \A m \in pack'[n].may : \E l \in pack[n].may :
    /\ l.pack => m.pack
    /\ l.staged => m.pack \/ m.staged
    /\ l.idx => m.idx
    /\ l.stagedidx => m.idx \/ m.stagedidx

GrowsBut(n) == PackType' /\ \A q \in Pack \ {n} : pack'[q] = pack[q]

LEMMA SameGrows == ASSUME NEW n, pack'[n] = pack[n] PROVE Grows(n)
BY DEF Grows

LEMMA GrownSurvives ==
  ASSUME NEW n, Grows(n), n = jnl => n = jnl'
  PROVE  (Survives(n) => Survives(n)') /\ (Solid(n) => Solid(n)')
<1>1. ASSUME Survives(n) PROVE Survives(n)'
  <2> SUFFICES ASSUME NEW m \in pack'[n].may
               PROVE  (m.pack \/ (n = jnl' /\ m.staged)) /\ (m.idx \/ (n = jnl' /\ m.stagedidx))
    BY DEF Survives
  <2>1. PICK l \in pack[n].may : /\ l.pack => m.pack
                                 /\ l.staged => m.pack \/ m.staged
                                 /\ l.idx => m.idx
                                 /\ l.stagedidx => m.idx \/ m.stagedidx
    BY DEF Grows
  <2>2. (l.pack \/ (n = jnl /\ l.staged)) /\ (l.idx \/ (n = jnl /\ l.stagedidx))
    BY <1>1 DEF Survives
  <2>3. CASE n = jnl
    BY <2>1, <2>2, <2>3
  <2>4. CASE n # jnl
    BY <2>1, <2>2, <2>4
  <2> QED BY <2>3, <2>4
<1>2. ASSUME Solid(n) PROVE Solid(n)'
  BY <1>2 DEF Grows, Solid
<1> QED BY <1>1, <1>2

LEMMA Bringing ==
  ASSUME TypeOK, Unmade, NEW n \in Name, Record(n) \/ Snapshot(n)
  PROVE  /\ GrowsBut(n) /\ UNCHANGED <<name, at, removing>>
         /\ pc = "idle" /\ jnl = None /\ Bare = {} /\ pc' = "pack" /\ jnl' = n /\ reaches[n] = {}
         /\ holds[n] = {} /\ holds' \in [Pack -> SUBSET Object]
         /\ holds'[n] \in {{}, {n}} /\ \A q \in Pack \ {n} : holds'[q] = holds[q]
         /\ pack'[n] = IF holds'[n] = {} THEN pack[n] ELSE Durable(Staged)
         /\ reaches' \in [Name -> SUBSET Object] /\ \A m \in Name \ {n} : reaches'[m] = reaches[m]
         /\ reaches'[n] # {} /\ reaches'[n] \subseteq Stored \cup holds'[n] \cup
                                  UNION {reaches[m] : m \in Named \ snapshots}
<1>1. PICK old, brought :
        /\ Bring(n, old, brought) /\ brought \in {{}, {n}}
        /\ old \subseteq Stored \cup UNION {reaches[m] : m \in Named \ snapshots}
  <2>1. CASE Record(n)
    <3> DEFINE theirs == UNION {reaches[m] : m \in Named \ snapshots}
    <3>1. PICK old \in SUBSET Stored : Bring(n, old \cup theirs, {n})
      BY <2>1 DEF Record
    <3> QED BY <3>1
  <2>2. CASE Snapshot(n)
    <3>1. PICK old \in SUBSET Stored, brought \in SUBSET {n} : Bring(n, old, brought)
      BY <2>2 DEF Snapshot
    <3> QED BY <3>1
  <2> QED BY <2>1, <2>2
<1>2. Stored \subseteq Object
  BY DEF Stored, Visible, TypeOK
<1>3. UNION {reaches[m] : m \in Named \ snapshots} \subseteq Object
  BY DEF Named, TypeOK
<1>4. n \in Pack /\ brought \subseteq Object
  BY <1>1, Sets
<1>5. GrowsBut(n) /\ pack'[n] = IF brought = {} THEN pack[n] ELSE Durable(Staged)
  <2>1. CASE brought = {}
    <3>1. pack' = pack
      BY <1>1, <2>1 DEF Bring
    <3> QED BY <3>1, <2>1 DEF GrowsBut, PackType, TypeOK
  <2>2. CASE brought # {}
    <3>1. pack' = [pack EXCEPT ![n] = Durable(Staged)]
      BY <1>1, <2>2 DEF Bring
    <3>2. Durable(Staged) \in Cells(Files) /\ Durable(Staged).now \in Durable(Staged).may
      BY DurableFacts, Fixed
    <3>3. PackType'
      BY <1>4, <3>1, <3>2, OnePack DEF TypeOK
    <3>4. pack \in [Pack -> Cells(Files)]
      BY DEF TypeOK, PackType
    <3> QED BY <1>4, <2>2, <3>1, <3>3, <3>4 DEF GrowsBut
  <2> QED BY <2>1, <2>2
<1>6. holds[n] = {}
  BY <1>1 DEF Unmade, Bring
<1> QED BY <1>1, <1>2, <1>3, <1>4, <1>5, <1>6 DEF Bring, TypeOK, Goto

LEMMA Cell ==
  ASSUME PackType, NEW n \in Pack
  PROVE  pack[n] \in Cells(Files) /\ pack[n].now \in pack[n].may /\ pack[n].may \subseteq Files
BY DEF PackType, Cells

LEMMA PackRenamed ==
  ASSUME PackType, NEW n \in Pack, pack' = [pack EXCEPT ![n] = RenamePack(@)]
  PROVE  GrowsBut(n) /\ Grows(n) /\ pack'[n].now.pack /\ pack'[n].now.idx = pack[n].now.idx
<1>1. pack' = [pack EXCEPT ![n] = RenamePack(pack[n])]
  OBVIOUS
<1>2. pack[n] \in Cells(Files) /\ pack[n].now \in pack[n].may
  BY Cell
<1>3. /\ RenamePack(pack[n]) \in Cells(Files) /\ RenamePack(pack[n]).now \in RenamePack(pack[n]).may
      /\ RenamePack(pack[n]).now.pack /\ RenamePack(pack[n]).now.idx = pack[n].now.idx
      /\ \A m \in RenamePack(pack[n]).may : \E l \in pack[n].may :
           /\ l.pack => m.pack
           /\ l.staged => m.pack \/ m.staged
           /\ m.idx = l.idx /\ m.stagedidx = l.stagedidx
  BY <1>2, RenamePackFacts
<1>4. PackType'
  BY <1>1, <1>3, OnePack
<1>5. pack'[n] = RenamePack(pack[n]) /\ \A q \in Pack \ {n} : pack'[q] = pack[q]
  BY <1>1 DEF PackType
<1>6. Grows(n)
  BY <1>3, <1>5 DEF Grows
<1> QED BY <1>3, <1>4, <1>5, <1>6 DEF GrowsBut

LEMMA IdxRenamed ==
  ASSUME PackType, NEW n \in Pack, pack' = [pack EXCEPT ![n] = RenameIdx(@)]
  PROVE  GrowsBut(n) /\ Grows(n) /\ pack'[n].now.idx /\ pack'[n].now.pack = pack[n].now.pack
<1>1. pack' = [pack EXCEPT ![n] = RenameIdx(pack[n])]
  OBVIOUS
<1>2. pack[n] \in Cells(Files) /\ pack[n].now \in pack[n].may
  BY Cell
<1>3. /\ RenameIdx(pack[n]) \in Cells(Files) /\ RenameIdx(pack[n]).now \in RenameIdx(pack[n]).may
      /\ RenameIdx(pack[n]).now.idx /\ RenameIdx(pack[n]).now.pack = pack[n].now.pack
      /\ \A m \in RenameIdx(pack[n]).may : \E l \in pack[n].may :
           /\ l.idx => m.idx
           /\ l.stagedidx => m.idx \/ m.stagedidx
           /\ m.pack = l.pack /\ m.staged = l.staged
  BY <1>2, RenameIdxFacts
<1>4. PackType'
  BY <1>1, <1>3, OnePack
<1>5. pack'[n] = RenameIdx(pack[n]) /\ \A q \in Pack \ {n} : pack'[q] = pack[q]
  BY <1>1 DEF PackType
<1>6. Grows(n)
  BY <1>3, <1>5 DEF Grows
<1> QED BY <1>3, <1>4, <1>5, <1>6 DEF GrowsBut

LEMMA PackUnlinked ==
  ASSUME PackType, NEW n \in Pack, pack' = [pack EXCEPT ![n] = UnlinkPack(@)]
  PROVE  GrowsBut(n) /\ ~pack'[n].now.pack /\ pack'[n].now.idx = pack[n].now.idx
<1>1. pack' = [pack EXCEPT ![n] = UnlinkPack(pack[n])]
  OBVIOUS
<1>2. pack[n] \in Cells(Files) /\ pack[n].now \in pack[n].may
  BY Cell
<1>3. /\ UnlinkPack(pack[n]) \in Cells(Files) /\ UnlinkPack(pack[n]).now \in UnlinkPack(pack[n]).may
      /\ ~UnlinkPack(pack[n]).now.pack /\ UnlinkPack(pack[n]).now.idx = pack[n].now.idx
  BY <1>2, UnlinkFacts
<1>4. PackType'
  BY <1>1, <1>3, OnePack
<1> QED BY <1>1, <1>3, <1>4 DEF GrowsBut, PackType

LEMMA IdxUnlinked ==
  ASSUME PackType, NEW n \in Pack, pack' = [pack EXCEPT ![n] = UnlinkIdx(@)]
  PROVE  GrowsBut(n) /\ ~pack'[n].now.idx /\ pack'[n].now.pack = pack[n].now.pack
<1>1. pack' = [pack EXCEPT ![n] = UnlinkIdx(pack[n])]
  OBVIOUS
<1>2. pack[n] \in Cells(Files) /\ pack[n].now \in pack[n].may
  BY Cell
<1>3. /\ UnlinkIdx(pack[n]) \in Cells(Files) /\ UnlinkIdx(pack[n]).now \in UnlinkIdx(pack[n]).may
      /\ ~UnlinkIdx(pack[n]).now.idx /\ UnlinkIdx(pack[n]).now.pack = pack[n].now.pack
  BY <1>2, UnlinkFacts
<1>4. PackType'
  BY <1>1, <1>3, OnePack
<1> QED BY <1>1, <1>3, <1>4 DEF GrowsBut, PackType

\* A collection writes a pack that is not there yet.
LEMMA Collected ==
  ASSUME TypeOK, Unmade, WriteKept
  PROVE  /\ at' \in Pack \ Name /\ holds[at'] = {} /\ GrowsBut(at') /\ holds' \in [Pack -> SUBSET Object]
         /\ holds'[at'] = Reachable /\ Reachable # {} /\ \A q \in Pack \ {at'} : holds'[q] = holds[q]
         /\ pack[at'] = Durable(NoFiles)
         /\ ~pack'[at'].now.pack /\ ~pack'[at'].now.idx
         /\ removing' = Visible /\ pc = "idle" /\ pc' = "movepack" /\ jnl = None /\ Bare = {}
         /\ Reachable \subseteq Stored /\ UNCHANGED <<name, reaches, retires, snapshots, jnl>>
<1>1. PICK n \in Pack \ Name : /\ holds[n] = {} /\ holds' = [holds EXCEPT ![n] = Reachable]
                               /\ pack' = [pack EXCEPT ![n] = Stage(@)] /\ at' = n
  BY DEF WriteKept
<1>2. pack' = [pack EXCEPT ![n] = Stage(pack[n])]
  BY <1>1
<1>3. /\ pack[n] = Durable(NoFiles) /\ Durable(NoFiles) \in Cells(Files)
      /\ Durable(NoFiles).now \in Durable(NoFiles).may /\ Durable(NoFiles).now = NoFiles
  BY <1>1, DurableFacts, Fixed DEF Unmade
<1>4. /\ Stage(pack[n]) \in Cells(Files) /\ Stage(pack[n]).now \in Stage(pack[n]).may
      /\ Stage(pack[n]).now.pack = pack[n].now.pack /\ Stage(pack[n]).now.idx = pack[n].now.idx
  BY <1>3, StageFacts
<1>5. PackType'
  BY <1>2, <1>4, OnePack DEF TypeOK
<1>6. Reachable \subseteq Object
  BY DEF Reachable, Named, TypeOK
<1>7. GrowsBut(n) /\ pack'[n] = Stage(pack[n])
  BY <1>2, <1>5 DEF GrowsBut, TypeOK, PackType
<1>8. ~pack'[n].now.pack /\ ~pack'[n].now.idx
  BY <1>3, <1>4, <1>7, Fixed
<1> QED BY <1>1, <1>3, <1>6, <1>7, <1>8 DEF WriteKept, Garbage, Goto, TypeOK

LEMMA SyncedGrows ==
  ASSUME PackType, SyncPacks, NEW n \in Pack
  PROVE  Grows(n) /\ pack'[n].now = pack[n].now
<1>1. pack'[n].now = pack[n].now /\ pack'[n].may \subseteq pack[n].may
  BY PacksSynced
<1> QED BY <1>1 DEF Grows

LEMMA LostGrows ==
  ASSUME TypeOK, PowerLoss, NEW n \in Pack
  PROVE  Grows(n)
BY Lost DEF Grows

Base == TypeOK /\ Unmade /\ Placed /\ Collecting

\* A reader's step, or none, leaves the store and the lock's holder as they are.
Rests == UNCHANGED <<store, writer>>

LEMMA ReadRests == ASSUME Read PROVE Rests
BY DEF Read, Enumerate, StatVanished, Stat, Loaded, Pick, Try, TryAgain, Ask, Load, Rests

LEMMA TypesKept ==
  ASSUME Base, Next \/ Rests
  PROVE  TypeOK'
<1> USE DEF Base, Goto, Idle, Steps, Publishing, Writing, Sweeping
<1>1. ASSUME NEW n \in Name, Record(n) \/ Snapshot(n) PROVE TypeOK'
  <2>1. /\ PackType' /\ UNCHANGED <<name, at, removing>> /\ pc' = "pack" /\ jnl' = n
        /\ holds' \in [Pack -> SUBSET Object] /\ reaches' \in [Name -> SUBSET Object]
    BY <1>1, Bringing DEF GrowsBut
  <2>2. retires' \in [Name -> SUBSET Name] /\ snapshots' \subseteq Name
    <3>1. CASE Record(n)
      BY <3>1 DEF Record, TypeOK, Named
    <3>2. CASE Snapshot(n)
      BY <3>2 DEF Snapshot, TypeOK
    <3> QED BY <1>1, <3>1, <3>2
  <2> QED BY <2>1, <2>2, Sets DEF TypeOK, NameType
<1>2. CASE Recover
  BY <1>2, PacksSynced, NamesSynced DEF Recover, TypeOK
<1>3. CASE PlacePack
  <2>1. PackType'
    <3>1. jnl \in Pack
      BY <1>3, Sets DEF PlacePack, TypeOK
    <3>2. CASE pack' = pack
      BY <3>2 DEF TypeOK, PackType
    <3>3. CASE pack' = [pack EXCEPT ![jnl] = RenamePack(@)]
      BY <3>1, <3>3, PackRenamed DEF TypeOK, GrowsBut
    <3> QED BY <1>3, <3>2, <3>3 DEF PlacePack
  <2> QED BY <1>3, <2>1 DEF PlacePack, TypeOK, NameType
<1>4. CASE PlaceIdx
  <2>1. PackType'
    <3>1. jnl \in Pack
      BY <1>4, Sets DEF PlaceIdx, TypeOK
    <3>2. CASE pack' = pack
      BY <3>2 DEF TypeOK, PackType
    <3>3. CASE pack' = [pack EXCEPT ![jnl] = RenameIdx(@)]
      BY <3>1, <3>3, IdxRenamed DEF TypeOK, GrowsBut
    <3> QED BY <1>4, <3>2, <3>3 DEF PlaceIdx
  <2> QED BY <1>4, <2>1 DEF PlaceIdx, TypeOK, NameType
<1>5. CASE PlaceName
  <2>1. NameType'
    <3>1. CASE name' = name
      BY <3>1 DEF TypeOK, NameType
    <3>2. CASE name' = [name EXCEPT ![jnl] = SetName(@, TRUE)]
      <4>1. jnl \in Name
        BY <1>5 DEF PlaceName, TypeOK
      <4> QED BY <3>2, <4>1, OneName DEF TypeOK
    <3> QED BY <1>5, <3>1, <3>2 DEF PlaceName
  <2> QED BY <1>5, <2>1 DEF PlaceName, TypeOK, PackType
<1>6. CASE RetireName
  <2>1. PICK h \in Name : name' = [name EXCEPT ![h] = SetName(@, FALSE)]
    BY <1>6 DEF RetireName, Named
  <2>2. NameType'
    BY <2>1, OneName DEF TypeOK
  <2> QED BY <1>6, <2>2 DEF RetireName, TypeOK, PackType, writer
<1>7. CASE SyncPublished
  BY <1>7, PacksSynced, NamesSynced DEF SyncPublished, TypeOK
<1>8. CASE Finish
  BY <1>8 DEF Finish, TypeOK, PackType, NameType
<1>9. CASE Delete
  <2>1. PICK h \in Name : at' = h /\ name' = [name EXCEPT ![h] = SetName(@, FALSE)]
    BY <1>9 DEF Delete, Named
  <2>2. NameType' /\ at' \in Pack
    BY <2>1, OneName, Sets DEF TypeOK
  <2> QED BY <1>9, <2>2 DEF Delete, TypeOK, PackType
<1>10. CASE SyncDelete
  BY <1>10, NamesSynced DEF SyncDelete, TypeOK, PackType
<1>11. CASE WriteKept
  <2>1. /\ at' \in Pack /\ PackType' /\ holds' \in [Pack -> SUBSET Object] /\ removing' = Visible
        /\ pc' = "movepack" /\ jnl = None /\ UNCHANGED <<name, reaches, retires, snapshots, jnl>>
    BY <1>11, Collected DEF GrowsBut
  <2>2. Visible \subseteq Pack
    BY DEF Visible
  <2> QED BY <2>1, <2>2 DEF TypeOK, NameType
<1>12. CASE KeepNothing
  BY <1>12 DEF KeepNothing, Garbage, Sweep, store, TypeOK, PackType, NameType, Visible
<1>13. CASE MovePack
  <2>1. at \in Pack
    BY <1>13 DEF MovePack, Collecting
  <2> QED BY <1>13, <2>1, PackRenamed DEF MovePack, TypeOK, GrowsBut, NameType
<1>14. CASE MoveIdx
  <2>1. at \in Pack
    BY <1>14 DEF MoveIdx, Collecting
  <2> QED BY <1>14, <2>1, IdxRenamed DEF MoveIdx, TypeOK, GrowsBut, NameType
<1>15. CASE SyncMoved
  BY <1>15, PacksSynced DEF SyncMoved, Sweep, TypeOK, NameType
<1>16. CASE RemoveIndex
  <2>1. PICK n \in removing : at' = n /\ removing' = removing \ {n} /\ pack' = [pack EXCEPT ![n] = UnlinkIdx(@)]
    BY <1>16 DEF RemoveIndex
  <2>2. n \in Pack /\ PackType'
    BY <2>1, IdxUnlinked DEF TypeOK, GrowsBut
  <2> QED BY <1>16, <2>1, <2>2 DEF RemoveIndex, TypeOK, NameType
<1>17. CASE RemoveThen
  <2>1. at \in Pack
    BY <1>17 DEF RemoveThen, Collecting
  <2> QED BY <1>17, <2>1, PackUnlinked DEF RemoveThen, TypeOK, GrowsBut, NameType
<1>18. CASE SyncRemoved
  BY <1>18, PacksSynced DEF SyncRemoved, TypeOK, NameType
<1>19. CASE EndCollect
  BY <1>19 DEF EndCollect, TypeOK, store, PackType, NameType
<1>20. CASE Kill
  BY <1>20 DEF Kill, TypeOK, store, PackType, NameType
<1>21. CASE PowerLoss
  BY <1>21, Lost DEF PowerLoss, TypeOK
<1>22. CASE Rests
  BY <1>22 DEF Rests, TypeOK, store, writer, PackType, NameType
<1> QED BY <1>1, <1>2, <1>3, <1>4, <1>5, <1>6, <1>7, <1>8, <1>9, <1>10, <1>11, <1>12, <1>13,
           <1>14, <1>15, <1>16, <1>17, <1>18, <1>19, <1>20, <1>21, <1>22, ReadRests
        DEF Next, Write, Publish, Collect

LEMMA CellIs ==
  ASSUME NEW S, NEW c \in Cells(S), NEW v, c.now = v, c.may = {v}
  PROVE  c = Durable(v)
BY DEF Cells, Durable

\* What is removed is there.
LEMMA RemovedHolds ==
  ASSUME Base, pc = "sweep", NEW n \in removing
  PROVE  n \in Pack /\ pack[n].now.idx /\ holds[n] # {}
<1>1. n \in Visible
  BY DEF Base, Collecting, Sweeping
<1>2. n \in Pack /\ pack[n].now.idx
  BY <1>1 DEF Visible
<1>3. holds[n] # {}
  BY <1>2, Fixed DEF Base, Unmade, Durable
<1> QED BY <1>2, <1>3

\* The names of history under which something is reached, and the packs with
\* something in them, are all that changes.
LEMMA UnmadeKept ==
  ASSUME Base, Next \/ Rests
  PROVE  Unmade'
<1> USE DEF Base
<1>0. TypeOK'
  BY TypesKept
<1>1. ASSUME NEW n \in Name, Record(n) \/ Snapshot(n) PROVE Unmade'
  <2>1. /\ GrowsBut(n) /\ UNCHANGED name /\ jnl' = n /\ reaches[n] = {} /\ holds[n] = {}
        /\ \A q \in Pack \ {n} : holds'[q] = holds[q]
        /\ pack'[n] = IF holds'[n] = {} THEN pack[n] ELSE Durable(Staged)
        /\ \A m \in Name \ {n} : reaches'[m] = reaches[m]
        /\ reaches'[n] # {}
    BY <1>1, Bringing
  <2>2. \A q \in Pack : holds'[q] = {} => pack'[q] = Durable(NoFiles)
    BY <2>1 DEF GrowsBut, Unmade
  <2>3. name[n] = Durable(FALSE) /\ n \notin snapshots /\ retires[n] = {}
    BY <2>1 DEF Unmade
  <2>4. CASE Record(n)
    <3>1. retires' = [retires EXCEPT ![n] = Named \ snapshots] /\ snapshots' = snapshots
      BY <2>4 DEF Record
    <3>2. n \notin Named
      BY <2>3 DEF Named, Durable
    <3> QED BY <2>1, <2>2, <2>3, <3>1, <3>2, Sets DEF Unmade, TypeOK
  <2>5. CASE Snapshot(n)
    <3>1. retires' = retires /\ snapshots' = snapshots \cup {n}
      BY <2>5 DEF Snapshot
    <3> QED BY <2>1, <2>2, <2>3, <3>1, Sets DEF Unmade, TypeOK
  <2> QED BY <1>1, <2>4, <2>5
<1>2. ASSUME SyncPacks, UNCHANGED holds, NEW n \in Pack, holds'[n] = {} PROVE pack'[n] = Durable(NoFiles)
  <2>1. pack[n].now = NoFiles /\ pack[n].may = {NoFiles}
    BY <1>2 DEF Unmade, Durable
  <2>2. pack'[n] \in Cells(Files) /\ pack'[n].now = NoFiles /\ pack'[n].may = {NoFiles}
    BY <1>2, <2>1, PacksSynced DEF TypeOK, PackType
  <2> QED BY <2>2, CellIs
<1>3. ASSUME SyncNames, UNCHANGED reaches, NEW n \in Name, reaches'[n] = {} PROVE name'[n] = Durable(FALSE)
  <2>1. name[n].now = FALSE
    BY <1>3 DEF Unmade, Durable
  <2>2. name'[n] \in Cells(BOOLEAN) /\ name'[n].now = FALSE /\ name'[n].may = {FALSE}
    BY <1>3, <2>1, NamesSynced DEF TypeOK, NameType
  <2> QED BY <2>2, CellIs
<1>4. CASE Recover
  BY <1>2, <1>3, <1>4 DEF Recover, Unmade
<1>5. CASE PlacePack \/ PlaceIdx
  <2>1. jnl \in Pack /\ UNCHANGED <<name, holds, reaches, retires, snapshots, jnl>>
    BY <1>5, Sets DEF PlacePack, PlaceIdx, TypeOK, Publishing
  <2>2. ASSUME NEW n \in Pack, holds[n] = {} PROVE pack'[n] = pack[n]
    BY <1>5, <2>1, <2>2 DEF PlacePack, PlaceIdx, TypeOK, PackType
  <2> QED BY <2>1, <2>2 DEF Unmade
<1>6. ASSUME NEW h \in Name, reaches[h] # {}, NEW b \in BOOLEAN, name' = [name EXCEPT ![h] = SetName(@, b)],
             UNCHANGED <<pack, holds, reaches, retires, snapshots, jnl>>
      PROVE  Unmade'
  <2>1. \A m \in Name \ {h} : name'[m] = name[m]
    BY <1>6, OneName DEF TypeOK
  <2>2. \A m \in Name : reaches[m] = {} => name'[m] = Durable(FALSE)
    BY <1>6, <2>1 DEF Unmade
  <2> QED BY <1>6, <2>2 DEF Unmade
<1>7. CASE UNCHANGED store
  BY <1>7 DEF store, Unmade
<1>8. CASE PlaceName
  <2>1. jnl \in Name /\ reaches[jnl] # {} /\ UNCHANGED <<pack, holds, reaches, retires, snapshots, jnl>>
    BY <1>8 DEF PlaceName, TypeOK, Unmade, Publishing
  <2>2. CASE name' = name
    BY <2>1, <2>2 DEF Unmade
  <2> QED BY <1>8, <2>1, <2>2, <1>6 DEF PlaceName
<1>9. ASSUME NEW h \in Named PROVE h \in Name /\ reaches[h] # {}
  BY DEF Named, Unmade, Durable
<1>10. CASE RetireName
  BY <1>6, <1>9, <1>10 DEF RetireName
<1>11. CASE SyncPublished
  BY <1>2, <1>3, <1>11 DEF SyncPublished, Unmade
<1>12. CASE Finish
  BY <1>12 DEF Finish, Unmade
<1>13. CASE Delete
  BY <1>6, <1>9, <1>13 DEF Delete
<1>14. CASE SyncDelete
  BY <1>3, <1>14 DEF SyncDelete, Unmade
<1>15. CASE WriteKept
  <2>1. /\ at' \in Pack \ Name /\ GrowsBut(at')
        /\ holds'[at'] # {} /\ \A q \in Pack \ {at'} : holds'[q] = holds[q]
        /\ UNCHANGED <<name, reaches, retires, snapshots, jnl>>
    BY <1>15, Collected
  <2> QED BY <2>1, Sets DEF Unmade, GrowsBut
<1>16. ASSUME NEW n \in Pack, holds[n] # {}, GrowsBut(n), UNCHANGED <<name, holds, reaches, retires, snapshots, jnl>>
       PROVE  Unmade'
  BY <1>16 DEF Unmade, GrowsBut
<1>17. CASE MovePack \/ MoveIdx
  <2>1. at \in Pack /\ holds[at] # {}
    BY <1>17 DEF MovePack, MoveIdx, Collecting, Writing
  <2> QED BY <1>16, <1>17, <2>1, PackRenamed, IdxRenamed DEF MovePack, MoveIdx, TypeOK
<1>18. CASE SyncMoved
  BY <1>2, <1>18 DEF SyncMoved, Unmade
<1>19. CASE RemoveIndex
  <2>1. PICK n \in removing : pack' = [pack EXCEPT ![n] = UnlinkIdx(@)]
    BY <1>19 DEF RemoveIndex
  <2>2. n \in Pack /\ holds[n] # {}
    BY <1>19, RemovedHolds DEF RemoveIndex
  <2> QED BY <1>16, <1>19, <2>1, <2>2, IdxUnlinked DEF RemoveIndex, TypeOK
<1>20. CASE RemoveThen
  <2>1. at \in Pack /\ holds[at] # {}
    BY <1>20 DEF RemoveThen, Collecting
  <2> QED BY <1>16, <1>20, <2>1, PackUnlinked DEF RemoveThen, TypeOK
<1>21. CASE SyncRemoved
  BY <1>2, <1>21 DEF SyncRemoved, Unmade
<1>22. CASE PowerLoss
  <2>1. ASSUME NEW n \in Pack, holds[n] = {} PROVE pack'[n] = Durable(NoFiles)
    <3>1. pack[n].may = {NoFiles}
      BY <2>1 DEF Unmade, Durable
    <3>2. pack'[n] \in Cells(Files) /\ pack'[n].now = NoFiles /\ pack'[n].may = {NoFiles}
      BY <1>22, <3>1, Lost DEF PackType
    <3> QED BY <3>2, CellIs
  <2>2. ASSUME NEW n \in Name, reaches[n] = {} PROVE name'[n] = Durable(FALSE)
    <3>1. name[n].may = {FALSE}
      <4>1. name[n] = Durable(FALSE)
        BY <2>2 DEF Unmade
      <4> QED BY <4>1, DurableFacts
    <3>2. name'[n] \in Cells(BOOLEAN) /\ name'[n].now = FALSE /\ name'[n].may = {FALSE}
      BY <1>22, <3>1, Lost DEF NameType
    <3> QED BY <3>2, CellIs
  <2> QED BY <1>22, <2>1, <2>2 DEF PowerLoss, Unmade
<1>23. CASE KeepNothing \/ EndCollect \/ Kill \/ Rests
  BY <1>7, <1>23 DEF KeepNothing, EndCollect, Kill, Rests
<1> QED BY <1>1, <1>4, <1>5, <1>8, <1>10, <1>11, <1>12, <1>13, <1>14, <1>15, <1>17, <1>18, <1>19,
           <1>20, <1>21, <1>22, <1>23, ReadRests
        DEF Next, Write, Publish, Collect

\* Publishing and collecting exclude each other.
LEMMA Excluded ==
  ASSUME Base
  PROVE  /\ pc \in Publishing => jnl \in Name /\ jnl \in Pack /\ reaches[jnl] # {}
         /\ pc \notin Publishing \cup {"idle"} => jnl = None
BY Sets DEF Base, TypeOK, Unmade

LEMMA PlacedKept ==
  ASSUME Base, Next \/ Rests
  PROVE  Placed'
<1> USE DEF Goto, Idle
<1>1. CASE pc' \notin {"idx", "name", "retire", "finish"}
  BY <1>1 DEF Placed
<1>2. CASE PlacePack
  <2>1. jnl \in Pack /\ pc' = "idx" /\ UNCHANGED <<holds, jnl>>
    BY <1>2, Excluded DEF PlacePack, Publishing
  <2>2. ASSUME holds[jnl] # {} PROVE pack'[jnl].now.pack
    BY <1>2, <2>1, <2>2, PackRenamed DEF PlacePack, Base, TypeOK
  <2> QED BY <2>1, <2>2 DEF Placed
<1>3. CASE PlaceIdx
  <2>1. jnl \in Pack /\ pc = "idx" /\ pc' = "name" /\ UNCHANGED <<holds, jnl>> /\ jnl # None
    BY <1>3, Excluded, Sets DEF PlaceIdx, Publishing
  <2>2. ASSUME holds[jnl] # {} PROVE pack'[jnl].now.pack /\ pack'[jnl].now.idx
    <3>1. pack[jnl].now.pack
      BY <2>1, <2>2 DEF Base, Placed
    <3>2. CASE pack[jnl].now.idx
      BY <1>3, <3>1, <3>2 DEF PlaceIdx
    <3>3. CASE ~pack[jnl].now.idx
      BY <1>3, <2>1, <2>2, <3>1, <3>3, IdxRenamed DEF PlaceIdx, Base, TypeOK
    <3> QED BY <3>2, <3>3
  <2> QED BY <2>1, <2>2 DEF Placed
<1>4. CASE PlaceName
  <2>1. jnl \in Name /\ pc = "name" /\ pc' = "retire" /\ UNCHANGED <<pack, holds, jnl>>
    BY <1>4, Excluded DEF PlaceName, Publishing
  <2>2. name'[jnl].now
    BY <1>4, <2>1, OneName DEF PlaceName, Base, TypeOK
  <2> QED BY <2>1, <2>2 DEF Placed, Base
<1>5. CASE RetireName
  <2>1. /\ jnl \in Name /\ pc = "retire" /\ pc' = "retire" /\ UNCHANGED <<pack, holds, jnl>>
        /\ name[jnl].now
    BY <1>5, Excluded DEF RetireName, Publishing, writer, Base, Placed
  <2>2. PICK h \in retires[jnl] \cap Named : name' = [name EXCEPT ![h] = SetName(@, FALSE)]
    BY <1>5 DEF RetireName
  <2>3. h \in Name /\ h # jnl
    BY <2>1, <2>2 DEF Named, Base, Unmade
  <2>4. name'[jnl] = name[jnl]
    BY <2>1, <2>2, <2>3, OneName DEF Base, TypeOK
  <2> QED BY <2>1, <2>4 DEF Placed, Base
<1>6. CASE SyncPublished
  <2>1. /\ jnl \in Name /\ jnl \in Pack /\ pc = "retire" /\ pc' = "finish" /\ UNCHANGED <<holds, jnl>>
        /\ name[jnl].now /\ SyncPacks /\ SyncNames /\ jnl # None
    BY <1>6, Excluded, Sets DEF SyncPublished, Publishing, Base, Placed
  <2>2. name'[jnl].now
    BY <2>1, NamesSynced DEF Base, TypeOK
  <2>3. ASSUME holds[jnl] # {}
        PROVE  pack'[jnl].now.pack /\ pack'[jnl].now.idx /\ Solid(jnl)'
    <3>1. pack[jnl].now.pack /\ pack[jnl].now.idx
      BY <2>1, <2>3 DEF Base, Placed
    <3>2. /\ pack'[jnl].now = pack[jnl].now
          /\ pack'[jnl].may = {m \in pack[jnl].may : m.pack = pack[jnl].now.pack /\ m.idx = pack[jnl].now.idx}
      BY <2>1, PacksSynced DEF Base, TypeOK
    <3> QED BY <2>1, <3>1, <3>2 DEF Solid
  <2> QED BY <2>1, <2>2, <2>3 DEF Placed
<1>7. CASE Rests
  BY <1>7 DEF Rests, store, writer, Base, Placed, Solid
<1>8. ASSUME NEW n \in Name, Record(n) \/ Snapshot(n) PROVE pc' = "pack"
  BY <1>8, Bringing DEF Base
<1>9. CASE Recover \/ Finish \/ Delete \/ SyncDelete \/ Collect \/ Kill \/ PowerLoss
  BY <1>1, <1>9
  DEF Recover, Finish, Delete, SyncDelete, Collect, WriteKept, KeepNothing, Sweep, MovePack, MoveIdx,
      SyncMoved, RemoveIndex, RemoveThen, SyncRemoved, EndCollect, Kill, PowerLoss
<1> QED BY <1>1, <1>2, <1>3, <1>4, <1>5, <1>6, <1>7, <1>8, <1>9, ReadRests DEF Next, Write, Publish

\* Only two packs' visibility is at stake in a step.
LEMMA VisibleBut ==
  ASSUME NEW n \in Pack, GrowsBut(n)
  PROVE  Visible' \ {n} = Visible \ {n} /\ (n \in Visible' <=> pack'[n].now.idx)
BY DEF Visible, GrowsBut

LEMMA VisibleSynced ==
  ASSUME PackType, SyncPacks
  PROVE  Visible' = Visible /\ \A n \in Pack : pack'[n].now = pack[n].now
BY PacksSynced DEF Visible

LEMMA ReachableSame ==
  ASSUME UNCHANGED <<name, reaches>>
  PROVE  Reachable' = Reachable
BY DEF Reachable, Named

LEMMA CollectingKept ==
  ASSUME Base, Next \/ Rests
  PROVE  Collecting'
<1> USE DEF Goto, Idle
<1>1. CASE pc' \notin Writing \cup Sweeping \cup {"collected"}
  BY <1>1 DEF Collecting, Sweeping, Writing
<1>2. PackType
  BY DEF Base, TypeOK
<1>3. CASE WriteKept
  <2>1. /\ at' \in Pack \ Name /\ holds'[at'] = Reachable /\ Reachable # {} /\ GrowsBut(at')
        /\ pack[at'] = Durable(NoFiles) /\ ~pack'[at'].now.idx /\ removing' = Visible
        /\ pc' = "movepack" /\ Reachable' = Reachable
    BY <1>3, Collected, ReachableSame DEF Base
  <2>2. at' \notin Visible
    BY <2>1, Fixed DEF Visible, Durable
  <2>3. Visible' \ {at'} = removing'
    BY <2>1, <2>2, VisibleBut
  <2> QED BY <2>1, <2>2, <2>3 DEF Collecting, Writing, Sweeping
<1>4. CASE KeepNothing
  <2>1. /\ Reachable' = {} /\ Visible' = Visible /\ removing' = Visible /\ pc' = "sweep"
    BY <1>4, ReachableSame DEF KeepNothing, Garbage, Sweep, store, Visible
  <2> QED BY <2>1 DEF Collecting, Writing, Sweeping
<1>5. CASE MovePack
  <2>1. /\ at \in Pack \ Name /\ holds[at] = Reachable /\ Reachable # {} /\ at \notin removing
        /\ Visible \ {at} = removing /\ ~pack[at].now.idx
    BY <1>5 DEF MovePack, Base, Collecting, Writing
  <2>2. GrowsBut(at) /\ pack'[at].now.pack /\ ~pack'[at].now.idx /\ Reachable' = Reachable
    BY <1>2, <1>5, <2>1, PackRenamed, ReachableSame DEF MovePack
  <2>3. Visible' \ {at} = removing
    BY <2>1, <2>2, VisibleBut
  <2> QED BY <1>5, <2>1, <2>2, <2>3 DEF MovePack, Collecting, Writing, Sweeping
<1>6. CASE MoveIdx
  <2>1. /\ at \in Pack \ Name /\ holds[at] = Reachable /\ Reachable # {} /\ at \notin removing
        /\ Visible \ {at} = removing /\ pack[at].now.pack
    BY <1>6 DEF MoveIdx, Base, Collecting, Writing
  <2>2. GrowsBut(at) /\ pack'[at].now.pack /\ pack'[at].now.idx /\ Reachable' = Reachable
    BY <1>2, <1>6, <2>1, IdxRenamed, ReachableSame DEF MoveIdx
  <2>3. Visible' \ {at} = removing
    BY <2>1, <2>2, VisibleBut
  <2> QED BY <1>6, <2>1, <2>2, <2>3 DEF MoveIdx, Collecting, Writing, Sweeping
<1>7. CASE SyncMoved
  <2>1. /\ at \in Pack \ removing /\ holds[at] = Reachable
        /\ Visible \ {at} = removing /\ pack[at].now.pack /\ pack[at].now.idx
    BY <1>7 DEF SyncMoved, Base, Collecting, Writing
  <2>2. /\ Visible' = Visible /\ pack'[at].now.pack /\ Reachable' = Reachable
        /\ pc' = "sweep" /\ UNCHANGED <<holds, removing>>
    BY <1>2, <1>7, <2>1, VisibleSynced, ReachableSame DEF SyncMoved, Sweep
  <2>3. Visible = removing \cup {at}
    BY <2>1 DEF Visible
  <2>4. \E q \in Pack \ removing' : /\ holds'[q] = Reachable' /\ pack'[q].now.pack
                                    /\ Visible' = removing' \cup {q}
    BY <2>1, <2>2, <2>3
  <2> QED BY <2>2, <2>4 DEF Collecting, Writing, Sweeping
<1>8. CASE RemoveIndex
  <2>1. PICK n \in removing : /\ at' = n /\ removing' = removing \ {n}
                              /\ pack' = [pack EXCEPT ![n] = UnlinkIdx(@)]
    BY <1>8 DEF RemoveIndex
  <2>2. n \in Pack /\ pack[n].now.idx /\ holds[n] # {}
    BY <1>8, RemovedHolds DEF RemoveIndex
  <2>3. /\ GrowsBut(n) /\ ~pack'[n].now.idx /\ Reachable' = Reachable /\ pc' = "removepack"
        /\ holds' = holds
    BY <1>2, <1>8, <2>1, <2>2, IdxUnlinked, ReachableSame DEF RemoveIndex
  <2>4. Visible' = Visible \ {n}
    BY <2>2, <2>3, VisibleBut
  <2>5. \/ Reachable = {} /\ Visible = removing
        \/ \E q \in Pack \ removing : /\ holds[q] = Reachable /\ pack[q].now.pack
                                      /\ Visible = removing \cup {q}
    BY <1>8 DEF RemoveIndex, Base, Collecting, Sweeping
  <2>6. \/ Reachable' = {} /\ Visible' = removing'
        \/ \E q \in Pack \ removing' : /\ holds'[q] = Reachable' /\ pack'[q].now.pack
                                       /\ Visible' = removing' \cup {q}
    <3>1. CASE Reachable = {} /\ Visible = removing
      BY <2>1, <2>3, <2>4, <3>1
    <3>2. ASSUME NEW q \in Pack \ removing, holds[q] = Reachable, pack[q].now.pack,
                 Visible = removing \cup {q}
          PROVE  /\ q \in Pack \ removing' /\ holds'[q] = Reachable' /\ pack'[q].now.pack
                 /\ Visible' = removing' \cup {q}
      BY <2>1, <2>3, <2>4, <3>2 DEF GrowsBut
    <3> QED BY <2>5, <3>1, <3>2
  <2> QED BY <2>1, <2>2, <2>3, <2>6 DEF Collecting, Writing, Sweeping
<1>9. CASE RemoveThen
  <2>1. at \in Pack /\ holds[at] # {} /\ ~pack[at].now.idx
    BY <1>9 DEF RemoveThen, Base, Collecting
  <2>2. /\ GrowsBut(at) /\ ~pack'[at].now.idx /\ Reachable' = Reachable /\ pc' = "sweep"
        /\ UNCHANGED <<holds, removing>>
    BY <1>2, <1>9, <2>1, PackUnlinked, ReachableSame DEF RemoveThen
  <2>3. Visible' = Visible /\ at \notin Visible
    BY <2>1, <2>2, VisibleBut DEF Visible
  <2>4. \/ Reachable = {} /\ Visible = removing
        \/ \E q \in Pack \ removing : /\ holds[q] = Reachable /\ pack[q].now.pack
                                      /\ Visible = removing \cup {q}
    BY <1>9 DEF RemoveThen, Base, Collecting, Sweeping
  <2>5. \/ Reachable' = {} /\ Visible' = removing'
        \/ \E q \in Pack \ removing' : /\ holds'[q] = Reachable' /\ pack'[q].now.pack
                                       /\ Visible' = removing' \cup {q}
    <3>1. ASSUME NEW q \in Pack \ removing, holds[q] = Reachable, pack[q].now.pack,
                 Visible = removing \cup {q}
          PROVE  /\ q \in Pack \ removing' /\ holds'[q] = Reachable' /\ pack'[q].now.pack
                 /\ Visible' = removing' \cup {q}
      BY <2>2, <2>3, <3>1 DEF GrowsBut
    <3> QED BY <2>2, <2>3, <2>4, <3>1
  <2> QED BY <2>2, <2>5 DEF Collecting, Writing, Sweeping
<1>10. CASE SyncRemoved
  <2>1. /\ Visible' = Visible /\ Reachable' = Reachable /\ removing = {} /\ pc' = "collected"
        /\ UNCHANGED holds
    BY <1>2, <1>10, VisibleSynced, ReachableSame DEF SyncRemoved
  <2>2. \/ Reachable = {} /\ Visible = {}
        \/ \E q \in Pack : holds[q] = Reachable /\ Visible = {q}
    BY <1>10, <2>1 DEF SyncRemoved, Base, Collecting, Sweeping
  <2> QED BY <2>1, <2>2 DEF Collecting, Writing, Sweeping
<1>11. CASE Rests
  BY <1>11, ReachableSame DEF Rests, store, writer, Base, Collecting, Visible
<1>12. ASSUME NEW n \in Name, Record(n) \/ Snapshot(n) PROVE pc' = "pack"
  BY <1>12, Bringing DEF Base
<1>13. CASE Publish \/ Delete \/ SyncDelete \/ EndCollect \/ Kill \/ PowerLoss
  BY <1>1, <1>13
  DEF Publish, Recover, PlacePack, PlaceIdx, PlaceName, RetireName, SyncPublished, Finish, writer,
      Delete, SyncDelete, EndCollect, Kill, PowerLoss, Writing, Sweeping
<1> QED BY <1>1, <1>3, <1>4, <1>5, <1>6, <1>7, <1>8, <1>9, <1>10, <1>11, <1>12, <1>13, ReadRests
        DEF Next, Write, Collect, Writing, Sweeping

-----------------------------------------------------------------------------
(* What a collection leaves                                                *)

LEMMA ObjectsFinite == ASSUME NEW S, S \subseteq Object PROVE IsFiniteSet(S)
<1>1. IsFiniteSet(1..NNames)
  BY CountAssumption, FS_Interval
<1> QED BY <1>1, FS_Subset DEF Object

\* One pack lists as many objects as it holds.
LEMMA OnePackRecords ==
  ASSUME TypeOK, NEW q \in Pack, Visible = {q}
  PROVE  Records = Cardinality(holds[q])
<1> DEFINE listed == {r \in {q} \X Object : r[2] \in holds[r[1]]}
           pair == [o \in holds[q] |-> <<q, o>>]
<1>1. holds[q] \subseteq Object
  BY DEF TypeOK
<1>2. pair \in [holds[q] -> listed]
  BY <1>1
<1>3. \A a, b \in holds[q] : pair[a] = pair[b] => a = b
  OBVIOUS
<1>4. ASSUME NEW r \in listed PROVE \E o \in holds[q] : pair[o] = r
  <2>1. r = <<q, r[2]>> /\ r[2] \in holds[q]
    OBVIOUS
  <2> QED BY <2>1
<1>5. pair \in Bijection(holds[q], listed)
  BY <1>2, <1>3, <1>4 DEF Bijection, Injection, Surjection, IsInjective
<1>6. ExistsBijection(holds[q], listed)
  BY <1>5 DEF ExistsBijection
<1>7. Cardinality(listed) = Cardinality(holds[q])
  BY <1>1, <1>6, ObjectsFinite, FS_Bijection
<1> QED BY <1>7 DEF Records

LEMMA NoRecords == ASSUME Visible = {} PROVE Records = 0 /\ Stored = {}
<1>1. {r \in {} \X Object : r[2] \in holds[r[1]]} = {}
  OBVIOUS
<1> QED BY <1>1, FS_EmptySet DEF Records, Stored

LEMMA CollectsAllHolds == ASSUME Base PROVE CollectsAll
<1> SUFFICES ASSUME pc = "collected"
             PROVE  Stored = Reachable /\ Records = Cardinality(Reachable)
  BY DEF CollectsAll
<1>1. CASE Reachable = {} /\ Visible = {}
  BY <1>1, NoRecords, FS_EmptySet
<1>2. ASSUME NEW q \in Pack, holds[q] = Reachable, Visible = {q}
      PROVE  Stored = Reachable /\ Records = Cardinality(Reachable)
  BY <1>2, OnePackRecords DEF Stored, Base
<1> QED BY <1>1, <1>2 DEF Base, Collecting

-----------------------------------------------------------------------------
(* What a power loss leaves                                                *)

LEMMA NamesSettledKept ==
  ASSUME "killdelete" \notin Faults, Base, NamesSettled, Next \/ Rests
  PROVE  NamesSettled'
<1> USE DEF Goto, Idle
<1>1. CASE (jnl' # None \/ pc' = "deleted") /\ pc' # "finish"
  BY <1>1 DEF NamesSettled
<1>2. ASSUME SyncNames PROVE NamesDurable'
  BY <1>2, NamesSynced DEF Base, TypeOK, NamesDurable
<1>3. ASSUME UNCHANGED name, NamesDurable PROVE NamesDurable'
  BY <1>3 DEF NamesDurable
<1>4. ASSUME NEW n \in Name, Record(n) \/ Snapshot(n) PROVE jnl' = n /\ pc' = "pack" /\ n # None
  BY <1>4, Bringing, Sets DEF Base
<1>5. CASE Recover \/ PlacePack \/ PlaceIdx \/ PlaceName \/ RetireName \/ Delete
  BY <1>1, <1>5, Excluded, Sets
  DEF Recover, PlacePack, PlaceIdx, PlaceName, RetireName, Delete, Publishing, writer
<1>6. CASE SyncPublished \/ SyncDelete
  BY <1>2, <1>6 DEF SyncPublished, SyncDelete, NamesSettled
<1>7. CASE Finish
  BY <1>3, <1>7 DEF Finish, NamesSettled
<1>8. CASE Collect
  <2>1. UNCHANGED <<name, jnl>> /\ pc # "deleted" /\ pc \notin Publishing
    BY <1>8
    DEF Collect, WriteKept, KeepNothing, Sweep, MovePack, MoveIdx, SyncMoved, RemoveIndex, RemoveThen,
        SyncRemoved, EndCollect, store, Garbage, Publishing
  <2>2. jnl = None
    BY <1>8, <2>1, Excluded
    DEF Collect, WriteKept, KeepNothing, MovePack, MoveIdx, SyncMoved, RemoveIndex, RemoveThen,
        SyncRemoved, EndCollect, Garbage
  <2> QED BY <1>3, <2>1, <2>2 DEF NamesSettled
<1>9. CASE Kill
  <2>1. UNCHANGED <<name, jnl>> /\ pc' = "idle" /\ pc # "deleted"
    BY <1>9 DEF Kill, Strikes, store
  <2> QED BY <1>3, <2>1 DEF NamesSettled
<1>10. CASE PowerLoss
  BY <1>10, Lost DEF NamesSettled, NamesDurable, Base
<1>11. CASE Rests
  BY <1>11 DEF Rests, store, writer, NamesSettled, NamesDurable
<1> QED BY <1>1, <1>4, <1>5, <1>6, <1>7, <1>8, <1>9, <1>10, <1>11, ReadRests DEF Next, Write, Publish

\* History is never without a head, once it has one.
LEMMA HeadKept ==
  ASSUME Base, NamesSettled, HeadStays, Next \/ Rests
  PROVE  HeadStays'
<1> USE DEF Base
<1>0. PICK head \in Name \ snapshots : reaches[head] # {} /\ (head = jnl \/ FALSE \notin name[head].may)
  BY DEF HeadStays
<1>1. ASSUME NEW n \in Name, Record(n) \/ Snapshot(n) PROVE HeadStays'
  <2>1. /\ UNCHANGED name /\ jnl = None /\ jnl' = n /\ reaches[n] = {} /\ reaches'[n] # {}
        /\ \A m \in Name \ {n} : reaches'[m] = reaches[m]
    BY <1>1, Bringing
  <2>2. snapshots' \subseteq snapshots \cup {n}
    BY <1>1 DEF Record, Snapshot
  <2>3. head # n /\ head # jnl
    BY <1>0, <2>1, Sets
  <2> QED BY <1>0, <2>1, <2>2, <2>3 DEF HeadStays
<1>2. ASSUME SyncNames, UNCHANGED <<snapshots, reaches, jnl>> PROVE HeadStays'
  <2>1. name'[head].may = {name[head].now} /\ name[head].now \in name[head].may
    BY <1>0, <1>2, NamesSynced DEF TypeOK, NameType
  <2> QED BY <1>0, <1>2, <2>1 DEF HeadStays
<1>3. ASSUME UNCHANGED <<name, snapshots, reaches, jnl>> PROVE HeadStays'
  BY <1>3 DEF HeadStays
<1>4. CASE Recover \/ SyncPublished \/ SyncDelete
  BY <1>2, <1>4 DEF Recover, SyncPublished, SyncDelete
<1>5. CASE PlaceName
  <2>1. jnl \in Name /\ UNCHANGED <<snapshots, reaches, jnl>>
    BY <1>5, Excluded DEF PlaceName, Publishing
  <2>2. CASE name' = name
    BY <1>3, <2>1, <2>2
  <2>3. CASE name' = [name EXCEPT ![jnl] = SetName(@, TRUE)]
    BY <1>0, <2>1, <2>3, OneName DEF HeadStays, TypeOK
  <2> QED BY <1>5, <2>2, <2>3 DEF PlaceName
<1>6. CASE RetireName
  <2>1. /\ jnl \in Name /\ reaches[jnl] # {} /\ retires[jnl] # {}
        /\ UNCHANGED <<snapshots, reaches, jnl>>
    BY <1>6, Excluded DEF RetireName, Publishing
  <2>2. jnl \notin snapshots
    BY <2>1 DEF Unmade
  <2> QED BY <2>1, <2>2 DEF HeadStays
<1>7. CASE Finish
  <2>1. name[jnl].now /\ name[jnl].may = {name[jnl].now} /\ UNCHANGED <<name, snapshots, reaches>>
    BY <1>7, Excluded DEF Finish, Publishing, NamesSettled, NamesDurable, Placed
  <2> QED BY <1>0, <2>1 DEF HeadStays
<1>8. CASE Delete
  <2>1. /\ jnl = None /\ UNCHANGED <<snapshots, reaches, jnl>>
        /\ \E h \in snapshots \cap Named : name' = [name EXCEPT ![h] = SetName(@, FALSE)]
    BY <1>8 DEF Delete
  <2>2. name'[head] = name[head]
    BY <1>0, <2>1, OneName DEF TypeOK, Named
  <2> QED BY <1>0, <2>1, <2>2 DEF HeadStays
<1>9. CASE PlacePack \/ PlaceIdx \/ Collect \/ Kill \/ Rests
  BY <1>3, <1>9
  DEF PlacePack, PlaceIdx, Collect, WriteKept, KeepNothing, Sweep, MovePack, MoveIdx, SyncMoved,
      RemoveIndex, RemoveThen, SyncRemoved, EndCollect, Kill, Rests, store
<1>10. CASE PowerLoss
  <2>1. UNCHANGED <<snapshots, reaches, jnl>>
    BY <1>10 DEF PowerLoss
  <2>2. head = jnl \/ FALSE \notin name'[head].may
    BY <1>0, <1>10, Lost
  <2> QED BY <1>0, <2>1, <2>2 DEF HeadStays
<1> QED BY <1>1, <1>4, <1>5, <1>6, <1>7, <1>8, <1>9, <1>10, ReadRests DEF Next, Write, Publish

\* Whatever was safe is safe where packs are only added to.
LEMMA SafeStays ==
  ASSUME Base, \A q \in Pack : holds[q] # {} => holds'[q] = holds[q] /\ Grows(q),
         jnl # None => jnl' = jnl, NEW o, Safe(o)
  PROVE  Safe(o)'
<1>1. PICK q \in Pack : o \in holds[q] /\ Survives(q)
  BY DEF Safe
<1>2. holds'[q] = holds[q] /\ Grows(q)
  BY <1>1
<1>3. q = jnl => q = jnl'
  BY Sets
<1>4. Survives(q)'
  BY <1>1, <1>2, <1>3, GrownSurvives
<1> QED BY <1>1, <1>2, <1>4 DEF Safe

LEMMA KeptStays ==
  ASSUME Kept, \A o \in Object : Safe(o) => Safe(o)', UNCHANGED reaches, TypeOK,
         \A n \in Name : n = jnl' \/ TRUE \in name'[n].may => n = jnl \/ TRUE \in name[n].may
  PROVE  Kept'
<1>1. ASSUME NEW n \in Name, n = jnl' \/ TRUE \in name'[n].may, NEW o \in reaches[n]
      PROVE  Safe(o)'
  <2>1. o \in Object
    BY DEF TypeOK
  <2>2. n = jnl \/ TRUE \in name[n].may
    BY <1>1
  <2>3. Safe(o)
    BY <1>1, <2>2 DEF Kept, Safe
  <2> QED BY <2>1, <2>3
<1> QED BY <1>1 DEF Kept, Safe

LEMMA ReachableSafe ==
  ASSUME TypeOK, Kept, NEW o \in Reachable
  PROVE  Safe(o)
<1>1. PICK n \in Name : name[n].now /\ o \in reaches[n]
  BY DEF Reachable, Named
<1>2. TRUE \in name[n].may
  BY <1>1 DEF TypeOK, NameType, Cells
<1> QED BY <1>1, <1>2 DEF Kept, Safe

\* A step that only adds to packs.
LEMMA AddingSurvives ==
  ASSUME Base, Surviving, TypeOK',
         \A q \in Pack : Grows(q), UNCHANGED <<holds, reaches>>,
         jnl # None => jnl' = jnl, jnl' # None => jnl' = jnl,
         pc' \notin Sweeping \cup {"collected"},
         \A n \in Name : TRUE \in name'[n].may => n = jnl \/ TRUE \in name[n].may,
         \A n \in Pack : Paired(n)' => \/ Paired(n) \/ Solid(n)' \/ n = jnl
                                      \/ holds[n] = Reachable
  PROVE  Surviving'
<1>1. \A o : Safe(o) => Safe(o)'
  BY SafeStays
<1>2. ASSUME NEW n \in Pack, n = jnl', holds'[n] # {} PROVE Survives(n)'
  <2>1. n = jnl /\ holds[n] # {}
    BY <1>2, Sets
  <2>2. Survives(n) /\ Grows(n)
    BY <2>1 DEF Surviving
  <2> QED BY <1>2, <2>2, GrownSurvives
<1>3. Kept'
  <2>1. \A n \in Name : n = jnl' => n = jnl
    BY Sets
  <2> QED BY <1>1, <2>1, KeptStays DEF Surviving, Base
<1>4. ASSUME NEW n \in Pack, Paired(n)', NEW o \in holds[n] PROVE Safe(o)'
  <2>1. CASE Paired(n)
    BY <1>1, <1>4, <2>1 DEF Surviving
  <2>2. CASE Solid(n)'
    <3>1. Survives(n)'
      BY <2>2 DEF Solid, Survives
    <3> QED BY <1>4, <3>1 DEF Safe
  <2>3. CASE n = jnl
    <3>1. Survives(n) /\ o \in holds[n]
      BY <1>4, <2>3 DEF Surviving
    <3> QED BY <1>1, <3>1 DEF Safe
  <2>4. CASE holds[n] = Reachable
    BY <1>1, <1>4, <2>4, ReachableSafe DEF Base, Surviving
  <2> QED BY <1>4, <2>1, <2>2, <2>3, <2>4
<1> QED BY <1>2, <1>3, <1>4 DEF Surviving

LEMMA ByPlacing ==
  ASSUME Base, Surviving, TypeOK', PlacePack \/ PlaceIdx
  PROVE  Surviving'
<1>1. /\ jnl \in Pack /\ UNCHANGED <<name, holds, reaches, jnl>>
      /\ pc' \notin Sweeping \cup {"collected"}
  BY Excluded DEF PlacePack, PlaceIdx, Publishing, Sweeping, Goto
<1>2. \A q \in Pack : Grows(q)
  <2>1. CASE pack' = pack
    BY <2>1, SameGrows
  <2>2. CASE pack' = [pack EXCEPT ![jnl] = RenamePack(@)]
    BY <1>1, <2>2, PackRenamed, SameGrows DEF Base, TypeOK, GrowsBut
  <2>3. CASE pack' = [pack EXCEPT ![jnl] = RenameIdx(@)]
    BY <1>1, <2>3, IdxRenamed, SameGrows DEF Base, TypeOK, GrowsBut
  <2> QED BY <2>1, <2>2, <2>3 DEF PlacePack, PlaceIdx
<1>3. \A n \in Pack : n # jnl => pack'[n] = pack[n]
  BY <1>1 DEF PlacePack, PlaceIdx, Base, TypeOK, PackType
<1> QED BY <1>1, <1>2, <1>3, AddingSurvives DEF Paired

LEMMA BySyncing ==
  ASSUME Base, Surviving, TypeOK', SyncPacks, UNCHANGED <<holds, reaches, jnl>>,
         UNCHANGED name \/ SyncNames
  PROVE  /\ pc' \notin Sweeping \cup {"collected"} => Surviving'
         /\ \A n \in Pack : Paired(n)' => Solid(n)'
<1>1. \A q \in Pack : Grows(q) /\ pack'[q].now = pack[q].now
  BY SyncedGrows DEF Base, TypeOK
<1>2. \A n \in Name : name'[n].may \subseteq name[n].may
  BY NamesSynced DEF Base, TypeOK, NameType
<1>3. \A n \in Pack : Paired(n)' => Solid(n)'
  BY PacksSynced DEF Base, TypeOK, Paired, Solid
<1> QED BY <1>1, <1>2, <1>3, AddingSurvives

\* What is recorded reaches what is safe, and what its pack brings.
LEMMA ByBringing ==
  ASSUME Base, Surviving, TypeOK', NEW n \in Name, Record(n) \/ Snapshot(n)
  PROVE  Surviving'
<1>1. /\ GrowsBut(n) /\ UNCHANGED name
      /\ jnl = None /\ Bare = {} /\ pc' = "pack" /\ jnl' = n /\ reaches[n] = {} /\ holds[n] = {}
      /\ holds'[n] \in {{}, {n}} /\ \A q \in Pack \ {n} : holds'[q] = holds[q]
      /\ pack'[n] = IF holds'[n] = {} THEN pack[n] ELSE Durable(Staged)
      /\ \A m \in Name \ {n} : reaches'[m] = reaches[m]
      /\ reaches'[n] \subseteq Stored \cup holds'[n] \cup UNION {reaches[m] : m \in Named \ snapshots}
  BY Bringing DEF Base
<1>2. n \in Pack
  BY Sets
<1>3. \A q \in Pack : holds[q] # {} => holds'[q] = holds[q] /\ Grows(q)
  BY <1>1, SameGrows DEF GrowsBut
<1>4. ASSUME NEW o, Safe(o) PROVE Safe(o)'
  BY <1>1, <1>3, <1>4, SafeStays
<1>5. holds'[n] # {} => Survives(n)'
  <2>1. Durable(Staged).may = {Staged} /\ Staged.staged /\ Staged.stagedidx
    BY DurableFacts, Fixed
  <2> QED BY <1>1, <2>1 DEF Survives
<1>6. ASSUME NEW q \in Pack, Paired(q)', NEW o \in holds'[q] PROVE Safe(o)'
  <2>1. CASE q = n
    BY <1>5, <1>6, <2>1 DEF Safe
  <2>2. CASE q # n
    <3>1. Paired(q) /\ o \in holds[q]
      BY <1>1, <1>6, <2>2 DEF GrowsBut, Paired
    <3>2. Safe(o)
      BY <3>1 DEF Surviving
    <3> QED BY <1>4, <3>2
  <2> QED BY <2>1, <2>2
<1>7. ASSUME NEW m \in Name, m = n \/ TRUE \in name[m].may, NEW o \in reaches'[m] PROVE Safe(o)'
  <2>1. CASE m # n
    <3>1. Safe(o)
      BY <1>1, <1>7, <2>1 DEF Surviving, Kept, Safe
    <3> QED BY <1>4, <3>1
  <2>2. CASE m = n /\ o \in Stored
    <3>1. PICK q \in Pack : Paired(q) /\ o \in holds[q]
      BY <1>1, <2>2 DEF Stored, Visible, Bare, Paired
    <3>2. Safe(o)
      BY <3>1 DEF Surviving
    <3> QED BY <1>4, <3>2
  <2>3. CASE m = n /\ o \in holds'[n]
    BY <1>2, <1>5, <2>3 DEF Safe
  <2>4. CASE m = n /\ o \in UNION {reaches[h] : h \in Named \ snapshots}
    <3>1. o \in Reachable
      BY <2>4 DEF Reachable
    <3>2. Safe(o)
      BY <3>1, ReachableSafe DEF Base, Surviving
    <3> QED BY <1>4, <3>2
  <2> QED BY <1>1, <1>7, <2>1, <2>2, <2>3, <2>4
<1>8. Kept'
  BY <1>1, <1>7 DEF Kept, Safe
<1>9. \A q \in Pack : q = jnl' /\ holds'[q] # {} => Survives(q)'
  BY <1>1, <1>5
<1> QED BY <1>1, <1>6, <1>8, <1>9 DEF Surviving, Sweeping

LEMMA ByWriting ==
  ASSUME Base, Surviving, TypeOK', WriteKept
  PROVE  Surviving'
<1>1. /\ at' \in Pack /\ holds[at'] = {} /\ GrowsBut(at') /\ ~pack'[at'].now.idx
      /\ \A q \in Pack \ {at'} : holds'[q] = holds[q]
      /\ pc' = "movepack" /\ jnl = None /\ UNCHANGED <<name, reaches, jnl>>
  BY Collected DEF Base
<1>2. \A q \in Pack : holds[q] # {} => holds'[q] = holds[q] /\ Grows(q)
  BY <1>1, SameGrows DEF GrowsBut
<1>3. \A o : Safe(o) => Safe(o)'
  BY <1>2, <1>1, SafeStays
<1>4. Kept'
  BY <1>1, <1>3, KeptStays DEF Surviving, Base
<1>5. ASSUME NEW q \in Pack, Paired(q)', NEW o \in holds'[q] PROVE Safe(o)'
  <2>1. q # at'
    BY <1>1, <1>5 DEF Paired
  <2>2. Paired(q) /\ o \in holds[q]
    BY <1>1, <1>5, <2>1 DEF GrowsBut, Paired
  <2> QED BY <1>3, <2>2 DEF Surviving
<1>6. \A q \in Pack : q # jnl'
  BY <1>1, Sets
<1> QED BY <1>1, <1>4, <1>5, <1>6 DEF Surviving, Sweeping

LEMMA ByMoving ==
  ASSUME Base, Surviving, TypeOK', MovePack \/ MoveIdx
  PROVE  Surviving'
<1>1. /\ at \in Pack /\ holds[at] = Reachable /\ UNCHANGED <<name, holds, reaches, jnl>>
      /\ pc' \notin Sweeping \cup {"collected"}
  BY DEF MovePack, MoveIdx, Base, Collecting, Writing, Sweeping, Goto
<1>2. GrowsBut(at) /\ Grows(at)
  <2>1. CASE MovePack
    BY <1>1, <2>1, PackRenamed DEF MovePack, Base, TypeOK
  <2>2. CASE MoveIdx
    BY <1>1, <2>2, IdxRenamed DEF MoveIdx, Base, TypeOK
  <2> QED BY <2>1, <2>2
<1>3. \A q \in Pack : Grows(q)
  BY <1>2, SameGrows DEF GrowsBut
<1>4. \A q \in Pack : Paired(q)' => Paired(q) \/ holds[q] = Reachable
  BY <1>1, <1>2 DEF GrowsBut, Paired
<1> QED BY <1>1, <1>3, <1>4, AddingSurvives

\* Where nothing is published, and every name is durable, a head is in place.
LEMMA SomethingReached ==
  ASSUME Base, HeadStays, NamesDurable, jnl = None
  PROVE  Reachable # {}
<1>1. PICK head \in Name : reaches[head] # {} /\ FALSE \notin name[head].may
  BY Sets DEF HeadStays
<1>2. name[head].may = {name[head].now} /\ name[head].now \in BOOLEAN
  BY DEF NamesDurable, Base, TypeOK, NameType, Cells
<1>3. name[head].now
  BY <1>1, <1>2
<1> QED BY <1>1, <1>3 DEF Reachable, Named

\* While packs are removed, one that is not among them holds all that is reached,
\* on every disk.
LEMMA ByRemoving ==
  ASSUME Base, NamesSettled, HeadStays, Surviving, TypeOK', RemoveIndex \/ RemoveThen
  PROVE  Surviving'
<1>1. jnl = None /\ NamesDurable /\ pc \in Sweeping /\ UNCHANGED <<name, holds, reaches, jnl>>
  BY Excluded DEF RemoveIndex, RemoveThen, NamesSettled, Sweeping, Publishing
<1>3. Reachable # {}
  BY <1>1, SomethingReached
<1>4. PICK q \in Pack \ removing : /\ holds[q] = Reachable /\ pack[q].now.pack
                                 /\ Visible = removing \cup {q}
  BY <1>1, <1>3 DEF Base, Collecting
<1>5. Paired(q) /\ Solid(q)
  BY <1>1, <1>4 DEF Visible, Paired, Surviving
<1>6. PICK n \in Pack : GrowsBut(n) /\ n # q /\ ~Paired(n)'
  <2>1. CASE RemoveIndex
    <3>1. PICK n \in removing : pack' = [pack EXCEPT ![n] = UnlinkIdx(@)]
      BY <2>1 DEF RemoveIndex
    <3>2. n \in Pack
      BY DEF Base, TypeOK
    <3> QED BY <1>4, <3>1, <3>2, IdxUnlinked DEF Base, TypeOK, Paired
  <2>2. CASE RemoveThen
    <3>1. at \in Pack /\ ~pack[at].now.idx /\ pack' = [pack EXCEPT ![at] = UnlinkPack(@)]
      BY <2>2 DEF RemoveThen, Base, Collecting
    <3> QED BY <1>5, <3>1, PackUnlinked DEF Base, TypeOK, Paired
  <2> QED BY <2>1, <2>2
<1>7. Survives(q)'
  BY <1>5, <1>6 DEF GrowsBut, Solid, Survives
<1>8. ASSUME NEW o \in Reachable PROVE Safe(o)'
  BY <1>1, <1>4, <1>7, <1>8 DEF Safe
<1>9. Kept'
  <2>1. ASSUME NEW m \in Name, m = jnl' \/ TRUE \in name'[m].may, NEW o \in reaches'[m]
        PROVE  o \in Reachable
    <3>1. m # jnl' /\ TRUE \in name[m].may /\ o \in reaches[m]
      BY <1>1, <2>1, Sets
    <3>2. name[m].may = {name[m].now}
      BY <1>1 DEF NamesDurable
    <3>3. name[m].now
      BY <3>1, <3>2
    <3> QED BY <3>1, <3>3 DEF Reachable, Named
  <2> QED BY <1>8, <2>1 DEF Kept, Safe
<1>10. ASSUME NEW m \in Pack, Paired(m)' PROVE Solid(m)'
  <2>1. m # n /\ pack'[m] = pack[m]
    BY <1>6, <1>10 DEF GrowsBut
  <2>2. Paired(m) /\ Solid(m)
    BY <1>1, <1>10, <2>1 DEF Paired, Surviving
  <2> QED BY <2>1, <2>2 DEF Solid
<1>11. \A m \in Pack : Solid(m)' => Survives(m)'
  BY DEF Solid, Survives
<1>12. \A m \in Pack : m # jnl'
  BY <1>1, Sets
<1> QED BY <1>9, <1>10, <1>11, <1>12 DEF Surviving, Safe

LEMMA SurvivingKept ==
  ASSUME "killdelete" \notin Faults, Base, NamesSettled, HeadStays, Surviving, Next \/ Rests
  PROVE  Surviving'
<1>1. TypeOK'
  BY TypesKept
<1>2. CASE Recover \/ SyncPublished
  BY <1>1, <1>2, BySyncing DEF Recover, SyncPublished, Sweeping, Goto
<1>3. CASE PlacePack \/ PlaceIdx
  BY <1>1, <1>3, ByPlacing
<1>4. ASSUME UNCHANGED <<pack, holds, reaches, jnl>>, pc' \notin Sweeping \cup {"collected"},
             \A n \in Name : TRUE \in name'[n].may => n = jnl \/ TRUE \in name[n].may
      PROVE  Surviving'
  BY <1>1, <1>4, SameGrows, AddingSurvives DEF Paired
<1>5. CASE PlaceName
  <2>1. \A n \in Name : TRUE \in name'[n].may => n = jnl \/ TRUE \in name[n].may
    <3>1. CASE name' = name
      BY <3>1
    <3>2. CASE name' = [name EXCEPT ![jnl] = SetName(@, TRUE)]
      BY <1>5, <3>2, Excluded, OneName DEF PlaceName, Publishing, Base, TypeOK
    <3> QED BY <1>5, <3>1, <3>2 DEF PlaceName
  <2> QED BY <1>4, <1>5, <2>1 DEF PlaceName, Goto, Sweeping
<1>6. CASE RetireName \/ Delete
  <2>1. PICK h \in Name : name' = [name EXCEPT ![h] = SetName(@, FALSE)]
    BY <1>6 DEF RetireName, Delete, Named
  <2>2. \A n \in Name : TRUE \in name'[n].may => TRUE \in name[n].may
    BY <2>1, OneName DEF Base, TypeOK
  <2> QED BY <1>4, <1>6, <2>2 DEF RetireName, Delete, Goto, Sweeping, writer
<1>7. CASE Finish
  <2>1. /\ jnl \in Pack /\ jnl' = None /\ UNCHANGED <<pack, name, holds, reaches>> /\ pc' = "idle"
        /\ holds[jnl] # {} => Solid(jnl)
        /\ name[jnl].now /\ jnl \in Name
    BY <1>7, Excluded, Sets DEF Finish, Publishing, Idle, Goto, Base, Placed
  <2>2. ASSUME NEW o, Safe(o) PROVE Safe(o)'
    <3>1. PICK q \in Pack : o \in holds[q] /\ Survives(q)
      BY <2>2 DEF Safe
    <3>2. Survives(q)'
      BY <2>1, <3>1 DEF Survives, Solid
    <3> QED BY <2>1, <3>1, <3>2 DEF Safe
  <2>3. Kept'
    BY <2>1, <2>2, KeptStays, Sets DEF Surviving, Base
  <2>4. \A n \in Pack : n # jnl'
    BY <2>1, Sets
  <2> QED BY <2>1, <2>2, <2>3, <2>4 DEF Surviving, Paired, Sweeping
<1>8. CASE SyncDelete
  <2>1. \A n \in Name : name'[n].may \subseteq name[n].may
    BY <1>8, NamesSynced DEF SyncDelete, Base, TypeOK, NameType
  <2> QED BY <1>4, <1>8, <2>1 DEF SyncDelete, Idle, Goto, Sweeping
<1>9. CASE KeepNothing
  <2>1. jnl = None /\ NamesDurable /\ Reachable = {}
    BY <1>9 DEF KeepNothing, Garbage, NamesSettled
  <2> QED BY <2>1, SomethingReached
<1>10. CASE SyncMoved \/ SyncRemoved
  <2>1. UNCHANGED <<name, holds, reaches, jnl>> /\ SyncPacks /\ jnl = None
    BY <1>10, Excluded DEF SyncMoved, SyncRemoved, Publishing
  <2>2. \A n \in Pack : Paired(n)' => Solid(n)'
    BY <1>1, <2>1, BySyncing
  <2>3. \A q \in Pack : Grows(q)
    BY <2>1, SyncedGrows DEF Base, TypeOK
  <2>4. \A o : Safe(o) => Safe(o)'
    BY <2>1, <2>3, SafeStays
  <2>5. Kept'
    BY <2>1, <2>4, KeptStays DEF Surviving, Base
  <2>6. \A n \in Pack : n # jnl'
    BY <2>1, Sets
  <2> QED BY <2>2, <2>5, <2>6 DEF Surviving, Solid, Survives, Safe
<1>11. CASE RemoveIndex \/ RemoveThen
  BY <1>1, <1>11, ByRemoving
<1>12. CASE MovePack \/ MoveIdx
  BY <1>1, <1>12, ByMoving
<1>13. CASE EndCollect \/ Kill
  BY <1>4, <1>13 DEF EndCollect, Kill, Idle, Goto, Sweeping, store
<1>14. CASE PowerLoss
  <2>1. /\ UNCHANGED <<holds, reaches, jnl>> /\ pc' = "idle"
        /\ \A n \in Pack : pack'[n].may = {pack'[n].now}
        /\ \A n \in Name : name'[n].may \subseteq name[n].may
    BY <1>14, Lost DEF PowerLoss, Idle, Goto, Base
  <2>2. \A q \in Pack : Grows(q)
    BY <1>14, LostGrows DEF Base
  <2>3. \A n \in Pack : Paired(n)' => Solid(n)'
    BY <2>1 DEF Paired, Solid
  <2> QED BY <1>1, <2>1, <2>2, <2>3, AddingSurvives DEF Sweeping
<1>15. CASE Rests
  BY <1>15 DEF Rests, store, writer, Surviving, Survives, Solid, Paired, Safe, Kept
<1>16. CASE WriteKept
  BY <1>1, <1>16, ByWriting
<1>17. ASSUME NEW n \in Name, Record(n) \/ Snapshot(n) PROVE Surviving'
  BY <1>1, <1>17, ByBringing
<1> QED BY <1>2, <1>3, <1>5, <1>6, <1>7, <1>8, <1>9, <1>10, <1>11, <1>12, <1>13, <1>14, <1>15,
           <1>16, <1>17, ReadRests
        DEF Next, Write, Publish, Collect

-----------------------------------------------------------------------------
(* What a reader finds in the directory                                    *)

LEMMA BareBut ==
  ASSUME Bare = {}, NEW n, \A q \in Pack \ {n} : pack'[q] = pack[q],
         n \in Pack /\ pack'[n].now.idx => pack'[n].now.pack
  PROVE  Bare' = {}
BY DEF Bare

LEMMA BareSame ==
  ASSUME Bare = {}, \A q \in Pack : pack'[q].now = pack[q].now
  PROVE  Bare' = {}
BY DEF Bare

\* Where no power is lost, an index goes in after its pack and out before it.
LEMMA NoneBare ==
  ASSUME Base, Bare = {}, Write \/ Kill \/ Rests
  PROVE  Bare' = {}
<1>0. PackType
  BY DEF Base, TypeOK
<1>1. ASSUME NEW n \in Name, Record(n) \/ Snapshot(n) PROVE Bare' = {}
  <2>1. /\ GrowsBut(n) /\ holds[n] = {}
        /\ pack'[n] = IF holds'[n] = {} THEN pack[n] ELSE Durable(Staged)
    BY <1>1, Bringing DEF Base
  <2>2. pack[n] = Durable(NoFiles)
    BY <2>1, Sets DEF Base, Unmade
  <2>3. ~pack'[n].now.idx
    <3>1. Durable(NoFiles).now = NoFiles /\ Durable(Staged).now = Staged
      BY DurableFacts, Fixed
    <3> QED BY <2>1, <2>2, <3>1, Fixed
  <2> QED BY <2>1, <2>3, BareBut DEF GrowsBut
<1>2. CASE PlacePack
  <2>1. CASE pack' = pack
    BY <2>1, BareSame
  <2>2. CASE pack' = [pack EXCEPT ![jnl] = RenamePack(@)]
    <3>1. jnl \in Pack
      BY <1>2, Excluded DEF PlacePack, Publishing
    <3>2. GrowsBut(jnl) /\ pack'[jnl].now.pack
      BY <1>0, <2>2, <3>1, PackRenamed
    <3> QED BY <3>2, BareBut DEF GrowsBut
  <2> QED BY <1>2, <2>1, <2>2 DEF PlacePack
<1>3. CASE PlaceIdx
  <2>1. CASE pack' = pack
    BY <2>1, BareSame
  <2>2. CASE pack' = [pack EXCEPT ![jnl] = RenameIdx(@)] /\ holds[jnl] # {}
    <3>1. jnl \in Pack /\ jnl # None /\ pc = "idx"
      BY <1>3, Excluded, Sets DEF PlaceIdx, Publishing
    <3>2. pack[jnl].now.pack
      BY <2>2, <3>1 DEF Base, Placed
    <3>3. GrowsBut(jnl) /\ pack'[jnl].now.pack
      BY <1>0, <2>2, <3>1, <3>2, IdxRenamed
    <3> QED BY <3>3, BareBut DEF GrowsBut
  <2> QED BY <1>3, <2>1, <2>2 DEF PlaceIdx
<1>4. CASE UNCHANGED pack
  BY <1>4, BareSame
<1>5. CASE SyncPacks
  BY <1>0, <1>5, PacksSynced, BareSame
<1>6. CASE WriteKept
  <2>1. GrowsBut(at') /\ ~pack'[at'].now.idx
    BY <1>6, Collected DEF Base
  <2> QED BY <2>1 DEF GrowsBut, Bare
<1>7. CASE MovePack
  <2>1. at \in Pack
    BY <1>7 DEF MovePack, Base, Collecting, Writing
  <2>2. GrowsBut(at) /\ pack'[at].now.pack
    BY <1>0, <1>7, <2>1, PackRenamed DEF MovePack
  <2> QED BY <2>2, BareBut DEF GrowsBut
<1>8. CASE MoveIdx
  <2>1. at \in Pack /\ pack[at].now.pack
    BY <1>8 DEF MoveIdx, Base, Collecting, Writing
  <2>2. GrowsBut(at) /\ pack'[at].now.pack
    BY <1>0, <1>8, <2>1, IdxRenamed DEF MoveIdx
  <2> QED BY <2>2, BareBut DEF GrowsBut
<1>9. CASE RemoveIndex
  <2>1. PICK n \in removing : pack' = [pack EXCEPT ![n] = UnlinkIdx(@)]
    BY <1>9 DEF RemoveIndex
  <2>2. GrowsBut(n) /\ ~pack'[n].now.idx
    BY <1>0, <2>1, IdxUnlinked DEF Base, TypeOK
  <2> QED BY <2>2, BareBut DEF GrowsBut
<1>10. CASE RemoveThen
  <2>1. at \in Pack /\ ~pack[at].now.idx
    BY <1>10 DEF RemoveThen, Base, Collecting
  <2>2. GrowsBut(at) /\ ~pack'[at].now.idx
    BY <1>0, <1>10, <2>1, PackUnlinked DEF RemoveThen
  <2> QED BY <2>2, BareBut DEF GrowsBut
<1>11. CASE Recover \/ SyncPublished \/ SyncMoved \/ SyncRemoved
  BY <1>5, <1>11 DEF Recover, SyncPublished, SyncMoved, SyncRemoved
<1>12. CASE PlaceName \/ RetireName \/ Finish \/ Delete \/ SyncDelete \/ KeepNothing \/ EndCollect
            \/ Kill \/ Rests
  BY <1>4, <1>12
  DEF PlaceName, RetireName, Finish, Delete, SyncDelete, KeepNothing, EndCollect, Kill, Rests, store
<1> QED BY <1>1, <1>2, <1>3, <1>6, <1>7, <1>8, <1>9, <1>10, <1>11, <1>12 DEF Write, Publish, Collect

-----------------------------------------------------------------------------
(* The theorems                                                            *)

LEMMA Begins ==
  ASSUME Init
  PROVE  Base /\ NamesSettled /\ Bare = {} /\ (Headed => HeadStays /\ Surviving)
<1> USE Sets
<1>1. PICK first \in SUBSET (Name \cap {1}) : InitFrom(first)
  BY DEF Init
<1>2. /\ pack = [n \in Pack |-> Durable(IF n \in first THEN Published ELSE NoFiles)]
      /\ name = [n \in Name |-> Durable(n \in first)]
      /\ holds = [n \in Pack |-> {n} \cap first] /\ reaches = [n \in Name |-> {n} \cap first]
      /\ retires = [n \in Name |-> {}] /\ snapshots = {} /\ jnl = None
      /\ pc = "idle" /\ at = None /\ removing = {}
  BY <1>1 DEF InitFrom
<1>3. \A n \in Pack : /\ pack[n] = Durable(IF n \in first THEN Published ELSE NoFiles)
                      /\ pack[n] \in Cells(Files)
                      /\ pack[n].now = (IF n \in first THEN Published ELSE NoFiles)
                      /\ pack[n].may = {pack[n].now}
  BY <1>2, DurableFacts, Fixed
<1>4. \A n \in Name : /\ name[n] = Durable(n \in first) /\ name[n] \in Cells(BOOLEAN)
                      /\ name[n].now = (n \in first) /\ name[n].may = {name[n].now}
  <2> TAKE n \in Name
  <2>1. name[n] = Durable(n \in first)
    BY <1>2
  <2>2. CASE n \in first
    <3>1. (n \in first) = TRUE
      BY <2>2
    <3>2. name[n] = Durable(TRUE)
      BY <2>1, <3>1
    <3>3. name[n] \in Cells(BOOLEAN) /\ name[n].now = TRUE /\ name[n].may = {TRUE}
      BY <3>2 DEF Durable, Cells
    <3> QED BY <2>1, <3>1, <3>3
  <2>3. CASE n \notin first
    <3>1. (n \in first) = FALSE
      BY <2>3
    <3>2. name[n] = Durable(FALSE)
      BY <2>1, <3>1
    <3>3. name[n] \in Cells(BOOLEAN) /\ name[n].now = FALSE /\ name[n].may = {FALSE}
      BY <3>2 DEF Durable, Cells
    <3> QED BY <2>1, <3>1, <3>3
  <2> QED BY <2>2, <2>3
<1>5. TypeOK
  <2>1. PackType
    BY <1>2, <1>3 DEF PackType
  <2>2. NameType
    BY <1>2, <1>4 DEF NameType
  <2> QED BY <1>2, <2>1, <2>2 DEF TypeOK, Steps, Publishing
<1>6. Unmade
  <2>1. \A n \in Pack : holds[n] = {} => pack[n] = Durable(NoFiles)
    BY <1>2, <1>3
  <2>2. \A n \in Name : reaches[n] = {} => name[n] = Durable(FALSE) /\ holds[n] = {}
    <3> SUFFICES ASSUME NEW n \in Name, reaches[n] = {} PROVE name[n] = Durable(FALSE) /\ holds[n] = {}
      OBVIOUS
    <3>1. n \notin first /\ n \in Pack
      BY <1>2
    <3>2. (n \in first) = FALSE
      BY <3>1
    <3> QED BY <1>2, <1>4, <3>1, <3>2
  <2> QED BY <1>2, <2>1, <2>2 DEF Unmade
<1>7. Placed /\ Collecting
  BY <1>2 DEF Placed, Collecting, Writing, Sweeping
<1>8. NamesSettled
  BY <1>4 DEF NamesSettled, NamesDurable
<1>9. Bare = {}
  BY <1>3, Fixed DEF Bare
<1>10. ASSUME Headed PROVE HeadStays /\ Surviving
  <2>1. PICK n \in Name : n \in first
    BY <1>4, <1>10 DEF Headed, Named
  <2>2. HeadStays
    <3>1. (n \in first) = TRUE
      BY <2>1
    <3>2. name[n].may = {TRUE}
      BY <1>4, <3>1
    <3> QED BY <1>2, <2>1, <3>2 DEF HeadStays
  <2>3. \A q \in Pack : q \in first => Survives(q) /\ Solid(q)
    BY <1>3, Fixed DEF Survives, Solid
  <2>4. \A q \in Pack : Paired(q) => q \in first
    BY <1>3, Fixed DEF Paired
  <2>5. \A m \in Name : \A o \in reaches[m] : m \in first /\ m \in Pack /\ o \in holds[m]
    BY <1>2
  <2>6. Kept
    BY <2>3, <2>5 DEF Kept
  <2>7. \A q \in Pack : Paired(q) => \A o \in holds[q] : Safe(o)
    BY <2>3, <2>4 DEF Safe
  <2>8. \A q \in Pack : q # jnl
    BY <1>2
  <2> QED BY <1>2, <2>2, <2>6, <2>7, <2>8 DEF Surviving, Sweeping
<1> QED BY <1>5, <1>6, <1>7, <1>8, <1>9, <1>10 DEF Base

LEMMA BaseKept == ASSUME Base, Next \/ Rests PROVE Base'
BY TypesKept, UnmadeKept, PlacedKept, CollectingKept DEF Base

\* What is so in each kind of history (see MCPacks).
InEach ==
  /\ Base
  /\ kind = "crashes" => NamesSettled /\ HeadStays /\ Surviving
  /\ kind = "readers" => Bare = {}

\* For every number of names, collections and faults: a name left after a power loss
\* reaches only objects that are left, no index is in place without its pack, and a
\* collection leaves exactly what is reached.
THEOREM PacksKeep ==
  ASSUME "killdelete" \notin Faults
  PROVE  PacksSpec => []NamesKept
<1>1. PacksInit => InEach
  BY Begins DEF PacksInit, InEach
<1>2. InEach /\ [PacksNext]_packsVars => InEach'
  <2> SUFFICES ASSUME InEach, [PacksNext]_packsVars PROVE InEach'
    OBVIOUS
  <2>1. UNCHANGED kind /\ \/ kind = "crashes" /\ (Next \/ Rests)
                          \/ kind = "readers" /\ (Write \/ Rests)
                          \/ kind \notin {"crashes", "readers"} /\ Rests
    BY ReadRests DEF PacksNext, packsVars, vars, Rests, Next
  <2>2. Base'
    BY <2>1, BaseKept DEF InEach, Next
  <2>3. CASE kind = "crashes" /\ (Next \/ Rests)
    BY <2>1, <2>2, <2>3, NamesSettledKept, HeadKept, SurvivingKept DEF InEach
  <2>4. CASE kind = "readers" /\ (Write \/ Rests)
    BY <2>1, <2>2, <2>4, NoneBare DEF InEach
  <2> QED BY <2>1, <2>2, <2>3, <2>4 DEF InEach
<1>3. InEach => NamesKept
  BY CollectsAllHolds DEF InEach, NamesKept, Surviving, IndexHasPack
<1> QED BY <1>1, <1>2, <1>3, PTL DEF PacksSpec

-----------------------------------------------------------------------------
(* Readers                                                                 *)

\* Of what is published, and of what names reach, everything is there.
Fulfilled ==
  /\ \A n \in Name : holds[n] \subseteq {n}
  /\ \A n \in Name : \A o \in reaches[n] : reaches[o] # {}
  /\ \A n \in Pack : \A o \in holds[n] : reaches[o] # {}
  /\ Reachable \subseteq Stored
  /\ \A n \in Name : n = jnl =>
       /\ reaches[n] \subseteq Stored \cup holds[n]
       /\ ~pack[n].now.idx => holds[n] \cap Stored = {}

\* The reader has pack n still before it.
Ahead(n) ==
  /\ rpc = "stat" => n \in seen.idxs
  /\ rpc = "load" => n \in toload \cup fresh
  /\ rpc = "again" => n \in listing

ReaderType == listing \cup seen.idxs \cup toload \cup fresh \subseteq Pack

Afield == \E n \in Visible : want \in holds[n] /\ Ahead(n)
Looking == {"missed", "stat", "load", "again"}

\* Where the reader stands, by how many collections passed it.
Seeking ==
  /\ swept \in 0..2 /\ want \in Object /\ reaches[want] # {}
  /\ \A n \in Name : n = jnl /\ ~pack[n].now.idx => want \notin holds[n]
  /\ swept = 0 => pc \notin Sweeping /\ (rpc \in Looking \cup {"try"} => Afield)
  /\ rpc \in Looking \cup {"missing"} /\ knew => swept # 0
  /\ rpc = "try" /\ knew /\ swept = 0 => Present(want)
  /\ rpc \in Looking /\ knew /\ swept = 1 =>
       IF pc \in Sweeping THEN \A n \in Visible : want \in holds[n] => Ahead(n)
                          ELSE want \in Stored => Afield
  /\ rpc = "missing" => swept = 2 \/ (swept = 1 /\ ~knew) \/ want \notin Stored

Sought ==
  /\ rpc \in {"opening", "idle"} => want = None
  /\ want = None => swept = 0
  /\ want # None => Seeking

-----------------------------------------------------------------------------
(* What the lock's holder does to what readers see                         *)

Counted ==
  swept' = IF pc \notin Sweeping /\ pc' \in Sweeping
           THEN IF want = None THEN 0 ELSE Min({2, swept + 1}) ELSE swept

\* What is visible stays but for a removal, and what comes to be holds what is
\* published or what is reached.
Moved ==
  /\ UNCHANGED reader /\ Counted
  /\ \A n \in Pack : holds'[n] = holds[n] \/ (holds[n] = {} /\ n \notin Visible /\ n \notin Visible')
  /\ \A n \in Name : reaches[n] # {} => reaches'[n] = reaches[n]
  /\ pc \in Sweeping => Visible' \subseteq Visible
  /\ pc \notin Sweeping \/ pc' \notin Sweeping => Visible \subseteq Visible'
  /\ pc \notin Sweeping => \A n \in Pack : pack[n].now.pack => pack'[n].now.pack
  /\ \A n \in Visible' \ Visible : (n = jnl /\ n \in Name) \/ holds[n] = Reachable

LEMMA Counting == \A s \in 0..2 : Min({2, s + 1}) = IF s = 0 THEN 1 ELSE 2
BY DEF Min

LEMMA VisibleSame ==
  ASSUME \A n \in Pack : pack'[n].now = pack[n].now
  PROVE  Visible' = Visible
BY DEF Visible

LEMMA MovedOne ==
  ASSUME NEW n \in Pack, GrowsBut(n), UNCHANGED <<holds, reaches, swept>>, UNCHANGED reader,
         pc \in Sweeping => pc' \in Sweeping /\ ~pack'[n].now.idx,
         pc \notin Sweeping =>
           /\ pc' \notin Sweeping
           /\ (pack[n].now.pack => pack'[n].now.pack) /\ (pack[n].now.idx => pack'[n].now.idx)
         , ~pack[n].now.idx /\ pack'[n].now.idx => (n = jnl /\ n \in Name) \/ holds[n] = Reachable
  PROVE  Moved
BY VisibleBut DEF Moved, Counted, Visible, GrowsBut

LEMMA MovedNone ==
  ASSUME \A n \in Pack : pack'[n].now = pack[n].now, UNCHANGED <<holds, reaches>>, UNCHANGED reader,
         Counted
  PROVE  Moved
BY VisibleSame DEF Moved

LEMMA HolderMoves ==
  ASSUME Base, Write
  PROVE  Moved
<1>0. PackType
  BY DEF Base, TypeOK
<1> USE DEF Goto, Idle
<1>1. ASSUME NEW n \in Name, Record(n) \/ Snapshot(n) PROVE Moved
  <2>1. /\ GrowsBut(n) /\ holds[n] = {} /\ reaches[n] = {} /\ pc = "idle" /\ pc' = "pack"
        /\ pack'[n] = IF holds'[n] = {} THEN pack[n] ELSE Durable(Staged)
        /\ \A q \in Pack \ {n} : holds'[q] = holds[q]
        /\ \A m \in Name \ {n} : reaches'[m] = reaches[m]
    BY <1>1, Bringing DEF Base
  <2>2. UNCHANGED reader /\ swept' = swept
    BY <1>1 DEF Record, Snapshot, Bring
  <2>3. n \in Pack /\ pack[n] = Durable(NoFiles)
    BY <2>1, Sets DEF Base, Unmade
  <2>4. ~pack[n].now.idx /\ ~pack[n].now.pack /\ ~pack'[n].now.idx
    <3>1. Durable(NoFiles).now = NoFiles /\ Durable(Staged).now = Staged
      BY DurableFacts, Fixed
    <3> QED BY <2>1, <2>3, <3>1, Fixed
  <2>5. Visible' = Visible /\ n \notin Visible
    BY <2>1, <2>3, <2>4, VisibleBut DEF Visible
  <2>6. \A q \in Pack : pack[q].now.pack => pack'[q].now.pack
    BY <2>1, <2>4 DEF GrowsBut
  <2> QED BY <2>1, <2>2, <2>5, <2>6 DEF Moved, Counted, Sweeping
<1>2. CASE PlacePack
  <2>1. UNCHANGED <<holds, reaches, swept, reader>> /\ pc = "pack" /\ pc' = "idx"
    BY <1>2 DEF PlacePack
  <2>2. CASE pack' = pack
    BY <2>1, <2>2, MovedNone DEF Counted, Sweeping
  <2>3. CASE pack' = [pack EXCEPT ![jnl] = RenamePack(@)]
    <3>1. jnl \in Pack
      BY <2>1, Excluded DEF Publishing
    <3>2. GrowsBut(jnl) /\ pack'[jnl].now.pack /\ pack'[jnl].now.idx = pack[jnl].now.idx
      BY <1>0, <2>3, <3>1, PackRenamed
    <3> QED BY <2>1, <3>1, <3>2, MovedOne DEF Sweeping
  <2> QED BY <1>2, <2>2, <2>3 DEF PlacePack
<1>3. CASE PlaceIdx
  <2>1. UNCHANGED <<holds, reaches, swept, reader>> /\ pc = "idx" /\ pc' = "name"
    BY <1>3 DEF PlaceIdx
  <2>2. CASE pack' = pack
    BY <2>1, <2>2, MovedNone DEF Counted, Sweeping
  <2>3. CASE pack' = [pack EXCEPT ![jnl] = RenameIdx(@)]
    <3>1. jnl \in Pack /\ jnl \in Name
      BY <2>1, Excluded DEF Publishing
    <3>2. GrowsBut(jnl) /\ pack'[jnl].now.idx /\ pack'[jnl].now.pack = pack[jnl].now.pack
      BY <1>0, <2>3, <3>1, IdxRenamed
    <3> QED BY <2>1, <3>1, <3>2, MovedOne DEF Sweeping
  <2> QED BY <1>3, <2>2, <2>3 DEF PlaceIdx
<1>4. CASE WriteKept
  <2>1. /\ GrowsBut(at') /\ ~pack'[at'].now.idx /\ ~pack'[at'].now.pack /\ at' \in Pack
        /\ pack[at'] = Durable(NoFiles) /\ holds[at'] = {} /\ pc = "idle" /\ pc' = "movepack"
        /\ \A q \in Pack \ {at'} : holds'[q] = holds[q]
        /\ UNCHANGED reaches
    BY <1>4, Collected DEF Base
  <2>2. UNCHANGED reader /\ swept' = swept
    BY <1>4 DEF WriteKept
  <2>3. ~pack[at'].now.idx /\ ~pack[at'].now.pack
    <3>1. Durable(NoFiles).now = NoFiles
      BY DurableFacts, Fixed
    <3> QED BY <2>1, <3>1, Fixed
  <2>4. Visible' = Visible /\ at' \notin Visible
    BY <2>1, <2>3, VisibleBut DEF Visible
  <2>5. \A q \in Pack : pack[q].now.pack => pack'[q].now.pack
    BY <2>1, <2>3 DEF GrowsBut
  <2> QED BY <2>1, <2>2, <2>4, <2>5 DEF Moved, Counted, Sweeping
<1>5. CASE MovePack
  <2>1. at \in Pack /\ UNCHANGED <<holds, reaches, swept, reader>> /\ pc = "movepack" /\ pc' = "moveidx"
    BY <1>5 DEF MovePack, Base, Collecting, Writing
  <2>2. GrowsBut(at) /\ pack'[at].now.pack /\ pack'[at].now.idx = pack[at].now.idx
    BY <1>0, <1>5, <2>1, PackRenamed DEF MovePack
  <2> QED BY <2>1, <2>2, MovedOne DEF Sweeping
<1>6. CASE MoveIdx
  <2>1. /\ at \in Pack /\ UNCHANGED <<holds, reaches, swept, reader>>
        /\ pc = "moveidx" /\ pc' = "syncmoved" /\ holds[at] = Reachable
    BY <1>6 DEF MoveIdx, Base, Collecting, Writing
  <2>2. GrowsBut(at) /\ pack'[at].now.idx /\ pack'[at].now.pack = pack[at].now.pack
    BY <1>0, <1>6, <2>1, IdxRenamed DEF MoveIdx
  <2> QED BY <2>1, <2>2, MovedOne DEF Sweeping
<1>7. CASE RemoveIndex
  <2>1. PICK n \in removing : pack' = [pack EXCEPT ![n] = UnlinkIdx(@)]
    BY <1>7 DEF RemoveIndex
  <2>2. n \in Pack /\ GrowsBut(n) /\ ~pack'[n].now.idx
    BY <1>0, <2>1, IdxUnlinked DEF Base, TypeOK
  <2>3. UNCHANGED <<holds, reaches, swept, reader>> /\ pc = "sweep" /\ pc' = "removepack"
    BY <1>7 DEF RemoveIndex
  <2> QED BY <2>2, <2>3, MovedOne DEF Sweeping
<1>8. CASE RemoveThen
  <2>1. at \in Pack /\ ~pack[at].now.idx
    BY <1>8 DEF RemoveThen, Base, Collecting
  <2>2. GrowsBut(at) /\ ~pack'[at].now.idx
    BY <1>0, <1>8, <2>1, PackUnlinked DEF RemoveThen
  <2>3. UNCHANGED <<holds, reaches, swept, reader>> /\ pc = "removepack" /\ pc' = "sweep"
    BY <1>8 DEF RemoveThen
  <2> QED BY <2>1, <2>2, <2>3, MovedOne DEF Sweeping
<1>9. CASE Recover \/ SyncPublished \/ SyncMoved \/ SyncRemoved
  <2>1. SyncPacks /\ UNCHANGED <<holds, reaches>> /\ UNCHANGED reader /\ Counted
    BY <1>9 DEF Recover, SyncPublished, SyncMoved, SyncRemoved, Counted, Sweep, Sweeping
  <2>2. \A n \in Pack : pack'[n].now = pack[n].now
    BY <1>0, <2>1, PacksSynced
  <2> QED BY <2>1, <2>2, MovedNone
<1>10. CASE PlaceName \/ RetireName \/ Finish \/ Delete \/ SyncDelete \/ KeepNothing \/ EndCollect
  <2>1. UNCHANGED <<pack, holds, reaches>> /\ UNCHANGED reader /\ Counted
    BY <1>10
    DEF PlaceName, RetireName, Finish, Delete, SyncDelete, KeepNothing, EndCollect, Garbage, store,
        writer, Counted, Sweep, Sweeping
  <2> QED BY <2>1, MovedNone
<1> QED BY <1>1, <1>2, <1>3, <1>4, <1>5, <1>6, <1>7, <1>8, <1>9, <1>10 DEF Write, Publish, Collect

\* But for a new name, nothing comes to be reached; but for its placing, no name comes.
LEMMA HolderKeeps ==
  ASSUME Base, Write, pc' # "pack" \/ pc # "idle" \/ jnl # None
  PROVE  /\ UNCHANGED reaches /\ jnl' \in {jnl, None}
         /\ pc = "name" \/ Named' \subseteq Named
         /\ pc = "name" => UNCHANGED <<pack, holds>> /\ Named' \subseteq Named \cup {jnl}
<1> USE DEF Goto, Idle
<1>0. NameType
  BY DEF Base, TypeOK
<1>1. ASSUME NEW n \in Name, Record(n) \/ Snapshot(n) PROVE FALSE
  BY <1>1, Bringing DEF Base
<1>2. CASE Recover \/ SyncPublished \/ SyncDelete
  <2>1. SyncNames /\ UNCHANGED <<reaches, jnl>> /\ pc # "name"
    BY <1>2 DEF Recover, SyncPublished, SyncDelete
  <2>2. Named' = Named
    BY <1>0, <2>1, NamesSynced DEF Named
  <2> QED BY <2>1, <2>2
<1>3. CASE RetireName \/ Delete
  <2>1. PICK h \in Name : name' = [name EXCEPT ![h] = SetName(@, FALSE)]
    BY <1>3 DEF RetireName, Delete, Base, TypeOK, Named
  <2>2. UNCHANGED <<reaches, jnl>> /\ pc # "name"
    BY <1>3 DEF RetireName, Delete
  <2>3. ~name'[h].now /\ \A m \in Name \ {h} : name'[m] = name[m]
    BY <1>0, <2>1, OneName
  <2>4. Named' \subseteq Named
    BY <2>3 DEF Named
  <2> QED BY <2>2, <2>4
<1>4. CASE PlaceName
  <2>1. UNCHANGED <<reaches, jnl, pack, holds>> /\ pc = "name"
    BY <1>4 DEF PlaceName
  <2>2. jnl \in Name
    BY <2>1, Excluded DEF Publishing
  <2>3. CASE name' = name
    BY <2>1, <2>3 DEF Named
  <2>4. CASE name' = [name EXCEPT ![jnl] = SetName(@, TRUE)]
    <3>1. \A m \in Name \ {jnl} : name'[m] = name[m]
      BY <1>0, <2>2, <2>4, OneName
    <3> QED BY <2>1, <3>1 DEF Named
  <2> QED BY <1>4, <2>3, <2>4 DEF PlaceName
<1>5. CASE PlacePack \/ PlaceIdx \/ Finish \/ WriteKept \/ KeepNothing \/ MovePack \/ MoveIdx \/ SyncMoved
            \/ RemoveIndex \/ RemoveThen \/ SyncRemoved \/ EndCollect
  <2>1. UNCHANGED <<reaches, name>> /\ jnl' \in {jnl, None} /\ pc # "name"
    BY <1>5
    DEF PlacePack, PlaceIdx, Finish, WriteKept, KeepNothing, MovePack, MoveIdx, SyncMoved, RemoveIndex,
        RemoveThen, SyncRemoved, EndCollect, Garbage, store
  <2> QED BY <2>1 DEF Named
<1> QED BY <1>1, <1>2, <1>3, <1>4, <1>5 DEF Write, Publish, Collect

\* What is stored stays stored, but where an index is removed.
LEMMA StoredGrows ==
  ASSUME Base, Moved, pc \notin Sweeping \/ pc' \notin Sweeping
  PROVE  Stored \subseteq Stored'
BY DEF Moved, Stored, Visible

\* What is not stored and not about to be published does not come to be stored.
LEMMA StoredStays ==
  ASSUME Base, Fulfilled, Moved, NEW o, o \notin Stored,
         \A n \in Name : n = jnl /\ ~pack[n].now.idx => o \notin holds[n]
  PROVE  o \notin Stored'
<1> SUFFICES ASSUME NEW n \in Visible', o \in holds'[n] PROVE FALSE
  BY DEF Stored
<1>1. n \in Pack /\ holds'[n] = holds[n]
  BY DEF Visible, Moved
<1>2. n \notin Visible
  BY <1>1 DEF Stored
<1>3. CASE n = jnl /\ n \in Name
  BY <1>1, <1>2, <1>3 DEF Visible
<1>4. CASE holds[n] = Reachable
  BY <1>1, <1>4 DEF Fulfilled
<1> QED BY <1>2, <1>3, <1>4 DEF Moved

LEMMA FulfilledKept ==
  ASSUME Base, Fulfilled, Write
  PROVE  Fulfilled'
<1>0. Base' /\ Moved
  BY BaseKept, HolderMoves DEF Next
<1>1. ASSUME NEW n \in Name, Record(n) \/ Snapshot(n) PROVE Fulfilled'
  <2>1. /\ holds'[n] \in {{}, {n}} /\ \A q \in Pack \ {n} : holds'[q] = holds[q]
        /\ reaches[n] = {} /\ \A m \in Name \ {n} : reaches'[m] = reaches[m]
        /\ reaches'[n] # {} /\ reaches'[n] \subseteq Stored \cup holds'[n] \cup
                                 UNION {reaches[m] : m \in Named \ snapshots}
        /\ jnl' = n /\ UNCHANGED name /\ pc = "idle" /\ pc' = "pack"
    BY <1>1, Bringing DEF Base
  <2>2. reaches'[n] \subseteq Stored \cup holds'[n]
    <3>1. UNION {reaches[m] : m \in Named \ snapshots} \subseteq Stored
      BY DEF Fulfilled, Reachable
    <3> QED BY <2>1, <3>1
  <2>3. Stored \subseteq Stored'
    BY <1>0, <2>1, StoredGrows DEF Sweeping
  <2>4. \A o \in Stored : o \in Name /\ reaches[o] # {}
    BY DEF Fulfilled, Stored, Visible, Base, TypeOK, Object, Name
  <2>5. \A o \in Name : reaches[o] # {} => reaches'[o] # {}
    BY <2>1
  <2>6. \A m \in Name : holds'[m] \subseteq {m}
    BY <2>1, Sets DEF Fulfilled
  <2>7. \A m \in Name : \A o \in reaches'[m] : reaches'[o] # {}
    <3> SUFFICES ASSUME NEW m \in Name, NEW o \in reaches'[m] PROVE reaches'[o] # {}
      OBVIOUS
    <3>1. CASE m = n
      BY <2>1, <2>2, <2>4, <2>5, <3>1
    <3>2. CASE m # n
      BY <2>1, <2>5, <3>2, Sets DEF Fulfilled, Base, TypeOK
    <3> QED BY <3>1, <3>2
  <2>8. \A q \in Pack : \A o \in holds'[q] : reaches'[o] # {}
    <3> SUFFICES ASSUME NEW q \in Pack, NEW o \in holds'[q] PROVE reaches'[o] # {}
      OBVIOUS
    <3>1. CASE q = n
      BY <2>1, <3>1
    <3>2. CASE q # n
      BY <2>1, <2>5, <3>2, Sets DEF Fulfilled, Base, TypeOK
    <3> QED BY <3>1, <3>2
  <2>9. Reachable' \subseteq Stored'
    <3>1. n \notin Named
      <4>1. name[n] = Durable(FALSE)
        BY <2>1 DEF Base, Unmade
      <4> QED BY <4>1 DEF Named, Durable
    <3>2. Reachable' \subseteq Reachable
      BY <2>1, <3>1 DEF Reachable, Named
    <3> QED BY <2>3, <3>2 DEF Fulfilled
  <2>10. holds'[n] \cap Stored' = {}
    <3> SUFFICES ASSUME n \in Stored' PROVE FALSE
      BY <2>1
    <3>1. PICK q \in Visible' : n \in holds'[q]
      BY DEF Stored
    <3>2. q \in Pack /\ n \in holds[q]
      BY <1>0, <3>1 DEF Visible, Moved
    <3> QED BY <2>1, <3>2 DEF Fulfilled
  <2> QED BY <2>1, <2>2, <2>3, <2>6, <2>7, <2>8, <2>9, <2>10 DEF Fulfilled
<1>2. CASE \A n \in Name : ~(Record(n) \/ Snapshot(n))
  <2>1. pc' # "pack" \/ pc # "idle" \/ jnl # None
    BY <1>2
    DEF Write, Publish, Recover, PlacePack, PlaceIdx, PlaceName, RetireName, SyncPublished, Finish,
        Delete, SyncDelete, Collect, WriteKept, KeepNothing, MovePack, MoveIdx, SyncMoved, RemoveIndex,
        RemoveThen, SyncRemoved, EndCollect, Garbage, Goto, Idle, Sweep, writer
  <2>2. /\ UNCHANGED reaches /\ jnl' \in {jnl, None}
        /\ pc = "name" \/ Named' \subseteq Named
        /\ pc = "name" => UNCHANGED <<pack, holds>> /\ Named' \subseteq Named \cup {jnl}
    BY <2>1, HolderKeeps
  <2>3. UNCHANGED holds \/ WriteKept
    BY <1>2
    DEF Write, Publish, Recover, PlacePack, PlaceIdx, PlaceName, RetireName, SyncPublished, Finish,
        Delete, SyncDelete, Collect, KeepNothing, MovePack, MoveIdx, SyncMoved, RemoveIndex,
        RemoveThen, SyncRemoved, EndCollect, store
  <2>4. /\ \A n \in Name : holds'[n] = holds[n]
        /\ \A n \in Pack : holds'[n] = holds[n] \/ holds'[n] = Reachable
    <3>1. CASE WriteKept
      <4>1. /\ at' \in Pack \ Name /\ holds'[at'] = Reachable
            /\ \A q \in Pack \ {at'} : holds'[q] = holds[q]
        BY <3>1, Collected DEF Base
      <4> QED BY <4>1, Sets
    <3> QED BY <2>3, <3>1
  <2>5. \A o \in Reachable : reaches[o] # {}
    BY DEF Fulfilled, Reachable, Named
  <2>6. /\ \A n \in Name : holds'[n] \subseteq {n}
        /\ \A n \in Name : \A o \in reaches'[n] : reaches'[o] # {}
        /\ \A n \in Pack : \A o \in holds'[n] : reaches'[o] # {}
    BY <2>2, <2>4, <2>5 DEF Fulfilled
  <2>7. Reachable' \subseteq Stored'
    <3>1. CASE pc = "name"
      <4>1. jnl \in Name /\ jnl \in Pack /\ jnl # None
        BY <3>1, Excluded, Sets DEF Publishing
      <4>2. holds[jnl] \subseteq Stored
        BY <3>1, <4>1 DEF Base, Placed, Stored, Visible
      <4>3. Reachable' \subseteq Reachable \cup reaches[jnl]
        BY <2>2, <3>1 DEF Reachable
      <4>4. Reachable' \subseteq Stored
        BY <4>1, <4>2, <4>3 DEF Fulfilled
      <4>5. Stored' = Stored
        BY <2>2, <3>1 DEF Stored, Visible
      <4> QED BY <4>4, <4>5
    <3>2. CASE pc \in Sweeping /\ pc' \in Sweeping
      BY <1>0, <3>2 DEF Base, Collecting, Stored
    <3>3. CASE pc # "name" /\ (pc \notin Sweeping \/ pc' \notin Sweeping)
      <4>1. Stored \subseteq Stored'
        BY <1>0, <3>3, StoredGrows
      <4>2. Reachable' \subseteq Reachable
        BY <2>2, <3>3 DEF Reachable
      <4> QED BY <4>1, <4>2 DEF Fulfilled
    <3> QED BY <3>1, <3>2, <3>3
  <2>8. ASSUME NEW n \in Name, n = jnl'
        PROVE  /\ reaches'[n] \subseteq Stored' \cup holds'[n]
               /\ ~pack'[n].now.idx => holds'[n] \cap Stored' = {}
    <3>1. n = jnl /\ pc \notin Sweeping /\ n \in Pack
      BY <2>2, <2>8, Excluded, Sets DEF Sweeping, Publishing
    <3>2. Stored \subseteq Stored' /\ Visible \subseteq Visible'
      BY <1>0, <3>1, StoredGrows DEF Moved
    <3>3. ASSUME ~pack'[n].now.idx, NEW o \in holds[n] PROVE o \notin Stored'
      <4>1. n \notin Visible /\ ~pack[n].now.idx
        BY <3>1, <3>2, <3>3 DEF Visible
      <4> SUFFICES ASSUME NEW q \in Visible', o \in holds'[q] PROVE FALSE
        BY DEF Stored
      <4>2. q \in Pack /\ holds'[q] = holds[q] /\ q # n
        BY <1>0, <3>3 DEF Visible, Moved
      <4>3. o \notin Stored
        BY <3>1, <3>3, <4>1 DEF Fulfilled
      <4>4. q \notin Visible
        BY <4>2, <4>3 DEF Stored
      <4>5. holds[q] = Reachable
        BY <1>0, <3>1, <4>2, <4>4 DEF Moved
      <4> QED BY <4>2, <4>3, <4>5 DEF Fulfilled
    <3> QED BY <2>2, <2>4, <3>1, <3>2, <3>3 DEF Fulfilled
  <2> QED BY <2>6, <2>7, <2>8 DEF Fulfilled
<1> QED BY <1>1, <1>2

-----------------------------------------------------------------------------
(* What a reader finds                                                     *)

\* What the journal is to place is new, or was to be placed before.
LEMMA Publishes ==
  ASSUME Base, Write, NEW n \in Name, n = jnl'
  PROVE  \/ reaches[n] = {} /\ holds'[n] \subseteq {n}
         \/ n = jnl /\ holds'[n] = holds[n]
<1>1. CASE Record(n) \/ Snapshot(n)
  BY <1>1, Bringing DEF Base
<1>2. ASSUME NEW m \in Name, Record(m) \/ Snapshot(m) PROVE m = n
  BY <1>2, Bringing DEF Base
<1>3. CASE WriteKept
  <2>1. at' \in Pack \ Name /\ jnl' = jnl /\ \A q \in Pack \ {at'} : holds'[q] = holds[q]
    BY <1>3, Collected DEF Base
  <2> QED BY <2>1, Sets
<1>4. CASE \/ Publish \/ Delete \/ SyncDelete \/ KeepNothing \/ MovePack \/ MoveIdx \/ SyncMoved
           \/ RemoveIndex \/ RemoveThen \/ SyncRemoved \/ EndCollect
  BY <1>4, Sets
  DEF Publish, Recover, PlacePack, PlaceIdx, PlaceName, RetireName, SyncPublished, Finish,
      Delete, SyncDelete, KeepNothing, MovePack, MoveIdx, SyncMoved, RemoveIndex,
      RemoveThen, SyncRemoved, EndCollect, store
<1> QED BY <1>1, <1>2, <1>3, <1>4 DEF Write, Collect

LEMMA HolderPasses ==
  ASSUME Base, Fulfilled, ReaderType, Sought, Write
  PROVE  ReaderType' /\ Sought'
<1>1. Moved
  BY HolderMoves
<1>2. UNCHANGED <<rpc, listing, seen, toload, fresh, want, knew>>
  BY <1>1 DEF Moved, reader
<1>3. ReaderType'
  BY <1>2 DEF ReaderType
<1>4. CASE want = None
  <2>1. swept = 0 /\ swept' = 0
    BY <1>1, <1>4 DEF Sought, Moved, Counted
  <2> QED BY <1>2, <1>3, <1>4, <2>1 DEF Sought
<1>5. ASSUME want # None PROVE Sought'
  <2>0. Seeking
    BY <1>5 DEF Sought
  <2>1. /\ swept \in 0..2 /\ swept' \in 0..2 /\ swept' >= swept
        /\ pc \notin Sweeping /\ pc' \in Sweeping => swept' = IF swept = 0 THEN 1 ELSE 2
    <3>1. swept \in 0..2
      BY <2>0 DEF Seeking
    <3>2. Min({2, swept + 1}) = IF swept = 0 THEN 1 ELSE 2
      BY <3>1, Counting
    <3>3. Counted
      BY <1>1 DEF Moved
    <3> QED BY <1>5, <3>1, <3>2, <3>3 DEF Counted
  <2>2. ASSUME Afield, pc \notin Sweeping \/ pc' \notin Sweeping PROVE Afield'
    BY <1>1, <1>2, <2>2 DEF Afield, Ahead, Moved, Visible
  <2>3. ASSUME want \notin Stored PROVE want \notin Stored'
    BY <1>1, <2>0, <2>3, StoredStays DEF Seeking
  <2>4. reaches'[want] # {} /\ want \in Object
    BY <1>1, <2>0, Sets DEF Seeking, Moved
  <2>5. ASSUME NEW n \in Name, n = jnl', ~pack'[n].now.idx PROVE want \notin holds'[n]
    <3>1. CASE reaches[n] = {} /\ holds'[n] \subseteq {n}
      BY <2>0, <3>1 DEF Seeking
    <3>2. CASE n = jnl /\ holds'[n] = holds[n]
      <4>1. pc \notin Sweeping /\ n \in Pack
        BY <3>2, Excluded, Sets DEF Publishing, Sweeping
      <4>2. ~pack[n].now.idx
        BY <1>1, <2>5, <4>1 DEF Moved, Visible
      <4> QED BY <2>0, <3>2, <4>2 DEF Seeking
    <3> QED BY <2>5, <3>1, <3>2, Publishes
  <2>6. ASSUME swept' = 0 PROVE pc' \notin Sweeping /\ swept = 0 /\ pc \notin Sweeping
    BY <2>0, <2>1, <2>6 DEF Seeking
  <2>7. ASSUME rpc = "try", knew, swept' = 0 PROVE Present(want)'
    <3>1. PICK n \in listing : want \in holds[n] /\ pack[n].now.pack
      BY <2>0, <2>6, <2>7 DEF Seeking, Present, Listed
    <3>2. n \in Pack
      BY DEF ReaderType
    <3>3. holds'[n] = holds[n] /\ pack'[n].now.pack
      BY <1>1, <2>6, <2>7, <3>1, <3>2 DEF Moved
    <3> QED BY <1>2, <3>1, <3>3 DEF Present, Listed
  <2>8. ASSUME rpc \in Looking, knew, swept' = 1
        PROVE  IF pc' \in Sweeping THEN \A n \in Visible' : want \in holds'[n] => Ahead(n)'
                                   ELSE want \in Stored' => Afield'
    <3>1. swept = 1 /\ (pc' \in Sweeping => pc \in Sweeping)
      BY <2>0, <2>1, <2>8 DEF Seeking
    <3>2. CASE pc' \in Sweeping
      <4>1. \A n \in Visible : want \in holds[n] => Ahead(n)
        BY <2>0, <2>8, <3>1, <3>2 DEF Seeking
      <4>2. \A n \in Visible' : n \in Visible /\ holds'[n] = holds[n]
        BY <1>1, <3>1, <3>2 DEF Moved, Visible
      <4> QED BY <1>2, <3>2, <4>1, <4>2 DEF Ahead
    <3>3. CASE pc' \notin Sweeping
      <4> SUFFICES ASSUME want \in Stored PROVE Afield'
        BY <2>3, <3>3
      <4>1. Afield
        BY <2>0, <2>8, <3>1 DEF Seeking, Afield, Stored
      <4> QED BY <2>2, <3>3, <4>1
    <3> QED BY <3>2, <3>3
  <2>9. rpc = "missing" => swept' = 2 \/ (swept' = 1 /\ ~knew) \/ want \notin Stored'
    BY <2>0, <2>1, <2>3 DEF Seeking
  <2>10. rpc \in Looking \cup {"missing"} /\ knew => swept' # 0
    BY <2>0, <2>6 DEF Seeking
  <2>11. swept' = 0 => pc' \notin Sweeping /\ (rpc \in Looking \cup {"try"} => Afield')
    BY <2>0, <2>2, <2>6 DEF Seeking
  <2>12. rpc \notin {"opening", "idle"}
    BY <1>5 DEF Sought
  <2>13. Seeking'
    BY <1>2, <2>1, <2>4, <2>5, <2>7, <2>8, <2>9, <2>10, <2>11 DEF Seeking
  <2> QED BY <1>2, <1>5, <2>12, <2>13 DEF Sought
<1> QED BY <1>3, <1>4, <1>5

LEMMA ReaderLooks ==
  ASSUME Base, Bare = {}, Fulfilled, ReaderType, Sought, Read
  PROVE  ReaderType' /\ Sought'
<1>1. UNCHANGED <<pack, name, holds, reaches, jnl, pc>>
  BY ReadRests DEF Rests, store, writer
<1>2. Visible' = Visible /\ Stored' = Stored
  BY <1>1 DEF Visible, Stored
<1>3. \A n \in Visible : pack[n].now.pack /\ pack[n].now.idx /\ n \in Pack
  BY DEF Visible, Bare
<1>4. None \notin Object /\ Object = Name
  BY Sets
<1>5. CASE Enumerate
  <2>1. ReaderType'
    BY <1>1, <1>5 DEF Enumerate, ReaderType, Visible
  <2>2. /\ UNCHANGED <<listing, toload, fresh, want, knew, swept>>
        /\ rpc \in {"opening", "missed"} /\ rpc' = "stat" /\ seen'.idxs = Visible
    BY <1>5 DEF Enumerate
  <2>3. \A n \in Visible : Ahead(n)'
    BY <2>2 DEF Ahead
  <2>4. ASSUME want # None PROVE Seeking'
    <3>1. Seeking /\ rpc = "missed"
      BY <2>2, <2>4 DEF Sought
    <3>2. Afield => Afield'
      BY <1>1, <1>2, <2>2, <2>3 DEF Afield
    <3>3. want \in Stored => Afield'
      BY <1>1, <1>2, <2>2, <2>3 DEF Afield, Stored
    <3> HIDE DEF Afield
    <3> QED BY <1>1, <1>2, <2>2, <2>3, <3>1, <3>2, <3>3 DEF Seeking, Looking
  <2> QED BY <2>1, <2>2, <2>4 DEF Sought
<1>6. CASE StatVanished
  <2>1. UNCHANGED <<listing, seen, toload, fresh, want, knew, swept>> /\ rpc = "stat" /\ rpc' = "failed"
    BY <1>6 DEF StatVanished, Answer
  <2> QED BY <1>1, <1>2, <2>1 DEF ReaderType, Sought, Seeking, Looking
<1>7. CASE Stat
  <2>1. UNCHANGED <<listing, seen, want, knew, swept>> /\ rpc = "stat"
    BY <1>7 DEF Stat, Answer
  <2>2. CASE rpc' = "corrupt" /\ UNCHANGED <<toload, fresh>>
    BY <1>1, <1>2, <2>1, <2>2 DEF ReaderType, Sought, Seeking, Looking
  <2>3. CASE rpc' = "load" /\ toload' = seen.idxs \ listing /\ fresh' = seen.idxs \cap listing
    <3>1. ReaderType'
      BY <2>1, <2>3 DEF ReaderType
    <3>2. \A n \in Pack : Ahead(n) => Ahead(n)'
      BY <2>1, <2>3 DEF Ahead
    <3>3. Afield => Afield'
      BY <1>1, <1>2, <1>3, <2>1, <3>2 DEF Afield
    <3>4. ASSUME want # None PROVE Seeking'
      BY <1>1, <1>2, <1>3, <2>1, <2>3, <3>2, <3>3, <3>4 DEF Sought, Seeking, Looking
    <3> QED BY <2>1, <2>3, <3>1, <3>4 DEF Sought
  <2> QED BY <1>7, <2>2, <2>3 DEF Stat, Answer
<1>8. ASSUME NEW q \in toload, Load(q) PROVE ReaderType' /\ Sought'
  <2>1. UNCHANGED <<listing, seen, want, knew, swept>> /\ rpc = "load" /\ q \in Pack
    BY <1>8 DEF Load, Answer, ReaderType
  <2>2. CASE rpc' = "failed" /\ UNCHANGED <<toload, fresh>>
    BY <1>1, <1>2, <2>1, <2>2 DEF ReaderType, Sought, Seeking, Looking
  <2>3. CASE /\ UNCHANGED rpc /\ toload' = toload \ {q}
             /\ fresh' = IF pack[q].now.idx THEN fresh \cup {q} ELSE fresh
    <3>1. ReaderType'
      BY <2>1, <2>3 DEF ReaderType
    <3>2. \A n \in Visible : Ahead(n) => Ahead(n)'
      BY <1>3, <2>1, <2>3 DEF Ahead
    <3>3. Afield => Afield'
      BY <1>1, <1>2, <2>1, <3>2 DEF Afield
    <3>4. ASSUME want # None PROVE Seeking'
      BY <1>1, <1>2, <2>1, <2>3, <3>2, <3>3, <3>4 DEF Sought, Seeking, Looking
    <3> QED BY <2>1, <2>3, <3>1, <3>4 DEF Sought
  <2> QED BY <1>8, <2>2, <2>3 DEF Load, Answer
<1>9. CASE Loaded
  <2>1. /\ UNCHANGED <<toload, want, knew, swept>> /\ rpc = "load" /\ toload = {} /\ fresh' = {}
        /\ listing' = fresh /\ seen'.idxs = {} /\ rpc' = IF want = None THEN "idle" ELSE "again"
    BY <1>9 DEF Loaded, NoneSeen
  <2>2. ReaderType'
    BY <2>1 DEF ReaderType
  <2>3. ASSUME want # None PROVE Seeking'
    <3>1. \A n : Ahead(n) => Ahead(n)'
      BY <2>1, <2>3 DEF Ahead
    <3>2. Afield => Afield'
      BY <1>1, <1>2, <2>1, <3>1 DEF Afield
    <3> QED BY <1>1, <1>2, <2>1, <2>3, <3>1, <3>2 DEF Sought, Seeking, Looking
  <2> QED BY <2>1, <2>2, <2>3 DEF Sought
<1>10. CASE Pick
  <2>1. /\ UNCHANGED <<listing, seen, toload, fresh>> /\ rpc' = "try"
        /\ swept' = IF pc \in Sweeping THEN 1 ELSE 0
    BY <1>10 DEF Pick, Sweeping
  <2>2. PICK n \in Named : want' \in reaches[n] /\ knew' = Present(want')
    BY <1>10 DEF Pick
  <2>3. ReaderType'
    BY <2>1 DEF ReaderType
  <2>4. want' \in Object /\ want' # None /\ want' \in Stored /\ reaches[want'] # {}
    BY <1>4, <2>2 DEF Fulfilled, Reachable, Named, Base, TypeOK
  <2>5. Afield'
    BY <1>1, <1>2, <2>1, <2>4 DEF Afield, Ahead, Stored
  <2>6. knew' => Present(want)'
    BY <1>1, <2>1, <2>2 DEF Present, Listed
  <2>7. \A m \in Name : m = jnl /\ ~pack[m].now.idx => want' \notin holds[m]
    BY <2>4 DEF Fulfilled
  <2>8. Seeking'
    BY <1>1, <1>2, <2>1, <2>4, <2>5, <2>6, <2>7 DEF Seeking, Looking
  <2> QED BY <2>1, <2>3, <2>4, <2>8 DEF Sought
<1>11. CASE Try
  <2>1. UNCHANGED <<listing, seen, toload, fresh, want, knew, swept>> /\ rpc = "try"
        /\ rpc' = IF Present(want) THEN "found" ELSE "missed"
    BY <1>11 DEF Try, Answer
  <2>2. ASSUME want # None PROVE Seeking'
    <3>1. rpc' = "missed" => \A n : Ahead(n)'
      BY DEF Ahead
    <3>2. rpc' = "missed" /\ (Afield \/ want \in Stored) => Afield'
      BY <1>1, <1>2, <2>1, <3>1 DEF Afield, Stored
    <3> QED BY <1>1, <1>2, <2>1, <2>2, <3>1, <3>2 DEF Sought, Seeking, Looking
  <2> QED BY <2>1, <2>2 DEF ReaderType, Sought
<1>12. CASE TryAgain
  <2>1. UNCHANGED <<listing, seen, toload, fresh, want, knew, swept>> /\ rpc = "again"
    BY <1>12 DEF TryAgain, Answer
  <2>2. rpc' \in {"found", "failed"} \/ (rpc' = "missing" /\ Listed(want) = {})
    BY <1>12 DEF TryAgain, Answer
  <2>3. ASSUME want # None PROVE Seeking'
    <3>1. Afield => Listed(want) # {}
      BY <2>1 DEF Afield, Ahead, Listed
    <3>2. Listed(want) = {} /\ (\A n \in Visible : want \in holds[n] => Ahead(n)) => want \notin Stored
      BY <2>1 DEF Ahead, Listed, Stored
    <3> QED BY <1>1, <1>2, <2>1, <2>2, <2>3, <3>1, <3>2 DEF Sought, Seeking, Looking
  <2> QED BY <2>1, <2>2, <2>3 DEF ReaderType, Sought
<1>13. CASE Ask
  <2>1. /\ want' = None /\ swept' = 0 /\ toload' = {} /\ fresh' = {} /\ seen'.idxs = {}
        /\ listing' = listing \/ listing' = {}
    BY <1>13 DEF Ask, NoneSeen
  <2> QED BY <2>1 DEF ReaderType, Sought
<1> QED BY <1>5, <1>6, <1>7, <1>8, <1>9, <1>10, <1>11, <1>12, <1>13 DEF Read

\* What is so where nobody is killed (see MCPacks).
ReadersKnow == Base /\ (kind = "readers" => Bare = {} /\ Fulfilled /\ ReaderType /\ Sought)

\* For every number of names and of collections: a reader, who holds no lock, is told
\* that an object of history is missing only if two collections passed it, or one and
\* it knew no pack of it that was there.
THEOREM ReadersFindAll == PacksSpec => []ReadersFind
<1>1. ASSUME PacksInit PROVE ReadersKnow
  <2>1. Base /\ Bare = {}
    BY <1>1, Begins DEF PacksInit
  <2>2. PICK first \in SUBSET (Name \cap {1}) : InitFrom(first)
    BY <1>1 DEF PacksInit, Init
  <2>3. Fulfilled
    <3>1. \A n \in first : n \in Pack /\ Durable(Published).now = Published /\ n \in holds[n]
      BY <2>2, DurableFacts, Fixed, Sets DEF InitFrom
    <3>2. \A n \in first : n \in Visible
      BY <2>2, <3>1, Fixed DEF InitFrom, Visible
    <3>3. first \subseteq Stored
      BY <3>1, <3>2 DEF Stored
    <3>4. Reachable \subseteq first
      BY <2>2 DEF Reachable, InitFrom, Named
    <3> QED BY <2>2, <3>3, <3>4, Sets DEF InitFrom, Fulfilled
  <2>4. ReaderType /\ Sought
    BY <2>2 DEF InitFrom, ReaderType, Sought, NoneSeen
  <2> QED BY <2>1, <2>3, <2>4 DEF ReadersKnow
<1>2. ASSUME ReadersKnow, [PacksNext]_packsVars PROVE ReadersKnow'
  <2>1. /\ UNCHANGED kind
        /\ \/ kind = "crashes" /\ (Next \/ Rests)
           \/ kind = "readers" /\ (Write \/ Read)
           \/ UNCHANGED vars
    BY <1>2 DEF PacksNext, packsVars, Next
  <2>2. Base'
    <3>1. CASE Next \/ Rests
      BY <1>2, <3>1, BaseKept DEF ReadersKnow
    <3> QED BY <2>1, <3>1 DEF Next, Rests, vars
  <2>3. ASSUME kind = "readers" PROVE (Bare = {} /\ Fulfilled /\ ReaderType /\ Sought)'
    <3>1. Bare = {} /\ Fulfilled /\ ReaderType /\ Sought /\ Base
      BY <1>2, <2>3 DEF ReadersKnow
    <3>2. CASE Write
      BY <3>1, <3>2, NoneBare, FulfilledKept, HolderPasses
    <3>3. CASE Read
      <4>1. UNCHANGED <<pack, name, holds, reaches, jnl>>
        BY <3>3, ReadRests DEF Rests, store
      <4>2. Bare' = {} /\ Fulfilled'
        BY <3>1, <4>1 DEF Bare, Fulfilled, Reachable, Named, Stored, Visible
      <4> QED BY <3>1, <3>3, <4>2, ReaderLooks
    <3>4. CASE UNCHANGED vars
      <4>1. UNCHANGED <<pack, name, holds, reaches, jnl, pc, swept>> /\ UNCHANGED reader
        BY <3>4 DEF vars, store, writer
      <4>2. Bare' = {} /\ Fulfilled'
        BY <3>1, <4>1 DEF Bare, Fulfilled, Reachable, Named, Stored, Visible
      <4>3. ReaderType' /\ Sought'
        BY <3>1, <4>1
        DEF reader, ReaderType, Sought, Seeking, Afield, Ahead, Present, Listed, Stored, Visible
      <4> QED BY <4>2, <4>3
    <3> QED BY <2>1, <2>3, <3>2, <3>3, <3>4
  <2> QED BY <2>1, <2>2, <2>3 DEF ReadersKnow
<1>3. ASSUME ReadersKnow PROVE ReadersFind
  <2> SUFFICES ASSUME kind = "readers", rpc = "missing", want \in Reachable
               PROVE  swept = 2 \/ (swept = 1 /\ ~knew)
    BY DEF ReadersFind, NoFalseMiss
  <2>1. want # None /\ want \in Stored
    BY <1>3, Sets DEF ReadersKnow, Fulfilled, Reachable, Named, Base, TypeOK
  <2> QED BY <1>3, <2>1 DEF ReadersKnow, Sought, Seeking
<1> QED BY <1>1, <1>2, <1>3, PTL DEF PacksSpec

-----------------------------------------------------------------------------
(* Damaged history: what is reached                                        *)

Made == [parents : SUBSET Nat, holds : Contents, begins : BOOLEAN]

RevisionsType ==
  /\ Len(revisions) <= MaxRevision
  /\ revisions \in Seq(Made)
  /\ \A n \in DOMAIN revisions : revisions[n].parents \subseteq 1..(n-1)

LEMMA LeastNat ==
  ASSUME NEW S \in SUBSET Nat, S # {}
  PROVE  \E m \in S : \A q \in S : m <= q
<1>1. PICK n \in S : \A m \in S : <<m, n>> \notin OpToRel(<, Nat)
  BY NatLessThanWellFounded, WFMin
<1>2. ASSUME NEW m \in S PROVE n <= m
  <2>1. ~(m < n)
    <3>1. SUFFICES ASSUME m < n PROVE <<m, n>> \in OpToRel(<, Nat)
      BY <1>1
    <3>2. <<m, n>> \in Nat \X Nat /\ <<m, n>>[1] < <<m, n>>[2]
      BY <3>1
    <3> QED BY <3>2 DEF OpToRel
  <2> QED BY <2>1
<1> QED BY <1>2

\* One step along the names of the objects in S.
Along1(S, within) == S \cup ((UNION {NamesOf(o) : o \in S}) \cap within)

LEMMA Along1Has ==
  ASSUME NEW S, NEW within, NEW x
  PROVE  x \in Along1(S, within) <=> x \in S \/ (x \in within /\ \E o \in S : x \in NamesOf(o))
<1>1. x \in UNION {NamesOf(o) : o \in S} <=> \E o \in S : x \in NamesOf(o)
  OBVIOUS
<1> QED BY <1>1 DEF Along1

Reaching(f, from, within, n) ==
  f = [i \in 0..n |-> IF i = 0 THEN from \cap within
                      ELSE f[i - 1] \cup ((UNION {NamesOf(o) : o \in f[i - 1]}) \cap within)]

LEMMA ReachingSteps ==
  ASSUME NEW f, NEW from, NEW within, NEW n \in Nat
  PROVE  Reaching(f, from, within, n) <=>
           /\ f = [i \in 0..n |-> f[i]] /\ f[0] = from \cap within
           /\ \A i \in 0..(n-1) : f[i+1] = Along1(f[i], within)
<1>1. ASSUME Reaching(f, from, within, n)
      PROVE  /\ f = [i \in 0..n |-> f[i]] /\ f[0] = from \cap within
             /\ \A i \in 0..(n-1) : f[i+1] = Along1(f[i], within)
  <2>1. \A i \in 0..n : f[i] = IF i = 0 THEN from \cap within ELSE Along1(f[i - 1], within)
    BY <1>1 DEF Reaching, Along1
  <2>2. f[0] = from \cap within
    BY <2>1
  <2>3. ASSUME NEW i \in 0..(n-1) PROVE f[i+1] = Along1(f[i], within)
    <3>1. i + 1 \in 0..n /\ i + 1 # 0 /\ (i + 1) - 1 = i
      OBVIOUS
    <3> QED BY <2>1, <3>1
  <2>4. f = [i \in 0..n |-> f[i]]
    BY <1>1 DEF Reaching
  <2> QED BY <2>2, <2>3, <2>4
<1>2. ASSUME f = [i \in 0..n |-> f[i]], f[0] = from \cap within,
             \A i \in 0..(n-1) : f[i+1] = Along1(f[i], within)
      PROVE  Reaching(f, from, within, n)
  <2>1. ASSUME NEW i \in 0..n
        PROVE  f[i] = IF i = 0 THEN from \cap within
                      ELSE f[i - 1] \cup ((UNION {NamesOf(o) : o \in f[i - 1]}) \cap within)
    <3>1. CASE i = 0
      BY <1>2, <3>1
    <3>2. CASE i # 0
      <4>1. i - 1 \in 0..(n-1) /\ (i - 1) + 1 = i
        BY <3>2
      <4> QED BY <1>2, <3>2, <4>1 DEF Along1
    <3> QED BY <3>1, <3>2
  <2>2. f = [i \in 0..n |-> IF i = 0 THEN from \cap within
                            ELSE f[i - 1] \cup ((UNION {NamesOf(o) : o \in f[i - 1]}) \cap within)]
    BY <1>2, <2>1
  <2> QED BY <2>2 DEF Reaching
<1> QED BY <1>1, <1>2

\* The recursion defines a function.
LEMMA ReachingExists ==
  ASSUME NEW from, NEW within, NEW n \in Nat
  PROVE  \E f : Reaching(f, from, within, n)
<1> DEFINE Bad == {m \in Nat : ~ \E f : Reaching(f, from, within, m)}
<1>1. SUFFICES ASSUME Bad # {} PROVE FALSE
  OBVIOUS
<1>2. PICK m \in Bad : \A q \in Bad : m <= q
  BY <1>1, LeastNat
<1>3. CASE m = 0
  <2> DEFINE g == [k \in 0..0 |-> from \cap within]
  <2>1. g = [k \in 0..0 |-> g[k]] /\ g[0] = from \cap within
        /\ \A k \in 0..(0-1) : g[k+1] = Along1(g[k], within)
    OBVIOUS
  <2> HIDE DEF g
  <2>2. Reaching(g, from, within, 0)
    BY <2>1, ReachingSteps
  <2> QED BY <1>2, <1>3, <2>2
<1>4. CASE m # 0
  <2>1. m - 1 \in Nat /\ m - 1 \notin Bad
    BY <1>2, <1>4
  <2>2. PICK f : Reaching(f, from, within, m - 1)
    BY <2>1
  <2> DEFINE g == [k \in 0..m |-> IF k = m THEN Along1(f[m - 1], within) ELSE f[k]]
  <2>3. f[0] = from \cap within /\ \A k \in 0..(m-1-1) : f[k+1] = Along1(f[k], within)
    BY <2>1, <2>2, ReachingSteps
  <2>4. g = [k \in 0..m |-> g[k]] /\ g[0] = from \cap within
    BY <1>4, <2>3
  <2>5. ASSUME NEW k \in 0..(m-1) PROVE g[k+1] = Along1(g[k], within)
    <3>1. CASE k = m - 1
      BY <3>1, <1>4
    <3>2. CASE k # m - 1
      <4>1. k \in 0..(m-1-1) /\ k+1 \in 0..m /\ k+1 # m /\ k # m /\ k \in 0..m
        BY <3>2, <2>1
      <4>2. g[k+1] = f[k+1] /\ g[k] = f[k]
        BY <4>1
      <4> QED BY <2>3, <4>1, <4>2
    <3> QED BY <3>1, <3>2
  <2>6. Reaching(g, from, within, m)
    <3>1. m \in Nat
      BY <1>2
    <3> HIDE DEF g
    <3> QED BY <2>4, <2>5, <3>1, ReachingSteps
  <2> QED BY <1>2, <2>6
<1> QED BY <1>3, <1>4

\* Along(from, within) is where the steps end.
LEMMA AlongSteps ==
  ASSUME NEW from, NEW within
  PROVE  \E f : /\ f[0] = from \cap within /\ Along(from, within) = f[MaxRevision + 1]
                /\ \A i \in 0..MaxRevision : f[i+1] = Along1(f[i], within)
<1> DEFINE f == CHOOSE g : Reaching(g, from, within, MaxRevision + 1)
<1>1. MaxRevision + 1 \in Nat /\ (MaxRevision + 1) - 1 = MaxRevision
  BY LineagesAssumption
<1>2. Reaching(f, from, within, MaxRevision + 1)
  BY <1>1, ReachingExists
<1>3. Along(from, within) = f[MaxRevision + 1]
  BY DEF Along, Reaching
<1> HIDE DEF f
<1> QED BY <1>1, <1>2, <1>3, ReachingSteps

\* It has what it begins with, and no more than what the steps add.
LEMMA AlongLeast ==
  ASSUME NEW from, NEW within
  PROVE  /\ from \cap within \subseteq Along(from, within)
         /\ Along(from, within) \subseteq within
         /\ \A S : (from \cap within \subseteq S /\ \A o \in S : NamesOf(o) \cap within \subseteq S)
                     => Along(from, within) \subseteq S
<1> DEFINE N == MaxRevision + 1
<1>1. PICK f : /\ f[0] = from \cap within /\ Along(from, within) = f[N]
               /\ \A i \in 0..MaxRevision : f[i+1] = Along1(f[i], within)
  BY AlongSteps
<1>2. N \in Nat /\ N - 1 = MaxRevision
  BY LineagesAssumption
<1> HIDE DEF N
<1>3. ASSUME NEW S, from \cap within \subseteq S, \A o \in S : NamesOf(o) \cap within \subseteq S,
             NEW k \in 0..N
      PROVE  f[k] \subseteq S
  <2> DEFINE Bad == {m \in 0..N : ~(f[m] \subseteq S)}
  <2> SUFFICES ASSUME Bad # {} PROVE FALSE
    BY <1>3
  <2>1. PICK m \in Bad : \A q \in Bad : m <= q
    <3>1. Bad \in SUBSET Nat
      BY <1>2
    <3> HIDE DEF Bad
    <3> QED BY <3>1, LeastNat
  <2>2. m # 0
    BY <1>1, <1>3, <2>1
  <2>3. m - 1 \in 0..MaxRevision /\ m - 1 \notin Bad /\ (m - 1) + 1 = m /\ m - 1 \in 0..N
    BY <1>2, <2>1, <2>2
  <2>4. f[m] = Along1(f[m-1], within) /\ f[m-1] \subseteq S
    BY <1>1, <2>3
  <2>5. f[m] \subseteq S
    BY <1>3, <2>4, Along1Has
  <2> QED BY <2>1, <2>5
<1>4. \A k \in 0..MaxRevision : f[k] \subseteq f[k+1]
  BY <1>1, Along1Has
<1>5. from \cap within \subseteq f[N]
  <2> DEFINE Bad == {m \in 0..N : ~(from \cap within \subseteq f[m])}
  <2> SUFFICES ASSUME Bad # {} PROVE FALSE
    BY <1>2
  <2>1. PICK m \in Bad : \A q \in Bad : m <= q
    <3>1. Bad \in SUBSET Nat
      BY <1>2
    <3> HIDE DEF Bad
    <3> QED BY <3>1, LeastNat
  <2>2. m # 0
    BY <1>1, <2>1
  <2>3. m - 1 \in 0..MaxRevision /\ m - 1 \notin Bad /\ (m - 1) + 1 = m /\ m - 1 \in 0..N
    BY <1>2, <2>1, <2>2
  <2> QED BY <1>4, <2>1, <2>3
<1>6. N \in 0..N
  BY <1>2
<1>7. f[N] \subseteq within
  <2>1. ASSUME NEW k \in 0..N PROVE f[k] \subseteq within
    <3>1. from \cap within \subseteq within /\ \A o \in within : NamesOf(o) \cap within \subseteq within
      OBVIOUS
    <3> QED BY <1>3, <3>1
  <2> QED BY <1>6, <2>1
<1>8. ASSUME NEW S, from \cap within \subseteq S, \A o \in S : NamesOf(o) \cap within \subseteq S
      PROVE  f[N] \subseteq S
  BY <1>3, <1>6, <1>8
<1>9. Along(from, within) = f[N]
  BY <1>1
<1> QED BY <1>5, <1>7, <1>8, <1>9

RevisionNames(n) == {Rev(m) : m \in Parents(n)} \cup {Tree(revisions[n].holds)}

\* What the objects are, and what they name.
LEMMA ObjectKinds ==
  ASSUME RevisionsType
  PROVE  \A o \in Everything :
           \/ \E n \in DOMAIN revisions : /\ o = Rev(n)
                                          /\ NamesOf(o) = RevisionNames(n)
           \/ \E s \in Contents : o = Tree(s) /\ NamesOf(o) = Blobs(s)
           \/ \E s \in Contents : o \in Blobs(s) /\ NamesOf(o) = {}
<1> SUFFICES ASSUME NEW o \in Everything
             PROVE  \/ \E n \in DOMAIN revisions : /\ o = Rev(n)
                                          /\ NamesOf(o) = RevisionNames(n)
                    \/ \E s \in Contents : o = Tree(s) /\ NamesOf(o) = Blobs(s)
                    \/ \E s \in Contents : o \in Blobs(s) /\ NamesOf(o) = {}
  OBVIOUS
<1>1. CASE \E n \in DOMAIN revisions : o = Rev(n)
  <2>1. PICK n \in DOMAIN revisions : o = Rev(n)
    BY <1>1
  <2>2. o[1] = "revision" /\ o[2] = n
    BY <2>1 DEF Rev
  <2>3. NamesOf(o) = RevisionNames(n)
    BY <2>2 DEF NamesOf, RevisionNames
  <2> QED BY <2>1, <2>3
<1>2. CASE \E s \in Contents : o = Tree(s)
  <2>1. PICK s \in Contents : o = Tree(s)
    BY <1>2
  <2>2. o[1] = "tree" /\ o[2] = s
    BY <2>1 DEF Tree
  <2>3. NamesOf(o) = Blobs(s)
    BY <2>2 DEF NamesOf
  <2> QED BY <2>1, <2>3
<1>3. CASE \E s \in Contents : o \in Blobs(s)
  <2>1. PICK s \in Contents : o \in Blobs(s)
    BY <1>3
  <2>2. o[1] = "blob"
    BY <2>1 DEF Blobs
  <2>3. NamesOf(o) = {}
    BY <2>2 DEF NamesOf
  <2> QED BY <2>1, <2>3
<1> QED BY <1>1, <1>2, <1>3 DEF Everything

\* An object is marked with its kind.
LEMMA Tags ==
  /\ \A m : Rev(m)[1] = "revision" /\ Rev(m)[2] = m
  /\ \A s : Tree(s)[1] = "tree" /\ Tree(s)[2] = s
  /\ \A s : \A o \in Blobs(s) : o[1] = "blob"
<1>1. \A m : Rev(m)[1] = "revision" /\ Rev(m)[2] = m
  BY DEF Rev
<1>2. \A s : Tree(s)[1] = "tree" /\ Tree(s)[2] = s
  BY DEF Tree
<1>3. \A s : \A o \in Blobs(s) : o[1] = "blob"
  BY DEF Blobs
<1> QED BY <1>1, <1>2, <1>3

LEMMA ObjectsDiffer ==
  /\ \A m, n : Rev(m) = Rev(n) => m = n
  /\ \A m, s : Rev(m) # Tree(s)
  /\ \A m, s : Rev(m) \notin Blobs(s)
  /\ \A s, t : Tree(t) \notin Blobs(s)
  /\ \A s, t : Tree(s) = Tree(t) => s = t
<1>1. "revision" # "tree" /\ "revision" # "blob" /\ "tree" # "blob"
  OBVIOUS
<1> QED BY <1>1, Tags

\* Names lead to older revisions, to trees and to blobs, so the steps reach all there
\* is: along names nothing leads out.
LEMMA AlongClosed ==
  ASSUME RevisionsType, NEW from, NEW within, within \subseteq Everything
  PROVE  \A o \in Along(from, within) : NamesOf(o) \cap within \subseteq Along(from, within)
<1> DEFINE M == MaxRevision
<1>1. PICK f : /\ f[0] = from \cap within /\ Along(from, within) = f[M + 1]
               /\ \A i \in 0..M : f[i+1] = Along1(f[i], within)
  BY AlongSteps
<1>2. M \in Nat /\ \A n \in DOMAIN revisions : n \in 1..M /\ Parents(n) \subseteq 1..(n-1)
  BY LineagesAssumption DEF RevisionsType, Parents
<1> HIDE DEF M
<1>3. ASSUME NEW j \in 0..(M+1), NEW i \in 0..j PROVE f[i] \subseteq f[j]
  <2> DEFINE Bad == {m \in i..(M+1) : ~(f[i] \subseteq f[m])}
  <2> SUFFICES ASSUME Bad # {} PROVE FALSE
    BY <1>2
  <2>1. PICK m \in Bad : \A q \in Bad : m <= q
    <3>1. Bad \in SUBSET Nat
      BY <1>2
    <3> HIDE DEF Bad
    <3> QED BY <3>1, LeastNat
  <2>2. m # i
    BY <2>1
  <2>3. m - 1 \in 0..M /\ m - 1 \notin Bad /\ (m - 1) + 1 = m /\ m - 1 \in i..(M+1)
    BY <1>2, <2>1, <2>2
  <2>4. f[m] = Along1(f[m-1], within) /\ f[i] \subseteq f[m-1]
    BY <1>1, <2>3
  <2> QED BY <2>1, <2>4, Along1Has
<1>4. ASSUME NEW i \in 0..(M+1) PROVE f[i] \subseteq Everything
  BY <1>1, AlongLeast, <1>2, <1>3
<1>5. ASSUME NEW k \in 0..(M+1), NEW m \in 1..M, Rev(m) \in f[k]
      PROVE  Rev(m) \in f[M - m]
  <2> DEFINE Bad == {i \in 0..(M+1) : \E n \in 1..M : Rev(n) \in f[i] /\ Rev(n) \notin f[M - n]}
  <2> SUFFICES ASSUME Bad # {} PROVE FALSE
    BY <1>5
  <2>1. PICK i \in Bad : \A q \in Bad : i <= q
    <3>1. Bad \in SUBSET Nat
      BY <1>2
    <3> HIDE DEF Bad
    <3> QED BY <3>1, LeastNat
  <2>2. PICK n \in 1..M : Rev(n) \in f[i] /\ Rev(n) \notin f[M - n]
    BY <2>1
  <2>3. i # 0
    <3>1. M - n \in 0..(M+1) /\ 0 \in 0..(M - n)
      BY <1>2, <2>2
    <3> QED BY <1>3, <2>2, <3>1
  <2>4. i - 1 \in 0..M /\ i - 1 \notin Bad /\ (i - 1) + 1 = i /\ i - 1 \in 0..(M+1)
    BY <1>2, <2>1, <2>3
  <2>5. Rev(n) \notin f[i - 1]
    BY <2>2, <2>4
  <2>6. f[i] = Along1(f[i-1], within)
    BY <1>1, <2>4
  <2>7. PICK o \in f[i-1] : Rev(n) \in NamesOf(o)
    BY <2>2, <2>5, <2>6, Along1Has
  <2>8. PICK r \in DOMAIN revisions : o = Rev(r) /\ n \in Parents(r)
    BY <1>4, <2>4, <2>7, ObjectKinds, ObjectsDiffer DEF RevisionNames
  <2>9. r \in 1..M /\ n \in 1..(r-1)
    BY <1>2, <2>8
  <2>10. Rev(r) \in f[M - r]
    BY <2>4, <2>7, <2>8, <2>9
  <2>11. M - r \in 0..M /\ (M - r) + 1 \in 0..(M - n) /\ M - n \in 0..(M+1)
    BY <1>2, <2>9
  <2>12. Rev(n) \in f[(M - r) + 1]
    <3>1. i \in 0..(M+1) /\ M+1 \in 0..(M+1) /\ M - r \in 0..M
      BY <1>2, <2>1, <2>11
    <3>2. Rev(n) \in within
      BY <1>1, <1>3, <2>2, <3>1, AlongLeast
    <3>3. f[(M - r) + 1] = Along1(f[M - r], within)
      BY <1>1, <3>1
    <3> QED BY <2>7, <2>8, <2>10, <3>2, <3>3, Along1Has
  <2>13. Rev(n) \in f[M - n]
    BY <1>3, <2>11, <2>12
  <2> QED BY <2>2, <2>13
<1>6. M \in 0..M /\ M + 1 \in 0..(M+1) /\ M \in 0..(M+1)
  BY <1>2
<1>7. f[M + 1] = Along1(f[M], within) /\ f[M] \subseteq f[M + 1]
  BY <1>1, <1>6, Along1Has
<1>8. SUFFICES ASSUME NEW o \in f[M + 1], NEW x \in NamesOf(o) \cap within
               PROVE  x \in f[M + 1]
  BY <1>1
<1>9. o \in Everything /\ o \in within
  BY <1>1, <1>4, <1>6, AlongLeast
<1>10. o \in f[M]
  <2>1. CASE \E n \in DOMAIN revisions : o = Rev(n)
    <3>1. PICK n \in DOMAIN revisions : o = Rev(n)
      BY <2>1
    <3>2. n \in 1..M /\ M - n \in 0..M
      BY <1>2
    <3>3. Rev(n) \in f[M - n]
      BY <1>5, <1>6, <1>8, <3>1, <3>2
    <3> QED BY <1>3, <1>6, <3>1, <3>2, <3>3
  <2>2. CASE \E s \in Contents : o = Tree(s)
    <3>1. PICK s \in Contents : o = Tree(s)
      BY <2>2
    <3>2. SUFFICES ASSUME o \notin f[M] PROVE FALSE
      OBVIOUS
    <3>3. PICK u \in f[M] : o \in NamesOf(u)
      BY <1>7, <1>8, <3>2, Along1Has
    <3>4. u \in Everything
      BY <1>4, <1>6, <3>3
    <3>5. PICK n \in DOMAIN revisions : u = Rev(n)
      BY <3>1, <3>3, <3>4, ObjectKinds, ObjectsDiffer
    <3>6. n \in 1..M /\ M - n \in 0..M /\ (M - n) + 1 \in 0..M
      BY <1>2
    <3>7. Rev(n) \in f[M - n]
      BY <1>5, <1>6, <3>3, <3>5, <3>6
    <3>8. o \in f[(M - n) + 1]
      BY <1>1, <1>9, <3>3, <3>5, <3>6, <3>7, Along1Has
    <3> QED BY <1>3, <1>6, <3>2, <3>6, <3>8
  <2>3. CASE NamesOf(o) = {}
    BY <1>8, <2>3
  <2> QED BY <1>9, <2>1, <2>2, <2>3, ObjectKinds
<1> QED BY <1>7, <1>8, <1>9, <1>10, Along1Has

-----------------------------------------------------------------------------
(* Damaged history: the invariant                                          *)

Objects == {Rev(n) : n \in 1..MaxRevision} \cup UNION {{Tree(s)} \cup Blobs(s) : s \in Contents}
OnShelf == [objs : SUBSET Objects, bad : SUBSET Objects, torn : BOOLEAN,
            lies : {"live", "unindexed", "aside", "gone"}]

\* Packs hold only what was made, and heads are of revisions there are.
LineageType ==
  /\ RevisionsType
  /\ files \in Contents /\ snapshot \in Contents \cup {NoSnapshot}
  /\ tips \subseteq DOMAIN revisions /\ asides \subseteq DOMAIN revisions
  /\ shelf \in Seq(OnShelf) /\ \A k \in DOMAIN shelf : shelf[k].objs \subseteq Everything

\* A head that is alone in its lineage, with all it names to be read.
Begun(n) ==
  /\ n \in DOMAIN revisions /\ tips = {n} /\ Parents(n) = {}
  /\ {Rev(n), Tree(revisions[n].holds)} \cup Blobs(revisions[n].holds) \subseteq Readable

\* Heads are gone before packs are moved; nothing but a save follows a new lineage
\* without being told of.
LineageInv ==
  /\ LineageType /\ NothingForgotten
  /\ stage = "aside" => tips = {}
  /\ ended = "new lineage" => stage = "idle" /\ PacksOpen /\ \E n \in tips : Begun(n)

LEMMA StatesOfFiles ==
  /\ NoSnapshot \notin Contents
  /\ \A s \in Contents : /\ Blobs(s) \subseteq Everything /\ Tree(s) \in Everything
                         /\ Blobs(s) \subseteq Objects /\ Tree(s) \in Objects
<1>1. NoSnapshot \notin Contents
  BY DEF NoSnapshot, Contents, Faulty
<1> QED BY <1>1 DEF Everything, Objects

LEMMA EverythingFacts ==
  ASSUME LineageType
  PROVE  /\ Everything \subseteq Objects
         /\ \A n \in DOMAIN revisions : Rev(n) \in Everything
         /\ Readable \subseteq Indexed /\ Indexed \subseteq Everything
         /\ \A o \in Everything : NamesOf(o) \subseteq Everything
<1>1. /\ DOMAIN revisions = 1..Len(revisions) /\ Len(revisions) \in Nat
      /\ DOMAIN revisions \subseteq 1..MaxRevision
  BY LineagesAssumption DEF LineageType, RevisionsType
<1>2. Everything \subseteq Objects
  BY <1>1 DEF Everything, Objects
<1>3. \A n \in DOMAIN revisions : Rev(n) \in Everything
  BY DEF Everything
<1>4. Readable \subseteq Indexed /\ Indexed \subseteq Everything
  BY DEF Readable, Indexed, Live, LineageType
<1>5. ASSUME NEW o \in Everything PROVE NamesOf(o) \subseteq Everything
  <2>1. CASE \E n \in DOMAIN revisions : NamesOf(o) = RevisionNames(n)
    <3>1. PICK n \in DOMAIN revisions : NamesOf(o) = RevisionNames(n)
      BY <2>1
    <3>2. Parents(n) \subseteq DOMAIN revisions /\ revisions[n].holds \in Contents
      <4>1. Parents(n) \subseteq 1..(n-1) /\ n \in 1..Len(revisions)
        BY <1>1 DEF LineageType, RevisionsType, Parents
      <4>2. revisions[n].holds \in Contents
        <5>1. revisions[n] \in Made
          BY DEF LineageType, RevisionsType
        <5> QED BY <5>1 DEF Made
      <4> QED BY <1>1, <4>1, <4>2
    <3> QED BY <1>3, <3>1, <3>2, StatesOfFiles DEF RevisionNames
  <2>2. CASE \E s \in Contents : NamesOf(o) = Blobs(s)
    BY <2>2, StatesOfFiles
  <2>3. CASE NamesOf(o) = {}
    BY <2>3
  <2> QED BY <2>1, <2>2, <2>3, ObjectKinds DEF LineageType
<1> QED BY <1>2, <1>3, <1>4, <1>5

\* Whatever is made later, what was made stays.
LEMMA RecordTyped ==
  ASSUME LineageType, NEW s \in Contents, NEW begins \in BOOLEAN, RecordState(s, begins),
         files' \in Contents, snapshot' \in Contents \cup {NoSnapshot}, asides' = asides
  PROVE  LineageType'
<1> DEFINE n == Len(revisions) + 1
           r == [parents |-> tips, holds |-> s, begins |-> begins]
           objs == {Rev(n)} \cup ToStore(s, begins)
           p == [objs |-> objs, bad |-> {}, torn |-> FALSE, lies |-> "live"]
<1>1. revisions' = Append(revisions, r) /\ tips' = {n} /\ shelf' = Append(shelf, p)
  BY DEF RecordState, Shelve
<1>2. /\ Len(revisions) \in Nat /\ DOMAIN revisions = 1..Len(revisions) /\ n \in 1..MaxRevision
      /\ MaxRevision \in Nat
  BY LineagesAssumption DEF LineageType, RevisionsType, RecordState
<1>3. r \in Made
  BY <1>2 DEF LineageType, Made
<1>4. tips \subseteq 1..(n-1)
  BY <1>2 DEF LineageType
<1> HIDE DEF n, r
<1>5. RevisionsType'
  <2>1. revisions' \in Seq(Made)
        /\ Len(revisions') = n /\ DOMAIN revisions' = 1..n /\ revisions'[n] = r
        /\ \A m \in DOMAIN revisions : revisions'[m] = revisions[m]
    BY <1>1, <1>2, <1>3 DEF LineageType, RevisionsType, n
  <2>2. r.parents = tips
    BY DEF r
  <2>3. ASSUME NEW m \in 1..n PROVE revisions'[m].parents \subseteq 1..(m-1)
    <3>1. CASE m = n
      BY <3>1, <2>1, <2>2, <1>4
    <3>2. CASE m # n
      <4>1. m \in DOMAIN revisions
        BY <1>2, <3>2 DEF n
      <4> QED BY <4>1, <2>1 DEF LineageType, RevisionsType
    <3> QED BY <3>1, <3>2
  <2> QED BY <1>2, <2>1, <2>3 DEF RevisionsType
<1>6. DOMAIN revisions' = DOMAIN revisions \cup {n}
  BY <1>1, <1>2, <1>3 DEF LineageType, RevisionsType, n
<1>7. Everything' = Everything \cup {Rev(n)}
  BY <1>6 DEF Everything
<1>8. objs \subseteq Everything' /\ objs \subseteq Objects
  <2>1. ToStore(s, begins) \subseteq {Tree(s)} \cup Blobs(s)
    BY DEF ToStore
  <2>2. Rev(n) \in Objects
    BY <1>2 DEF Objects
  <2> QED BY <2>1, <2>2, <1>7, StatesOfFiles
<1>9. shelf' \in Seq(OnShelf) /\ \A k \in DOMAIN shelf' : shelf'[k].objs \subseteq Everything'
  <2>1. p \in OnShelf /\ p.objs = objs
    BY <1>8 DEF OnShelf
  <2> HIDE DEF p
  <2>2. shelf' \in Seq(OnShelf) /\ DOMAIN shelf' = 1..(Len(shelf) + 1)
    BY <1>1, <2>1 DEF LineageType
  <2>3. ASSUME NEW k \in DOMAIN shelf' PROVE shelf'[k].objs \subseteq Everything'
    <3>1. CASE k = Len(shelf) + 1
      BY <1>1, <1>8, <2>1, <3>1 DEF LineageType
    <3>2. CASE k # Len(shelf) + 1
      <4>1. k \in DOMAIN shelf /\ shelf'[k] = shelf[k]
        BY <1>1, <2>1, <2>2, <3>2 DEF LineageType
      <4> QED BY <1>7, <4>1 DEF LineageType
    <3> QED BY <3>1, <3>2
  <2> QED BY <2>2, <2>3
<1> QED
  <2>1. tips' \subseteq DOMAIN revisions' /\ asides' \subseteq DOMAIN revisions'
    BY <1>1, <1>6 DEF LineageType
  <2> QED BY <1>5, <1>9, <2>1 DEF LineageType

\* A collection takes nothing that is reached along what can be read.
LEMMA KeepsReached ==
  ASSUME LineageType
  PROVE  /\ Keep \subseteq Everything
         /\ Along({Rev(n) : n \in tips \cup asides}
                    \cup (IF snapshot = NoSnapshot THEN {} ELSE {Tree(snapshot)}), Readable)
              \subseteq Keep
<1> DEFINE named == {Rev(n) : n \in tips} \cup (IF snapshot = NoSnapshot THEN {} ELSE {Tree(snapshot)})
           quarantined == {Rev(n) : n \in asides}
           nodes == Along(quarantined, NodesIn(Indexed))
           from == {Rev(n) : n \in tips \cup asides}
                     \cup (IF snapshot = NoSnapshot THEN {} ELSE {Tree(snapshot)})
<1>1. /\ Readable \subseteq Indexed /\ Indexed \subseteq Everything
      /\ \A o \in Everything : NamesOf(o) \subseteq Everything
      /\ RevisionsType
  BY EverythingFacts DEF LineageType
<1>2. /\ NodesIn(Indexed) \subseteq Everything
      /\ \A o \in NodesIn(Indexed) : o \in Indexed /\ o[1] # "blob"
  BY <1>1 DEF NodesIn
<1>3. named \subseteq Everything /\ quarantined \subseteq Everything /\ from = named \cup quarantined
  BY EverythingFacts, StatesOfFiles DEF LineageType
<1>4. Whole = Along(named, Everything)
  BY DEF Whole
<1>5. Held = nodes \cup UNION {Blobs(o[2]) : o \in {o \in nodes : o[1] = "tree"}}
  BY DEF Held
<1> HIDE DEF named, quarantined, nodes, from
<1>6. /\ named \subseteq Whole /\ Whole \subseteq Everything
      /\ \A o \in Whole : NamesOf(o) \subseteq Whole
  <2>1. \A o \in Whole : NamesOf(o) \cap Everything \subseteq Whole
    BY <1>1, <1>4, AlongClosed
  <2> QED BY <1>1, <1>3, <1>4, <2>1, AlongLeast
<1>7. /\ quarantined \cap NodesIn(Indexed) \subseteq nodes /\ nodes \subseteq NodesIn(Indexed)
      /\ \A o \in nodes : NamesOf(o) \cap NodesIn(Indexed) \subseteq nodes
  BY <1>1, <1>2, AlongClosed, AlongLeast DEF nodes
<1>8. \A n : Rev(n)[1] = "revision"
  BY Tags
<1>9. \A s : Tree(s)[1] = "tree" /\ Tree(s)[2] = s /\ \A o \in Blobs(s) : o[1] = "blob"
  BY Tags
<1>10. from \cap Readable \subseteq Keep
  <2>1. quarantined \cap Readable \subseteq NodesIn(Indexed)
    BY <1>1, <1>8 DEF quarantined, NodesIn
  <2> QED BY <1>3, <1>5, <1>6, <1>7, <2>1 DEF Keep
<1>11. ASSUME NEW o \in Keep, NEW x \in NamesOf(o), x \in Readable
       PROVE  x \in Keep
  <2>1. CASE o \in Whole
    BY <1>6, <1>11, <2>1 DEF Keep
  <2>2. CASE o \in nodes
    <3>1. o \in Everything /\ o[1] # "blob" /\ x \in Indexed
      BY <1>1, <1>2, <1>7, <1>11, <2>2
    <3>2. CASE \E n \in DOMAIN revisions : o = Rev(n) /\ NamesOf(o) = RevisionNames(n)
      <4>1. x[1] # "blob"
        BY <1>8, <1>9, <1>11, <3>2 DEF RevisionNames
      <4>2. x \in NodesIn(Indexed)
        BY <3>1, <4>1 DEF NodesIn
      <4> QED BY <1>5, <1>7, <1>11, <2>2, <4>2 DEF Keep
    <3>3. CASE \E s \in Contents : o = Tree(s) /\ NamesOf(o) = Blobs(s)
      BY <1>5, <1>9, <1>11, <2>2, <3>3 DEF Keep
    <3>4. CASE NamesOf(o) = {}
      BY <1>11, <3>4
    <3> QED BY <1>1, <3>1, <3>2, <3>3, <3>4, ObjectKinds
  <2>3. CASE \E t \in nodes : t[1] = "tree" /\ o \in Blobs(t[2])
    <3>1. o[1] = "blob"
      BY <1>9, <2>3
    <3>2. NamesOf(o) = {}
      BY <3>1 DEF NamesOf
    <3> QED BY <1>11, <3>2
  <2> QED BY <1>5, <1>11, <2>1, <2>2, <2>3 DEF Keep
<1>12. Along(from, Readable) \subseteq Keep
  BY <1>10, <1>11, AlongLeast
<1>13. Keep \subseteq Everything
  <2>1. ASSUME NEW t \in nodes, t[1] = "tree" PROVE Blobs(t[2]) \subseteq Everything
    <3>1. t \in Everything
      BY <1>2, <1>7
    <3>2. PICK s \in Contents : t = Tree(s)
      BY <1>1, <1>8, <1>9, <2>1, <3>1, ObjectKinds
    <3> QED BY <1>9, <3>2, StatesOfFiles
  <2> QED BY <1>2, <1>5, <1>6, <1>7, <2>1 DEF Keep
<1> QED BY <1>12, <1>13 DEF from

-----------------------------------------------------------------------------
(* Damaged history: every step keeps the invariant                         *)

\* What packs hold and what is recorded stay; what is told of a new lineage is undone.
LEMMA QuietKeeps ==
  ASSUME LineageInv, UNCHANGED <<revisions, tips, shelf, forgotten>>,
         files' \in Contents, snapshot' \in Contents \cup {NoSnapshot},
         asides' \in SUBSET DOMAIN revisions, stage' = "aside" => stage = "aside",
         ended' # "new lineage" \/ (ended' = ended /\ stage' = stage)
  PROVE  LineageInv'
<1>1. LineageType'
  BY DEF LineageInv, LineageType, RevisionsType, Everything, OnShelf
<1>2. (PacksOpen' <=> PacksOpen) /\ Readable' = Readable
  BY DEF PacksOpen, Live, Readable
<1>3. \A n : Begun(n) => Begun(n)'
  BY <1>2 DEF Begun, Parents
<1> QED BY <1>1, <1>2, <1>3 DEF LineageInv, NothingForgotten

\* A pack is written, damaged, moved or lost.
LEMMA ShelfKeeps ==
  ASSUME LineageInv, UNCHANGED <<files, revisions, asides, forgotten, tips>>,
         snapshot' \in Contents \cup {NoSnapshot},
         shelf' \in Seq(OnShelf), \A k \in DOMAIN shelf' : shelf'[k].objs \subseteq Everything,
         stage' = "aside" => stage = "aside", ended' # "new lineage"
  PROVE  LineageInv'
  BY DEF LineageInv, LineageType, RevisionsType, Everything, OnShelf, NothingForgotten

LEMMA ShelveTyped ==
  ASSUME LineageType, NEW base \in Seq(OnShelf),
         \A k \in DOMAIN base : base[k].objs \subseteq Everything,
         NEW objs \in SUBSET Everything
  PROVE  LET s == Append(base, [objs |-> objs, bad |-> {}, torn |-> FALSE, lies |-> "live"])
         IN  s \in Seq(OnShelf) /\ \A k \in DOMAIN s : s[k].objs \subseteq Everything
<1> DEFINE p == [objs |-> objs, bad |-> {}, torn |-> FALSE, lies |-> "live"]
<1>1. p \in OnShelf /\ p.objs = objs
  BY EverythingFacts DEF OnShelf
<1> HIDE DEF p
<1>2. Append(base, p) \in Seq(OnShelf) /\ DOMAIN Append(base, p) = 1..(Len(base) + 1)
      /\ \A k \in 1..(Len(base) + 1) : Append(base, p)[k] = IF k = Len(base) + 1 THEN p ELSE base[k]
  BY <1>1
<1>3. ASSUME NEW k \in 1..(Len(base) + 1) PROVE Append(base, p)[k].objs \subseteq Everything
  <2>1. CASE k = Len(base) + 1
    BY <1>1, <1>2, <2>1
  <2>2. CASE k # Len(base) + 1
    <3>1. k \in DOMAIN base
      BY <2>2
    <3> QED BY <1>2, <2>2, <3>1
  <2> QED BY <2>1, <2>2
<1> QED BY <1>2, <1>3 DEF p

LEMMA AdoptStateKeeps ==
  ASSUME LineageInv, AdoptState
  PROVE  LineageInv'
<1>1. LineageType'
  BY RecordTyped DEF AdoptState, LineageInv, LineageType
<1> QED BY <1>1 DEF AdoptState, LineageInv, Ends, NothingForgotten

LEMMA TakeSnapshotKeeps ==
  ASSUME LineageInv, TakeSnapshot
  PROVE  LineageInv'
<1>1. files \in Contents /\ LineageType /\ shelf \in Seq(OnShelf)
      /\ \A k \in DOMAIN shelf : shelf[k].objs \subseteq Everything
  BY DEF LineageInv, LineageType
<1>2. NewObjects(files) \in SUBSET Everything
  BY <1>1, StatesOfFiles DEF NewObjects
<1>3. shelf' \in Seq(OnShelf) /\ \A k \in DOMAIN shelf' : shelf'[k].objs \subseteq Everything
  <2>1. CASE shelf' = shelf
    BY <1>1, <2>1
  <2>2. CASE shelf' = Shelve(NewObjects(files))
    BY <1>1, <1>2, <2>2, ShelveTyped DEF Shelve
  <2> QED BY <2>1, <2>2 DEF TakeSnapshot
<1> QED BY <1>1, <1>3, ShelfKeeps DEF TakeSnapshot, Ends

LEMMA PutBackKeeps ==
  ASSUME LineageInv, PutBack
  PROVE  LineageInv'
<1>1. snapshot \in Contents /\ files' \in Contents /\ snapshot' \in Contents \cup {NoSnapshot}
      /\ asides' = asides /\ forgotten' = forgotten /\ asides \in SUBSET DOMAIN revisions
      /\ LineageType
  BY DEF PutBack, LineageInv, LineageType
<1>2. stage' = "idle" /\ ended' \in {"done", "damaged"}
  BY DEF PutBack, Ends
<1>3. CASE UNCHANGED <<revisions, tips, shelf>>
  BY <1>1, <1>2, <1>3, QuietKeeps
<1>4. CASE RecordState(snapshot, FALSE)
  <2>1. LineageType'
    BY <1>1, <1>4, RecordTyped
  <2> QED BY <1>1, <1>2, <2>1 DEF LineageInv, NothingForgotten
<1> QED BY <1>3, <1>4 DEF PutBack

\* The store opens, and the one head there is was stored with all it names.
LEMMA RecordLineageKeeps ==
  ASSUME LineageInv, RecordLineage
  PROVE  LineageInv'
<1>1. CASE ~PacksOpen
  BY <1>1, QuietKeeps DEF RecordLineage, Ends, LineageInv, LineageType
<1>2. CASE PacksOpen
  <2>1. /\ RecordState(files, TRUE) /\ Ends("new lineage")
        /\ UNCHANGED <<files, asides, snapshot, forgotten>>
        /\ LineageType /\ files \in Contents /\ tips = {}
    BY <1>2 DEF RecordLineage, LineageInv, LineageType
  <2>2. LineageType'
    BY <2>1, RecordTyped DEF LineageType
  <2> DEFINE sizes == /\ revisions \in Seq(Made) /\ shelf \in Seq(OnShelf)
                      /\ Len(revisions) \in Nat /\ MaxRevision \in Nat
                      /\ Len(revisions) + 1 <= MaxRevision
  <2>3. sizes
    <3>1. revisions \in Seq(Made) /\ shelf \in Seq(OnShelf) /\ Len(revisions) < MaxRevision
      BY <2>1 DEF LineageType, RevisionsType, RecordState
    <3> QED BY <3>1, LineagesAssumption
  <2>4. PICK n : n = Len(revisions) + 1
    OBVIOUS
  <2>5. PICK N : N = Len(shelf) + 1
    OBVIOUS
  <2>6. PICK r \in Made : r = [parents |-> {}, holds |-> files, begins |-> TRUE]
    BY <2>1 DEF Made
  <2>7. PICK p : p = [objs |-> {Rev(n)} \cup ToStore(files, TRUE), bad |-> {},
                      torn |-> FALSE, lies |-> "live"]
    OBVIOUS
  <2>8. revisions' = Append(revisions, r) /\ tips' = {n} /\ shelf' = Append(shelf, p)
    BY <2>1, <2>4, <2>6, <2>7 DEF RecordState, Shelve
  <2>9. p.objs \ p.bad = {Rev(n), Tree(files)} \cup Blobs(files) /\ p.lies = "live" /\ p.torn = FALSE
    BY <2>7 DEF ToStore
  <2>10. p \in OnShelf
    <3>1. n \in 1..MaxRevision
      BY <2>3, <2>4
    <3>2. {Rev(n)} \cup ToStore(files, TRUE) \subseteq Objects
      BY <2>1, <3>1, StatesOfFiles DEF ToStore, Objects
    <3> QED BY <2>7, <3>2 DEF OnShelf
  <2>11. /\ N \in DOMAIN shelf' /\ shelf'[N] = p /\ DOMAIN shelf' = DOMAIN shelf \cup {N}
         /\ \A k \in DOMAIN shelf : shelf'[k] = shelf[k]
    BY <2>3, <2>5, <2>8, <2>10
  <2>12. n \in DOMAIN revisions' /\ revisions'[n] = r
    BY <2>3, <2>4, <2>6, <2>8
  <2>13. PacksOpen'
    BY <1>2, <2>9, <2>11 DEF PacksOpen, Live
  <2>14. {Rev(n), Tree(files)} \cup Blobs(files) \subseteq Readable'
    BY <2>9, <2>11 DEF Readable, Live
  <2>15. Begun(n)'
    BY <2>6, <2>8, <2>12, <2>14 DEF Begun, Parents
  <2>16. \E m \in tips' : Begun(m)'
    BY <2>8, <2>15
  <2> QED BY <2>1, <2>2, <2>13, <2>16 DEF LineageInv, Ends, NothingForgotten
<1> QED BY <1>1, <1>2

LEMMA CollectKeeps ==
  ASSUME LineageInv, CollectGarbage
  PROVE  LineageInv'
<1> DEFINE emptied == [k \in DOMAIN shelf |->
                       IF k \in Live THEN [shelf[k] EXCEPT !.lies = "gone"] ELSE shelf[k]]
<1>1. UNCHANGED <<files, revisions, tips, asides, snapshot>> /\ stage' = "idle"
      /\ ended' \in {"done", "damaged", "collected"} /\ LineageType
      /\ files \in Contents /\ snapshot \in Contents \cup {NoSnapshot}
      /\ asides \in SUBSET DOMAIN revisions
  BY DEF CollectGarbage, Ends, LineageInv, LineageType
<1>2. CASE UNCHANGED <<shelf, forgotten>>
  BY <1>1, <1>2, QuietKeeps
<1>3. CASE ~UNCHANGED <<shelf, forgotten>>
  <2>1. /\ shelf' = Append(emptied, [objs |-> Keep, bad |-> {}, torn |-> FALSE, lies |-> "live"])
        /\ forgotten' = forgotten \cup
               (Along({Rev(n) : n \in tips \cup asides}
                        \cup (IF snapshot = NoSnapshot THEN {} ELSE {Tree(snapshot)}), Readable) \ Keep)
    BY <1>3 DEF CollectGarbage
  <2>2. forgotten' = forgotten
    BY <1>1, <2>1, KeepsReached
  <2>3. emptied \in Seq(OnShelf) /\ \A k \in DOMAIN emptied : emptied[k].objs \subseteq Everything
    <3>1. ASSUME NEW k \in DOMAIN shelf PROVE emptied[k] \in OnShelf /\ emptied[k].objs \subseteq Everything
      <4>1. shelf[k] \in OnShelf /\ shelf[k].objs \subseteq Everything
        BY <1>1 DEF LineageType
      <4> QED BY <4>1 DEF OnShelf
    <3>2. DOMAIN shelf = 1..Len(shelf) /\ Len(shelf) \in Nat
      BY <1>1 DEF LineageType
    <3>3. emptied = [k \in 1..Len(shelf) |-> emptied[k]]
      BY <3>2
    <3> HIDE DEF emptied
    <3> QED BY <3>1, <3>2, <3>3
  <2> HIDE DEF emptied
  <2>4. Keep \in SUBSET Everything
    BY <1>1, KeepsReached
  <2>5. shelf' \in Seq(OnShelf) /\ \A k \in DOMAIN shelf' : shelf'[k].objs \subseteq Everything
    BY <1>1, <2>1, <2>3, <2>4, ShelveTyped
  <2> QED BY <1>1, <2>2, <2>5, ShelfKeeps
<1> QED BY <1>2, <1>3

\* A pack with one field changed.
LEMMA AlteredTyped ==
  ASSUME LineageType, NEW k \in DOMAIN shelf, shelf' = [shelf EXCEPT ![k] = shelf'[k]],
         shelf'[k] \in OnShelf, shelf'[k].objs = shelf[k].objs
  PROVE  shelf' \in Seq(OnShelf) /\ \A j \in DOMAIN shelf' : shelf'[j].objs \subseteq Everything
<1>1. shelf \in Seq(OnShelf) /\ \A j \in DOMAIN shelf : shelf[j].objs \subseteq Everything
  BY DEF LineageType
<1>2. DOMAIN shelf' = DOMAIN shelf /\ \A j \in DOMAIN shelf : shelf'[j] = IF j = k THEN shelf'[k] ELSE shelf[j]
  BY <1>1
<1>3. shelf' \in Seq(OnShelf)
  BY <1>1
<1> QED BY <1>1, <1>2, <1>3

LEMMA BeginningKeeps ==
  ASSUME LineageInv, Beginning
  PROVE  LineageInv'
<1>1. /\ LineageType /\ files \in Contents /\ snapshot \in Contents \cup {NoSnapshot}
      /\ tips \in SUBSET DOMAIN revisions /\ asides \in SUBSET DOMAIN revisions
  BY DEF LineageInv, LineageType
<1>2. CASE BeginLineage
  BY <1>1, <1>2, QuietKeeps DEF BeginLineage, historyVars
<1>3. CASE Quarantine
  <2>1. asides' \in SUBSET DOMAIN revisions
    BY <1>1, <1>3 DEF Quarantine
  <2>2. ended' # "new lineage"
    BY <1>3 DEF Quarantine, LineageInv
  <2> QED BY <1>1, <1>3, <2>1, <2>2, QuietKeeps DEF Quarantine
<1>4. CASE RetireHead
  <2>1. tips' \subseteq tips /\ stage' = "retire" /\ ended' # "new lineage"
        /\ UNCHANGED <<files, revisions, shelf, asides, snapshot, forgotten>>
    BY <1>4 DEF RetireHead, LineageInv
  <2>2. LineageType'
    BY <1>1, <2>1 DEF LineageType, RevisionsType, Everything, OnShelf
  <2> QED BY <2>1, <2>2 DEF LineageInv, NothingForgotten
<1>5. CASE Retired
  <2>1. /\ tips' = {} /\ ended' # "new lineage"
        /\ UNCHANGED <<files, revisions, tips, shelf, asides, snapshot, forgotten>>
    BY <1>5 DEF Retired, LineageInv, historyVars
  <2>2. LineageType'
    BY <1>1, <2>1 DEF LineageType, RevisionsType, Everything, OnShelf
  <2> QED BY <2>1, <2>2 DEF LineageInv, NothingForgotten
<1>6. CASE MoveAside
  <2>1. /\ UNCHANGED <<files, revisions, tips, asides, snapshot, stage, forgotten>>
        /\ ended' # "new lineage"
    BY <1>6 DEF MoveAside, LineageInv
  <2> DEFINE k == Min(corrupt)
  <2>2. PICK lies \in {"unindexed", "aside"} : shelf' = [shelf EXCEPT ![k].lies = lies]
    BY <1>6 DEF MoveAside
  <2> HIDE DEF k
  <2>3. shelf' \in Seq(OnShelf) /\ \A j \in DOMAIN shelf' : shelf'[j].objs \subseteq Everything
    <3>1. CASE k \in DOMAIN shelf
      <4>1. shelf[k] \in OnShelf
        BY <1>1, <3>1 DEF LineageType
      <4>2. shelf'[k] = [shelf[k] EXCEPT !.lies = lies] /\ shelf' = [shelf EXCEPT ![k] = shelf'[k]]
        BY <2>2, <3>1
      <4>3. shelf'[k] \in OnShelf /\ shelf'[k].objs = shelf[k].objs
        BY <4>1, <4>2 DEF OnShelf
      <4> QED BY <1>1, <3>1, <4>2, <4>3, AlteredTyped
    <3>2. CASE k \notin DOMAIN shelf
      <4>1. shelf' = shelf
        BY <1>1, <2>2, <3>2 DEF LineageType
      <4> QED BY <1>1, <4>1 DEF LineageType
    <3> QED BY <3>1, <3>2
  <2> QED BY <1>1, <2>1, <2>3, ShelfKeeps
<1>7. CASE RecordLineage
  BY <1>7, RecordLineageKeeps
<1>8. CASE KillLineage
  BY <1>1, <1>8, QuietKeeps DEF KillLineage, Ends, historyVars
<1> QED BY <1>2, <1>3, <1>4, <1>5, <1>6, <1>7, <1>8 DEF Beginning

LEMMA HarmKeeps ==
  ASSUME LineageInv, NEW k \in Live,
         LosePack(k) \/ DamageIndex(k) \/ \E o \in shelf[k].objs : DamageEntry(k, o)
  PROVE  LineageInv'
<1>1. /\ LineageType /\ snapshot \in Contents \cup {NoSnapshot} /\ k \in DOMAIN shelf
      /\ shelf[k] \in OnShelf /\ shelf[k].objs \subseteq Objects
  <2>1. LineageType /\ k \in DOMAIN shelf
    BY DEF LineageInv, Live
  <2>2. /\ snapshot \in Contents \cup {NoSnapshot} /\ shelf \in Seq(OnShelf)
        /\ shelf[k].objs \subseteq Everything
    BY <2>1 DEF LineageType
  <2>3. shelf[k] \in OnShelf
    BY <2>1, <2>2
  <2>4. Everything \subseteq Objects
    BY <2>1, EverythingFacts
  <2> QED BY <2>1, <2>2, <2>3, <2>4
<1>2. /\ UNCHANGED <<files, revisions, tips, asides, snapshot, stage, forgotten>>
      /\ ended' = "done"
  BY DEF LosePack, DamageIndex, DamageEntry
<1>3. shelf' = [shelf EXCEPT ![k] = shelf'[k]]
      /\ shelf'[k] \in OnShelf /\ shelf'[k].objs = shelf[k].objs
  <2>1. CASE LosePack(k)
    <3>1. shelf'[k] = [shelf[k] EXCEPT !.lies = "gone"] /\ shelf' = [shelf EXCEPT ![k] = shelf'[k]]
      BY <1>1, <2>1 DEF LosePack
    <3> QED BY <1>1, <3>1 DEF OnShelf
  <2>2. CASE DamageIndex(k)
    <3>1. shelf'[k] = [shelf[k] EXCEPT !.torn = TRUE] /\ shelf' = [shelf EXCEPT ![k] = shelf'[k]]
      BY <1>1, <2>2 DEF DamageIndex
    <3> QED BY <1>1, <3>1 DEF OnShelf
  <2>3. CASE \E o \in shelf[k].objs : DamageEntry(k, o)
    <3>1. PICK o \in shelf[k].objs : DamageEntry(k, o)
      BY <2>3
    <3>2. shelf'[k] = [shelf[k] EXCEPT !.bad = @ \cup {o}] /\ shelf' = [shelf EXCEPT ![k] = shelf'[k]]
      BY <1>1, <3>1 DEF DamageEntry
    <3> QED BY <1>1, <3>1, <3>2 DEF OnShelf
  <2> QED BY <2>1, <2>2, <2>3
<1>4. shelf' \in Seq(OnShelf) /\ \A j \in DOMAIN shelf' : shelf'[j].objs \subseteq Everything
  BY <1>1, <1>3, AlteredTyped
<1> QED BY <1>1, <1>2, <1>4, ShelfKeeps

LEMMA LineageKept ==
  ASSUME LineageInv, [LineagesNext]_lineagesVars
  PROVE  LineageInv'
<1>1. /\ LineageType /\ files \in Contents /\ snapshot \in Contents \cup {NoSnapshot}
      /\ asides \in SUBSET DOMAIN revisions
  BY DEF LineageInv, LineageType
<1>2. CASE AdoptState \/ TakeSnapshot \/ PutBack
  BY <1>2, AdoptStateKeeps, TakeSnapshotKeeps, PutBackKeeps
<1>3. CASE DropSnapshot
  BY <1>1, <1>3, QuietKeeps DEF DropSnapshot, Ends
<1>4. CASE Beginning \/ CollectGarbage
  BY <1>4, BeginningKeeps, CollectKeeps
<1>5. ASSUME NEW s \in Contents, SaveFile(s) PROVE LineageInv'
  BY <1>1, <1>5, QuietKeeps DEF SaveFile, historyVars
<1>6. ASSUME NEW k \in Live,
             LosePack(k) \/ DamageIndex(k) \/ \E o \in shelf[k].objs : DamageEntry(k, o)
      PROVE  LineageInv'
  BY <1>6, HarmKeeps
<1>7. CASE UNCHANGED lineagesVars
  BY <1>1, <1>7, QuietKeeps DEF lineagesVars, historyVars
<1> QED BY <1>2, <1>3, <1>4, <1>5, <1>6, <1>7 DEF LineagesNext

\* Of every kind of history a run is about, one that is not damaged is a stutter.
LEMMA LineagesHold == PacksSpec => []LineageInv
<1>1. ASSUME PacksInit PROVE LineageInv
  <2>1. RevisionsType /\ tips = {} /\ asides = {} /\ shelf = <<>> /\ files \in Contents
        /\ snapshot = NoSnapshot /\ stage = "idle" /\ ended = "done" /\ forgotten = {}
    <3>1. LineagesInit
      BY <1>1 DEF PacksInit
    <3> QED BY <3>1, LineagesAssumption DEF LineagesInit, RevisionsType, Contents, Faulty
  <2> QED BY <2>1 DEF LineageInv, LineageType, NothingForgotten
<1>2. ASSUME LineageInv, [PacksNext]_packsVars PROVE LineageInv'
  <2>1. [LineagesNext]_lineagesVars
    BY <1>2 DEF PacksNext, packsVars, LineagesIdle
  <2> QED BY <1>2, <2>1, LineageKept
<1> QED BY <1>1, <1>2, PTL DEF PacksSpec

(* A lineage that has begun, over whatever damage, is wholly there: every  *)
(* object its head reaches can be read, until something else is damaged or *)
(* recorded (begin_new_lineage).                                           *)
THEOREM NewLineageWhole == PacksSpec => []LineageWhole
<1>1. ASSUME LineageInv PROVE LineageWhole
  <2> SUFFICES ASSUME ended = "new lineage"
               PROVE  ~Degraded /\ Along({Rev(n) : n \in tips}, Everything) \subseteq Readable
    BY DEF LineageWhole
  <2>1. PacksOpen /\ LineageType /\ RevisionsType
    BY <1>1 DEF LineageInv, LineageType
  <2>2. PICK n \in tips : Begun(n)
    BY <1>1 DEF LineageInv
  <2> DEFINE s == revisions[n].holds
             all == {Rev(n), Tree(s)} \cup Blobs(s)
  <2>3. tips = {n} /\ Parents(n) = {} /\ all \subseteq Readable
    BY <2>2 DEF Begun
  <2>4. NamesOf(Rev(n)) = {Tree(s)}
    BY <2>3, Tags DEF NamesOf
  <2>5. NamesOf(Tree(s)) = Blobs(s)
    BY Tags DEF NamesOf
  <2>6. \A o \in Blobs(s) : NamesOf(o) = {}
    BY Tags DEF NamesOf
  <2> HIDE DEF s
  <2>7. Rev(n) \in all /\ \A o \in all : NamesOf(o) \subseteq all
    BY <2>4, <2>5, <2>6
  <2>8. {Rev(m) : m \in tips} = {Rev(n)}
    BY <2>3
  <2> HIDE DEF all
  <2>9. Along({Rev(n)}, Everything) \subseteq all
    <3>1. {Rev(n)} \cap Everything \subseteq all
      BY <2>7
    <3>2. \A o \in all : NamesOf(o) \cap Everything \subseteq all
      BY <2>7
    <3> QED BY <3>1, <3>2, AlongLeast
  <2>10. Along({Rev(m) : m \in tips}, Everything) \subseteq all
    BY <2>8, <2>9
  <2>11. ~Degraded
    BY <2>1, <2>3 DEF Degraded, HeadSound, s, all
  <2> QED BY <2>3, <2>10, <2>11
<1> QED BY <1>1, LineagesHold, PTL

(* A collection takes no object that a head, the snapshot or a quarantined *)
(* head still reaches through the packs in use (store/dag.rs, collect).    *)
THEOREM CollectionsKeep == PacksSpec => []NothingForgotten
<1>1. LineageInv => NothingForgotten
  BY DEF LineageInv
<1> QED BY <1>1, LineagesHold, PTL

=============================================================================
