------------------------------- MODULE SimFs -------------------------------
(***************************************************************************)
(* The simulated filesystem: engine/fs/sim.rs.  It keeps the tree as the   *)
(* cache shows it and as the disk holds it, and the operations in between; *)
(* a crash keeps any of those that respect their order.                    *)
(*                                                                         *)
(* Module Folder, on which the models of the protocols rest, keeps no      *)
(* operations: for each cell it keeps the values a crash may leave.  Here  *)
(* both run side by side, and every crash the simulator allows is one that *)
(* Folder foresees.                                                        *)
(*                                                                         *)
(* Operations that are refused change nothing and are left out, and so are *)
(* processes and their locks: one that dies in the middle of a write is a  *)
(* write cut short.                                                        *)
(***************************************************************************)
EXTENDS Integers, FiniteSets, SequencesExt

CONSTANTS
  FileName,   \* the names in a directory
  CaseOf,     \* name -> the name regardless of case
  Seeds,      \* the trees a test may start from
  Bytes,      \* what is written whole
  MaxCalls    \* how many operations are made

VARIABLES
  live,       \* the tree in the cache
  durable,    \* the tree on the disk
  pending,    \* the operations issued since, in their order
  windows,    \* whether names ignore case and the disk journals entries
  handles,    \* the inodes held open
  calls,      \* how many operations were made
  links,      \* Folder's cell of all names
  contents    \* Folder's cell of each inode's bytes

simVars == <<live, durable, pending, windows, handles, calls, links, contents>>

Cell == INSTANCE Folder

\* A tree: what its files hold, its directories, and its names, which are
\* <<directory, name, inode>>.
RootDir == 1
FirstFree == 4
Inode == 1..FirstFree + MaxCalls
NoTree == [data |-> <<>>, dirs |-> {RootDir}, names |-> {}]
Slot(n) == <<n[1], n[2]>>

-----------------------------------------------------------------------------
(* Changes                                                                 *)

\* A change of data, or of entries: the names it takes away and the one it
\* makes.  A rename takes the old name, and the one it replaces.
Wrote(ino, data) == [kind |-> "data", ino |-> ino, data |-> data, takes |-> {}, makes |-> {}]
Entry(kind, ino, takes, makes) ==
  [kind |-> kind, ino |-> ino, data |-> "", takes |-> takes, makes |-> makes]

IsEntry(c) == c.kind # "data"
Inodes(c) == {n[3] : n \in c.takes \union c.makes}
Slots(c) == {Slot(n) : n \in c.takes \union c.makes}
\* Mutant: operations on one name, but of two files, are not ordered.
OfOneFile(c, other) == Inodes(c) \cap Inodes(other) # {}
\* conflicts: whether two entry operations must persist in issue order.
Conflicting(c, other) == Inodes(c) \cap Inodes(other) # {} \/ Slots(c) \cap Slots(other) # {}
TouchesDir(c, d) == \E slot \in Slots(c) : slot[1] = d

\* Image::apply.  A directory whose own creation did not persist is made, so
\* that what is inside can persist without being reachable.
Apply(tree, c) ==
  IF ~IsEntry(c) THEN [tree EXCEPT !.data = (c.ino :> c.data) @@ @]
  ELSE [data |-> IF c.kind = "create" THEN tree.data @@ (c.ino :> "") ELSE tree.data,
        dirs |-> tree.dirs \union {slot[1] : slot \in Slots(c)}
                   \union (IF c.kind = "mkdir" THEN {c.ino} ELSE {}),
        names |-> {n \in tree.names \ c.takes : \A m \in c.makes : Slot(m) # Slot(n)} \union c.makes]

\* What is no longer in the live tree once c is made.
Forget(tree, c) ==
  LET dropped == {n[3] : n \in c.takes} \ {n[3] : n \in c.makes}
  IN [tree EXCEPT !.data = Restrict(@, DOMAIN @ \ dropped), !.dirs = @ \ dropped]

-----------------------------------------------------------------------------
(* What is in the cache only                                               *)

\* dependencies: the earlier operations that must persist before i can.
Depends(i) ==
  {j \in 1..i-1 : IsEntry(pending[i]) /\ IsEntry(pending[j]) /\ Conflicting(pending[j], pending[i])}
Closed(chosen) == \A i \in chosen : Depends(i) \subseteq chosen

\* What the disk holds once each operation persisted as f says, in their order.
Stored(f) ==
  LET upto[i \in 0..Len(pending)] ==
        IF i = 0 THEN durable
        ELSE IF f[i] = "skip" THEN upto[i-1]
        ELSE Apply(upto[i-1], IF f[i] = "whole" THEN pending[i] ELSE [pending[i] EXCEPT !.data = f[i]])
  IN upto[Len(pending)]

Each == [i \in DOMAIN pending |-> i]

\* The chosen operations reach the disk.
Persist(chosen) ==
  LET left == SelectSeq(Each, LAMBDA i : i \notin chosen)
  IN /\ durable' = Stored([i \in DOMAIN pending |-> IF i \in chosen THEN "whole" ELSE "skip"])
     /\ pending' = [k \in DOMAIN left |-> pending[left[k]]]

DataOf(ino) == {i \in DOMAIN pending : pending[i].kind = "data" /\ pending[i].ino = ino}

\* persist_entries: the operations in a directory, with everything they depend
\* on, and nothing else.
EntriesIn(d) ==
  LET touching == {i \in DOMAIN pending : TouchesDir(pending[i], d)}
  IN {i \in DOMAIN pending :
        \A S \in SUBSET DOMAIN pending : touching \subseteq S /\ Closed(S) => i \in S}

\* The crashes there may be: an entry operation persists or not; a write whole,
\* not at all, or in part: only the truncation, or some blocks.
Crashes ==
  LET writes == {i \in DOMAIN pending : ~IsEntry(pending[i])}
  IN {[i \in DOMAIN pending |-> IF i \in writes THEN written[i]
                                ELSE IF i \in chosen THEN "whole" ELSE "skip"] :
        chosen \in {S \in SUBSET (DOMAIN pending \ writes) : Closed(S)},
        written \in [writes -> {"skip", "whole", "", "torn"}]}

\* The trees crashes may leave on the disk.
Leavings == {Stored(f) : f \in Crashes}

Reachable(tree) ==
  LET from[k \in 0..Cardinality(tree.dirs)] ==
        IF k = 0 THEN {RootDir}
        ELSE from[k-1] \union {n[3] : n \in {m \in tree.names : m[1] \in from[k-1]}}
      kept == from[Cardinality(tree.dirs)]
  IN [data |-> Restrict(tree.data, DOMAIN tree.data \cap kept),
      dirs |-> tree.dirs \cap kept,
      names |-> {n \in tree.names : n[1] \in kept}]

-----------------------------------------------------------------------------
(* Operations                                                              *)

Called == calls < MaxCalls /\ calls' = calls + 1

\* What Folder is told of a change: that it is issued, or in Windows mode that
\* it is on the disk.
Foreseen(cell, c) ==
  LET At(names) == {n \in names : Slot(n) \in Slots(c)}
      Same(names) == At(names) = At(cell.now)
      New(names) == {n \in names : Slot(n) \notin Slots(c)} \union c.makes
  IN IF windows THEN Cell!Save(cell, Same, New) ELSE Cell!Issue(cell, Same, New)

\* A write may be stored whole, in part, or as an empty file.
Overwritten(cell, data) ==
  LET Wherever(m) == TRUE
      May(c, of) == Cell!Issue(c, Wherever, LAMBDA m : of)
  IN May(May(May(cell, ""), "torn"), data)

\* record, for one change or for a creation and what it is filled with.
RecordAll(changes) ==
  LET Issued(tree, c) == Forget(Apply(tree, c), c)
  IN /\ live' = FoldLeft(Issued, live, changes)
     /\ durable' = IF windows THEN FoldLeft(Apply, durable, SelectSeq(changes, IsEntry)) ELSE durable
     /\ pending' = pending \o (IF windows THEN SelectSeq(changes, LAMBDA c : ~IsEntry(c)) ELSE changes)
     /\ links' = FoldLeft(Foreseen, links, SelectSeq(changes, IsEntry))
     /\ contents' = FoldLeft(LAMBDA all, c : [all EXCEPT ![c.ino] = Overwritten(@, c.data)],
                             contents, SelectSeq(changes, LAMBDA c : ~IsEntry(c)))

\* find: a name of a directory, exactly or in Windows mode regardless of case.
Found(d, n) ==
  LET exact == {e \in live.names : Slot(e) = <<d, n>>}
  IN IF exact # {} \/ ~windows THEN exact
     ELSE {e \in live.names : e[1] = d /\ CaseOf[e[2]] = CaseOf[n]}
IsDir(ino) == ino \in live.dirs
IsEmpty(d) == \A n \in live.names : n[1] # d
Free == FirstFree + calls
IsHeld(ino) == windows /\ ino \in handles

\* create_new, write, and a write that is cut short: by a full disk, or by the
\* death of its process.
WriteFile(d, n, data, exclusive) ==
  /\ Called /\ IsDir(d)
  /\ IF Found(d, n) = {}
     THEN RecordAll(<<Entry("create", Free, {}, {<<d, n, Free>>}), Wrote(Free, data)>>)
     ELSE /\ ~exclusive
          /\ \E e \in Found(d, n) : ~IsDir(e[3]) /\ RecordAll(<<Wrote(e[3], data)>>)
  /\ UNCHANGED <<windows, handles>>

\* sync_file: the file's bytes are as the cache shows them.
SyncFile(e) ==
  /\ Called /\ ~IsDir(e[3])
  /\ Persist(DataOf(e[3]))
  /\ contents' = [contents EXCEPT ![e[3]] = Cell!Sync(@, LAMBDA m : m = contents[e[3]].now)]
  /\ UNCHANGED <<live, windows, handles, links>>

\* A sync that fails, drop_dirty: the cache shows what the disk holds.
SyncFails(e) ==
  /\ Called /\ ~IsDir(e[3]) /\ DataOf(e[3]) # {}
  /\ LET left == SelectSeq(Each, LAMBDA i : i \notin DataOf(e[3]))
         data == IF e[3] \in DOMAIN durable.data THEN durable.data[e[3]] ELSE ""
     IN /\ pending' = [k \in DOMAIN left |-> pending[left[k]]]
        /\ live' = [live EXCEPT !.data[e[3]] = data]
        /\ contents' = [contents EXCEPT ![e[3]].now = data]
  /\ UNCHANGED <<durable, windows, handles, links>>

SyncDir(d) ==
  /\ Called /\ IsDir(d)
  /\ LET In(names) == {n \in names : n[1] = d}
     IN links' = Cell!Sync(links, LAMBDA m : In(m) = In(links.now))
  /\ IF windows THEN UNCHANGED <<durable, pending>> ELSE Persist(EntriesIn(d))
  /\ UNCHANGED <<live, windows, handles, contents>>

\* The directories d lies in, and d.
Above(d) ==
  LET up[k \in 0..Cardinality(live.dirs)] ==
        IF k = 0 THEN {d} ELSE up[k-1] \union {n[1] : n \in {m \in live.names : m[3] \in up[k-1]}}
  IN up[Cardinality(live.dirs)]

\* Rename the name e to n in the directory d.  The same file under both names
\* stays, but for the case of its name.
Rename(e, d, n) ==
  /\ Called /\ IsDir(d) /\ ~IsHeld(e[3])
  /\ LET over == Found(d, n)
         made == {<<d, n, e[3]>>}
     IN \/ /\ over = {e} /\ windows /\ e[2] # n
           /\ RecordAll(<<Entry("rename", e[3], {e}, made)>>)
        \/ /\ \A o \in over : /\ o # e /\ ~IsHeld(o[3]) /\ IsDir(o[3]) = IsDir(e[3])
                              /\ IsDir(o[3]) => ~windows /\ IsEmpty(o[3])
           /\ IsDir(e[3]) => e[3] \notin Above(d)
           /\ RecordAll(<<Entry("rename", e[3], {e} \union over, made)>>)
  /\ UNCHANGED <<windows, handles>>

\* remove_file and remove_dir.
Erase(e) ==
  /\ Called /\ ~IsHeld(e[3])
  /\ IsDir(e[3]) => IsEmpty(e[3])
  /\ RecordAll(<<Entry("unlink", e[3], {e}, {})>>)
  /\ UNCHANGED <<windows, handles>>

CreateDir(d, n) ==
  /\ Called /\ IsDir(d) /\ Found(d, n) = {}
  /\ RecordAll(<<Entry("mkdir", Free, {}, {<<d, n, Free>>})>>)
  /\ UNCHANGED <<windows, handles>>

\* Another program opens a file in Windows mode, or closes it.
Hold(ino) ==
  /\ windows /\ ~IsDir(ino)
  /\ handles' = IF ino \in handles THEN handles \ {ino} ELSE handles \union {ino}
  /\ UNCHANGED <<live, durable, pending, windows, calls, links, contents>>

\* Folder's cells of what a tree's files hold.
Cells(tree) ==
  [i \in Inode |-> Cell!Durable(IF i \in DOMAIN tree.data THEN tree.data[i] ELSE "")]

On(tree) == /\ live = tree /\ durable = tree /\ pending = <<>> /\ handles = {}
            /\ links = Cell!Durable(tree.names) /\ contents = Cells(tree)

\* rebuild: what is reachable of what reached the disk is all there is.
Crash(left) ==
  /\ pending # <<>>
  /\ LET tree == Reachable(left)
     IN /\ live' = tree /\ durable' = tree /\ pending' = <<>> /\ handles' = {}
        /\ links' = Cell!Durable(tree.names) /\ contents' = Cells(tree)
  /\ UNCHANGED <<windows, calls>>

SimInit == /\ \E tree \in Seeds : On(tree)
           /\ windows \in BOOLEAN /\ calls = 0
SimIdle == On(NoTree) /\ windows = FALSE /\ calls = 0

SimNext ==
  \/ \E d \in live.dirs, n \in FileName :
       \/ \E data \in Bytes \union {"torn"}, exclusive \in BOOLEAN : WriteFile(d, n, data, exclusive)
       \/ CreateDir(d, n)
       \/ \E e \in live.names : Rename(e, d, n)
  \/ \E e \in live.names : SyncFile(e) \/ SyncFails(e) \/ Erase(e) \/ Hold(e[3])
  \/ \E d \in live.dirs : SyncDir(d)
  \/ \E left \in Leavings : Crash(left)

-----------------------------------------------------------------------------
(* Properties                                                              *)

Foresees ==
  /\ links.now = live.names
  /\ \A i \in DOMAIN live.data : contents[i].now = live.data[i]
  /\ \A left \in Leavings :
       /\ left.names \in links.may
       /\ \A i \in DOMAIN left.data : left.data[i] \in contents[i].may

OneName ==
  \A left \in Leavings :
    LET tree == Reachable(left)
    IN /\ \A n, m \in tree.names : n[3] = m[3] \/ Slot(n) = Slot(m) => n = m
       /\ \A n \in tree.names : n[3] \in tree.dirs \union DOMAIN tree.data

\* Folder foresees every crash: the names and the bytes one leaves are among
\* those its cells hold, and its cells show what the cache does.  And none shows
\* a file under two names or a name of nothing: each name in the tree it leaves
\* is the only one of a file or directory that is there.
CrashesForeseen == Foresees /\ OneName

=============================================================================
