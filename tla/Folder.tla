------------------------------- MODULE Folder -------------------------------
(***************************************************************************)
(* What a crash may leave of a folder.                                     *)
(*                                                                         *)
(* reldir's protocols are written against one contract of the filesystem,  *)
(* the one the simulated filesystem of engine/fs/sim.rs enforces: an       *)
(* operation shows in the cache at once, and reaches the disk only when    *)
(* the directory it touches is synced -- or earlier, whenever the system   *)
(* pleases.  After a power loss the disk holds any subset of the unsynced  *)
(* operations in which two operations on one name persist in their order.  *)
(*                                                                         *)
(* A CELL is a small group of names that one operation may change          *)
(* together (a rename changes two).  It records what the cache shows, now, *)
(* and every value a power loss may leave there, may.                      *)
(*                                                                         *)
(* An operation on a cell is described by two operators: Same(m) says that *)
(* m agrees with the cache on the names the operation touches -- every     *)
(* earlier operation on them has persisted -- and New(m) is m with the     *)
(* operation done.                                                         *)
(***************************************************************************)

\* A cell whose value is on the disk.
Durable(v) == [now |-> v, may |-> {v}]

\* All the cells holding values of S that a power loss could meet.
Cells(S) == [now : S, may : SUBSET S]

\* An entry operation: the cache shows it, the disk may or may not have it.
Issue(c, Same(_), New(_)) ==
  [now |-> New(c.now), may |-> c.may \cup {New(m) : m \in {x \in c.may : Same(x)}}]

\* A successful sync of the directory of some of the cell's names: what the
\* cache shows of them is what the disk holds.
Sync(c, Same(_)) == [c EXCEPT !.may = {m \in c.may : Same(m)}]

\* An operation that is durable when it returns, an editor's save.
Save(c, Same(_), New(_)) ==
  [now |-> New(c.now), may |-> {New(m) : m \in {x \in c.may : Same(x)}}]

=============================================================================
