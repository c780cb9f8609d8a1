------------------------------ MODULE Revisions ------------------------------
(***************************************************************************)
(* The graph of revisions and the walks over it: store/dag.rs, and the     *)
(* numbers one clone gives revisions (history.rs, number).  Two clones     *)
(* record, each on all its heads, and this clone pulls from the other and  *)
(* the other from it, as git merges the two directories of heads.          *)
(*                                                                         *)
(* A revision's id, here its place in revs, orders it among those of one   *)
(* time and says nothing else; its time is any after its parents'.         *)
(* Numbers are INSERTed one at a time, each in a transaction of its own,   *)
(* by a process that may be killed between two of them.                    *)
(***************************************************************************)
EXTENDS Naturals, Sequences

CONSTANTS
  MaxRevisions, \* how many are recorded
  LastTime,     \* time stops here
  Skewed        \* whether a clone's clock may lie behind a revision it pulled

ASSUME RevisionsAssumption ==
  MaxRevisions \in Nat /\ LastTime \in Nat /\ Skewed \in BOOLEAN

VARIABLES
  revs,       \* id -> [parents, time], in the order made
  heads,      \* the heads of this clone and of the other
  synced,     \* the heads both had when one last pulled
  numbers,    \* _reldir_revisions of this clone: id -> number
  numbering   \* the ids an INSERT is still to come for, of the command running

revisionsVars == <<revs, heads, synced, numbers, numbering>>

Clones == {"mine", "other"}

RevisionsIdle ==
  /\ revs = <<>> /\ heads = [c \in Clones |-> {}] /\ synced = {}
  /\ numbers = <<>> /\ numbering = {}
RevisionsInit == RevisionsIdle

Newer(x, y) == revs[x].time > revs[y].time \/ (revs[x].time = revs[y].time /\ x > y)
Older(x, y) == Newer(y, x)

-----------------------------------------------------------------------------
(* Recording and pulling                                                   *)

\* prepare: a revision of the whole state, on every head there is.
Record(clone, time) ==
  /\ Len(revs) < MaxRevisions
  /\ Skewed \/ \A parent \in heads[clone] : time > revs[parent].time
  /\ revs' = Append(revs, [parents |-> heads[clone], time |-> time])
  /\ heads' = [heads EXCEPT ![clone] = {Len(revs) + 1}]
  /\ UNCHANGED <<synced, numbers, numbering>>

\* git's merge of two directories of files, each named by what it holds: a
\* head is there unless one side removed it.
Pull(clone, from) ==
  /\ clone # from
  /\ heads' = [heads EXCEPT ![clone] =
                 (@ \intersect heads[from]) \union (@ \ synced) \union (heads[from] \ synced)]
  /\ synced' = heads[from]
  /\ UNCHANGED <<revs, numbers, numbering>>

-----------------------------------------------------------------------------
(* number                                                                  *)

\* From the heads back, to the first numbered ancestor on each path.
Unnumbered ==
  LET met[id \in DOMAIN revs] ==
        /\ id \notin DOMAIN numbers
        /\ \/ id \in heads["mine"]
           \/ \E child \in (id + 1)..Len(revs) : id \in revs[child].parents /\ met[child]
  IN {id \in DOMAIN revs : met[id]}

Number ==
  /\ numbering = {} /\ Unnumbered # {}
  /\ numbering' = Unnumbered
  /\ UNCHANGED <<revs, heads, synced, numbers>>

\* The greatest number given.
Greatest ==
  LET given == {numbers[id] : id \in DOMAIN numbers}
  IN CHOOSE last \in {0} \union given : \A number \in given : number <= last

\* The INSERT of id, with the next number.
Give(id) ==
  /\ numbers' = [each \in DOMAIN numbers \union {id} |->
                   IF each = id THEN 1 + Greatest ELSE numbers[each]]
  /\ numbering' = numbering \ {id}
  /\ UNCHANGED <<revs, heads, synced>>

\* Mutant: the newest revision is numbered first.
InsertNewest == \E id \in numbering : (\A other \in numbering \ {id} : Newer(id, other)) /\ Give(id)

\* Sorted by time, and by id among those of one time.
Insert == \E id \in numbering : (\A other \in numbering \ {id} : Older(id, other)) /\ Give(id)

KillNumbering ==
  /\ numbering # {} /\ numbering' = {}
  /\ UNCHANGED <<revs, heads, synced, numbers>>

-----------------------------------------------------------------------------
(* A command is one process: nothing is recorded or pulled while it        *)
(* numbers.                                                                *)

RevisionsNext ==
  \/ /\ numbering = {}
     /\ \/ \E clone \in Clones, time \in 1..LastTime : Record(clone, time)
        \/ \E clone, from \in Clones : Pull(clone, from)
        \/ Number
  \/ Insert
  \/ KillNumbering

RevisionsSpec == RevisionsInit /\ [][RevisionsNext]_revisionsVars

-----------------------------------------------------------------------------
(* What the walks promise                                                  *)

\* Numbers are handed out once each and in an order in which a revision comes
\* after those it was made of; whatever number has an INSERT for leaves no
\* ancestor without one, so that the walk that stops at a numbered revision
\* misses none, also after a kill (history.rs:669, :687).
Numbered ==
  /\ \A x, y \in DOMAIN numbers : numbers[x] = numbers[y] => x = y
  /\ \A id \in DOMAIN numbers : \A parent \in revs[id].parents :
       parent \in DOMAIN numbers /\ numbers[parent] < numbers[id]

=============================================================================
