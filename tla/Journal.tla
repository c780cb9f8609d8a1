------------------------------- MODULE Journal -------------------------------
(***************************************************************************)
(* The commit protocol of engine/journal.rs: many files as one change.     *)
(*                                                                         *)
(* A writer holding the lock (one at a time: lock.rs) first recovers what  *)
(* an earlier process left, then plans a change, stages every new file in  *)
(* the change's transaction directory, writes the journal, and only then   *)
(* moves the staged files over their targets, publishes the revision's     *)
(* head and removes the journal.  A process may die anywhere, the power    *)
(* may go anywhere, any placement or sync may fail, and somebody may edit  *)
(* the files in between.                                                   *)
(*                                                                         *)
(* Contents are identities, not bytes: Absent, Base for a file that was    *)
(* there at the start, Foreign for an outside edit, and t for the bytes    *)
(* change t writes.  Targets live in table directories directly under the  *)
(* root.  History is one head per revision: Base, then t for change t.     *)
(***************************************************************************)
EXTENDS Folder, Integers, FiniteSets, Functions

CONSTANTS Target,      \* the files a change may write or remove
          Dir,         \* the table directories
          DirOf,       \* DirOf[p]: the directory of target p
          Root,        \* the folder itself, as a directory to sync
          HistDir,     \* .db/history and the directories of its artifacts
          N,           \* changes are 1..N, in the order they are begun
          Kinds,       \* what a change does to a target: "write", "delete"
          Faults,      \* the faults that may strike, see Strikes
          MaxFaults,   \* how many do
          Edits,       \* what an outside edit leaves in a file
          EditWhen,    \* when one may come: "idle", "busy", "racing"
          MaxEdits,    \* how many do
          NoTarget     \* no target

Txn == 1..N
Absent == -1
Base == 0
Foreign == -2
Content == {Absent, Base, Foreign} \cup Txn
Revision == {Base} \cup Txn

AllFaults == {"power", "kill", "killjournal", "killremoved", "sync", "syncjournal",
  "syncremoved", "drop", "place", "mark"}

ASSUME NAssumption == N \in Nat
ASSUME DirAssumption ==
  /\ DirOf \in [Target -> Dir]
  /\ Root \notin Dir /\ HistDir \notin Dir /\ Root # HistDir
ASSUME TargetAssumption == NoTarget \notin Target
ASSUME ChoiceAssumption ==
  /\ Kinds \subseteq {"write", "delete"} /\ Edits \subseteq Content
  /\ Faults \subseteq AllFaults /\ MaxFaults \in Nat
  /\ EditWhen \subseteq {"idle", "busy", "racing"} /\ MaxEdits \in Nat

VARIABLES
  \* the folder: each a Folder cell
  row,        \* row[p]: target p and the copies of it staged in transactions
  dir,        \* dir[d]: whether table directory d exists
  txn,        \* txn[t]: t's transaction directory
  hist,       \* the heads of history and the staged ones
  dropped,    \* the targets a failed sync marked clean without storing them
  \* the changes
  plan,       \* plan[t]: what t replaces and by what, and the heads it retires
  fate,       \* fate[t]: what has become of t
  told,       \* told[t]: what the caller that asked for t was told
  \* the process holding the lock
  pc,         \* what it does next
  recovering, \* whether it is still finishing earlier processes' changes
  scan,       \* the transactions recovery has still to look at
  blocked,    \* whether recovery had to leave one unfinished
  cur,        \* the change it is working on, 0 for none
  rewrite,    \* whether it writes placed files afresh: a sync failed before
  todo,       \* the targets of cur still to be looked at
  at,         \* the target being placed
  touched,    \* the directories to sync
  \* the environment's budget
  faults, edits

folder == <<row, dir, txn, hist, dropped>>
book == <<plan, fate, told>>
sweep == <<recovering, scan, blocked>>
work == <<cur, rewrite, todo, at, touched>>
budget == <<faults, edits>>
vars == <<folder, book, pc, sweep, work, budget>>

Row == [file : Content, staged : SUBSET Txn]
TxnDir == [dir : BOOLEAN, journal : {"none", "torn", "whole"}, marker : BOOLEAN]
Hist == [heads : SUBSET Revision, staged : SUBSET Txn]
Change == [pre : Content, post : Content]
Gone == [dir |-> FALSE, journal |-> "none", marker |-> FALSE]
NoPlan == [change |-> <<>>, retire |-> {}, prune |-> {}]

-----------------------------------------------------------------------------
(* The folder's operations                                                 *)

\* Mutant: a rename that copies and then unlinks, so that either may persist alone.
CopyThenUnlink(p, t) ==
  LET SameFile(m) == m.file = row[p].now.file
      NewFile(m) == [m EXCEPT !.file = t]
      SameStaged(m) == (t \in m.staged) = (t \in row[p].now.staged)
      NewStaged(m) == [m EXCEPT !.staged = @ \ {t}]
  IN  row' = [row EXCEPT ![p] = Issue(Issue(@, SameFile, NewFile), SameStaged, NewStaged)]

\* Rename t's staged copy over p.  Both names change together.
Rename(p, t) ==
  LET Same(m) == m.file = row[p].now.file /\ (t \in m.staged) = (t \in row[p].now.staged)
      New(m)  == [file |-> t, staged |-> m.staged \ {t}]
  IN  row' = [row EXCEPT ![p] = Issue(@, Same, New)]

\* Put c in p, by an operation on p's own name.
Put(p, c) ==
  LET Same(m) == m.file = row[p].now.file
      New(m)  == [m EXCEPT !.file = c]
  IN  row' = [row EXCEPT ![p] = Issue(@, Same, New)]

\* Create, or unlink, t's staged copies of the targets in S.
StageRows(t, S, there) ==
  LET Same(p, m) == (t \in m.staged) = (t \in row[p].now.staged)
      New(m) == [m EXCEPT !.staged = IF there THEN @ \cup {t} ELSE @ \ {t}]
  IN  row' = [p \in Target |->
                IF p \in S THEN Issue(row[p], LAMBDA m : Same(p, m), New) ELSE row[p]]

StageHead(t, there) ==
  LET Same(m) == (t \in m.staged) = (t \in hist.now.staged)
      New(m) == [m EXCEPT !.staged = IF there THEN @ \cup {t} ELSE @ \ {t}]
  IN  hist' = Issue(hist, Same, New)

\* The cell of a transaction directory with one of its names changed.
WithJournal(c, j) ==
  LET Same(m) == m.journal = c.now.journal
      New(m) == [m EXCEPT !.journal = j]
  IN  Issue(c, Same, New)

WithMarker(c, b) ==
  LET Same(m) == m.marker = c.now.marker
      New(m) == [m EXCEPT !.marker = b]
  IN  Issue(c, Same, New)

WithDir(c, b) ==
  LET Same(m) == m.dir = c.now.dir
      New(m) == [m EXCEPT !.dir = b]
  IN  Issue(c, Same, New)

SetJournal(t, j) == txn' = [txn EXCEPT ![t] = WithJournal(@, j)]
SetMarker(t, b) == txn' = [txn EXCEPT ![t] = WithMarker(@, b)]
SetDir(t, b) == txn' = [txn EXCEPT ![t] = WithDir(@, b)]

\* fsync of t's directory: the names in it are as the cache shows them.
SyncTxn(t) ==
  /\ row' = [p \in Target |->
       Sync(row[p], LAMBDA m : (t \in m.staged) = (t \in row[p].now.staged))]
  /\ hist' = Sync(hist, LAMBDA m : (t \in m.staged) = (t \in hist.now.staged))
  /\ txn' = [txn EXCEPT ![t] = Sync(@, LAMBDA m : /\ m.journal = txn[t].now.journal
                                                  /\ m.marker = txn[t].now.marker)]

\* Mutant: .db/transactions is not synced.
NoSyncTransactions == UNCHANGED txn

\* fsync of .db/transactions: which transaction directories there are.
SyncTransactions ==
  txn' = [t \in Txn |-> Sync(txn[t], LAMBDA m : m.dir = txn[t].now.dir)]

\* fsync of a table directory, of the root, or of history's directories.  What
\* an earlier failed sync marked clean is not stored by a later one.
SyncDir(x) ==
  /\ row' = [p \in Target |-> IF DirOf[p] = x /\ p \notin dropped
                              THEN Sync(row[p], LAMBDA m : m.file = row[p].now.file)
                              ELSE row[p]]
  /\ dir' = [d \in Dir |-> IF x = Root THEN Sync(dir[d], LAMBDA m : m = dir[d].now)
                                       ELSE dir[d]]
  /\ hist' = IF x = HistDir THEN Sync(hist, LAMBDA m : m.heads = hist.now.heads) ELSE hist

Exists(d) == dir[d].now
Empty(d) == \A p \in Target : DirOf[p] = d => row[p].now.file = Absent
\* Mutant: the plan names no head to retire.
RetiresNothing(t) == {}
Retired(t) == plan[t].retire
Delta(t) == plan[t].change
Post(t, p) == Delta(t)[p].post
Pre(t, p) == Delta(t)[p].pre

\* A fault of kind f, within the budget.
Strikes(f) == f \in Faults /\ faults > 0 /\ faults' = faults - 1
Calm == faults' = faults

-----------------------------------------------------------------------------
Goto(l) == pc' = l

\* The process works on no change.
Rest == /\ cur' = 0 /\ rewrite' = FALSE /\ todo' = {} /\ at' = NoTarget /\ touched' = {}

\* The process is gone, with all it remembered, and so is its lock.
Exit == /\ Goto("idle") /\ Rest
        /\ recovering' = FALSE /\ scan' = {} /\ blocked' = FALSE

-----------------------------------------------------------------------------
(* Opening and recovery: journal::recover                                  *)

\* Mutant: a writer takes the lock and does not recover.
OpenUnrecovered ==
  /\ pc = "idle" /\ Goto("ready")
  /\ UNCHANGED <<folder, book, sweep, work, budget>>

\* Take the lock and list the transactions left behind.
Open ==
  /\ pc = "idle" /\ Goto("scan")
  /\ scan' = {t \in Txn : txn[t].now.dir}
  /\ blocked' = FALSE /\ recovering' = TRUE
  /\ UNCHANGED <<folder, book, work, budget>>

\* The next transaction in the order of their names, which is that of their making.
First(S) == CHOOSE t \in S : \A u \in S : t <= u

\* Mutant: the walk up from a target starts at the target itself.
AncestorsAndTarget(t) ==
  {Root, HistDir} \cup DOMAIN Delta(t)
    \cup {d \in {DirOf[p] : p \in DOMAIN Delta(t)} : Exists(d)}

\* The directories recovery makes durable before it places anything: every
\* existing one between the root and a target or an artifact.
Ancestors(t) ==
  {Root, HistDir} \cup {d \in {DirOf[p] : p \in DOMAIN Delta(t)} : Exists(d)}

\* Recovery takes up t, whose journal it takes to be whole.
TakeUp(t, marked) ==
  /\ cur' = t /\ scan' = scan \ {t}
  /\ fate' = [fate EXCEPT ![t] = "committed"]
  /\ rewrite' = marked
  /\ todo' = DOMAIN Delta(t) /\ touched' = Ancestors(t)
  /\ UNCHANGED <<folder, plan, told, recovering, blocked, at, budget>>

\* Mutant: the marker is not looked for.
RecoverUnmarked ==
  /\ pc = "scan" /\ scan # {} /\ Goto("ancestors")
  /\ LET t == First(scan) IN txn[t].now.journal = "whole" /\ TakeUp(t, FALSE)

\* A transaction with a whole journal is committed, and is finished.
RecoverCommitted ==
  /\ pc = "scan" /\ scan # {} /\ Goto("ancestors")
  /\ LET t == First(scan) IN txn[t].now.journal = "whole" /\ TakeUp(t, txn[t].now.marker)

\* Mutant: a transaction whose sync failed is given up.
DiscardMarked ==
  /\ pc = "scan" /\ scan # {} /\ Goto("discard")
  /\ txn[First(scan)].now.journal # "whole" \/ txn[First(scan)].now.marker
  /\ cur' = First(scan) /\ scan' = scan \ {cur'}
  /\ UNCHANGED <<folder, book, recovering, blocked, rewrite, todo, at, touched, budget>>

\* Any other is discarded.
RecoverDiscard ==
  /\ pc = "scan" /\ scan # {} /\ Goto("discard")
  /\ txn[First(scan)].now.journal # "whole"
  /\ cur' = First(scan) /\ scan' = scan \ {cur'}
  /\ UNCHANGED <<folder, book, recovering, blocked, rewrite, todo, at, touched, budget>>

\* A committed change that could not be finished stops every writer.
RecoverEnd ==
  /\ pc = "scan" /\ scan = {}
  /\ IF blocked THEN Exit
     ELSE Goto("ready") /\ recovering' = FALSE /\ UNCHANGED <<scan, blocked, work>>
  /\ UNCHANGED <<folder, book, budget>>

\* The command ends and the lock is released.
Close == pc = "ready" /\ Exit /\ UNCHANGED <<folder, book, budget>>

-----------------------------------------------------------------------------
(* Planning and preflight                                                  *)

\* What a change planned now may do to a set of targets: remove those that are
\* there, write any.
Deltas(t) ==
  {[p \in S |-> [pre  |-> row[p].now.file, post |-> IF k[p] = "write" THEN t ELSE Absent]] :
     S \in (SUBSET Target) \ {{}}, k \in [Target -> Kinds]}
Sound(d) == \A p \in DOMAIN d : d[p].pre # d[p].post

\* The directories d may drop: every row in them goes.
Droppable(d) ==
  {e \in Dir : /\ Exists(e)
               /\ \A p \in Target : DirOf[p] = e =>
                    IF p \in DOMAIN d THEN d[p].post = Absent
                                      ELSE row[p].now.file = Absent}

\* Plan the next change, against the files as they are.
Plan ==
  /\ pc = "ready" /\ Goto("preflight")
  /\ \E t \in Txn :
       /\ fate[t] = "new" /\ \A u \in 1..(t - 1) : fate[u] # "new"
       /\ cur' = t
       /\ fate' = [fate EXCEPT ![t] = "planned"]
       /\ \E d \in {e \in Deltas(t) : Sound(e)} :
          \E gone \in {{}} \cup {{e} : e \in Droppable(d)} :
            plan' = [plan EXCEPT ![t] =
                       [change |-> d, retire |-> hist.now.heads, prune |-> gone]]
  /\ UNCHANGED <<folder, told, sweep, rewrite, todo, at, touched, budget>>

Writes(t) == {p \in DOMAIN Delta(t) : Post(t, p) # Absent}

\* Refused when a target no longer holds what was planned against.
PreflightRefuses ==
  /\ pc = "preflight" /\ Goto("ready") /\ Rest
  /\ \E p \in DOMAIN Delta(cur) : row[p].now.file # Pre(cur, p)
  /\ fate' = [fate EXCEPT ![cur] = "refused"] /\ told' = [told EXCEPT ![cur] = "refused"]
  /\ UNCHANGED <<folder, plan, sweep, budget>>

\* Otherwise the transaction directory is made and every new file, the head
\* among them, is staged in it.
Stage ==
  /\ pc = "preflight" /\ Goto("staged")
  /\ \A p \in DOMAIN Delta(cur) : row[p].now.file = Pre(cur, p)
  /\ SetDir(cur, TRUE) /\ StageRows(cur, Writes(cur), TRUE) /\ StageHead(cur, TRUE)
  /\ UNCHANGED <<dir, dropped, book, sweep, work, budget>>

-----------------------------------------------------------------------------
(* The journal, up to the commit point                                     *)

SyncStaged ==
  /\ pc = "staged"
  /\ \/ SyncTxn(cur) /\ Goto("journal") /\ Calm
     \/ Strikes("syncjournal") /\ Goto("discard") /\ UNCHANGED <<row, hist, txn>>
  /\ UNCHANGED <<dir, dropped, book, sweep, work, edits>>

\* The journal's file is created ...
CreateJournal ==
  /\ pc = "journal" /\ Goto("jwrite") /\ SetJournal(cur, "torn")
  /\ UNCHANGED <<row, dir, hist, dropped, book, sweep, work, budget>>

\* ... and its bytes written, trailer last; a power loss may tear it ...
WriteJournal ==
  /\ pc = "jwrite" /\ Goto("jsync") /\ SetJournal(cur, "whole")
  /\ UNCHANGED <<row, dir, hist, dropped, book, sweep, work, budget>>

\* ... until the file is synced, then its directory, then the one above it.  A
\* failed sync of the file may have dropped the bytes it was to store.
SyncJournalFile ==
  /\ pc = "jsync"
  /\ \/ /\ txn' = [txn EXCEPT ![cur] = Sync(@, LAMBDA m : m.journal # "torn")]
        /\ Goto("jdir") /\ Calm
     \/ /\ Strikes("syncjournal") /\ Goto("retract")
        /\ \/ UNCHANGED txn
           \/ txn' = [txn EXCEPT ![cur] =
                        [now |-> [@.now EXCEPT !.journal = "torn"],
                         may |-> {m \in @.may : m.journal # "whole"}]]
  /\ UNCHANGED <<row, dir, hist, dropped, book, sweep, work, edits>>

SyncJournalDir ==
  /\ pc = "jdir"
  /\ \/ SyncTxn(cur) /\ Goto("jtxns") /\ Calm
     \/ Strikes("syncjournal") /\ Goto("retract") /\ UNCHANGED <<row, hist, txn>>
  /\ UNCHANGED <<dir, dropped, book, sweep, work, edits>>

\* The commit point.
SyncJournalAbove ==
  /\ pc = "jtxns"
  /\ \/ /\ SyncTransactions /\ Goto("apply") /\ Calm
        /\ fate' = [fate EXCEPT ![cur] = "committed"] /\ todo' = DOMAIN Delta(cur)
     \/ Strikes("syncjournal") /\ Goto("retract") /\ UNCHANGED <<txn, fate, todo>>
  /\ UNCHANGED <<row, dir, hist, dropped, plan, told, sweep, cur, rewrite, at, touched,
                 edits>>

\* The command gives up on cur and says why.
Report(why) == Exit /\ told' = [told EXCEPT ![cur] = why]

\* The journal could not be made durable: take it back.
Retract ==
  /\ pc = "retract"
  /\ \/ SetJournal(cur, "none") /\ Goto("unlinked") /\ Calm /\ UNCHANGED <<told, sweep, work>>
     \/ Strikes("place") /\ Report("unknown") /\ UNCHANGED txn
  /\ UNCHANGED <<row, dir, hist, dropped, plan, fate, edits>>

\* Mutant: the journal's removal is not synced.
RetractionUnsynced ==
  /\ pc = "unlinked" /\ Goto("discard")
  /\ UNCHANGED <<folder, book, sweep, work, budget>>

SyncRetraction ==
  /\ pc = "unlinked"
  /\ \/ SyncTxn(cur) /\ Goto("discard") /\ Calm /\ UNCHANGED <<told, sweep, work>>
     \/ Strikes("syncjournal") /\ Report("unknown") /\ UNCHANGED <<row, hist, txn>>
  /\ UNCHANGED <<dir, dropped, plan, fate, edits>>

-----------------------------------------------------------------------------
(* Applying a committed change: journal::apply                             *)

\* Finishing stops for a reason a retry may meet again: recovery goes on to the
\* next transaction, a commit says that recovery is pending.
Suspend ==
  IF recovering
  THEN Goto("scan") /\ Rest /\ blocked' = TRUE /\ UNCHANGED <<told, recovering, scan>>
  ELSE Report("pending")

\* Finishing stops with an error, and a recovery with it.
Halt == IF recovering THEN Exit /\ UNCHANGED told ELSE Report("pending")

\* A sync of x fails; when the failure drops what it was storing of a table
\* directory, later syncs of it succeed without storing that.
SyncFails(x) ==
  /\ Goto("mark")
  /\ \/ Strikes("sync") /\ UNCHANGED dropped
     \/ /\ Strikes("drop") /\ x \in Dir
        /\ dropped' = dropped \cup {p \in Target : DirOf[p] = x}

\* Sync the touched directories one by one, then go on to l.
SyncTouched(here, l) ==
  /\ pc = here
  /\ \/ touched = {} /\ Goto(l) /\ Calm /\ UNCHANGED <<row, dir, hist, dropped, touched>>
     \/ \E x \in touched :
          \/ SyncDir(x) /\ touched' = touched \ {x} /\ Calm /\ UNCHANGED <<dropped, pc>>
          \/ SyncFails(x) /\ UNCHANGED <<row, dir, hist, touched>>
  /\ UNCHANGED <<txn, book, sweep, cur, rewrite, todo, at, edits>>

SyncAncestors == SyncTouched("ancestors", "apply")

\* After a failed sync the transaction is marked, if it can be.
Mark ==
  /\ pc = "mark" /\ Suspend
  /\ \/ SetMarker(cur, TRUE) /\ Calm
     \/ Strikes("mark") /\ UNCHANGED txn
  /\ UNCHANGED <<row, dir, hist, dropped, plan, fate, edits>>

\* Read one target p and go where what it holds says.
LookAt(p, next) ==
  /\ Goto(next)
  /\ at' = IF next = "apply" THEN NoTarget ELSE p
  /\ todo' = todo \ {p}
  /\ touched' = touched \cup {d \in {DirOf[p]} : Exists(d)}
  /\ UNCHANGED <<folder, book, sweep, cur, rewrite, budget>>

Again(p) == row[p].now.file = Post(cur, p) /\ rewrite /\ p \in Writes(cur)

\* Mutant: whatever is not in place is placed.
LookForPost ==
  /\ pc = "apply"
  /\ \E p \in todo : LookAt(p, IF Again(p) THEN "rewrite"
                              ELSE IF row[p].now.file # Post(cur, p) THEN "place" ELSE "apply")

\* One target is in place already, or edited outside and kept, or to be placed.
Look ==
  /\ pc = "apply"
  /\ \E p \in todo :
       LET now == row[p].now.file
       IN  LookAt(p, IF Again(p) THEN "rewrite"
                     ELSE IF now # Post(cur, p) /\ now = Pre(cur, p) THEN "place" ELSE "apply")

\* at is in place, and its directory is to be synced.
Placed ==
  /\ Goto("apply") /\ at' = NoTarget /\ touched' = touched \cup {DirOf[at]}
  /\ dropped' = dropped \ {at}
  /\ UNCHANGED <<dir, txn, hist, book, sweep, cur, rewrite, todo, budget>>

\* Write a placed file afresh beside itself, synced, and rename it over, ...
Rewrite == pc = "rewrite" /\ row[at].now.file = cur /\ Put(at, cur) /\ Placed

RewriteFails ==
  /\ pc = "rewrite" /\ row[at].now.file = cur /\ Strikes("sync") /\ Goto("mark")
  /\ UNCHANGED <<folder, book, sweep, work, edits>>

\* ... unless its bytes are no longer there: recovery has no history to take
\* them from.
RewriteLost ==
  /\ pc = "rewrite" /\ row[at].now.file # cur /\ Halt
  /\ UNCHANGED <<folder, plan, fate, budget>>

\* A missing table directory is made, and made durable, before a file is put in
\* it.  It is a new one: no file of an older one is in it.
MakeParent ==
  /\ pc = "place" /\ at \in Writes(cur) /\ ~Exists(DirOf[at]) /\ Goto("parent")
  /\ LET d == DirOf[at]
         Same(m) == m = dir[d].now
         New(m) == TRUE
     IN  /\ dir' = [dir EXCEPT ![d] = Issue(@, Same, New)]
         /\ row' = [p \in Target |-> IF DirOf[p] = d
                      THEN [row[p] EXCEPT !.may = {[m EXCEPT !.file = Absent] : m \in @}]
                      ELSE row[p]]
  /\ UNCHANGED <<txn, hist, dropped, book, sweep, work, budget>>

SyncParent ==
  /\ pc = "parent"
  /\ \/ /\ SyncDir(Root) /\ touched' = touched \cup {Root}
        /\ Goto("place") /\ Calm /\ UNCHANGED dropped
     \/ SyncFails(Root) /\ UNCHANGED <<row, dir, hist, touched>>
  /\ UNCHANGED <<txn, book, sweep, cur, rewrite, todo, at, edits>>

\* Rename the staged file over its target ...
PlaceFile ==
  /\ pc = "place" /\ at \in Writes(cur) /\ Exists(DirOf[at])
  /\ cur \in row[at].now.staged /\ Rename(at, cur) /\ Placed

\* ... or remove the target.
RemoveFile == pc = "place" /\ at \notin Writes(cur) /\ Put(at, Absent) /\ Placed

\* The staged copy is gone, and recovery has no history to take it from.
PlaceLost ==
  /\ pc = "place" /\ at \in Writes(cur) /\ Exists(DirOf[at])
  /\ cur \notin row[at].now.staged /\ Halt
  /\ UNCHANGED <<folder, plan, fate, budget>>

\* The filesystem refuses a rename, a removal or a mkdir.
PlaceBlocked ==
  /\ \/ pc \in {"place", "rewrite", "publish", "retire"}
     \/ pc = "apply" /\ todo = {} /\ plan[cur].prune # {}
  /\ Strikes("place") /\ Suspend
  /\ UNCHANGED <<folder, plan, fate, edits>>

\* A dropped table's directory goes once it is empty, and the root is synced
\* in its stead.
Prune ==
  /\ pc = "apply" /\ todo = {} /\ Goto("sync")
  /\ LET gone == {d \in plan[cur].prune : Exists(d) /\ Empty(d)}
         Same(d, m) == m = dir[d].now
         New(m) == FALSE
     IN  /\ dir' = [d \in Dir |-> IF d \in gone
                      THEN Issue(dir[d], LAMBDA m : Same(d, m), New) ELSE dir[d]]
         /\ touched' = (touched \ gone) \cup {r \in {Root} : gone # {}}
  /\ UNCHANGED <<row, txn, hist, dropped, book, sweep, cur, rewrite, todo, at, budget>>

\* Mutant: the directories placed into are not synced.
PlacedUnsynced ==
  /\ pc = "sync" /\ Goto("publish")
  /\ UNCHANGED <<folder, book, sweep, work, budget>>

SyncPlaced == SyncTouched("sync", "publish")

\* The head of the new revision is moved into place ...
MoveHead ==
  LET Same(m) == /\ (cur \in m.heads) = (cur \in hist.now.heads)
                 /\ (cur \in m.staged) = (cur \in hist.now.staged)
      New(m) == [heads |-> m.heads \cup {cur}, staged |-> m.staged \ {cur}]
  IN  hist' = Issue(hist, Same, New)

\* Mutant: a head that is in place already is not recognised.
PublishAlways ==
  /\ pc = "publish"
  /\ \/ /\ cur \in hist.now.staged /\ MoveHead /\ Goto("retire")
        /\ UNCHANGED <<row, dir, txn, dropped, book, sweep, work, budget>>
     \/ cur \notin hist.now.staged /\ Suspend /\ UNCHANGED <<folder, plan, fate, budget>>

\* ... if it is not there yet ...
Publish ==
  /\ pc = "publish" /\ Goto("retire")
  /\ \/ cur \in hist.now.heads /\ UNCHANGED hist
     \/ cur \notin hist.now.heads /\ cur \in hist.now.staged /\ MoveHead
  /\ UNCHANGED <<row, dir, txn, dropped, book, sweep, work, budget>>

\* ... or cannot be: it is neither published nor staged.
PublishLost ==
  /\ pc = "publish" /\ cur \notin hist.now.heads /\ cur \notin hist.now.staged
  /\ Suspend /\ UNCHANGED <<folder, plan, fate, budget>>

\* The heads it descends from are retired, one unlink each, ...
Retire ==
  /\ pc = "retire"
  /\ \E h \in Retired(cur) \cap hist.now.heads :
       LET Same(m) == (h \in m.heads) = (h \in hist.now.heads)
           New(m) == [m EXCEPT !.heads = @ \ {h}]
       IN  hist' = Issue(hist, Same, New)
  /\ UNCHANGED <<row, dir, txn, dropped, book, pc, sweep, work, budget>>

\* Mutant: the directory of the heads is not among those to sync.
RetireUntouched ==
  /\ pc = "retire" /\ Retired(cur) \cap hist.now.heads = {} /\ Goto("published")
  /\ touched' = {}
  /\ UNCHANGED <<folder, book, sweep, cur, rewrite, todo, at, budget>>

\* ... and history's directories are synced.
RetireDone ==
  /\ pc = "retire" /\ Retired(cur) \cap hist.now.heads = {} /\ Goto("published")
  /\ touched' = {HistDir}
  /\ UNCHANGED <<folder, book, sweep, cur, rewrite, todo, at, budget>>

SyncPublished == SyncTouched("published", "finish")

-----------------------------------------------------------------------------
(* Taking the transaction away: finish and discard                         *)

\* The journal goes first: from here on a crash discards the leftovers.
RemoveJournal ==
  /\ pc = "finish" /\ Goto("discard") /\ SetJournal(cur, "none")
  /\ UNCHANGED <<row, dir, hist, dropped, book, sweep, work, budget>>

FinishBlocked ==
  /\ pc = "finish" /\ Strikes("place") /\ Halt
  /\ UNCHANGED <<folder, plan, fate, edits>>

\* Everything left in the transaction directory is unlinked, ...
Unlink ==
  /\ pc = "discard" /\ Goto("rmdir")
  /\ txn' = [txn EXCEPT ![cur] = WithMarker(WithJournal(@, "none"), FALSE)]
  /\ StageRows(cur, Target, FALSE) /\ StageHead(cur, FALSE)
  /\ UNCHANGED <<dir, dropped, book, sweep, work, budget>>

\* ... then the directory itself is removed, ...
RemoveTxnDir ==
  /\ pc = "rmdir" /\ Goto("removed") /\ SetDir(cur, FALSE)
  /\ UNCHANGED <<row, dir, hist, dropped, book, sweep, work, budget>>

\* What has become of the change, and what its caller is told.
Settle ==
  LET f == IF fate[cur] = "committed" THEN "committed" ELSE "refused" IN
    /\ fate' = [fate EXCEPT ![cur] = f]
    /\ told' = IF recovering THEN told ELSE [told EXCEPT ![cur] = f]
    /\ Goto(IF recovering THEN "scan" ELSE "ready") /\ Rest
    /\ UNCHANGED <<plan, sweep>>

\* ... and .db/transactions is synced, a failure of which is ignored.
SyncRemoval ==
  /\ pc = "removed" /\ Settle
  /\ \/ SyncTransactions /\ Calm
     \/ Strikes("syncremoved") /\ UNCHANGED txn
  /\ UNCHANGED <<row, dir, hist, dropped, edits>>

\* A leftover that cannot be removed fails a recovery, leaves a commit pending,
\* and is ignored when the change was refused: recovery discards it later.
DiscardBlocked ==
  /\ pc \in {"discard", "rmdir"} /\ Strikes("place")
  /\ IF recovering \/ fate[cur] = "committed" THEN Halt /\ UNCHANGED <<plan, fate>>
                                              ELSE Settle
  /\ UNCHANGED <<folder, edits>>

-----------------------------------------------------------------------------
(* The environment                                                         *)

\* While the journal is being made durable, or taken back.
JournalWindow == {"jsync", "jdir", "jtxns", "retract", "unlinked"}

\* A kill is told by where it strikes: there, between the removal of a transaction's
\* directory and its sync, or anywhere else.
KindOfKill ==
  CASE pc \in JournalWindow -> "killjournal" [] pc = "removed" -> "killremoved" [] OTHER -> "kill"

\* The process dies; the cache lives on and the kernel drops the lock.
Kill ==
  /\ pc # "idle" /\ Strikes(KindOfKill)
  /\ Exit /\ UNCHANGED <<folder, book, edits>>

\* The functions that choose a value for each member of S among may[x].
Choices(S, may(_)) == {f \in [S -> UNION {may(x) : x \in S}] : \A x \in S : f[x] \in may(x)}

\* The power goes: what the disk happens to hold is what there is.  A name in a
\* directory that is not there is not there either.
PowerLoss ==
  /\ Strikes("power") /\ Exit
  /\ \E tt \in Choices(Txn, LAMBDA t : txn[t].may) :
     \E rr \in Choices(Target, LAMBDA p : row[p].may) :
     \E dd \in Choices(Dir, LAMBDA d : dir[d].may) :
     \E hh \in hist.may :
       /\ txn' = [t \in Txn |-> Durable(IF tt[t].dir THEN tt[t] ELSE Gone)]
       /\ row' = [p \in Target |->
            Durable([file   |-> IF dd[DirOf[p]] THEN rr[p].file ELSE Absent,
                     staged |-> {t \in rr[p].staged : tt[t].dir}])]
       /\ dir' = [d \in Dir |-> Durable(dd[d])]
       /\ hist' = Durable([hh EXCEPT !.staged = {t \in @ : tt[t].dir}])
  /\ dropped' = {}
  /\ UNCHANGED <<book, edits>>

\* When an outside edit of p comes: between commands, during one, or between
\* the look at p and its placement.
Moment(p) == IF pc = "idle" THEN "idle" ELSE IF at = p THEN "racing" ELSE "busy"

\* Somebody saves p in an existing directory, or removes it; the save is durable.
Edit(p) ==
  /\ edits > 0 /\ edits' = edits - 1
  /\ Moment(p) \in EditWhen /\ Exists(DirOf[p])
  /\ \E c \in Edits \ {row[p].now.file} :
       LET Same(m) == m.file = row[p].now.file
           New(m) == [m EXCEPT !.file = c]
       IN  row' = [row EXCEPT ![p] = Save(@, Same, New)]
  /\ dir' = [dir EXCEPT ![DirOf[p]] = Durable(TRUE)]
  /\ dropped' = dropped \ {p}
  /\ UNCHANGED <<txn, hist, book, pc, sweep, work, faults>>

-----------------------------------------------------------------------------

Init ==
  /\ \E here \in SUBSET Target :
       /\ row = [p \in Target |->
            Durable([file |-> IF p \in here THEN Base ELSE Absent, staged |-> {}])]
       /\ dir = [d \in Dir |-> Durable(\E p \in here : DirOf[p] = d)]
  /\ txn = [t \in Txn |-> Durable(Gone)]
  /\ hist = Durable([heads |-> {Base}, staged |-> {}])
  /\ dropped = {}
  /\ plan = [t \in Txn |-> NoPlan]
  /\ fate = [t \in Txn |-> "new"] /\ told = [t \in Txn |-> "none"]
  /\ pc = "idle" /\ recovering = FALSE /\ scan = {} /\ blocked = FALSE
  /\ cur = 0 /\ rewrite = FALSE /\ todo = {} /\ at = NoTarget /\ touched = {}
  /\ faults = MaxFaults /\ edits = MaxEdits

Recovery == Open \/ RecoverCommitted \/ RecoverDiscard \/ RecoverEnd
Commit == \/ PreflightRefuses \/ Stage \/ SyncStaged \/ CreateJournal \/ WriteJournal
          \/ SyncJournalFile \/ SyncJournalDir \/ SyncJournalAbove
          \/ Retract \/ SyncRetraction
Apply == \/ SyncAncestors \/ Look \/ Rewrite \/ RewriteFails \/ MakeParent \/ SyncParent
         \/ PlaceFile \/ RemoveFile \/ Prune \/ SyncPlaced
         \/ Publish \/ Retire \/ RetireDone \/ SyncPublished \/ Mark
Finish == RemoveJournal \/ Unlink \/ RemoveTxnDir \/ SyncRemoval
Lost == RewriteLost \/ PlaceLost \/ PublishLost
Refused == PlaceBlocked \/ FinishBlocked \/ DiscardBlocked

\* What the lock's holder does of itself.
Step == Recovery \/ Commit \/ Apply \/ Finish \/ Lost

Next == \/ Step \/ Plan \/ Close
        \/ Refused \/ Kill \/ PowerLoss
        \/ \E p \in Target : Edit(p)

Spec == Init /\ [][Next]_vars

\* A command, once started, runs on, and reldir is run again after a failure.
FairSpec == Spec /\ WF_vars(Step)

-----------------------------------------------------------------------------
(* Properties                                                              *)

Locations == {"idle", "scan", "ready", "preflight", "staged", "journal", "jwrite", "jsync",
  "jdir", "jtxns", "retract", "unlinked", "ancestors", "apply", "place", "parent", "rewrite",
  "sync", "mark", "publish", "retire", "published", "finish", "discard", "rmdir", "removed"}

FolderType ==
  /\ row \in [Target -> Cells(Row)]
  /\ dir \in [Dir -> Cells(BOOLEAN)]
  /\ txn \in [Txn -> Cells(TxnDir)]
  /\ hist \in Cells(Hist)
  /\ dropped \subseteq Target

PlanType(x) ==
  /\ DOMAIN x.change \subseteq Target
  /\ \A p \in DOMAIN x.change : x.change[p] \in Change
  /\ x.retire \subseteq Revision
  /\ x.prune \subseteq Dir

BookType ==
  /\ DOMAIN plan = Txn /\ \A t \in Txn : PlanType(plan[t])
  /\ fate \in [Txn -> {"new", "planned", "committed", "refused"}]
  /\ told \in [Txn -> {"none", "committed", "refused", "pending", "unknown"}]

ProcessType ==
  /\ pc \in Locations
  /\ recovering \in BOOLEAN /\ scan \subseteq Txn /\ blocked \in BOOLEAN
  /\ cur \in Txn \cup {0} /\ rewrite \in BOOLEAN
  /\ todo \subseteq Target /\ at \in Target \cup {NoTarget}
  /\ touched \subseteq Dir \cup {Root, HistDir}
  /\ pc \notin {"idle", "scan", "ready"} => cur \in Txn
  /\ pc \in {"ancestors", "apply", "place", "parent", "rewrite"} => todo \subseteq DOMAIN Delta(cur)
  /\ pc \in {"place", "parent", "rewrite"} => at \in DOMAIN Delta(cur)

BudgetType == faults \in 0..MaxFaults /\ edits \in 0..MaxEdits

\* The variables have their types, and a process that is at work knows on which
\* change and, while placing, on which of its targets.
TypeOK == FolderType /\ BookType /\ ProcessType /\ BudgetType

\* A transaction directory that recovery would finish rather than discard.
Committing(m) == m.dir /\ m.journal = "whole"
Live(t) == Committing(txn[t].now)

\* The journal of t is there on every disk, or on some disk, a power loss leaves.
MustBeLive(t) == \A m \in txn[t].may : Committing(m)
MayBeLive(t) == \E m \in txn[t].may : Committing(m)

\* Write-ahead: from the commit point until the journal is taken away, no power
\* loss can lose it; so what it says can be finished whatever is in place.
WriteAhead ==
  \A t \in Txn : fate[t] = "committed" /\ Live(t) => MustBeLive(t)

\* What a power loss may leave in p: nothing, when it may take p's directory.
AfterLoss(p) ==
  {IF d THEN m.file ELSE Absent : d \in dir[DirOf[p]].may, m \in row[p].may}

\* Before or after, on every disk: where t's journal may be missing, either no
\* disk holds a file as t leaves it or none holds a file as t found it.  (Until
\* a later change is decided; a file edited outside counts as neither.)
BeforeOrAfter ==
  \A t \in Txn :
    /\ fate[t] # "new" /\ ~MustBeLive(t)
    /\ \A u \in Txn : u > t => fate[u] \in {"new", "refused"}
    => \/ \A p \in DOMAIN Delta(t) : Post(t, p) \notin AfterLoss(p)
       \/ \A p \in DOMAIN Delta(t) : Pre(t, p) \notin AfterLoss(p)

\* The same, as a reader finds it once recovery is done: a change is made or not
\* made, and there is no third outcome.
NoThirdOutcome ==
  pc = "ready" => \A t \in Txn :
    /\ fate[t] # "new"
    /\ \A u \in Txn : u > t => fate[u] \in {"new", "refused"}
    => \/ \A p \in DOMAIN Delta(t) : row[p].now.file # Post(t, p)
       \/ \A p \in DOMAIN Delta(t) : row[p].now.file # Pre(t, p)

\* Recovery always has what it needs: a file to be placed is still staged, one to
\* be written afresh is still there, a head not yet published is still staged.
NeverLost ==
  /\ pc = "place" /\ at \in Writes(cur) => cur \in row[at].now.staged
  /\ pc = "rewrite" => row[at].now.file = cur
  /\ pc = "publish" => cur \in hist.now.heads \/ cur \in hist.now.staged

\* A change whose caller was told that nothing was written stays unwritten: no
\* disk holds a journal that would bring it back.
RefusedForGood == \A t \in Txn : told[t] = "refused" => ~MayBeLive(t)

\* A caller is told a change is made, or made and still to be finished, only of
\* a change that no failure takes back: its files or its journal are there on
\* every disk.
AckedForGood ==
  \A t \in Txn : told[t] \in {"committed", "pending"} =>
    /\ fate[t] = "committed"
    /\ \/ MustBeLive(t)
       \/ t \in hist.now.heads /\ \A h \in hist.may : t \in h.heads
       \/ \E u \in Txn : u > t /\ fate[u] = "committed"

\* The writer of t has decided it, or has told its caller so.
Decided(t) ==
  told[t] \in {"committed", "pending"} \/ (cur = t /\ ~recovering /\ fate[t] = "committed")

\* Once its writer has decided a change, no disk brings an older one's journal
\* back, not even one whose removal could not be synced: replayed, the older
\* change would undo what the newer one made of the same files.
OneJournal == \A t, u \in Txn : t < u /\ Decided(u) => ~MayBeLive(t)

\* When a process is ready to plan, history's head is the last change made, and
\* no other: heads and files tell of the same changes.
HeadFollows ==
  pc = "ready" =>
    LET made == {t \in Txn : fate[t] = "committed"} IN
      /\ hist.now.heads = {IF made = {} THEN Base
                           ELSE CHOOSE t \in made : \A u \in made : u <= t}
      /\ \A h \in hist.may : h.heads = hist.now.heads

-----------------------------------------------------------------------------
(* The abstract store this protocol implements                             *)

\* What a target holds once the change in progress is finished.
Finishes(t, p) == Live(t) /\ p \in DOMAIN Delta(t) /\ row[p].now.file = Pre(t, p)
View == [p \in Target |->
           IF \E t \in Txn : Finishes(t, p)
           THEN Post(CHOOSE t \in Txn : Finishes(t, p), p)
           ELSE row[p].now.file]

\* Readers see a change from the moment its journal is whole.
Visibility == [t \in Txn |-> IF fate[t] = "planned" /\ Live(t) THEN "visible" ELSE fate[t]]

Store == INSTANCE AtomicStore WITH
  db <- View, st <- Visibility, delta <- [t \in Txn |-> Delta(t)]

\* Every change is one change: to all its files at once or to none, decided once
\* and never undone, whatever fails on the way.
Atomic == Store!Spec

\* Nothing but a change planned against an outside edit takes it away.
EditsKept ==
  [][\A p \in Target :
       row[p].now.file = Foreign /\ row'[p].now.file # Foreign =>
         edits' # edits \/ \E t \in Txn : p \in DOMAIN Delta(t) /\ Pre(t, p) = Foreign
                                         /\ fate[t] = "committed"]_vars

\* As long as reldir is run again, a committed change is finished.
Finished == \A t \in Txn : fate[t] = "committed" ~> ~Live(t) /\ pc \in {"ready", "idle"}

=============================================================================
