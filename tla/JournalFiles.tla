---------------------------- MODULE JournalFiles ----------------------------
(***************************************************************************)
(* What the commit protocol makes of the files, for every number of        *)
(* changes, targets and faults.  Whatever fails, no file saved from        *)
(* outside is taken away by a change that was not planned against it.      *)
(* And where nobody edits, a change is found made or not made on every     *)
(* disk on which its journal may be missing, with no third outcome.        *)
(*                                                                         *)
(* The invariant of the second, FilesTell, says of the last change made    *)
(* that its files are in place for good or its journal is there to finish  *)
(* them, that no older journal is left, and that what was planned since    *)
(* found it done.                                                          *)
(*                                                                         *)
(* For whoever reads the files, then: recovery has what it needs to finish *)
(* a change, and every change is one change, made at once or not at all    *)
(* and never undone.                                                       *)
(***************************************************************************)
EXTENDS JournalProof

\* A decided change was planned against an outside edit of p.
Licensed(p) ==
  \E t \in Txn : p \in DOMAIN Delta(t) /\ Pre(t, p) = Foreign /\ fate[t] = "committed"

\* A file as every disk holds it, so far as outside edits go, in a directory
\* that every disk has: r is the file's cell, d its directory's.
Stays(r, d) ==
  /\ \A m \in r.may : m.file = Foreign <=> r.now.file = Foreign
  /\ r.now.file = Foreign => d.now /\ \A x \in d.may : x

\* What is about to be replaced is what the change was planned against.
Looked == pc \in {"place", "parent"} => row[at].now.file = Pre(cur, at)

\* The invariant: an edit stays, on every disk, until a change may take it.
Watched ==
  /\ \A p \in Target : Licensed(p) \/ Stays(row[p], dir[DirOf[p]])
  /\ Looked

\* Nobody saves a file between the look at it and its placement, or at all.
Unraced == "racing" \notin EditWhen
Unedited == Edits = {}

\* Nothing takes the edit of p away.
Spared(p) ==
  row[p].now.file = Foreign /\ row'[p].now.file # Foreign => edits' # edits \/ Licensed(p)

-----------------------------------------------------------------------------
(* A decided change                                                        *)

\* What is decided stays decided, and as it was planned.
LEMMA DecidedStays ==
  ASSUME TypeOK, Ledger, [Next]_vars, NEW t \in Txn, fate[t] = "committed"
  PROVE  fate'[t] = "committed" /\ plan'[t] = plan[t]
<1> USE DEF Goto, folder, book, sweep, work, budget
<1>0. /\ pc \in Making => fate[cur] = "planned"
      /\ fate \in [Txn -> {"new", "planned", "committed", "refused"}]
      /\ DOMAIN plan = Txn
  BY DEF TypeOK, BookType, Ledger, Stages
<1>1. CASE Recovery
  BY <1>0, <1>1 DEF Recovery, Open, RecoverCommitted, TakeUp, RecoverDiscard, RecoverEnd, Exit
<1>2. CASE PreflightRefuses \/ SyncJournalAbove
  BY <1>0, <1>2 DEF PreflightRefuses, SyncJournalAbove, Making, Early, Window
<1>3. CASE Plan
  BY <1>0, <1>3 DEF Plan
<1>4. CASE SyncRemoval \/ DiscardBlocked
  BY <1>0, <1>4 DEF SyncRemoval, DiscardBlocked, Settle
<1>5. CASE UNCHANGED <<plan, fate>>
  BY <1>5
<1>6. ASSUME Step, ~Recovery, ~PreflightRefuses, ~SyncJournalAbove, ~SyncRemoval
      PROVE  UNCHANGED <<plan, fate>>
  <2>1. CASE Commit
    BY <1>6, <2>1 DEF Commit, Stage, SyncStaged, CreateJournal, WriteJournal, SyncJournalFile,
       SyncJournalDir, Retract, SyncRetraction
  <2>2. CASE Apply
    BY <1>6, <2>2 DEF Apply, SyncAncestors, SyncPlaced, SyncPublished, SyncTouched, Look, LookAt,
       Rewrite, Placed, RewriteFails, MakeParent, SyncParent, PlaceFile, RemoveFile, Prune,
       Publish, Retire, RetireDone, Mark
  <2>3. CASE Finish \/ Lost
    BY <1>6, <2>3 DEF Finish, RemoveJournal, Unlink, RemoveTxnDir, Lost, RewriteLost, PlaceLost,
       PublishLost
  <2> QED BY <1>6, <2>1, <2>2, <2>3 DEF Step
<1>7. CASE Close \/ PlaceBlocked \/ FinishBlocked \/ Kill \/ PowerLoss \/ UNCHANGED vars
           \/ \E p \in Target : Edit(p)
  BY <1>7 DEF Close, PlaceBlocked, FinishBlocked, Kill, PowerLoss, Edit, vars
<1> QED
  BY <1>1, <1>2, <1>3, <1>4, <1>5, <1>6, <1>7 DEF Next, Refused

LEMMA LicensedStays ==
  ASSUME TypeOK, Ledger, [Next]_vars, NEW p \in Target, Licensed(p)
  PROVE  Licensed(p)'
<1>1. PICK t \in Txn : p \in DOMAIN Delta(t) /\ Pre(t, p) = Foreign /\ fate[t] = "committed"
  BY DEF Licensed
<1>2. fate'[t] = "committed" /\ plan'[t] = plan[t]
  BY <1>1, DecidedStays
<1> QED BY <1>1, <1>2 DEF Licensed, Delta, Pre

-----------------------------------------------------------------------------
(* What the steps do to the files                                          *)

\* p's file and its directory are to the eye as they were, and no disk has
\* become possible for either.
Alike(p) ==
  /\ row'[p].now.file = row[p].now.file
  /\ \A m \in row'[p].may : \E n \in row[p].may : m.file = n.file
  /\ dir'[DirOf[p]].now = dir[DirOf[p]].now
  /\ dir'[DirOf[p]].may \subseteq dir[DirOf[p]].may

\* All the folder's files and directories are so.
Steady ==
  /\ \A d \in Dir : dir'[d].now = dir[d].now /\ dir'[d].may \subseteq dir[d].may
  /\ \A p \in Target : Alike(p)

LEMMA AlikeStays ==
  ASSUME NEW p \in Target, Alike(p), Stays(row[p], dir[DirOf[p]])
  PROVE  Stays(row[p], dir[DirOf[p]])'
BY DEF Alike, Stays

LEMMA StagedAlike ==
  ASSUME TypeOK, NEW t \in Txn, NEW S \in SUBSET Target, NEW there \in BOOLEAN,
         StageRows(t, S, there), UNCHANGED dir
  PROVE  Steady
<1> SUFFICES ASSUME NEW p \in Target PROVE Alike(p)
  BY DEF Steady
<1>1. row[p] \in Cells(Row)
  BY DEF TypeOK, FolderType
<1>2. CASE p \notin S
  BY <1>2 DEF StageRows, Alike
<1>3. CASE p \in S
  BY <1>1, <1>3 DEF StageRows, Issue, Alike, Cells, Row
<1> QED BY <1>2, <1>3

LEMMA SyncedAlike ==
  ASSUME TypeOK,
         \/ (\E t \in Txn : SyncTxn(t)) /\ UNCHANGED dir
         \/ \E x : SyncDir(x)
  PROVE  Steady
<1>0. \A d \in Dir : dir'[d].now = dir[d].now /\ dir'[d].may \subseteq dir[d].may
  BY DEF SyncDir, Sync, TypeOK, FolderType, Cells
<1> SUFFICES ASSUME NEW p \in Target PROVE Alike(p)
  BY <1>0 DEF Steady
<1>1. DirOf[p] \in Dir
  BY DirAssumption
<1>2. row'[p].now = row[p].now /\ row'[p].may \subseteq row[p].may
  <2>1. CASE \E t \in Txn : SyncTxn(t)
    BY <2>1 DEF SyncTxn, Sync, TypeOK, FolderType, Cells
  <2>2. CASE \E x : SyncDir(x)
    BY <2>2 DEF SyncDir, Sync, TypeOK, FolderType, Cells
  <2> QED BY <2>1, <2>2
<1> QED BY <1>0, <1>1, <1>2 DEF Alike

\* Every step but those that replace a file, make or drop a directory.
LEMMA StepsAlike ==
  ASSUME TypeOK, [Next]_vars, ~Rewrite, ~PlaceFile, ~RemoveFile, ~MakeParent, ~Prune, ~PowerLoss,
         \A p \in Target : ~Edit(p)
  PROVE  Steady
<1> USE DEF folder
<1>0. pc \notin {"idle", "scan", "ready"} => cur \in Txn
  BY DEF TypeOK, ProcessType
<1>1. CASE UNCHANGED <<row, dir>>
  BY <1>1 DEF Steady, Alike
<1>2. CASE Recovery
  BY <1>1, <1>2 DEF Recovery, Open, RecoverCommitted, TakeUp, RecoverDiscard, RecoverEnd
<1>3. CASE Stage \/ Unlink
  <2>1. Writes(cur) \in SUBSET Target /\ cur \in Txn
    BY <1>0, <1>3 DEF Stage, Unlink, Writes, Delta, TypeOK, BookType, PlanType
  <2> QED BY <1>3, <2>1, StagedAlike DEF Stage, Unlink
<1>4. CASE SyncStaged \/ SyncJournalDir \/ SyncRetraction
  <2>1. UNCHANGED <<row, dir>> \/ (SyncTxn(cur) /\ cur \in Txn /\ UNCHANGED dir)
    BY <1>0, <1>4 DEF SyncStaged, SyncJournalDir, SyncRetraction
  <2> QED BY <1>1, <2>1, SyncedAlike
<1>5. CASE SyncAncestors \/ SyncPlaced \/ SyncPublished \/ SyncParent
  <2>1. UNCHANGED <<row, dir>> \/ \E x : SyncDir(x)
    BY <1>5 DEF SyncAncestors, SyncPlaced, SyncPublished, SyncParent, SyncTouched
  <2> QED BY <1>1, <2>1, SyncedAlike
<1>6. CASE \/ PreflightRefuses \/ CreateJournal \/ WriteJournal \/ SyncJournalFile
           \/ SyncJournalAbove \/ Retract
  BY <1>1, <1>6 DEF PreflightRefuses, CreateJournal, WriteJournal, SyncJournalFile,
     SyncJournalAbove, Retract
<1>7. CASE Look \/ RewriteFails \/ Publish \/ Retire \/ RetireDone \/ Mark
  BY <1>1, <1>7 DEF Look, LookAt, RewriteFails, Publish, Retire, RetireDone, Mark
<1>8. CASE RemoveJournal \/ RemoveTxnDir \/ SyncRemoval \/ Lost \/ Refused
  BY <1>1, <1>8 DEF RemoveJournal, RemoveTxnDir, SyncRemoval, Lost, RewriteLost, PlaceLost,
     PublishLost, Refused, PlaceBlocked, FinishBlocked, DiscardBlocked
<1>9. CASE Plan \/ Close \/ Kill \/ UNCHANGED vars
  BY <1>1, <1>9 DEF Plan, Close, Kill, vars
<1> QED
  BY <1>2, <1>3, <1>4, <1>5, <1>6, <1>7, <1>8, <1>9 DEF Next, Step, Commit, Apply, Finish

\* A file that a decided change replaces is the one it was planned against.
LEMMA ReplacedStays ==
  ASSUME TypeOK, Ledger, Watched, Rewrite \/ PlaceFile \/ RemoveFile, NEW p \in Target
  PROVE  \/ Licensed(p)
         \/ /\ Stays(row[p], dir[DirOf[p]])'
            /\ row[p].now.file = Foreign => p # at
<1>1. /\ cur \in Txn /\ at \in DOMAIN Delta(cur) /\ at \in Target /\ fate[cur] = "committed"
      /\ UNCHANGED dir
  BY DEF Rewrite, PlaceFile, RemoveFile, Placed, TypeOK, ProcessType, BookType, PlanType, Delta,
     Ledger, Stages, Applying
<1>2. cur # Foreign /\ Absent # Foreign
  BY <1>1, NAssumption DEF Foreign, Absent, Txn
<1>3. CASE p # at
  <2>1. row'[p] = row[p]
    BY <1>1, <1>3 DEF Rewrite, PlaceFile, RemoveFile, Rename, Put, TypeOK, FolderType
  <2> QED BY <1>1, <1>3, <2>1 DEF Watched
<1>4. CASE p = at /\ row[at].now.file = Foreign
  <2>1. Pre(cur, at) = Foreign
    BY <1>2, <1>4 DEF Watched, Looked, Rewrite, PlaceFile, RemoveFile
  <2> QED BY <1>1, <1>4, <2>1 DEF Licensed
<1>5. CASE p = at /\ row[at].now.file # Foreign /\ ~Licensed(p)
  <2>1. row[at] \in Cells(Row) /\ \A m \in row[at].may : m.file # Foreign
    BY <1>1, <1>5 DEF Watched, Stays, TypeOK, FolderType
  <2>2. row'[at].now.file # Foreign /\ \A m \in row'[at].may : m.file # Foreign
    BY <1>1, <1>2, <2>1 DEF Rewrite, PlaceFile, RemoveFile, Rename, Put, Issue, TypeOK, FolderType,
       Cells, Row
  <2> QED BY <1>5, <2>2 DEF Stays
<1> QED BY <1>3, <1>4, <1>5

\* A new directory holds no older file, and a directory with a file is not dropped.
LEMMA DirectoriesStay ==
  ASSUME TypeOK, MakeParent \/ Prune, NEW p \in Target, Stays(row[p], dir[DirOf[p]])
  PROVE  Stays(row[p], dir[DirOf[p]])' /\ row'[p].now = row[p].now
<1>1. DirOf[p] \in Dir /\ row[p] \in Cells(Row) /\ dir[DirOf[p]] \in Cells(BOOLEAN)
  BY DirAssumption DEF TypeOK, FolderType
<1>2. Absent # Foreign
  BY DEF Absent, Foreign
<1>3. CASE MakeParent
  <2>1. CASE DirOf[p] # DirOf[at]
    BY <1>1, <1>3, <2>1 DEF MakeParent, Stays, TypeOK, FolderType
  <2>2. CASE DirOf[p] = DirOf[at]
    <3>1. row[p].now.file # Foreign
      BY <1>3, <2>2 DEF MakeParent, Exists, Stays
    <3>2. row'[p] = [row[p] EXCEPT !.may = {[m EXCEPT !.file = Absent] : m \in @}]
      BY <1>3, <2>2 DEF MakeParent
    <3>3. row'[p].now = row[p].now /\ \A m \in row'[p].may : m.file = Absent
      BY <1>1, <3>2 DEF Cells, Row
    <3> QED BY <1>2, <3>1, <3>3 DEF Stays
  <2> QED BY <2>1, <2>2
<1>4. CASE Prune
  <2>1. row'[p] = row[p]
    BY <1>4 DEF Prune
  <2>2. CASE row[p].now.file = Foreign
    <3>1. ~Empty(DirOf[p])
      BY <1>2, <2>2 DEF Empty
    <3>2. dir'[DirOf[p]] = dir[DirOf[p]]
      BY <1>1, <1>4, <3>1 DEF Prune
    <3> QED BY <2>1, <3>2
  <2>3. CASE row[p].now.file # Foreign
    BY <2>1, <2>3 DEF Stays
  <2> QED BY <2>1, <2>2, <2>3
<1> QED BY <1>3, <1>4

\* What an edit leaves is on every disk.
LEMMA EditStays ==
  ASSUME TypeOK, NEW e \in Target, Edit(e), NEW p \in Target, Stays(row[p], dir[DirOf[p]])
  PROVE  Stays(row[p], dir[DirOf[p]])'
<1>1. DirOf[p] \in Dir /\ row[p] \in Cells(Row) /\ dir[DirOf[p]] \in Cells(BOOLEAN)
  BY DirAssumption DEF TypeOK, FolderType
<1>2. \/ dir'[DirOf[p]] = dir[DirOf[p]]
      \/ dir'[DirOf[p]].now /\ \A x \in dir'[DirOf[p]].may : x
  BY <1>1 DEF Edit, Durable, TypeOK, FolderType
<1>3. CASE p # e
  <2>1. row'[p] = row[p]
    BY <1>3 DEF Edit
  <2> QED BY <1>2, <2>1 DEF Stays
<1>4. CASE p = e
  <2>1. dir'[DirOf[p]].now /\ \A x \in dir'[DirOf[p]].may : x
    BY <1>1, <1>4 DEF Edit, Durable, TypeOK, FolderType
  <2>2. PICK c \in Edits :
          row'[p].now.file = c /\ \A m \in row'[p].may : m.file = c
    BY <1>1, <1>4 DEF Edit, Save, TypeOK, FolderType, Cells, Row
  <2> QED BY <2>1, <2>2 DEF Stays
<1> QED BY <1>3, <1>4

\* A power loss leaves an edit that every disk holds.
LEMMA LossStays ==
  ASSUME TypeOK, PowerLoss, NEW p \in Target, Stays(row[p], dir[DirOf[p]])
  PROVE  /\ Stays(row[p], dir[DirOf[p]])'
         /\ row[p].now.file = Foreign => row'[p].now.file = Foreign
<1>1. DirOf[p] \in Dir /\ Absent # Foreign
  BY DirAssumption DEF Absent, Foreign
<1>2. PICK d \in dir[DirOf[p]].may, m \in row[p].may, S \in SUBSET Txn :
        /\ dir'[DirOf[p]] = Durable(d)
        /\ row'[p] = Durable([file |-> IF d THEN m.file ELSE Absent, staged |-> S])
  <2>1. PICK tt \in Choices(Txn, LAMBDA t : txn[t].may),
             rr \in Choices(Target, LAMBDA x : row[x].may),
             dd \in Choices(Dir, LAMBDA x : dir[x].may) :
          /\ row' = [x \in Target |->
               Durable([file   |-> IF dd[DirOf[x]] THEN rr[x].file ELSE Absent,
                        staged |-> {t \in rr[x].staged : tt[t].dir}])]
          /\ dir' = [x \in Dir |-> Durable(dd[x])]
    BY DEF PowerLoss
  <2>2. rr[p] \in row[p].may /\ dd[DirOf[p]] \in dir[DirOf[p]].may
    BY <1>1, <2>1 DEF Choices
  <2>3. rr[p].staged \subseteq Txn
    BY <2>2 DEF TypeOK, FolderType, Cells, Row
  <2> QED BY <1>1, <2>1, <2>2, <2>3
<1>3. row'[p].now.file = row'[p].now.file /\ row'[p].may = {row'[p].now}
      /\ row'[p].now.file = (IF d THEN m.file ELSE Absent)
  BY <1>2 DEF Durable
<1>4. CASE row[p].now.file = Foreign
  BY <1>2, <1>3, <1>4 DEF Stays, Durable
<1>5. CASE row[p].now.file # Foreign
  BY <1>1, <1>2, <1>3, <1>5 DEF Stays
<1> QED BY <1>4, <1>5

-----------------------------------------------------------------------------
(* Every step                                                              *)

\* An edit the invariant watches is taken away by another edit only.
LEMMA StepSpares ==
  ASSUME TypeOK, Ledger, Watched, [Next]_vars, NEW p \in Target, ~Licensed(p)
  PROVE  Stays(row[p], dir[DirOf[p]])' /\ Spared(p)
<1>1. Stays(row[p], dir[DirOf[p]])
  BY DEF Watched
<1>2. CASE Rewrite \/ PlaceFile \/ RemoveFile
  <2>1. Stays(row[p], dir[DirOf[p]])' /\ (row[p].now.file = Foreign => p # at)
    BY <1>2, ReplacedStays
  <2>2. p # at => row'[p] = row[p]
    BY <1>2 DEF Rewrite, PlaceFile, RemoveFile, Rename, Put, TypeOK, FolderType
  <2> QED BY <2>1, <2>2 DEF Spared
<1>3. CASE MakeParent \/ Prune
  BY <1>1, <1>3, DirectoriesStay DEF Spared
<1>4. CASE PowerLoss
  BY <1>1, <1>4, LossStays DEF Spared
<1>5. CASE \E e \in Target : Edit(e)
  <2>1. edits' # edits
    BY <1>5 DEF Edit, TypeOK, BudgetType
  <2> QED BY <1>1, <1>5, <2>1, EditStays DEF Spared
<1>6. CASE ~(\/ Rewrite \/ PlaceFile \/ RemoveFile \/ MakeParent \/ Prune \/ PowerLoss
             \/ \E e \in Target : Edit(e))
  <2>1. Alike(p)
    BY <1>6, StepsAlike DEF Steady
  <2> QED BY <1>1, <2>1, AlikeStays DEF Spared, Alike
<1> QED BY <1>2, <1>3, <1>4, <1>5, <1>6

\* What was looked at is as it was looked at, while nobody races.
LEMMA LookedStep ==
  ASSUME Unraced \/ Unedited, TypeOK, Ledger, Looked, [Next]_vars
  PROVE  Looked'
<1> SUFFICES ASSUME pc' \in {"place", "parent"} PROVE row'[at'].now.file = Pre(cur, at)'
  BY DEF Looked
<1> USE DEF Goto, folder, book, sweep, work
<1>1. CASE Look
  BY <1>1 DEF Look, LookAt, Pre, Delta
<1>2. CASE SyncParent
  <2>1. /\ pc = "parent" /\ at \in Target /\ UNCHANGED <<plan, cur, at>>
        /\ UNCHANGED <<row, dir>> \/ SyncDir(Root)
    BY <1>2 DEF SyncParent, TypeOK, ProcessType, BookType, PlanType, Delta
  <2>2. row'[at].now = row[at].now
    BY <2>1 DEF SyncDir, Sync, TypeOK, FolderType, Cells
  <2> QED BY <2>1, <2>2 DEF Looked, Pre, Delta
<1>3. CASE MakeParent
  <2>1. pc = "place" /\ at \in Target /\ UNCHANGED <<plan, cur, at>>
    BY <1>3 DEF MakeParent, TypeOK, ProcessType, BookType, PlanType, Delta
  <2>2. row'[at].now = row[at].now
    BY <1>3, <2>1 DEF MakeParent, TypeOK, FolderType, Cells
  <2> QED BY <2>1, <2>2 DEF Looked, Pre, Delta
<1>4. CASE \E e \in Target : Edit(e)
  <2>1. PICK e \in Target : Edit(e)
    BY <1>4
  <2>2. pc \in {"place", "parent"} /\ UNCHANGED <<plan, cur, at>> /\ e # at
    BY <2>1 DEF Edit, Moment, Unraced, Unedited
  <2>3. row'[at] = row[at]
    BY <2>1, <2>2 DEF Edit, TypeOK, FolderType, ProcessType, BookType, PlanType, Delta
  <2> QED BY <2>2, <2>3 DEF Looked, Pre, Delta
<1>5. CASE UNCHANGED vars
  BY <1>5 DEF vars, Looked, Pre, Delta
<1>6. CASE Recovery \/ Commit \/ Finish \/ Lost \/ Refused \/ Plan \/ Close \/ Kill \/ PowerLoss
  <2>1. CASE Recovery \/ Plan \/ Close \/ Kill \/ PowerLoss
    BY <2>1 DEF Recovery, Open, RecoverCommitted, RecoverDiscard, RecoverEnd, Plan, Close, Kill,
       PowerLoss, Exit
  <2>2. CASE Commit
    BY <2>2 DEF Commit, PreflightRefuses, Stage, SyncStaged, CreateJournal, WriteJournal,
       SyncJournalFile, SyncJournalDir, SyncJournalAbove, Retract, SyncRetraction, Report, Exit
  <2>3. CASE Finish \/ Lost \/ Refused
    BY <2>3 DEF Finish, RemoveJournal, Unlink, RemoveTxnDir, SyncRemoval, Settle, Lost,
       RewriteLost, PlaceLost, PublishLost, Refused, PlaceBlocked, FinishBlocked, DiscardBlocked,
       Suspend, Halt, Report, Exit
  <2> QED BY <1>6, <2>1, <2>2, <2>3
<1>7. CASE \/ SyncAncestors \/ Rewrite \/ RewriteFails \/ PlaceFile \/ RemoveFile \/ Prune
           \/ SyncPlaced \/ Publish \/ Retire \/ RetireDone \/ SyncPublished \/ Mark
  BY <1>7 DEF SyncAncestors, SyncPlaced, SyncPublished, SyncTouched, SyncFails, Rewrite,
     RewriteFails, PlaceFile, RemoveFile, Placed, Prune, Publish, Retire, RetireDone, Mark,
     Suspend, Report, Exit
<1> QED BY <1>1, <1>2, <1>3, <1>4, <1>5, <1>6, <1>7 DEF Next, Step, Apply

LEMMA WatchedInit == Init => Watched
<1> SUFFICES ASSUME Init PROVE Watched
  OBVIOUS
<1>1. Looked
  BY DEF Init, Looked
<1>2. ASSUME NEW p \in Target PROVE Stays(row[p], dir[DirOf[p]])
  <2>1. row[p].now.file # Foreign /\ \A m \in row[p].may : m.file # Foreign
    BY DEF Init, Durable, Foreign, Base, Absent
  <2> QED BY <2>1 DEF Stays
<1> QED BY <1>1, <1>2 DEF Watched

LEMMA WatchedStep ==
  ASSUME Unraced, TypeOK, Ledger, Watched, [Next]_vars
  PROVE  Watched' /\ \A p \in Target : Spared(p)
<1>1. Looked'
  BY LookedStep DEF Watched
<1>2. ASSUME NEW p \in Target PROVE (Licensed(p) \/ Stays(row[p], dir[DirOf[p]]))'
  BY StepSpares, LicensedStays
<1>3. ASSUME NEW p \in Target PROVE Spared(p)
  BY StepSpares DEF Spared
<1> QED BY <1>1, <1>2, <1>3 DEF Watched

\* Whatever fails, and however often: unless somebody saves a file between the
\* look at it and its placement, no outside edit is taken away but by another, or
\* by a decided change that was planned against it.
THEOREM EditsAreKept == ASSUME Unraced PROVE Spec => EditsKept
<1>1. TypeOK /\ Ledger /\ Watched /\ [Next]_vars => Watched'
  BY WatchedStep
<1>2. TypeOK /\ Ledger /\ Watched /\ [Next]_vars =>
        [\A p \in Target :
           row[p].now.file = Foreign /\ row'[p].now.file # Foreign =>
             edits' # edits \/ \E t \in Txn : p \in DOMAIN Delta(t) /\ Pre(t, p) = Foreign
                                             /\ fate[t] = "committed"]_vars
  BY WatchedStep DEF Spared, Licensed
<1> QED BY <1>1, <1>2, WatchedInit, Kept, PTL DEF Spec, EditsKept

-----------------------------------------------------------------------------
(* A change and its files.  Two things bring a journal back that should be *)
(* gone: a process that dies, or a sync that fails, where a transaction's  *)
(* directory is removed and not yet synced.  And a change can be told by   *)
(* its files only if nobody else writes them and no failed sync drops      *)
(* them.                                                                   *)
RemovalSpared == "killremoved" \notin Faults /\ "syncremoved" \notin Faults
Undropped == "drop" \notin Faults

\* A directory, and a file in one that is there, is on the disk as the cache shows it.
DirFirm(d) == dir[d].may \subseteq {dir[d].now}
RowFirm(p) == ~Exists(DirOf[p]) \/ \A m \in row[p].may : m.file = row[p].now.file
Firm == (\A d \in Dir : DirFirm(d)) /\ (\A p \in Target : RowFirm(p))

\* A file is in a directory.
Rooted == \A p \in Target : row[p].now.file # Absent => Exists(DirOf[p])

\* What p holds, in the cache or on some disk.
Spread(p) == AfterLoss(p) \cup {row[p].now.file}

\* p is on every disk as the cache shows it, and so is whatever is put in its directory.
Intact(p) == RowFirm(p) /\ Spread(p) \subseteq {row[p].now.file}

\* The targets t changes.
Changed(t) == IF t = Base THEN {} ELSE DOMAIN Delta(t)

\* No directory is left for t to drop.
Pruned(t) == \A d \in plan[t].prune : ~(Exists(d) /\ Empty(d))

\* t is done, in the cache and on the disk.
InPlace(t) ==
  /\ Firm
  /\ \A p \in Changed(t) : row[p].now.file = Post(t, p)
  /\ t # Base => Pruned(t)

\* Every file u changes is as u was planned against it.
Found(u) == \A p \in DOMAIN Delta(u) : row[p].now.file = Pre(u, p)

\* t is done, or is there to be finished; and what was begun since found it done.
Tells(t) ==
  /\ \A p \in Target \ Changed(t) : Intact(p)
  /\ \A p \in Changed(t) : Spread(p) \subseteq {Pre(t, p), Post(t, p)}
  /\ InPlace(t) \/ (t # Base /\ Lives(txn[t]))
  /\ \A u \in Txn : u > t /\ fate[u] # "new" => InPlace(t) /\ Found(u)

\* The last change made tells what the files are.
Told == \A t \in Revision : Newest(t) => Tells(t)

\* How far the change in hand is in place, and what is still to sync of it.
Placing == {"ancestors", "apply", "place", "parent", "rewrite", "sync"}
DirsDue ==
  pc \in Placing => \A d \in Dir : \/ DirFirm(d)
                                   \/ pc = "parent" /\ d = DirOf[at]
                                   \/ pc \in {"ancestors", "sync"} /\ Root \in touched
FilesDue ==
  pc \in Placing => \A p \in Target : RowFirm(p) \/ DirOf[p] \in touched
Reached ==
  pc \in Placing => \A p \in DOMAIN Delta(cur) :
    \/ row[p].now.file = Post(cur, p)
    \/ pc # "sync" /\ p \in todo
    \/ pc \in {"place", "parent"} /\ p = at

\* The change in hand is the last one made.  It has a journal until it is in place,
\* and only then.
Handled ==
  /\ pc \in Applying => Newest(cur) /\ Lives(txn[cur])
  /\ pc \in {"publish", "retire", "published", "finish"} \cup Removing =>
       (Newest(cur) => InPlace(cur))
  /\ pc = "sync" => Pruned(cur)
  /\ DirsDue /\ FilesDue /\ Reached /\ Looked

\* What the cache shows a disk may hold, and what has a journal on a disk has a
\* directory in the cache, where recovery finds it.
Cached ==
  /\ \A s \in Txn : txn[s].now \in txn[s].may
  /\ \A s \in Txn : MayBeLive(s) => txn[s].now.dir \/ (pc = "removed" /\ cur = s)
  /\ \A s \in scan : txn[s].now.dir /\ s # cur

\* Of the changes made only the last may have a journal on a disk, and while it has
\* none waits; what waits is the last begun.
Sole ==
  /\ \A s \in Txn : fate[s] = "committed" /\ MayBeLive(s) =>
       Newest(s) /\ \A u \in Txn : ~Loose(u)
  /\ \A u, v \in Txn : Loose(u) /\ v > u => fate[v] = "new"

\* A plan replaces each file by another.
Planned ==
  \A u \in Txn : fate[u] # "new" =>
    \A p \in DOMAIN Delta(u) : Pre(u, p) # Post(u, p) /\ Post(u, p) \in {Absent, u}

\* The invariant.
FilesTell == Cached /\ Sole /\ Planned /\ dropped = {} /\ Rooted /\ Told /\ Handled

-----------------------------------------------------------------------------
(* What does not depend on the step                                        *)

\* There is one last change.
LEMMA NewestOne ==
  ASSUME NEW t \in Revision, NEW u \in Revision, Newest(t), Newest(u)
  PROVE  t = u
<1>1. t \in Int /\ u \in Int /\ (t # Base => t >= 1) /\ (u # Base => u >= 1)
  BY NAssumption DEF Revision, Txn, Base
<1>2. t # Base => t <= u
  BY DEF Newest, Revision
<1>3. u # Base => u <= t
  BY DEF Newest, Revision
<1> QED BY <1>1, <1>2, <1>3 DEF Base

\* A file that is firm is on every disk as the cache shows it.
LEMMA FirmSpread ==
  ASSUME TypeOK, Firm, Rooted, NEW p \in Target
  PROVE  Spread(p) = {row[p].now.file}
<1>1. /\ DirOf[p] \in Dir /\ dir[DirOf[p]].now \in BOOLEAN
      /\ dir[DirOf[p]].may \subseteq {dir[DirOf[p]].now}
      /\ ~dir[DirOf[p]].now \/ \A m \in row[p].may : m.file = row[p].now.file
      /\ row[p].now.file # Absent => dir[DirOf[p]].now
  BY DirAssumption DEF TypeOK, FolderType, Cells, Firm, DirFirm, RowFirm, Exists, Rooted
<1>2. ASSUME NEW d \in dir[DirOf[p]].may, NEW m \in row[p].may
      PROVE  (IF d THEN m.file ELSE Absent) = row[p].now.file
  BY <1>1
<1>3. AfterLoss(p) \subseteq {row[p].now.file}
  BY <1>2 DEF AfterLoss
<1> QED BY <1>3 DEF Spread

\* Nothing has changed of the files and directories, in the cache or on the disk, but
\* that a disk may hold less.
Still ==
  /\ \A d \in Dir : /\ Exists(d)' = Exists(d)
                    /\ DirFirm(d) => DirFirm(d)'
  /\ \A p \in Target : /\ row'[p].now.file = row[p].now.file
                       /\ RowFirm(p) => RowFirm(p)'
                       /\ Spread(p)' \subseteq Spread(p)

LEMMA SteadyStill ==
  ASSUME Steady
  PROVE  Still
<1>1. \A p \in Target : DirOf[p] \in Dir
  BY DirAssumption
<1>2. \A d \in Dir : Exists(d)' = Exists(d) /\ (DirFirm(d) => DirFirm(d)')
  BY DEF Steady, Exists, DirFirm
<1>3. \A p \in Target : row'[p].now.file = row[p].now.file
  BY DEF Steady, Alike
<1>4. ASSUME NEW p \in Target, RowFirm(p) PROVE RowFirm(p)'
  BY <1>1, <1>2, <1>4 DEF Steady, Alike, RowFirm
<1>5. ASSUME NEW p \in Target PROVE Spread(p)' \subseteq Spread(p)
  <2>1. ASSUME NEW d \in dir'[DirOf[p]].may, NEW m \in row'[p].may
        PROVE  (IF d THEN m.file ELSE Absent) \in AfterLoss(p)
    <3>1. d \in dir[DirOf[p]].may
      BY DEF Steady, Alike
    <3>2. PICK n \in row[p].may : m.file = n.file
      BY DEF Steady, Alike
    <3> QED BY <3>1, <3>2 DEF AfterLoss
  <2>2. AfterLoss(p)' \subseteq AfterLoss(p)
    BY <2>1 DEF AfterLoss
  <2> QED BY <1>3, <2>2 DEF Spread
<1> QED BY <1>2, <1>3, <1>4, <1>5 DEF Still

LEMMA StillRooted ==
  ASSUME Still, Rooted
  PROVE  Rooted'
BY DirAssumption DEF Still, Rooted

LEMMA StillPruned ==
  ASSUME TypeOK, Still, NEW t \in Txn, Pruned(t), plan'[t] = plan[t]
  PROVE  Pruned(t)'
<1>1. \A d \in plan[t].prune : d \in Dir
  BY DEF TypeOK, BookType, PlanType
<1>2. \A d \in Dir : Exists(d)' = Exists(d) /\ Empty(d)' = Empty(d)
  BY DEF Still, Empty
<1> QED BY <1>1, <1>2 DEF Pruned

LEMMA StillInPlace ==
  ASSUME TypeOK, Still, NEW t \in Revision, InPlace(t), t # Base => plan'[t] = plan[t]
  PROVE  InPlace(t)'
<1>1. \A p \in Changed(t) : p \in Target
  BY DEF Revision, Changed, Delta, TypeOK, BookType, PlanType
<1>2. Firm'
  BY DEF Still, InPlace, Firm
<1>3. Changed(t)' = Changed(t) /\ \A p \in Changed(t) : Post(t, p)' = Post(t, p)
  BY DEF Changed, Delta, Post
<1>4. \A p \in Changed(t)' : row'[p].now.file = Post(t, p)'
  BY <1>1, <1>3 DEF InPlace, Still
<1>5. t # Base => Pruned(t)'
  BY StillPruned DEF InPlace, Revision
<1> QED BY <1>2, <1>4, <1>5 DEF InPlace

LEMMA StillTells ==
  ASSUME TypeOK, Still, NEW t \in Revision, Newest(t), Tells(t),
         \A u \in Txn : fate[u] # "new" => plan'[u] = plan[u],
         \A u \in Txn : fate'[u] # "new" => fate[u] # "new" \/ (InPlace(t) /\ Found(u)'),
         t # Base => Lasts(txn[t], txn'[t]) \/ InPlace(t)
  PROVE  Tells(t)'
<1>1. t # Base => t \in Txn /\ plan'[t] = plan[t]
  BY DEF Revision, Newest
<1>2. Changed(t)' = Changed(t) /\ Changed(t) \subseteq Target
  BY <1>1 DEF Changed, Delta, TypeOK, BookType, PlanType
<1>3. \A p \in Target \ Changed(t)' : Intact(p)'
  BY <1>2 DEF Still, Tells, Intact
<1>4. ASSUME NEW p \in Changed(t) PROVE Spread(p)' \subseteq {Pre(t, p)', Post(t, p)'}
  <2>1. Pre(t, p)' = Pre(t, p) /\ Post(t, p)' = Post(t, p)
    BY <1>1 DEF Changed, Pre, Post, Delta
  <2>2. Spread(p)' \subseteq Spread(p)
    BY <1>2 DEF Still
  <2> QED BY <2>1, <2>2 DEF Tells
<1>5. InPlace(t) => InPlace(t)'
  BY <1>1, StillInPlace
<1>6. InPlace(t)' \/ (t # Base /\ Lives(txn'[t]))
  BY <1>5 DEF Tells, Lasts
<1>7. ASSUME NEW u \in Txn, u > t, fate'[u] # "new" PROVE InPlace(t)' /\ Found(u)'
  <2>1. CASE fate[u] # "new"
    <3>1. InPlace(t) /\ Found(u) /\ plan'[u] = plan[u]
      BY <1>7, <2>1 DEF Tells
    <3>2. \A p \in DOMAIN Delta(u) : p \in Target
      BY DEF Delta, TypeOK, BookType, PlanType
    <3>3. Found(u)'
      BY <3>1, <3>2 DEF Still, Found, Delta, Pre
    <3> QED BY <1>5, <3>1, <3>3
  <2>2. CASE fate[u] = "new"
    BY <1>5, <1>7, <2>2
  <2> QED BY <2>1, <2>2
<1>8. \A p \in Changed(t)' : Spread(p)' \subseteq {Pre(t, p)', Post(t, p)'}
  BY <1>2, <1>4
<1> QED BY <1>3, <1>6, <1>7, <1>8 DEF Tells

-----------------------------------------------------------------------------
(* What a step does to fates, plans and journals                           *)

\* Nobody plans, decides or takes up a change but in these three steps.
LEMMA FatesStay ==
  ASSUME TypeOK, Ledger, [Next]_vars, ~Plan, ~SyncJournalAbove, ~RecoverCommitted
  PROVE  /\ UNCHANGED plan
         /\ \A u \in Txn : \/ fate'[u] = fate[u]
                           \/ fate[u] \in {"planned", "refused"} /\ fate'[u] = "refused"
<1> USE DEF Goto, folder, book, sweep, work, budget
<1>0. /\ pc \in Making \cup Removing => cur \in Txn
      /\ pc \in Making => fate[cur] = "planned"
      /\ pc \in Removing => fate[cur] # "new"
      /\ fate \in [Txn -> {"new", "planned", "committed", "refused"}]
  BY DEF TypeOK, ProcessType, BookType, Ledger, Stages, Making, Removing, Early, Window
<1>1. CASE UNCHANGED <<plan, fate>>
  BY <1>1
<1>2. CASE PreflightRefuses
  BY <1>0, <1>2 DEF PreflightRefuses, Making, Early
<1>3. CASE pc \in Removing /\ Settle
  BY <1>0, <1>3 DEF Settle
<1>4. CASE SyncRemoval \/ DiscardBlocked
  BY <1>1, <1>3, <1>4 DEF SyncRemoval, DiscardBlocked, Removing
<1>5. CASE Commit
  BY <1>1, <1>2, <1>5 DEF Commit, Stage, SyncStaged, CreateJournal, WriteJournal, SyncJournalFile,
     SyncJournalDir, Retract, SyncRetraction
<1>6. CASE Apply
  BY <1>1, <1>6 DEF Apply, SyncAncestors, SyncPlaced, SyncPublished, SyncTouched, Look, LookAt,
     Rewrite, Placed, RewriteFails, MakeParent, SyncParent, PlaceFile, RemoveFile, Prune,
     Publish, Retire, RetireDone, Mark
<1>7. CASE Finish \/ Lost
  BY <1>1, <1>4, <1>7 DEF Finish, RemoveJournal, Unlink, RemoveTxnDir, Lost, RewriteLost,
     PlaceLost, PublishLost
<1>8. CASE \/ Recovery \/ Close \/ PlaceBlocked \/ FinishBlocked \/ Kill \/ PowerLoss
           \/ UNCHANGED vars \/ \E p \in Target : Edit(p)
  BY <1>1, <1>8 DEF Recovery, Open, RecoverDiscard, RecoverEnd, Close, PlaceBlocked,
     FinishBlocked, Kill, PowerLoss, Edit, vars
<1> QED BY <1>4, <1>5, <1>6, <1>7, <1>8 DEF Next, Step, Refused

\* Taken away for a journal there is to be.
Takes(u) == u = cur /\ pc \in {"finish", "discard", "rmdir"}

\* d holds a journal only where c did, and shows what the disk may hold as c did.
Fades(c, d) ==
  /\ c.now \in c.may => d.now \in d.may
  /\ "whole" \in Journals(d) => "whole" \in Journals(c)
  /\ (\E m \in d.may : Committing(m)) => \E m \in c.may : Committing(m)

LEMMA FadesSynced ==
  ASSUME NEW c, NEW d, d.now = c.now, d.may \subseteq c.may, c.now \in c.may => d.now \in d.may
  PROVE  Fades(c, d) /\ Lasts(c, d)
BY Synced DEF Fades, Wanes

LEMMA FadesMarked ==
  ASSUME NEW c \in Cells(TxnDir), NEW b \in BOOLEAN
  PROVE  Fades(c, WithMarker(c, b)) /\ Lasts(c, WithMarker(c, b))
<1>1. c.now \in c.may => WithMarker(c, b).now \in WithMarker(c, b).may
  BY DEF WithMarker, Issue
<1> QED BY <1>1, Marked DEF Fades, Wanes

LEMMA FadesJournalled ==
  ASSUME NEW c \in Cells(TxnDir), NEW j \in {"none", "torn", "whole"}
  PROVE  /\ c.now \in c.may => WithJournal(c, j).now \in WithJournal(c, j).may
         /\ j # "whole" => Fades(c, WithJournal(c, j))
<1>1. c.now \in c.may => WithJournal(c, j).now \in WithJournal(c, j).may
  BY DEF WithJournal, Issue
<1> QED BY <1>1, Journalled DEF Fades, Wanes

LEMMA FadesHoused ==
  ASSUME NEW c \in Cells(TxnDir), NEW b \in BOOLEAN, b => "whole" \notin Journals(c)
  PROVE  Fades(c, WithDir(c, b))
<1>1. c.now \in c.may => WithDir(c, b).now \in WithDir(c, b).may
  BY DEF WithDir, Issue
<1>2. CASE ~b
  BY <1>1, <1>2, Housed DEF Fades, Wanes
<1>3. CASE b
  <2>1. "whole" \notin Journals(WithDir(c, b))
    BY <1>3, Housed
  <2> QED BY <1>1, <2>1 DEF Fades, Journals, Committing
<1> QED BY <1>2, <1>3

\* What a step does to the transactions' directories.
LEMMA TxnsStay ==
  ASSUME JournalSpared, TypeOK, Ledger, Ahead, [Next]_vars, NEW u \in Txn
  PROVE  /\ txn[u].now \in txn[u].may => txn'[u].now \in txn'[u].may
         /\ (u = cur /\ WriteJournal) \/ Fades(txn[u], txn'[u])
         /\ Takes(u) \/ Lasts(txn[u], txn'[u])
         /\ \/ txn[u].now.dir => txn'[u].now.dir
            \/ u = cur /\ RemoveTxnDir
            \/ PowerLoss /\ (MayBeLive(u)' => txn'[u].now.dir)
<1> USE DEF Goto, folder, book, sweep, work, budget
<1> DEFINE Goal == /\ txn[u].now \in txn[u].may => txn'[u].now \in txn'[u].may
                   /\ (u = cur /\ WriteJournal) \/ Fades(txn[u], txn'[u])
                   /\ Takes(u) \/ Lasts(txn[u], txn'[u])
                   /\ \/ txn[u].now.dir => txn'[u].now.dir
                      \/ u = cur /\ RemoveTxnDir
                      \/ PowerLoss /\ (MayBeLive(u)' => txn'[u].now.dir)
<1>0. /\ txn[u] \in Cells(TxnDir)
      /\ pc \in Making => cur \in Txn
      /\ pc \in Early => ~Lives(txn[cur]) /\ Unwritten(cur)
  BY DEF TypeOK, FolderType, ProcessType, Ledger, Progress, Making, Early, Window, Unwritten,
     Journals, Lives, Committing
<1>1. CASE txn'[u] = txn[u]
  BY <1>1, Unmoved DEF Fades
<1>2. ASSUME txn'[u].now = txn[u].now, txn'[u].may \subseteq txn[u].may,
             txn[u].now \in txn[u].may => txn'[u].now \in txn'[u].may
      PROVE  Goal
  BY <1>2, FadesSynced DEF Fades
<1>3. CASE UNCHANGED txn
  BY <1>1, <1>3
<1>4. CASE (cur \in Txn /\ SyncTxn(cur)) \/ SyncTransactions
  <2>1. CASE SyncTransactions
    <3>1. txn'[u] = Sync(txn[u], LAMBDA m : m.dir = txn[u].now.dir)
      BY <2>1 DEF SyncTransactions
    <3>2. /\ txn'[u].now = txn[u].now /\ txn'[u].may \subseteq txn[u].may
          /\ txn[u].now \in txn[u].may => txn'[u].now \in txn'[u].may
      BY <1>0, <3>1 DEF Sync, Cells
    <3> QED BY <1>2, <3>2
  <2>2. CASE cur \in Txn /\ SyncTxn(cur)
    <3>1. u # cur => txn'[u] = txn[u]
      BY <2>2 DEF SyncTxn, TypeOK, FolderType
    <3>2. u = cur => txn'[u] = Sync(txn[u], LAMBDA m : /\ m.journal = txn[u].now.journal
                                                       /\ m.marker = txn[u].now.marker)
      BY <2>2 DEF SyncTxn, TypeOK, FolderType
    <3>3. u = cur => /\ txn'[u].now = txn[u].now /\ txn'[u].may \subseteq txn[u].may
                     /\ txn[u].now \in txn[u].may => txn'[u].now \in txn'[u].may
      BY <1>0, <3>2 DEF Sync, Cells
    <3> QED BY <1>1, <1>2, <3>1, <3>3
  <2> QED BY <1>4, <2>1, <2>2
<1>5. CASE Stage
  <2>1. u # cur => txn'[u] = txn[u]
    BY <1>5 DEF Stage, SetDir, TypeOK, FolderType
  <2>2. ASSUME u = cur PROVE txn'[u] = WithDir(txn[u], TRUE) /\ Unwritten(u) /\ ~Lives(txn[u])
    BY <1>0, <1>5, <2>2 DEF Stage, SetDir, TypeOK, FolderType, Early
  <2>3. CASE u = cur
    <3>1. TRUE \in BOOLEAN /\ "whole" \notin Journals(txn[u])
      BY <2>2, <2>3 DEF Unwritten
    <3>2. Fades(txn[u], WithDir(txn[u], TRUE)) /\ WithDir(txn[u], TRUE).now.dir = TRUE
      BY <1>0, <3>1, FadesHoused, Housed
    <3> QED BY <2>2, <2>3, <3>2 DEF Fades, Lasts
  <2> QED BY <1>1, <2>1, <2>3
<1>6. CASE CreateJournal
  <2>1. u # cur => txn'[u] = txn[u]
    BY <1>6 DEF CreateJournal, SetJournal, TypeOK, FolderType
  <2>2. ASSUME u = cur PROVE txn'[u] = WithJournal(txn[u], "torn") /\ ~Lives(txn[u])
    BY <1>0, <1>6, <2>2 DEF CreateJournal, SetJournal, TypeOK, FolderType, Early
  <2>3. CASE u = cur
    BY <1>0, <2>2, <2>3, FadesJournalled, Journalled DEF Fades, Lasts
  <2> QED BY <1>1, <2>1, <2>3
<1>7. CASE WriteJournal
  <2>1. u # cur => txn'[u] = txn[u]
    BY <1>7 DEF WriteJournal, SetJournal, TypeOK, FolderType
  <2>2. ASSUME u = cur PROVE txn'[u] = WithJournal(txn[u], "whole") /\ ~Lives(txn[u])
    BY <1>0, <1>7, <2>2 DEF WriteJournal, SetJournal, TypeOK, FolderType, Early
  <2>3. CASE u = cur
    BY <1>0, <1>7, <2>2, <2>3, FadesJournalled, Journalled DEF Lasts
  <2> QED BY <1>1, <2>1, <2>3
<1>8. CASE SyncJournalFile
  <2>1. txn' = [txn EXCEPT ![cur] = Sync(@, LAMBDA m : m.journal # "torn")]
        /\ txn[cur].now.journal = "whole"
    BY <1>8 DEF SyncJournalFile, JournalSpared, Strikes, Ledger, Progress, Window
  <2>2. u # cur => txn'[u] = txn[u]
    BY <2>1 DEF TypeOK, FolderType
  <2>3. ASSUME u = cur
        PROVE  /\ txn'[u].now = txn[u].now /\ txn'[u].may \subseteq txn[u].may
               /\ txn[u].now \in txn[u].may => txn'[u].now \in txn'[u].may
    BY <1>0, <2>1, <2>3 DEF Sync, Cells, TypeOK, FolderType
  <2> QED BY <1>1, <1>2, <2>2, <2>3
<1>9. CASE SyncStaged \/ SyncJournalDir \/ SyncJournalAbove \/ SyncRemoval
  BY <1>0, <1>3, <1>4, <1>9 DEF SyncStaged, SyncJournalDir, SyncJournalAbove, SyncRemoval, Making,
     Early, Window
<1>10. CASE Retract \/ SyncRetraction
  BY <1>10 DEF Ahead, Retract, SyncRetraction
<1>11. CASE Mark
  <2>1. \/ txn'[u] = txn[u]
        \/ txn'[u] = WithMarker(txn[u], TRUE)
    BY <1>11 DEF Mark, SetMarker, TypeOK, FolderType
  <2> QED BY <1>0, <1>1, <2>1, FadesMarked, Marked DEF Fades
<1>12. CASE RemoveJournal
  <2>1. u # cur => txn'[u] = txn[u]
    BY <1>12 DEF RemoveJournal, SetJournal, TypeOK, FolderType
  <2>2. u = cur => txn'[u] = WithJournal(txn[u], "none") /\ Takes(u)
    BY <1>12 DEF RemoveJournal, SetJournal, TypeOK, FolderType, Takes
  <2> QED BY <1>0, <1>1, <2>1, <2>2, FadesJournalled, Journalled DEF Fades
<1>13. CASE Unlink
  <2> DEFINE half == WithJournal(txn[u], "none")
  <2>1. u # cur => txn'[u] = txn[u]
    BY <1>13 DEF Unlink, TypeOK, FolderType
  <2>2. u = cur => txn'[u] = WithMarker(half, FALSE) /\ Takes(u)
    BY <1>13 DEF Unlink, TypeOK, FolderType, Takes
  <2>3. half \in Cells(TxnDir) /\ Fades(txn[u], half) /\ half.now.dir = txn[u].now.dir
    BY <1>0, WithJournalType, FadesJournalled, Journalled
  <2> HIDE DEF half
  <2>4. /\ Fades(half, WithMarker(half, FALSE))
        /\ WithMarker(half, FALSE).now.dir = half.now.dir
    BY <2>3, FadesMarked, Marked
  <2> QED BY <1>1, <2>1, <2>2, <2>3, <2>4 DEF Fades
<1>14. CASE RemoveTxnDir
  <2>1. u # cur => txn'[u] = txn[u]
    BY <1>14 DEF RemoveTxnDir, SetDir, TypeOK, FolderType
  <2>2. u = cur => txn'[u] = WithDir(txn[u], FALSE) /\ Takes(u)
    BY <1>14 DEF RemoveTxnDir, SetDir, TypeOK, FolderType, Takes
  <2> QED BY <1>0, <1>1, <1>14, <2>1, <2>2, FadesHoused DEF Fades
<1>15. CASE PowerLoss
  <2>1. PICK tt \in Choices(Txn, LAMBDA t : txn[t].may) :
          txn' = [t \in Txn |-> Durable(IF tt[t].dir THEN tt[t] ELSE Gone)]
    BY <1>15 DEF PowerLoss
  <2> DEFINE m == IF tt[u].dir THEN tt[u] ELSE Gone
  <2>2. txn'[u].now = m /\ txn'[u].may = {m} /\ tt[u] \in txn[u].may
    BY <2>1 DEF Choices, Durable
  <2>3. \/ m = tt[u] /\ tt[u].dir
        \/ m = Gone /\ ~tt[u].dir
    OBVIOUS
  <2> HIDE DEF m
  <2>4. Fades(txn[u], txn'[u]) /\ Lasts(txn[u], txn'[u]) /\ (MayBeLive(u)' => txn'[u].now.dir)
    BY <2>2, <2>3 DEF Fades, Lasts, Lives, Committing, Gone, MayBeLive, Journals
  <2> QED BY <1>15, <2>4 DEF Fades
<1>16. CASE UNCHANGED vars \/ \E p \in Target : Edit(p)
  BY <1>3, <1>16 DEF vars, Edit
<1>17. CASE Recovery \/ Plan \/ PreflightRefuses \/ Close \/ Kill \/ Lost \/ Refused
  BY <1>3, <1>17 DEF Recovery, Open, RecoverCommitted, TakeUp, RecoverDiscard, RecoverEnd, Plan,
     PreflightRefuses, Close, Kill, Lost, RewriteLost, PlaceLost, PublishLost, Refused,
     PlaceBlocked, FinishBlocked, DiscardBlocked
<1>18. CASE Apply /\ ~Mark
  BY <1>3, <1>18 DEF Apply, SyncAncestors, SyncPlaced, SyncPublished, SyncTouched, Look, LookAt,
     Rewrite, Placed, RewriteFails, MakeParent, SyncParent, PlaceFile, RemoveFile, Prune,
     Publish, Retire, RetireDone
<1> QED
  BY <1>5, <1>6, <1>7, <1>8, <1>9, <1>10, <1>11, <1>12, <1>13, <1>14, <1>15, <1>16, <1>17, <1>18
     DEF Next, Step, Commit, Finish

-----------------------------------------------------------------------------
(* Which journals there are                                                *)

\* Nothing of another change is left while one is planned or written.
LEMMA WritingSole ==
  TypeOK /\ Ledger /\ HeadsKept /\ Cached /\ pc \in Making \cup {"ready"} => Sole
<1> SUFFICES ASSUME TypeOK, Ledger, HeadsKept, Cached, pc \in Making \cup {"ready"}
             PROVE  Sole
  OBVIOUS
<1> USE DEF Making, Early, Window
<1>1. PICK t \in Revision : Headed(t)
  BY DEF HeadsKept
<1>2. /\ ~blocked /\ scan = {} /\ pc # "idle" /\ pc # "removed"
      /\ cur \in Txn => fate[cur] = "planned"
      /\ pc = "ready" => cur \notin Txn
  BY NAssumption DEF Ledger, Stages, Txn
<1>3. \A s \in Txn : s # cur => Settled(s)
  BY <1>2 DEF Ledger, Cleared
<1>4. ASSUME NEW s \in Txn, s # cur PROVE ~MayBeLive(s)
  BY <1>2, <1>3, <1>4 DEF Cached, Settled, Unwritten, Journals, MayBeLive, Committing
<1>5. ASSUME NEW s \in Txn, s # cur PROVE ~Loose(s)
  BY <1>1, <1>3, <1>5 DEF Headed, Waiting, Loose, Settled, Lives, Committing
<1>6. ASSUME NEW s \in Txn, fate[s] = "committed" PROVE ~MayBeLive(s)
  BY <1>2, <1>4, <1>6
<1>7. ASSUME NEW u \in Txn, NEW v \in Txn, Loose(u), v > u PROVE fate[v] = "new"
  <2>1. u = cur /\ pc \in Making
    BY <1>2, <1>5, <1>7
  <2> QED BY <1>7, <2>1 DEF Ledger, InTurn
<1> QED BY <1>6, <1>7 DEF Sole

\* The process leaves "removed" by a sync that succeeds, or with the power.
LEMMA RemovedNext ==
  ASSUME RemovalSpared, [Next]_vars, pc = "removed"
  PROVE  \/ SyncTransactions
         \/ PowerLoss
         \/ UNCHANGED <<txn, pc, cur>>
<1> USE DEF Goto, folder, book, sweep, work, budget
<1>1. CASE SyncRemoval
  BY <1>1 DEF SyncRemoval, RemovalSpared, Strikes
<1>2. CASE Kill
  BY <1>2 DEF Kill, KindOfKill, RemovalSpared, Strikes, JournalWindow
<1>3. CASE UNCHANGED vars \/ \E p \in Target : Edit(p)
  BY <1>3 DEF vars, Edit
<1>4. ~Recovery /\ ~Commit /\ ~Plan /\ ~Close
  BY DEF Recovery, Open, RecoverCommitted, RecoverDiscard, RecoverEnd, Plan, Close, Commit,
     PreflightRefuses, Stage, SyncStaged, CreateJournal, WriteJournal, SyncJournalFile,
     SyncJournalDir, SyncJournalAbove, Retract, SyncRetraction
<1>5. ~Apply /\ ~Lost /\ ~Refused
  BY DEF Apply, SyncAncestors, SyncPlaced, SyncPublished, SyncTouched, Look, LookAt,
     Rewrite, RewriteFails, MakeParent, SyncParent, PlaceFile, RemoveFile, Prune,
     Publish, Retire, RetireDone, Mark, Lost, RewriteLost, PlaceLost, PublishLost, Refused,
     PlaceBlocked, FinishBlocked, DiscardBlocked
<1>6. ~RemoveJournal /\ ~Unlink /\ ~RemoveTxnDir
  BY DEF RemoveJournal, Unlink, RemoveTxnDir
<1> QED BY <1>1, <1>2, <1>3, <1>4, <1>5, <1>6 DEF Next, Step, Finish

\* What recovery has still to look at.
LEMMA ScanNext ==
  ASSUME TypeOK, Ledger, [Next]_vars, \A s \in scan : s # cur
  PROVE  \A s \in scan' : /\ s # cur'
                          /\ ~PowerLoss /\ ~(s = cur /\ RemoveTxnDir)
                          /\ s \in scan \/ txn'[s].now.dir
<1> USE DEF Goto, Rest, Exit, folder, book, sweep, work, budget
<1>0. /\ scan \subseteq Txn /\ 0 \notin Txn
      /\ ~recovering => scan = {}
      /\ pc \in {"idle", "ready"} => ~recovering \/ pc = "idle"
      /\ pc \in {"idle", "scan", "ready"} => cur = 0
  BY NAssumption DEF TypeOK, ProcessType, Ledger, Stages, Txn
<1>1. CASE scan' = {}
  BY <1>1
<1>2. CASE Open
  <2>1. scan' = {t \in Txn : txn[t].now.dir} /\ cur' = 0 /\ txn' = txn /\ pc = "idle"
    BY <1>0, <1>2 DEF Open
  <2> QED BY <1>0, <1>2, <2>1 DEF PowerLoss, RemoveTxnDir
<1>3. CASE RecoverCommitted \/ RecoverDiscard
  <2>1. scan' = scan \ {cur'} /\ pc = "scan" /\ pc' # "idle"
    BY <1>3 DEF RecoverCommitted, TakeUp, RecoverDiscard
  <2> QED BY <2>1 DEF PowerLoss, RemoveTxnDir
<1>4. CASE ~PowerLoss /\ scan' \subseteq scan /\ cur' \in {cur, 0}
  BY <1>0, <1>4
<1>5. CASE PowerLoss \/ Kill \/ Close
  BY <1>1, <1>5 DEF PowerLoss, Kill, Close
<1>6. CASE RecoverEnd \/ Plan \/ PreflightRefuses
  BY <1>0, <1>1, <1>6 DEF RecoverEnd, Plan, PreflightRefuses, Ledger, Stages, Making, Early
<1>7. CASE SyncRemoval \/ Refused \/ Lost
  <2>1. scan' = {} \/ (scan' \subseteq scan /\ cur' \in {cur, 0})
    BY <1>7 DEF SyncRemoval, Settle, Refused, PlaceBlocked, FinishBlocked, DiscardBlocked,
       Lost, RewriteLost, PlaceLost, PublishLost, Suspend, Halt, Report
  <2>2. ~PowerLoss \/ scan' = {}
    BY DEF PowerLoss
  <2> QED BY <1>1, <1>4, <2>1, <2>2
<1>8. CASE Commit
  <2>1. scan' = {} \/ (scan' \subseteq scan /\ cur' \in {cur, 0})
    BY <1>0, <1>8 DEF Commit, PreflightRefuses, Stage, SyncStaged, CreateJournal, WriteJournal,
       SyncJournalFile, SyncJournalDir, SyncJournalAbove, Retract, SyncRetraction, Report
  <2>2. ~PowerLoss \/ scan' = {}
    BY DEF PowerLoss
  <2> QED BY <1>1, <1>4, <2>1, <2>2
<1>9. CASE Apply
  <2>1. scan' = {} \/ (scan' \subseteq scan /\ cur' \in {cur, 0})
    BY <1>9 DEF Apply, SyncAncestors, SyncPlaced, SyncPublished, SyncTouched, Look, LookAt,
       Rewrite, Placed, RewriteFails, MakeParent, SyncParent, PlaceFile, RemoveFile, Prune,
       Publish, Retire, RetireDone, Mark, Suspend, Report
  <2>2. ~PowerLoss \/ scan' = {}
    BY DEF PowerLoss
  <2> QED BY <1>1, <1>4, <2>1, <2>2
<1>10. CASE RemoveJournal \/ Unlink \/ RemoveTxnDir \/ UNCHANGED vars \/ \E p \in Target : Edit(p)
  <2>1. scan' \subseteq scan /\ cur' \in {cur, 0}
    BY <1>10 DEF RemoveJournal, Unlink, RemoveTxnDir, Edit, vars
  <2>2. ~PowerLoss \/ scan' = {}
    BY DEF PowerLoss
  <2> QED BY <1>1, <1>4, <2>1, <2>2
<1> QED
  BY <1>2, <1>3, <1>5, <1>6, <1>7, <1>8, <1>9, <1>10 DEF Next, Step, Recovery, Finish

LEMMA CachedStep ==
  ASSUME JournalSpared, RemovalSpared, TypeOK, Ledger, Ledger', Ahead, Cached, [Next]_vars
  PROVE  Cached'
<1>1. ASSUME NEW s \in Txn PROVE txn'[s].now \in txn'[s].may
  BY TxnsStay DEF Cached
<1>2. ASSUME NEW s \in Txn, MayBeLive(s)'
      PROVE  txn'[s].now.dir \/ (pc' = "removed" /\ cur' = s)
  <2>1. CASE s = cur /\ WriteJournal
    BY <2>1 DEF WriteJournal, Goto, work, Ledger, Progress, Early, Window
  <2>2. CASE ~(s = cur /\ WriteJournal)
    <3>1. MayBeLive(s)
      BY <1>2, <2>2, TxnsStay DEF Fades, MayBeLive
    <3>2. CASE txn[s].now.dir
      BY <1>2, <3>2, TxnsStay DEF RemoveTxnDir, Goto, work
    <3>3. CASE pc = "removed" /\ cur = s
      <4>1. ~txn[s].now.dir
        BY <3>3 DEF Ledger, Progress
      <4>2. CASE SyncTransactions
        <5>1. \A m \in txn'[s].may : ~m.dir
          BY <4>1, <4>2 DEF SyncTransactions, Sync, TypeOK, FolderType, Cells, TxnDir
        <5> QED BY <1>2, <5>1 DEF MayBeLive, Committing
      <4>3. CASE PowerLoss
        <5>1. ~RemoveTxnDir
          BY <3>3 DEF RemoveTxnDir
        <5>2. PICK tt \in Choices(Txn, LAMBDA t : txn[t].may) :
                txn' = [t \in Txn |-> Durable(IF tt[t].dir THEN tt[t] ELSE Gone)]
          BY <4>3 DEF PowerLoss
        <5>3. txn'[s].may = {txn'[s].now}
          BY <5>2 DEF Durable
        <5> QED BY <1>2, <5>3 DEF MayBeLive, Committing
      <4>4. CASE UNCHANGED <<txn, pc, cur>>
        BY <3>3, <4>4
      <4> QED BY <3>3, <4>2, <4>3, <4>4, RemovedNext
    <3> QED BY <3>1, <3>2, <3>3 DEF Cached
  <2> QED BY <2>1, <2>2
<1>3. ASSUME NEW s \in scan' PROVE txn'[s].now.dir /\ s # cur'
  <2>1. /\ s # cur' /\ ~PowerLoss /\ ~(s = cur /\ RemoveTxnDir)
        /\ s \in scan \/ txn'[s].now.dir
    BY ScanNext DEF Cached
  <2>2. ASSUME s \in scan PROVE txn'[s].now.dir
    <3>1. s \in Txn /\ txn[s].now.dir
      BY <2>2 DEF Cached, TypeOK, ProcessType
    <3> QED BY <2>1, <3>1, TxnsStay
  <2> QED BY <2>1, <2>2
<1> QED BY <1>1, <1>2, <1>3 DEF Cached

LEMMA SoleStep ==
  ASSUME JournalSpared, TypeOK, TypeOK', Ledger, Ledger', Ahead, HeadsKept, HeadsKept',
         Cached, Cached', Sole, [Next]_vars
  PROVE  Sole'
<1>0. PICK t \in Revision : Headed(t)
  BY DEF HeadsKept
<1>1. CASE pc' \in Making \cup {"ready"}
  <2>1. (TypeOK /\ Ledger /\ HeadsKept /\ Cached /\ pc \in Making \cup {"ready"} => Sole)'
    BY WritingSole, PTL
  <2> QED BY <1>1, <2>1
<1>2. CASE SyncJournalAbove
  <2>1. /\ pc = "jtxns" /\ cur \in Txn /\ fate' = [fate EXCEPT ![cur] = "committed"]
        /\ pc' = "apply"
    BY <1>2 DEF SyncJournalAbove, JournalSpared, Strikes, Goto, TypeOK, ProcessType
  <2>2. ~WriteJournal /\ pc \in Making /\ ~recovering
    BY <2>1 DEF WriteJournal, Making, Window, Ledger, Stages
  <2>3. \A s \in Txn : s # cur => ~Loose(s)
    BY <1>0, <2>2, NoneElse
  <2>4. \A s \in Txn : ~Loose(s)'
    <3> SUFFICES ASSUME NEW s \in Txn, Loose(s)' PROVE FALSE
      OBVIOUS
    <3>1. s # cur /\ fate'[s] = fate[s]
      BY <2>1 DEF Loose, TypeOK, BookType
    <3>2. Loose(s)
      BY <2>2, <3>1, TxnsStay DEF Loose, Unwritten, Fades
    <3> QED BY <2>3, <3>1, <3>2
  <2>5. ASSUME NEW s \in Txn, s # cur PROVE ~MayBeLive(s)'
    <3>1. Settled(s) /\ pc # "removed"
      BY <2>1, <2>2, <2>5 DEF Ledger, Cleared, Stages
    <3>2. ~MayBeLive(s)
      BY <3>1 DEF Cached, Settled, Unwritten, Journals, MayBeLive, Committing
    <3> QED BY <2>2, <3>2, TxnsStay DEF Fades, MayBeLive
  <2>6. Newest(cur)'
    <3>1. \A s \in Txn : fate'[s] = "committed" => s <= cur
      <4> SUFFICES ASSUME NEW s \in Txn, fate'[s] = "committed" PROVE s <= cur
        OBVIOUS
      <4>1. cur < s => fate[s] = "new"
        BY <2>2 DEF Ledger, InTurn
      <4>2. s = cur \/ fate[s] = "committed"
        BY <2>1 DEF TypeOK, BookType
      <4> QED BY <2>1, <4>1, <4>2, NAssumption DEF Txn
    <3>2. cur' = cur /\ fate'[cur] = "committed"
      BY <1>2, <2>1 DEF SyncJournalAbove, TypeOK, BookType
    <3> QED BY <3>1, <3>2 DEF Newest
  <2>7. ASSUME NEW s \in Txn, fate'[s] = "committed", MayBeLive(s)' PROVE Newest(s)'
    <3>1. s = cur /\ cur' = cur
      BY <1>2, <2>5, <2>7 DEF SyncJournalAbove
    <3> QED BY <2>6, <3>1 DEF Newest
  <2> QED BY <2>4, <2>7 DEF Sole
<1>3. CASE RecoverCommitted
  <2>1. PICK s \in scan : /\ txn[s].now.journal = "whole" /\ cur' = s
                          /\ fate' = [fate EXCEPT ![s] = "committed"]
    BY <1>3, FirstIn DEF RecoverCommitted, TakeUp, TypeOK, ProcessType
  <2>2. s \in Txn /\ UNCHANGED txn /\ fate[s] \in {"planned", "refused", "committed"}
    BY <1>3, <2>1 DEF RecoverCommitted, TakeUp, folder, TypeOK, ProcessType, BookType, Ledger,
       Stages
  <2>3. \A v \in Txn : fate'[v] = IF v = s THEN "committed" ELSE fate[v]
    BY <2>1, <2>2 DEF TypeOK, BookType
  <2>4. \A v \in Txn : /\ MayBeLive(v)' = MayBeLive(v)
                       /\ Loose(v)' => Loose(v) /\ v # s
    BY <2>2, <2>3 DEF MayBeLive, Loose, Unwritten
  <2>5. CASE fate[s] = "committed"
    <3>1. \A v \in Txn : fate'[v] = fate[v]
      BY <2>3, <2>5
    <3>2. \A v \in Txn : Newest(v)' = Newest(v)
      BY <3>1 DEF Newest
    <3> QED BY <2>4, <3>1, <3>2 DEF Sole
  <2>6. CASE fate[s] # "committed"
    <3>1. Loose(s)
      BY <2>1, <2>2, <2>6 DEF Loose, Unwritten, Journals
    <3>2. Awaits(s, t) /\ \A v \in Txn : Loose(v) => v = s
      BY <1>0, <2>2, <3>1 DEF Headed, Waiting
    <3>3. \A v \in Txn : ~Loose(v)'
      BY <2>4, <3>2
    <3>4. \A v \in Txn : fate[v] = "committed" => ~MayBeLive(v) /\ v <= t
      BY <1>0, <2>2, <3>1 DEF Sole, Headed, Newest
    <3>5. s > t /\ \A v \in Txn : fate'[v] = "committed" => v <= s
      <4>1. s > t
        BY <3>2 DEF Awaits
      <4> QED BY <2>2, <2>3, <3>4, <4>1, NAssumption DEF Txn, Revision, Base
    <3>6. Newest(s)'
      BY <2>2, <2>3, <3>5 DEF Newest
    <3> QED BY <2>3, <2>4, <3>3, <3>4, <3>6 DEF Sole
  <2> QED BY <2>5, <2>6
<1>4. CASE pc' \notin Making \cup {"ready"} /\ ~SyncJournalAbove /\ ~RecoverCommitted
  <2>1. ~Plan /\ ~WriteJournal
    BY <1>4 DEF Plan, WriteJournal, Goto, Making, Early, Window
  <2>2. \A u \in Txn : \/ fate'[u] = fate[u]
                       \/ fate[u] \in {"planned", "refused"} /\ fate'[u] = "refused"
    BY <1>4, <2>1, FatesStay
  <2>3. \A u \in Txn : Fades(txn[u], txn'[u])
    BY <2>1, TxnsStay
  <2>4. \A u \in Txn : (Loose(u)' => Loose(u)) /\ (MayBeLive(u)' => MayBeLive(u))
    BY <2>2, <2>3 DEF Loose, Unwritten, MayBeLive, Fades
  <2>5. \A u \in Txn : fate'[u] = "committed" <=> fate[u] = "committed"
    BY <2>2
  <2>6. \A u \in Txn : Newest(u) => Newest(u)'
    BY <2>5 DEF Newest
  <2> QED BY <2>2, <2>4, <2>5, <2>6 DEF Sole
<1> QED BY <1>1, <1>2, <1>3, <1>4

-----------------------------------------------------------------------------
(* What a step does to the files                                           *)

LEMMA PlansStay ==
  ASSUME TypeOK, Ledger, [Next]_vars, NEW u \in Txn, fate[u] # "new"
  PROVE  fate'[u] # "new" /\ plan'[u] = plan[u]
<1>1. CASE Plan
  BY <1>1 DEF Plan, TypeOK, BookType
<1>2. CASE SyncJournalAbove
  BY <1>2 DEF SyncJournalAbove, TypeOK, BookType
<1>3. CASE RecoverCommitted
  BY <1>3 DEF RecoverCommitted, TakeUp, TypeOK, BookType
<1>4. CASE ~Plan /\ ~SyncJournalAbove /\ ~RecoverCommitted
  BY <1>4, FatesStay
<1> QED BY <1>1, <1>2, <1>3, <1>4

LEMMA NewStay ==
  ASSUME TypeOK, Ledger, [Next]_vars, ~Plan, NEW u \in Txn, fate[u] = "new"
  PROVE  fate'[u] = "new"
<1>1. CASE SyncJournalAbove
  <2>1. /\ fate[cur] = "planned"
        /\ fate' = [fate EXCEPT ![cur] = "committed"] \/ fate' = fate
    BY <1>1 DEF SyncJournalAbove, Ledger, Stages, Making, Window
  <2> QED BY <2>1 DEF TypeOK, BookType
<1>2. CASE RecoverCommitted
  <2>1. PICK s \in scan : fate' = [fate EXCEPT ![s] = "committed"]
    BY <1>2, FirstIn DEF RecoverCommitted, TakeUp, TypeOK, ProcessType
  <2>2. fate[s] # "new"
    BY DEF Ledger, Stages
  <2> QED BY <2>1, <2>2 DEF TypeOK, BookType
<1>3. CASE ~SyncJournalAbove /\ ~RecoverCommitted
  BY <1>3, FatesStay
<1> QED BY <1>1, <1>2, <1>3

\* What is planned replaces each file by another.
LEMMA PlannedStep ==
  ASSUME TypeOK, Ledger, Planned, [Next]_vars
  PROVE  Planned'
<1>1. ASSUME NEW u \in Txn, fate[u] # "new", NEW p \in DOMAIN Delta(u)'
      PROVE  Pre(u, p)' # Post(u, p)' /\ Post(u, p)' \in {Absent, u}
  <2>1. plan'[u] = plan[u]
    BY <1>1, PlansStay
  <2> QED BY <1>1, <2>1 DEF Planned, Pre, Post, Delta
<1>2. CASE ~Plan
  <2>1. \A u \in Txn : fate'[u] # "new" => fate[u] # "new"
    BY <1>2, NewStay
  <2> QED BY <1>1, <2>1 DEF Planned
<1>3. CASE Plan
  <2>1. PICK t \in Txn :
          /\ fate' = [fate EXCEPT ![t] = "planned"]
          /\ \E d \in {e \in Deltas(t) : Sound(e)} :
             \E gone \in {{}} \cup {{e} : e \in Droppable(d)} :
               plan' = [plan EXCEPT ![t] =
                          [change |-> d, retire |-> hist.now.heads, prune |-> gone]]
    BY <1>3 DEF Plan
  <2>2. PICK d \in Deltas(t) :
          /\ Sound(d)
          /\ \E gone : plan' = [plan EXCEPT ![t] =
                          [change |-> d, retire |-> hist.now.heads, prune |-> gone]]
    BY <2>1
  <2>3. Delta(t)' = d
    BY <2>2 DEF Delta, TypeOK, BookType
  <2>4. \A p \in DOMAIN d : d[p].pre # d[p].post /\ d[p].post \in {Absent, t}
    BY <2>2 DEF Deltas, Sound
  <2>5. \A u \in Txn : fate'[u] # "new" => u = t \/ fate[u] # "new"
    BY <2>1 DEF TypeOK, BookType
  <2>6. \A p \in DOMAIN Delta(t)' : Pre(t, p)' # Post(t, p)' /\ Post(t, p)' \in {Absent, t}
    BY <2>3, <2>4 DEF Pre, Post
  <2> QED BY <1>1, <2>5, <2>6 DEF Planned
<1> QED BY <1>2, <1>3

LEMMA DroppedStep ==
  ASSUME Undropped, dropped = {}, [Next]_vars
  PROVE  dropped' = {}
<1> USE DEF folder, Strikes, Undropped
<1>1. CASE Recovery \/ Plan \/ Close \/ Kill \/ PowerLoss
  BY <1>1 DEF Recovery, Open, RecoverCommitted, TakeUp, RecoverDiscard, RecoverEnd, Plan, Close,
     Kill, PowerLoss
<1>2. CASE Commit
  BY <1>2 DEF Commit, PreflightRefuses, Stage, SyncStaged, CreateJournal, WriteJournal,
     SyncJournalFile, SyncJournalDir, SyncJournalAbove, Retract, SyncRetraction
<1>3. CASE SyncAncestors \/ SyncParent \/ SyncPlaced \/ SyncPublished
  BY <1>3 DEF SyncAncestors, SyncPlaced, SyncPublished, SyncTouched, SyncParent, SyncFails
<1>4. CASE \/ Look \/ Rewrite \/ RewriteFails \/ MakeParent \/ PlaceFile \/ RemoveFile \/ Prune
           \/ Publish \/ Retire \/ RetireDone \/ Mark
  BY <1>4 DEF Look, LookAt, Rewrite, Placed, RewriteFails, MakeParent, PlaceFile, RemoveFile,
     Prune, Publish, Retire, RetireDone, Mark
<1>5. CASE Finish \/ Lost \/ Refused
  BY <1>5 DEF Finish, RemoveJournal, Unlink, RemoveTxnDir, SyncRemoval, Lost, RewriteLost,
     PlaceLost, PublishLost, Refused, PlaceBlocked, FinishBlocked, DiscardBlocked
<1>6. CASE UNCHANGED vars \/ \E p \in Target : Edit(p)
  BY <1>6 DEF vars, Edit
<1> QED BY <1>1, <1>2, <1>3, <1>4, <1>5, <1>6 DEF Next, Step, Apply

\* Nobody edits.
LEMMA NoEdit ==
  ASSUME Unedited, NEW p \in Target
  PROVE  ~Edit(p)
BY DEF Edit, Unedited

LEMMA RewriteStill ==
  ASSUME TypeOK, Rewrite
  PROVE  Still
<1>1. /\ at \in Target /\ row[at] \in Cells(Row) /\ cur = row[at].now.file /\ UNCHANGED dir
      /\ Put(at, cur)
  BY DEF Rewrite, Placed, TypeOK, FolderType, ProcessType, BookType, PlanType, Delta
<1>2. \A p \in Target : p # at => row'[p] = row[p]
  BY <1>1 DEF Put, TypeOK, FolderType
<1> DEFINE New(m) == [m EXCEPT !.file = cur]
<1>3. \A m \in Row : New(m).file = cur
  BY DEF Row
<1>4. /\ row'[at].now = New(row[at].now)
      /\ \A m \in row'[at].may :
           m \in row[at].may \/ \E n \in row[at].may : n.file = cur /\ m = New(n)
  BY <1>1 DEF Put, Issue, TypeOK, FolderType
<1> HIDE DEF New
<1>5. Alike(at)
  BY <1>1, <1>3, <1>4 DEF Alike, Cells
<1>6. Steady
  BY <1>1, <1>2, <1>5 DEF Steady, Alike
<1> QED BY <1>6, SteadyStill

\* What the power leaves is firm.
LEMMA LossFiles ==
  ASSUME TypeOK, PowerLoss
  PROVE  /\ Firm' /\ Rooted'
         /\ \A p \in Target : row'[p].now.file \in AfterLoss(p)
         /\ \A d \in Dir : dir'[d].now \in dir[d].may
<1>1. PICK tt \in Choices(Txn, LAMBDA t : txn[t].may),
           rr \in Choices(Target, LAMBDA x : row[x].may),
           dd \in Choices(Dir, LAMBDA x : dir[x].may) :
        /\ row' = [x \in Target |->
             Durable([file   |-> IF dd[DirOf[x]] THEN rr[x].file ELSE Absent,
                      staged |-> {t \in rr[x].staged : tt[t].dir}])]
        /\ dir' = [x \in Dir |-> Durable(dd[x])]
  BY DEF PowerLoss
<1>2. /\ \A p \in Target : rr[p] \in row[p].may /\ DirOf[p] \in Dir
      /\ \A d \in Dir : dd[d] \in dir[d].may
  BY <1>1, DirAssumption DEF Choices
<1>3. \A d \in Dir : dir'[d].now = dd[d] /\ dir'[d].may = {dd[d]}
  BY <1>1 DEF Durable
<1>4. \A p \in Target : /\ row'[p].now.file = (IF dd[DirOf[p]] THEN rr[p].file ELSE Absent)
                        /\ row'[p].may = {row'[p].now}
  BY <1>1 DEF Durable
<1>5. Firm'
  BY <1>3, <1>4 DEF Firm, DirFirm, RowFirm
<1>6. Rooted'
  BY <1>2, <1>3, <1>4 DEF Rooted, Exists
<1>7. \A p \in Target : row'[p].now.file \in AfterLoss(p)
  BY <1>2, <1>4 DEF AfterLoss
<1> QED BY <1>2, <1>3, <1>5, <1>6, <1>7

LEMMA FirmSpreads == TypeOK /\ Firm /\ Rooted => \A p \in Target : Spread(p) = {row[p].now.file}
BY FirmSpread

LEMMA LossSpread ==
  ASSUME TypeOK, TypeOK', PowerLoss
  PROVE  \A p \in Target : Spread(p)' \subseteq Spread(p)
<1>1. Firm' /\ Rooted' /\ \A p \in Target : row'[p].now.file \in AfterLoss(p)
  BY LossFiles
<1>2. (TypeOK /\ Firm /\ Rooted => \A p \in Target : Spread(p) = {row[p].now.file})'
  BY FirmSpreads, PTL
<1> QED BY <1>1, <1>2 DEF Spread

\* It leaves as it was what was firm before.
LEMMA LossStill ==
  ASSUME TypeOK, TypeOK', Firm, Rooted, PowerLoss
  PROVE  Still
<1>1. \A p \in Target : Spread(p) = {row[p].now.file}
  BY FirmSpread
<1>2. \A p \in Target : row'[p].now.file = row[p].now.file
  BY <1>1, LossFiles DEF Spread
<1>3. \A d \in Dir : Exists(d)' = Exists(d)
  BY LossFiles DEF Firm, DirFirm, Exists
<1>4. /\ \A d \in Dir : DirFirm(d)'
      /\ \A p \in Target : RowFirm(p)'
  BY LossFiles DEF Firm
<1> QED BY <1>2, <1>3, <1>4, LossSpread DEF Still

-----------------------------------------------------------------------------
(* What the last change tells of the files                                 *)

\* A step that leaves the files as they were, and decides nothing.
LEMMA ToldOn ==
  ASSUME TypeOK, Ledger, [Next]_vars, Told, Still,
         \A u \in Txn : fate'[u] = "committed" <=> fate[u] = "committed",
         \A t \in Revision : Newest(t) =>
           /\ t # Base => Lasts(txn[t], txn'[t]) \/ InPlace(t)
           /\ \A u \in Txn : fate[u] = "new" /\ fate'[u] # "new" => InPlace(t) /\ Found(u)'
  PROVE  Told'
<1> SUFFICES ASSUME NEW t \in Revision, Newest(t)' PROVE Tells(t)'
  BY DEF Told
<1>1. Newest(t)
  BY DEF Newest, Revision
<1>2. Tells(t)
  BY <1>1 DEF Told
<1>3. \A u \in Txn : fate[u] # "new" => plan'[u] = plan[u]
  BY PlansStay
<1>4. \A u \in Txn : fate'[u] # "new" => fate[u] # "new" \/ (InPlace(t) /\ Found(u)')
  BY <1>1
<1> QED BY <1>1, <1>2, <1>3, <1>4, StillTells

\* A step that decides u, found in place what was made before.
LEMMA ToldBegins ==
  ASSUME TypeOK, TypeOK', Rooted, Told, NEW t \in Revision, Newest(t),
         NEW u \in Txn, u > t, fate[u] # "new", \A v \in Txn : v > u => fate[v] = "new",
         UNCHANGED <<row, dir, plan>>, fate' = [fate EXCEPT ![u] = "committed"], Lives(txn'[u])
  PROVE  Newest(u)' /\ Told' /\ Firm' /\ Found(u)'
<1>1. Tells(t) /\ InPlace(t) /\ Found(u)
  BY DEF Told, Tells
<1>2. Firm
  BY <1>1 DEF InPlace
<1>3. \A p \in Target : Spread(p) = {row[p].now.file}
  BY <1>2, FirmSpread
<1>4. /\ \A v \in Txn : fate'[v] = IF v = u THEN "committed" ELSE fate[v]
      /\ u # Base /\ u \in Revision
  BY NAssumption DEF TypeOK, BookType, Revision, Txn, Base
<1>5. Newest(u)'
  <2>1. \A v \in Txn : fate[v] = "committed" => v <= t
    BY DEF Newest
  <2> QED BY <1>4, <2>1, NAssumption DEF Newest, Txn, Revision, Base
<1>6. Changed(u)' = DOMAIN Delta(u) /\ DOMAIN Delta(u) \subseteq Target
  BY <1>4 DEF Changed, Delta, TypeOK, BookType, PlanType
<1>7. Firm' /\ Found(u)' /\ \A p \in Target : RowFirm(p)'
  BY <1>1, <1>2 DEF Firm, DirFirm, RowFirm, Exists, Found, Delta, Pre
<1>8. \A p \in Changed(u)' : Spread(p)' \subseteq {Pre(u, p)', Post(u, p)'}
  BY <1>1, <1>3, <1>6 DEF Spread, AfterLoss, Found, Delta, Pre, Post
<1>9. \A v \in Txn : v > u => fate'[v] = "new"
  BY <1>4, NAssumption DEF Txn
<1>10. \A p \in Target : Spread(p)' \subseteq {row'[p].now.file}
  BY <1>3 DEF Spread, AfterLoss
<1>13. Tells(u)'
  BY <1>4, <1>7, <1>8, <1>9, <1>10 DEF Tells, Intact
<1>11. \A v \in Revision : Newest(v)' => v = u
  BY <1>4, <1>5, NAssumption DEF Newest, Txn, Revision, Base
<1>12. Told'
  BY <1>4, <1>5, <1>13, <1>11 DEF Told
<1> QED BY <1>5, <1>7, <1>12

\* A step of the work on cur that changes files.
LEMMA ToldWorks ==
  ASSUME TypeOK, cur \in Txn, Newest(cur), Lives(txn[cur]),
         \A u \in Txn : u > cur => fate[u] = "new",
         UNCHANGED <<txn, plan, fate>>,
         \A p \in Target \ DOMAIN Delta(cur) : Intact(p)',
         \A p \in DOMAIN Delta(cur) : Spread(p)' \subseteq {Pre(cur, p), Post(cur, p)}
  PROVE  Told'
<1> SUFFICES ASSUME NEW t \in Revision, Newest(t)' PROVE Tells(t)'
  BY DEF Told
<1>1. t = cur /\ cur # Base
  <2>1. Newest(t)
    BY DEF Newest
  <2>2. cur \in Revision /\ cur # Base
    BY NAssumption DEF Revision, Txn, Base
  <2> QED BY <2>1, <2>2, NewestOne
<1>2. /\ Changed(t)' = DOMAIN Delta(cur)
      /\ \A p \in DOMAIN Delta(cur) : Pre(t, p)' = Pre(cur, p) /\ Post(t, p)' = Post(cur, p)
  BY <1>1 DEF Changed, Delta, Pre, Post
<1>3. \A u \in Txn : u > t => fate'[u] = "new"
  BY <1>1
<1> QED BY <1>1, <1>2, <1>3 DEF Tells

\* Before its files are all in place nothing was begun after a change.
LEMMA Unplaced ==
  ASSUME TypeOK, Ledger, Told, Planned, Handled, pc \in {"place", "parent"}
  PROVE  /\ cur \in Txn /\ at \in DOMAIN Delta(cur) /\ at \in Target /\ DirOf[at] \in Dir
         /\ Newest(cur) /\ Tells(cur) /\ Lives(txn[cur])
         /\ row[at].now.file = Pre(cur, at) /\ Pre(cur, at) # Post(cur, at)
         /\ Post(cur, at) \in {Absent, cur}
         /\ \A u \in Txn : u > cur => fate[u] = "new"
<1>1. /\ cur \in Txn /\ at \in DOMAIN Delta(cur) /\ at \in Target /\ fate[cur] = "committed"
      /\ cur \in Revision /\ cur # Base
  BY NAssumption DEF TypeOK, ProcessType, BookType, PlanType, Delta, Ledger, Stages, Applying,
     Revision, Txn, Base
<1>2. Newest(cur) /\ Lives(txn[cur]) /\ row[at].now.file = Pre(cur, at)
  BY DEF Handled, Applying, Looked
<1>3. Tells(cur)
  BY <1>1, <1>2 DEF Told
<1>4. Pre(cur, at) # Post(cur, at) /\ Post(cur, at) \in {Absent, cur}
  BY <1>1 DEF Planned
<1>5. ~InPlace(cur)
  BY <1>1, <1>2, <1>4 DEF InPlace, Changed
<1>6. \A u \in Txn : u > cur => fate[u] = "new"
  BY <1>3, <1>5 DEF Tells
<1> QED BY <1>1, <1>2, <1>3, <1>4, <1>6, DirAssumption

\* A target that is put in place.
LEMMA PutInPlace ==
  ASSUME TypeOK, Ledger, Told, Planned, Handled, PlaceFile \/ RemoveFile
  PROVE  /\ row'[at].now.file = Post(cur, at)
         /\ \A p \in Target : p # at => row'[p] = row[p]
         /\ \A m \in row'[at].may :
              m \in row[at].may \/ (m.file = Post(cur, at) /\ row[at].may # {})
         /\ UNCHANGED <<dir, txn, plan, fate, cur, todo>> /\ pc' = "apply"
         /\ touched' = touched \cup {DirOf[at]}
<1> USE DEF Goto, book, sweep, work
<1>1. /\ pc = "place" /\ UNCHANGED <<dir, txn, plan, fate, cur, todo>> /\ pc' = "apply"
      /\ touched' = touched \cup {DirOf[at]}
  BY DEF PlaceFile, RemoveFile, Placed
<1>2. /\ cur \in Txn /\ at \in DOMAIN Delta(cur) /\ at \in Target /\ row[at] \in Cells(Row)
      /\ Post(cur, at) \in {Absent, cur}
  BY <1>1, Unplaced DEF TypeOK, FolderType
<1>3. CASE PlaceFile
  <2>1. Rename(at, cur) /\ Post(cur, at) = cur
    BY <1>2, <1>3 DEF PlaceFile, Writes
  <2> DEFINE New(m) == [file |-> cur, staged |-> m.staged \ {cur}]
  <2>2. \A m : New(m).file = cur
    OBVIOUS
  <2>3. /\ row'[at].now = New(row[at].now)
        /\ \A m \in row'[at].may : m \in row[at].may \/ \E n \in row[at].may : m = New(n)
        /\ \A p \in Target : p # at => row'[p] = row[p]
    BY <1>2, <2>1 DEF Rename, Issue, TypeOK, FolderType
  <2> HIDE DEF New
  <2>4. /\ row'[at].now.file = cur
        /\ \A m \in row'[at].may : m \in row[at].may \/ (m.file = cur /\ row[at].may # {})
    BY <2>2, <2>3
  <2> QED BY <1>1, <2>1, <2>3, <2>4
<1>4. CASE RemoveFile
  <2>1. Put(at, Absent) /\ Post(cur, at) = Absent
    BY <1>2, <1>4 DEF RemoveFile, Writes
  <2> DEFINE New(m) == [m EXCEPT !.file = Absent]
  <2>2. \A m \in Row : New(m).file = Absent
    BY DEF Row
  <2>3. /\ row'[at].now = New(row[at].now)
        /\ \A m \in row'[at].may : m \in row[at].may \/ \E n \in row[at].may : m = New(n)
        /\ \A p \in Target : p # at => row'[p] = row[p]
    BY <1>2, <2>1 DEF Put, Issue, TypeOK, FolderType
  <2> HIDE DEF New
  <2>4. /\ row'[at].now.file = Absent
        /\ \A m \in row'[at].may : m \in row[at].may \/ (m.file = Absent /\ row[at].may # {})
    BY <1>2, <2>2, <2>3 DEF Cells
  <2> QED BY <1>1, <2>1, <2>3, <2>4
<1> QED BY <1>3, <1>4

LEMMA PlaceTold ==
  ASSUME TypeOK, Ledger, Told, Planned, Handled, PlaceFile \/ RemoveFile
  PROVE  Told'
<1>1. pc = "place"
  BY DEF PlaceFile, RemoveFile
<1>2. /\ cur \in Txn /\ at \in DOMAIN Delta(cur) /\ at \in Target
      /\ Newest(cur) /\ Tells(cur) /\ Lives(txn[cur]) /\ Changed(cur) = DOMAIN Delta(cur)
      /\ \A u \in Txn : u > cur => fate[u] = "new"
  BY <1>1, Unplaced, NAssumption DEF Changed, Txn, Base
<1>3. ASSUME NEW p \in Target \ DOMAIN Delta(cur) PROVE Intact(p)'
  <2>1. Intact(p) /\ row'[p] = row[p] /\ dir' = dir
    BY <1>2, PutInPlace DEF Tells
  <2> QED BY <2>1 DEF Intact, RowFirm, Exists, Spread, AfterLoss
<1>4. ASSUME NEW p \in DOMAIN Delta(cur), p # at
      PROVE  Spread(p)' \subseteq {Pre(cur, p), Post(cur, p)}
  <2>1. p \in Target
    BY <1>2 DEF TypeOK, BookType, PlanType, Delta
  <2>2. row'[p] = row[p] /\ dir' = dir
    BY <1>4, <2>1, PutInPlace
  <2>3. Spread(p)' = Spread(p)
    BY <2>2 DEF Spread, AfterLoss
  <2> QED BY <1>2, <2>3 DEF Tells
<1>5. ASSUME NEW q \in DOMAIN Delta(cur), q = at
      PROVE  Spread(q)' \subseteq {Pre(cur, q), Post(cur, q)}
  <2>1. AfterLoss(q) \subseteq {Pre(cur, q), Post(cur, q)}
    BY <1>2 DEF Tells, Spread
  <2>2. /\ row'[q].now.file = Post(cur, q) /\ dir' = dir
        /\ \A m \in row'[q].may : m \in row[q].may \/ (m.file = Post(cur, q) /\ row[q].may # {})
    BY <1>5, PutInPlace
  <2>3. ASSUME NEW d \in dir[DirOf[q]].may, NEW m \in row'[q].may
        PROVE  (IF d THEN m.file ELSE Absent) \in {Pre(cur, q), Post(cur, q)}
    <3>1. CASE m \in row[q].may
      BY <2>1, <3>1 DEF AfterLoss
    <3>2. CASE m.file = Post(cur, q) /\ row[q].may # {} /\ ~d
      <4>1. PICK n \in row[q].may : TRUE
        BY <3>2
      <4>2. (IF d THEN n.file ELSE Absent) \in AfterLoss(q)
        BY DEF AfterLoss
      <4> QED BY <2>1, <3>2, <4>2
    <3> QED BY <2>2, <3>1, <3>2
  <2>4. AfterLoss(q)' \subseteq {Pre(cur, q), Post(cur, q)}
    BY <2>2, <2>3 DEF AfterLoss
  <2> QED BY <2>2, <2>4 DEF Spread
<1>6. \A p \in DOMAIN Delta(cur) : Spread(p)' \subseteq {Pre(cur, p), Post(cur, p)}
  BY <1>4, <1>5
<1>7. UNCHANGED <<txn, plan, fate>>
  BY PutInPlace
<1> QED BY <1>2, <1>3, <1>6, <1>7, ToldWorks

\* A directory that is made anew holds nothing.
LEMMA ParentMade ==
  ASSUME TypeOK, Rooted, MakeParent
  PROVE  /\ \A p \in Target : /\ row'[p].now = row[p].now
                              /\ RowFirm(p) => RowFirm(p)'
                              /\ Spread(p)' \subseteq Spread(p)
                              /\ \A m \in row'[p].may :
                                   \E n \in row[p].may : m.staged = n.staged
                              /\ DirOf[p] # DirOf[at] => row'[p] = row[p]
         /\ ~Exists(DirOf[at])
         /\ \A d \in Dir : d # DirOf[at] => dir'[d] = dir[d]
         /\ \A d \in Dir : Exists(d) => Exists(d)'
<1> DEFINE e == DirOf[at]
           Emptied(m) == [m EXCEPT !.file = Absent]
<1>1. /\ ~Exists(e)
      /\ row' = [p \in Target |-> IF DirOf[p] = e
                   THEN [row[p] EXCEPT !.may = {Emptied(m) : m \in @}] ELSE row[p]]
      /\ at \in Target /\ e \in Dir
  BY DirAssumption DEF MakeParent, TypeOK, ProcessType, BookType, PlanType, Delta
<1>2. /\ \A d \in Dir : d # e => dir'[d] = dir[d]
      /\ dir'[e].now
  BY <1>1 DEF MakeParent, Issue, TypeOK, FolderType
<1>3. \A m \in Row : Emptied(m).file = Absent /\ Emptied(m).staged = m.staged
  BY DEF Row
<1>4. \A p \in Target : /\ row'[p].now = row[p].now
                        /\ DirOf[p] # e => row'[p] = row[p]
                        /\ DirOf[p] = e => row'[p].may = {Emptied(m) : m \in row[p].may}
  BY <1>1 DEF TypeOK, FolderType, Cells
<1> HIDE DEF e, Emptied
<1>5. ASSUME NEW p \in Target, DirOf[p] = e
      PROVE  RowFirm(p)' /\ Spread(p)' \subseteq Spread(p)
  <2>1. row[p].now.file = Absent
    BY <1>1, <1>5 DEF Rooted
  <2>2. \A m \in row'[p].may : m.file = Absent
    BY <1>3, <1>4, <1>5 DEF TypeOK, FolderType, Cells
  <2>3. AfterLoss(p)' \subseteq {Absent}
    BY <2>2 DEF AfterLoss
  <2> QED BY <1>4, <2>1, <2>2, <2>3 DEF RowFirm, Spread
<1>6. ASSUME NEW p \in Target, DirOf[p] # e
      PROVE  (RowFirm(p) => RowFirm(p)') /\ Spread(p)' \subseteq Spread(p)
  <2>1. row'[p] = row[p] /\ dir'[DirOf[p]] = dir[DirOf[p]]
    BY <1>2, <1>4, <1>6, DirAssumption
  <2> QED BY <2>1 DEF RowFirm, Exists, Spread, AfterLoss
<1>7. \A d \in Dir : Exists(d) => Exists(d)'
  BY <1>2 DEF Exists
<1>8. ASSUME NEW p \in Target, NEW m \in row'[p].may
      PROVE  \E n \in row[p].may : m.staged = n.staged
  BY <1>3, <1>4, <1>8 DEF TypeOK, FolderType, Cells
<1> QED BY <1>1, <1>2, <1>4, <1>5, <1>6, <1>7, <1>8 DEF e

LEMMA ParentTold ==
  ASSUME TypeOK, Ledger, Told, Planned, Handled, Rooted, MakeParent
  PROVE  Told'
<1> USE DEF book, work
<1>1. pc = "place" /\ UNCHANGED <<txn, plan, fate, cur>>
  BY DEF MakeParent
<1>2. /\ cur \in Txn /\ Newest(cur) /\ Tells(cur) /\ Lives(txn[cur])
      /\ Changed(cur) = DOMAIN Delta(cur)
      /\ \A u \in Txn : u > cur => fate[u] = "new"
  BY <1>1, Unplaced, NAssumption DEF Changed, Txn, Base
<1>3. \A p \in Target \ DOMAIN Delta(cur) : Intact(p)'
  BY <1>2, ParentMade DEF Tells, Intact
<1>4. ASSUME NEW p \in DOMAIN Delta(cur)
      PROVE  Spread(p)' \subseteq {Pre(cur, p), Post(cur, p)}
  <2>1. p \in Target
    BY <1>2 DEF TypeOK, BookType, PlanType, Delta
  <2>2. Spread(p)' \subseteq Spread(p)
    BY <2>1, ParentMade
  <2> QED BY <1>2, <2>2 DEF Tells
<1> QED BY <1>1, <1>2, <1>3, <1>4, ToldWorks

\* What Prune drops.
Dropping == {d \in plan[cur].prune : Exists(d) /\ Empty(d)}

LEMMA PruneDirs ==
  ASSUME TypeOK, Prune
  PROVE  /\ pc = "apply" /\ todo = {} /\ pc' = "sync" /\ cur \in Txn
         /\ UNCHANGED <<row, txn, plan, fate, cur, todo>>
         /\ Dropping \subseteq Dir
         /\ \A d \in Dir : /\ d \notin Dropping => dir'[d] = dir[d]
                           /\ d \in Dropping => /\ ~Exists(d)'
                                                /\ dir'[d].may \subseteq dir[d].may \cup {FALSE}
         /\ touched' = (touched \ Dropping) \cup {r \in {Root} : Dropping # {}}
<1>1. /\ pc = "apply" /\ todo = {} /\ pc' = "sync" /\ cur \in Txn
      /\ UNCHANGED <<row, txn, plan, fate, cur, todo>>
  BY DEF Prune, Goto, book, TypeOK, ProcessType
<1>2. Dropping \subseteq Dir
  BY <1>1 DEF Dropping, TypeOK, BookType, PlanType
<1>3. \A d \in Dir : /\ d \notin Dropping => dir'[d] = dir[d]
                     /\ d \in Dropping => /\ ~dir'[d].now
                                          /\ dir'[d].may \subseteq dir[d].may \cup {FALSE}
  BY DEF Prune, Dropping, Issue
<1>4. touched' = (touched \ Dropping) \cup {r \in {Root} : Dropping # {}}
  BY DEF Prune, Dropping
<1> QED BY <1>1, <1>2, <1>3, <1>4 DEF Exists

\* A file is as it was, in a directory that is there or in none.
LEMMA PruneFirm ==
  ASSUME TypeOK, Prune, NEW p \in Target
  PROVE  /\ RowFirm(p) => RowFirm(p)'
         /\ Spread(p)' \subseteq Spread(p)
<1>1. DirOf[p] \in Dir /\ row' = row
  BY PruneDirs, DirAssumption
<1>2. CASE DirOf[p] \notin Dropping
  <2>1. dir'[DirOf[p]] = dir[DirOf[p]]
    BY <1>1, <1>2, PruneDirs
  <2> QED BY <1>1, <2>1 DEF RowFirm, Exists, Spread, AfterLoss
<1>3. CASE DirOf[p] \in Dropping
  <2>1. row[p].now.file = Absent
    BY <1>3 DEF Dropping, Empty
  <2>2. ~Exists(DirOf[p])' /\ dir'[DirOf[p]].may \subseteq dir[DirOf[p]].may \cup {FALSE}
    BY <1>1, <1>3, PruneDirs
  <2>3. ASSUME NEW d \in dir'[DirOf[p]].may, NEW m \in row[p].may
        PROVE  (IF d THEN m.file ELSE Absent) \in Spread(p)
    <3>1. CASE d \in dir[DirOf[p]].may
      BY <3>1 DEF Spread, AfterLoss
    <3>2. CASE d = FALSE
      BY <2>1, <3>2 DEF Spread
    <3> QED BY <2>2, <3>1, <3>2
  <2>4. AfterLoss(p)' \subseteq Spread(p)
    BY <1>1, <2>3 DEF AfterLoss
  <2>5. row'[p].now.file \in Spread(p)
    BY <1>1 DEF Spread
  <2>6. Spread(p)' \subseteq Spread(p)
    BY <2>4, <2>5 DEF Spread
  <2> QED BY <2>2, <2>6 DEF RowFirm
<1> QED BY <1>2, <1>3

LEMMA PruneTold ==
  ASSUME TypeOK, Ledger, Told, Handled, [Next]_vars, Prune
  PROVE  Told'
<1>1. /\ cur \in Revision /\ cur # Base /\ cur \in Txn /\ Newest(cur) /\ Lives(txn[cur])
      /\ \A p \in DOMAIN Delta(cur) : row[p].now.file = Post(cur, p) /\ p \in Target
  <2>1. pc = "apply" /\ todo = {} /\ cur \in Txn
    BY PruneDirs
  <2> QED BY <2>1, NAssumption DEF Handled, Applying, Reached, Placing, Revision, Txn, Base, TypeOK,
          BookType, PlanType, Delta
<1>2. Tells(cur) /\ Changed(cur) = DOMAIN Delta(cur)
  BY <1>1 DEF Told, Changed
<1>3. CASE Dropping = {}
  <2>1. UNCHANGED <<row, txn, plan, fate>> /\ \A d \in Dir : dir'[d] = dir[d]
    BY <1>3, PruneDirs
  <2>2. Steady
    BY <2>1, DirAssumption DEF Steady, Alike
  <2>3. Still
    BY <2>2, SteadyStill
  <2> QED BY <2>1, <2>3, ToldOn DEF Lasts
<1>4. CASE Dropping # {}
  <2>1. ~InPlace(cur)
    BY <1>1, <1>4 DEF InPlace, Pruned, Dropping
  <2>2. \A u \in Txn : u > cur => fate[u] = "new"
    BY <1>2, <2>1 DEF Tells
  <2>3. UNCHANGED <<row, txn, plan, fate>>
    BY PruneDirs
  <2>4. ASSUME NEW p \in Target \ DOMAIN Delta(cur) PROVE Intact(p)'
    <3>1. Intact(p)
      BY <1>2 DEF Tells
    <3> QED BY <2>3, <3>1, PruneFirm DEF Intact
  <2>5. ASSUME NEW p \in DOMAIN Delta(cur)
        PROVE  Spread(p)' \subseteq {Pre(cur, p), Post(cur, p)}
    BY <1>1, <1>2, PruneFirm DEF Tells
  <2> QED BY <1>1, <2>2, <2>3, <2>4, <2>5, ToldWorks
<1> QED BY <1>3, <1>4

\* A journal is taken away only of a change that is in place.
LEMMA TakesInPlace ==
  ASSUME Handled, NEW t \in Revision, Newest(t), Takes(t)
  PROVE  InPlace(t)
BY DEF Handled, Takes, Removing

LEMMA LossTold ==
  ASSUME JournalSpared, TypeOK, TypeOK', Ledger, Ahead, Told, Handled, Rooted, [Next]_vars, PowerLoss
  PROVE  Told'
<1>1. UNCHANGED <<plan, fate>>
  BY DEF PowerLoss, book
<1> SUFFICES ASSUME NEW t \in Revision, Newest(t)' PROVE Tells(t)'
  BY DEF Told
<1>2. Newest(t) /\ Tells(t)
  BY <1>1 DEF Newest, Told
<1>3. CASE InPlace(t)
  <2>1. Still
    BY <1>3, LossStill DEF InPlace
  <2> QED BY <1>1, <1>2, <1>3, <2>1, StillTells
<1>4. CASE ~InPlace(t)
  <2>1. /\ t # Base /\ Lives(txn[t]) /\ t \in Txn
        /\ \A u \in Txn : u > t => fate[u] = "new"
    BY <1>2, <1>4 DEF Tells, Revision
  <2>2. Lives(txn'[t])
    BY <1>2, <1>4, <2>1, TxnsStay, TakesInPlace DEF Lasts
  <2>3. Changed(t)' = Changed(t) /\ Changed(t) \subseteq Target
    BY <1>1, <2>1 DEF Changed, Delta, TypeOK, BookType, PlanType
  <2>4. ASSUME NEW p \in Target \ Changed(t) PROVE Intact(p)'
    <3>1. RowFirm(p)' /\ row'[p].now.file \in AfterLoss(p) /\ Spread(p)' \subseteq Spread(p)
      BY LossFiles, LossSpread DEF Firm
    <3>2. Spread(p) \subseteq {row[p].now.file} /\ AfterLoss(p) \subseteq Spread(p)
      BY <1>2 DEF Tells, Intact, Spread
    <3> QED BY <3>1, <3>2 DEF Intact
  <2>5. ASSUME NEW p \in Changed(t) PROVE Spread(p)' \subseteq {Pre(t, p)', Post(t, p)'}
    <3>1. Spread(p)' \subseteq Spread(p)
      BY <2>3, LossSpread
    <3> QED BY <1>1, <1>2, <3>1 DEF Tells, Pre, Post, Delta
  <2>6. \A p \in Changed(t)' : Spread(p)' \subseteq {Pre(t, p)', Post(t, p)'}
    BY <2>3, <2>5
  <2>7. \A u \in Txn : u > t => fate'[u] = "new"
    BY <1>1, <2>1
  <2> QED BY <2>1, <2>2, <2>3, <2>4, <2>6, <2>7 DEF Tells
<1> QED BY <1>3, <1>4

\* A change is planned against the files as they are.
LEMMA PlanTold ==
  ASSUME TypeOK, Ledger, Told, [Next]_vars, Plan
  PROVE  Told'
<1> USE DEF folder
<1>1. pc = "ready" /\ UNCHANGED <<row, dir, txn>>
  BY DEF Plan
<1>2. PICK u \in Txn :
        /\ fate[u] = "new" /\ fate' = [fate EXCEPT ![u] = "planned"]
        /\ \E d \in {e \in Deltas(u) : Sound(e)} :
           \E gone \in {{}} \cup {{e} : e \in Droppable(d)} :
             plan' = [plan EXCEPT ![u] =
                        [change |-> d, retire |-> hist.now.heads, prune |-> gone]]
  BY DEF Plan
<1>3. Found(u)'
  <2>1. PICK d \in Deltas(u) :
          \E gone : plan' = [plan EXCEPT ![u] =
                      [change |-> d, retire |-> hist.now.heads, prune |-> gone]]
    BY <1>2
  <2>2. Delta(u)' = d
    BY <2>1 DEF Delta, TypeOK, BookType
  <2>3. \A p \in DOMAIN d : d[p].pre = row[p].now.file
    BY DEF Deltas
  <2> QED BY <1>1, <2>2, <2>3 DEF Found, Pre
<1>4. \A v \in Txn : ~Lives(txn[v])
  <2>1. \A v \in Txn : Settled(v)
    BY <1>1, NAssumption DEF Ledger, Stages, Cleared, Txn
  <2> QED BY <2>1 DEF Settled, Unwritten, Journals, Lives, Committing
<1>5. ASSUME NEW t \in Revision, Newest(t) PROVE InPlace(t)
  BY <1>4, <1>5 DEF Told, Tells, Revision
<1>6. Still
  <2>1. Steady
    BY <1>1 DEF Steady, Alike
  <2> QED BY <2>1, SteadyStill
<1>7. \A v \in Txn : /\ fate'[v] = "committed" <=> fate[v] = "committed"
                     /\ fate[v] = "new" /\ fate'[v] # "new" => v = u
  BY <1>2 DEF TypeOK, BookType
<1> QED BY <1>3, <1>5, <1>6, <1>7, ToldOn

\* What the commit point, and recovery, begin.
Begins(u) == Newest(u)' /\ Told' /\ Firm' /\ Found(u)'

LEMMA DecidesTold ==
  ASSUME JournalSpared, TypeOK, TypeOK', Ledger, Ahead', HeadsKept, Told, Rooted, SyncJournalAbove
  PROVE  /\ \A u \in Txn : u = cur => Begins(u) /\ Lives(txn'[u])
         /\ cur \in Txn
<1> USE DEF Goto, sweep
<1>1. /\ pc = "jtxns" /\ pc' = "apply" /\ cur \in Txn /\ SyncTransactions
      /\ fate' = [fate EXCEPT ![cur] = "committed"]
      /\ UNCHANGED <<row, dir, hist, plan, cur>>
  BY DEF SyncJournalAbove, JournalSpared, Strikes, TypeOK, ProcessType
<1>2. \A u \in Txn : txn'[u].now = txn[u].now /\ txn'[u].may \subseteq txn[u].may
  BY <1>1 DEF SyncTransactions, Sync, TypeOK, FolderType, Cells
<1>3. Lives(txn'[cur])
  <2>1. Committing(txn'[cur].now)
    BY <1>1, <1>2 DEF Ledger, Progress, Early, Window, Committing
  <2>2. \A m \in txn'[cur].may : Committing(m)
    BY <1>1, <2>1 DEF Ahead, ShownDurable, Live, MustBeLive, Window
  <2> QED BY <2>1, <2>2 DEF Lives
<1>4. PICK t \in Revision : Headed(t)
  BY DEF HeadsKept
<1>5. Newest(t) /\ cur > t /\ fate[cur] = "planned" /\ \A v \in Txn : v > cur => fate[v] = "new"
  BY <1>1, <1>4 DEF Headed, Waiting, Awaits, Making, Early, Window, Ledger, Stages, InTurn
<1>6. ASSUME NEW u \in Txn, u = cur PROVE Begins(u) /\ Lives(txn'[u])
  <2>1. Lives(txn'[u]) /\ fate' = [fate EXCEPT ![u] = "committed"] /\ u > t /\ fate[u] # "new"
        /\ \A v \in Txn : v > u => fate[v] = "new"
    BY <1>1, <1>3, <1>5, <1>6
  <2> QED BY <1>1, <1>5, <2>1, ToldBegins DEF Begins
<1> QED BY <1>1, <1>6

LEMMA TakesUpTold ==
  ASSUME TypeOK, TypeOK', Ledger, Ahead, HeadsKept, Cached, Sole, Told, Rooted, [Next]_vars,
         RecoverCommitted
  PROVE  /\ Told'
         /\ \A u \in Txn : u = cur' =>
              /\ Newest(u)' /\ Lives(txn'[u])
              /\ fate[u] = "committed" \/ (Firm' /\ Found(u)')
         /\ cur' \in Txn
<1> USE DEF Goto, folder
<1>1. PICK s \in scan : /\ txn[s].now.journal = "whole"
                        /\ cur' = s /\ fate' = [fate EXCEPT ![s] = "committed"]
  BY FirstIn DEF RecoverCommitted, TakeUp, TypeOK, ProcessType
<1>2. pc = "scan" /\ UNCHANGED <<row, dir, txn, hist, plan>>
  BY DEF RecoverCommitted, TakeUp
<1>3. s \in Txn /\ fate[s] \in {"planned", "refused", "committed"} /\ pc \notin Window
  BY <1>1, <1>2 DEF TypeOK, ProcessType, BookType, Ledger, Stages, Window
<1>4. Lives(txn[s])
  <2>1. Live(s) /\ MustBeLive(s)
    BY <1>1, <1>3 DEF Cached, Committing, Live, Ahead, ShownDurable
  <2> QED BY <2>1 DEF Lives, Live, MustBeLive
<1>5. CASE fate[s] = "committed"
  <2>1. \A v \in Txn : fate'[v] = fate[v]
    BY <1>1, <1>3, <1>5 DEF TypeOK, BookType
  <2>2. Newest(s)
    BY <1>3, <1>4, <1>5 DEF Sole, Cached, MayBeLive, Lives
  <2>3. Newest(s)'
    BY <1>3, <2>1, <2>2 DEF Newest
  <2>4. Steady
    BY <1>2 DEF Steady, Alike
  <2>5. Still
    BY <2>4, SteadyStill
  <2>6. Told'
    BY <1>2, <2>1, <2>5, ToldOn DEF Lasts
  <2> QED BY <1>1, <1>2, <1>3, <1>4, <1>5, <2>3, <2>6
<1>6. CASE fate[s] # "committed"
  <2>1. Loose(s)
    BY <1>1, <1>3, <1>6 DEF Loose, Unwritten, Journals
  <2>2. PICK t \in Revision : Headed(t)
    BY DEF HeadsKept
  <2>3. Newest(t) /\ s > t
    BY <1>3, <2>1, <2>2 DEF Headed, Waiting, Awaits
  <2>4. \A v \in Txn : v > s => fate[v] = "new"
    BY <1>3, <2>1 DEF Sole
  <2>5. Begins(s)
    BY <1>1, <1>2, <1>3, <1>4, <2>3, <2>4, ToldBegins DEF Begins
  <2> QED BY <1>1, <1>2, <1>3, <1>4, <2>5 DEF Begins
<1> QED BY <1>5, <1>6

-----------------------------------------------------------------------------
(* The change in hand                                                      *)

\* The steps that leave the files as they were, in the cache.
LEMMA StepsStill ==
  ASSUME Unedited, TypeOK, [Next]_vars, ~PlaceFile, ~RemoveFile, ~MakeParent, ~Prune, ~PowerLoss
  PROVE  Still
<1>1. CASE Rewrite
  BY <1>1, RewriteStill
<1>2. CASE ~Rewrite
  BY <1>2, NoEdit, StepsAlike, SteadyStill
<1> QED BY <1>1, <1>2

LEMMA ToldStep ==
  ASSUME JournalSpared, Unedited, TypeOK, TypeOK', Ledger, Ahead, Ahead', HeadsKept, FilesTell,
         [Next]_vars
  PROVE  Told'
<1> USE DEF FilesTell
<1>1. CASE Plan \/ PowerLoss \/ SyncJournalAbove \/ RecoverCommitted
  BY <1>1, PlanTold, LossTold, DecidesTold, TakesUpTold DEF Begins
<1>2. CASE PlaceFile \/ RemoveFile \/ MakeParent \/ Prune
  BY <1>2, PlaceTold, ParentTold, PruneTold
<1>3. CASE /\ ~Plan /\ ~PowerLoss /\ ~SyncJournalAbove /\ ~RecoverCommitted
           /\ ~PlaceFile /\ ~RemoveFile /\ ~MakeParent /\ ~Prune
  <2>1. Still
    BY <1>3, StepsStill
  <2>2. \A u \in Txn : fate'[u] = "committed" <=> fate[u] = "committed"
    BY <1>3, FatesStay
  <2>3. \A u \in Txn : fate[u] = "new" => fate'[u] = "new"
    BY <1>3, NewStay
  <2>4. ASSUME NEW t \in Revision, Newest(t), t # Base PROVE Lasts(txn[t], txn'[t]) \/ InPlace(t)
    <3>1. t \in Txn
      BY <2>4 DEF Revision
    <3> QED BY <2>4, <3>1, TxnsStay, TakesInPlace
  <2> QED BY <2>1, <2>2, <2>3, <2>4, ToldOn
<1> QED BY <1>1, <1>2, <1>3

LEMMA RootedStep ==
  ASSUME Unedited, TypeOK, FilesTell, [Next]_vars
  PROVE  Rooted'
<1> USE DEF FilesTell
<1>1. CASE PlaceFile \/ RemoveFile
  <2>1. ~(PlaceFile /\ RemoveFile) /\ at \in Target /\ UNCHANGED dir
    BY <1>1 DEF PlaceFile, RemoveFile, Placed, TypeOK, ProcessType, BookType, PlanType, Delta
  <2>2. \A p \in Target : p # at => row'[p] = row[p]
    BY <1>1 DEF PlaceFile, RemoveFile, Rename, Put, TypeOK, FolderType
  <2>3. CASE PlaceFile
    BY <2>1, <2>2, <2>3 DEF PlaceFile, Rooted, Exists
  <2>4. CASE RemoveFile
    <3>1. row'[at].now.file = Absent
      BY <2>1, <2>4 DEF RemoveFile, Put, Issue, TypeOK, FolderType, Cells, Row
    <3> QED BY <2>1, <2>2, <3>1 DEF Rooted, Exists
  <2> QED BY <1>1, <2>3, <2>4
<1>2. CASE MakeParent
  BY <1>2, ParentMade, DirAssumption DEF Rooted
<1>3. CASE Prune
  <2> SUFFICES ASSUME NEW p \in Target, row'[p].now.file # Absent PROVE Exists(DirOf[p])'
    BY DEF Rooted
  <2>1. row' = row /\ DirOf[p] \in Dir
    BY <1>3, PruneDirs, DirAssumption
  <2>2. Exists(DirOf[p]) /\ DirOf[p] \notin Dropping
    BY <2>1 DEF Rooted, Dropping, Empty
  <2> QED BY <1>3, <2>1, <2>2, PruneDirs DEF Exists
<1>4. CASE PowerLoss
  BY <1>4, LossFiles
<1>5. CASE ~PlaceFile /\ ~RemoveFile /\ ~MakeParent /\ ~Prune /\ ~PowerLoss
  BY <1>5, StepsStill, StillRooted
<1> QED BY <1>1, <1>2, <1>3, <1>4, <1>5

LEMMA HandledRests ==
  ASSUME pc' \notin Applying \cup Removing
  PROVE  Handled'
BY DEF Handled, DirsDue, FilesDue, Reached, Looked, Placing, Applying, Removing

\* A step of the work that leaves the change in hand.
LEMMA HandledOn ==
  ASSUME Handled, pc \in Applying, pc' \in Placing \cup {"mark"}, UNCHANGED <<txn, plan, fate, cur>>,
         pc' = "sync" => Pruned(cur)', DirsDue', FilesDue', Reached', Looked'
  PROVE  Handled'
<1>1. Newest(cur)' /\ Lives(txn'[cur'])
  BY DEF Handled, Newest
<1>2. pc' \notin {"publish", "retire", "published", "finish"} \cup Removing
  BY DEF Placing, Removing
<1> QED BY <1>1, <1>2 DEF Handled

LEMMA HandledMarks ==
  ASSUME Handled, pc \in Applying, pc' = "mark", UNCHANGED <<txn, plan, fate, cur>>
  PROVE  Handled'
BY HandledOn DEF DirsDue, FilesDue, Reached, Looked, Placing

\* A step after the change is in place.
LEMMA HandledAfter ==
  ASSUME TypeOK, Handled, Still, UNCHANGED <<plan, fate, cur>>, cur \in Txn,
         pc \in {"publish", "retire", "published", "finish"} \cup Removing,
         \/ pc' \in {"retire", "published", "finish"} /\ pc \notin Removing /\ UNCHANGED txn
         \/ pc' \in Removing
  PROVE  Handled'
<1>1. pc' \in Applying => pc \in Applying /\ UNCHANGED txn
  BY DEF Applying, Removing
<1>2. pc' \in Applying => Newest(cur)' /\ Lives(txn'[cur'])
  BY <1>1 DEF Handled, Newest
<1>3. ASSUME NEW t \in Revision, t = cur, Newest(t) PROVE InPlace(t)'
  <2>1. InPlace(t)
    BY <1>3 DEF Handled
  <2> QED BY <1>3, <2>1, StillInPlace
<1>4. Newest(cur)' => Newest(cur)
  BY DEF Newest
<1>5. Newest(cur)' => InPlace(cur)'
  BY <1>3, <1>4 DEF Revision
<1>6. DirsDue' /\ FilesDue' /\ Reached' /\ Looked' /\ pc' # "sync"
  BY DEF DirsDue, FilesDue, Reached, Looked, Placing, Removing
<1> QED BY <1>2, <1>5, <1>6 DEF Handled

\* What is firm is firm still, and what is to be synced is to be synced.
LEMMA DueOn ==
  ASSUME pc \in Placing, DirsDue, FilesDue,
         \A d \in Dir : DirFirm(d) => DirFirm(d)',
         \A p \in Target : RowFirm(p) => RowFirm(p)',
         touched \subseteq touched',
         pc \notin {"parent", "ancestors", "sync"}
  PROVE  DirsDue' /\ FilesDue'
<1>1. DirsDue'
  BY DEF DirsDue
<1>2. FilesDue'
  BY DEF FilesDue
<1> QED BY <1>1, <1>2

LEMMA ReachedOn ==
  ASSUME TypeOK, Reached, UNCHANGED <<plan, cur, todo>>, cur \in Txn, pc \in Placing,
         \A p \in Target : row'[p].now.file = row[p].now.file,
         pc' = "sync" => pc = "sync",
         pc \in {"place", "parent"} => pc' \in {"place", "parent"} /\ at' = at
  PROVE  Reached'
<1>1. DOMAIN Delta(cur) \subseteq Target
  BY DEF TypeOK, BookType, PlanType, Delta
<1>2. Delta(cur)' = Delta(cur) /\ \A p \in DOMAIN Delta(cur) : Post(cur, p)' = Post(cur, p)
  BY DEF Delta, Post
<1> QED BY <1>1, <1>2 DEF Reached

\* A sync of a touched directory.
LEMMA SyncsOn ==
  ASSUME TypeOK, dropped = {}, pc \in {"ancestors", "sync"}, UNCHANGED pc, DirsDue, FilesDue,
         NEW x \in touched, SyncDir(x), touched' = touched \ {x}
  PROVE  DirsDue' /\ FilesDue'
<1>1. Still
  BY SyncedAlike, SteadyStill
<1>2. x = Root => \A d \in Dir : DirFirm(d)'
  BY DEF SyncDir, Sync, DirFirm, TypeOK, FolderType, Cells
<1>3. \A p \in Target : DirOf[p] = x => RowFirm(p)'
  BY DEF SyncDir, Sync, RowFirm, TypeOK, FolderType, Cells
<1>4. DirsDue'
  BY <1>1, <1>2 DEF DirsDue, Still, Placing
<1>5. FilesDue'
  BY <1>1, <1>3 DEF FilesDue, Still, Placing
<1> QED BY <1>4, <1>5

\* Once all is synced.
LEMMA SyncsDone ==
  ASSUME pc \in {"ancestors", "sync"}, DirsDue, FilesDue, touched = {}, UNCHANGED <<row, dir>>
  PROVE  Firm /\ (\A d \in Dir : DirFirm(d)') /\ (\A p \in Target : RowFirm(p)')
<1>1. Firm
  BY DEF DirsDue, FilesDue, Firm, Placing
<1> QED BY <1>1 DEF Firm, DirFirm, RowFirm, Exists

LEMMA AncestorsHandled ==
  ASSUME Unedited, TypeOK, Ledger, FilesTell, [Next]_vars, SyncAncestors
  PROVE  Handled'
<1> USE DEF FilesTell, Goto
<1>1. pc = "ancestors" /\ UNCHANGED <<txn, plan, fate, cur, todo, at>> /\ cur \in Txn
  BY DEF SyncAncestors, SyncTouched, book, TypeOK, ProcessType
<1>2. Looked'
  BY LookedStep DEF Handled
<1>3. CASE touched = {} /\ pc' = "apply" /\ UNCHANGED <<row, dir, touched>>
  <2>1. (\A d \in Dir : DirFirm(d)') /\ (\A p \in Target : RowFirm(p)')
    BY <1>1, <1>3, SyncsDone DEF Handled
  <2>2. DirsDue' /\ FilesDue'
    BY <2>1 DEF DirsDue, FilesDue
  <2>3. Reached'
    BY <1>1, <1>3, ReachedOn DEF Handled, Placing
  <2> QED BY <1>1, <1>2, <1>3, <2>2, <2>3, HandledOn DEF Placing, Applying
<1>4. CASE \E x \in touched : SyncDir(x) /\ touched' = touched \ {x} /\ UNCHANGED pc
  <2>1. PICK x \in touched : SyncDir(x) /\ touched' = touched \ {x} /\ UNCHANGED pc
    BY <1>4
  <2>2. DirsDue' /\ FilesDue'
    BY <1>1, <2>1, SyncsOn DEF Handled
  <2>3. Still
    BY <2>1, SyncedAlike, SteadyStill
  <2>4. Reached'
    BY <1>1, <2>1, <2>3, ReachedOn DEF Handled, Placing, Still
  <2> QED BY <1>1, <1>2, <2>1, <2>2, <2>4, HandledOn DEF Placing, Applying
<1>5. CASE pc' = "mark"
  BY <1>1, <1>5, HandledMarks DEF Applying
<1> QED BY <1>1, <1>3, <1>4, <1>5 DEF SyncAncestors, SyncTouched, SyncFails

LEMMA PlacedHandled ==
  ASSUME Unedited, TypeOK, Ledger, FilesTell, [Next]_vars, SyncPlaced
  PROVE  Handled'
<1> USE DEF FilesTell, Goto
<1>1. pc = "sync" /\ UNCHANGED <<txn, plan, fate, cur, todo, at>> /\ cur \in Txn
  BY DEF SyncPlaced, SyncTouched, book, TypeOK, ProcessType
<1>2. Looked'
  BY LookedStep DEF Handled
<1>3. CASE touched = {} /\ pc' = "publish" /\ UNCHANGED <<row, dir, touched>>
  <2>1. Firm
    BY <1>1, <1>3, SyncsDone DEF Handled
  <2>2. \A p \in DOMAIN Delta(cur) : row[p].now.file = Post(cur, p)
    BY <1>1 DEF Handled, Reached, Placing
  <2>3. InPlace(cur)
    BY <1>1, <2>1, <2>2 DEF InPlace, Changed, Handled
  <2>4. InPlace(cur)'
    BY <1>1, <1>3, <2>3 DEF InPlace, Changed, Firm, DirFirm, RowFirm, Exists, Delta, Post, Pruned,
       Empty
  <2>5. Newest(cur)' /\ Lives(txn'[cur'])
    BY <1>1 DEF Handled, Newest, Applying
  <2>6. DirsDue' /\ FilesDue' /\ Reached'
    BY <1>3 DEF DirsDue, FilesDue, Reached, Placing
  <2> QED BY <1>2, <1>3, <2>4, <2>5, <2>6 DEF Handled
<1>4. CASE \E x \in touched : SyncDir(x) /\ touched' = touched \ {x} /\ UNCHANGED pc
  <2>1. PICK x \in touched : SyncDir(x) /\ touched' = touched \ {x} /\ UNCHANGED pc
    BY <1>4
  <2>2. DirsDue' /\ FilesDue'
    BY <1>1, <2>1, SyncsOn DEF Handled
  <2>3. Still
    BY <2>1, SyncedAlike, SteadyStill
  <2>4. Reached'
    BY <1>1, <2>1, <2>3, ReachedOn DEF Handled, Placing, Still
  <2>5. ASSUME NEW t \in Txn, t = cur PROVE Pruned(t)'
    BY <1>1, <2>3, <2>5, StillPruned DEF Handled
  <2>6. Pruned(cur)'
    BY <1>1, <2>5
  <2> QED BY <1>1, <1>2, <2>1, <2>2, <2>4, <2>6, HandledOn DEF Placing, Applying
<1>5. CASE pc' = "mark"
  BY <1>1, <1>5, HandledMarks DEF Applying
<1> QED BY <1>1, <1>3, <1>4, <1>5 DEF SyncPlaced, SyncTouched, SyncFails

\* What a change in hand finds in a file is what it replaces or what it leaves there.
LEMMA LookHandled ==
  ASSUME Unedited, TypeOK, Ledger, FilesTell, [Next]_vars, Look
  PROVE  Handled'
<1> USE DEF FilesTell, Goto
<1>1. /\ pc = "apply" /\ cur \in Txn
      /\ UNCHANGED <<row, dir, txn, plan, fate, cur>>
  BY DEF Look, LookAt, book, folder, TypeOK, ProcessType
<1>2. Looked'
  BY LookedStep DEF Handled
<1>3. PICK p \in todo :
        /\ pc' \in {"rewrite", "place", "apply"}
        /\ at' = IF pc' = "apply" THEN NoTarget ELSE p
        /\ todo' = todo \ {p}
        /\ touched' = touched \cup {d \in {DirOf[p]} : Exists(d)}
        /\ pc' = "rewrite" => row[p].now.file = Post(cur, p)
        /\ pc' = "apply" => row[p].now.file = Post(cur, p) \/ row[p].now.file # Pre(cur, p)
  BY DEF Look, LookAt, Again
<1>4. p \in DOMAIN Delta(cur) /\ p \in Target
  BY <1>1, <1>3 DEF TypeOK, ProcessType
<1>5. row[p].now.file \in {Pre(cur, p), Post(cur, p)}
  <2>1. Newest(cur) /\ cur \in Revision /\ cur # Base
    BY <1>1, NAssumption DEF Handled, Applying, Revision, Txn, Base
  <2>2. Spread(p) \subseteq {Pre(cur, p), Post(cur, p)}
    BY <1>4, <2>1 DEF Told, Tells, Changed
  <2> QED BY <2>2 DEF Spread
<1>6. DirsDue' /\ FilesDue'
  BY <1>1, <1>3, DueOn DEF Handled, Placing, DirFirm, RowFirm, Exists
<1>7. Reached'
  <2> SUFFICES ASSUME NEW q \in DOMAIN Delta(cur)
               PROVE  \/ row[q].now.file = Post(cur, q)
                      \/ q \in todo'
                      \/ pc' \in {"place", "parent"} /\ q = at'
    BY <1>1, <1>3 DEF Reached, Delta, Post
  <2>1. row[q].now.file = Post(cur, q) \/ q \in todo
    BY <1>1 DEF Handled, Reached, Placing
  <2>2. CASE q = p
    BY <1>3, <1>5, <2>2
  <2> QED BY <1>3, <2>1, <2>2
<1>8. pc' \in Placing /\ pc' # "sync"
  BY <1>3 DEF Placing
<1> QED BY <1>1, <1>2, <1>6, <1>7, <1>8, HandledOn DEF Applying

LEMMA RewriteHandled ==
  ASSUME Unedited, TypeOK, Ledger, FilesTell, [Next]_vars, Rewrite \/ RewriteFails
  PROVE  Handled'
<1> USE DEF FilesTell, Goto
<1>1. pc = "rewrite" /\ cur \in Txn /\ UNCHANGED <<txn, plan, fate, cur, todo>>
  BY DEF Rewrite, RewriteFails, Placed, book, folder, work, TypeOK, ProcessType
<1>2. CASE RewriteFails
  BY <1>1, <1>2, HandledMarks DEF RewriteFails, Applying
<1>3. CASE Rewrite
  <2>1. Still
    BY <1>3, RewriteStill
  <2>2. pc' = "apply" /\ touched \subseteq touched'
    BY <1>3 DEF Rewrite, Placed
  <2>3. DirsDue' /\ FilesDue'
    BY <1>1, <2>1, <2>2, DueOn DEF Handled, Placing, Still
  <2>4. Reached'
    BY <1>1, <2>1, <2>2, ReachedOn DEF Handled, Placing, Still
  <2>5. Looked'
    BY <2>2 DEF Looked
  <2> QED BY <1>1, <2>2, <2>3, <2>4, <2>5, HandledOn DEF Placing, Applying
<1> QED BY <1>2, <1>3

LEMMA ParentHandled ==
  ASSUME Unedited, TypeOK, Ledger, FilesTell, [Next]_vars, MakeParent \/ SyncParent
  PROVE  Handled'
<1> USE DEF FilesTell, Goto
<1>1. Looked'
  BY LookedStep DEF Handled
<1>2. /\ pc \in {"place", "parent"} /\ cur \in Txn
      /\ UNCHANGED <<txn, plan, fate, cur, todo, at>>
  BY DEF MakeParent, SyncParent, book, work, TypeOK, ProcessType
<1>3. CASE MakeParent
  <2>1. pc = "place" /\ pc' = "parent" /\ UNCHANGED touched
    BY <1>3 DEF MakeParent, work
  <2>2. DirsDue'
    BY <1>2, <1>3, <2>1, ParentMade DEF Handled, DirsDue, DirFirm, Placing
  <2>3. FilesDue'
    BY <1>3, <2>1, ParentMade DEF Handled, FilesDue, Placing
  <2>4. Reached'
    BY <1>2, <1>3, <2>1, ParentMade, ReachedOn DEF Handled, Placing
  <2> QED BY <1>1, <1>2, <2>1, <2>2, <2>3, <2>4, HandledOn DEF Placing, Applying
<1>4. CASE SyncParent /\ pc' = "mark"
  BY <1>2, <1>4, HandledMarks DEF Applying
<1>5. CASE SyncParent /\ pc' # "mark"
  <2>1. SyncDir(Root) /\ pc = "parent" /\ pc' = "place" /\ touched' = touched \cup {Root}
    BY <1>5 DEF SyncParent, SyncFails
  <2>2. Still
    BY <2>1, SyncedAlike, SteadyStill
  <2>3. \A d \in Dir : DirFirm(d)'
    BY <2>1 DEF SyncDir, Sync, DirFirm, TypeOK, FolderType, Cells
  <2>4. DirsDue'
    BY <2>3 DEF DirsDue
  <2>5. FilesDue'
    BY <2>1, <2>2 DEF Handled, FilesDue, Placing, Still
  <2>6. Reached'
    BY <1>2, <2>1, <2>2, ReachedOn DEF Handled, Placing, Still
  <2> QED BY <1>1, <1>2, <2>1, <2>4, <2>5, <2>6, HandledOn DEF Placing, Applying
<1> QED BY <1>3, <1>4, <1>5

LEMMA PlaceHandled ==
  ASSUME TypeOK, Ledger, FilesTell, PlaceFile \/ RemoveFile
  PROVE  Handled'
<1> USE DEF FilesTell
<1>1. pc = "place"
  BY DEF PlaceFile, RemoveFile
<1>2. /\ cur \in Txn /\ at \in DOMAIN Delta(cur) /\ at \in Target
      /\ DOMAIN Delta(cur) \subseteq Target
  BY <1>1, Unplaced DEF TypeOK, BookType, PlanType, Delta
<1>3. /\ UNCHANGED <<dir, txn, plan, fate, cur, todo>> /\ pc' = "apply"
      /\ touched' = touched \cup {DirOf[at]}
      /\ row'[at].now.file = Post(cur, at)
      /\ \A p \in Target : p # at => row'[p] = row[p]
  BY PutInPlace
<1>4. DirsDue'
  BY <1>1, <1>3 DEF Handled, DirsDue, DirFirm, Placing
<1>5. FilesDue'
  <2> SUFFICES ASSUME NEW p \in Target PROVE RowFirm(p)' \/ DirOf[p] \in touched'
    BY DEF FilesDue
  <2>1. CASE p = at
    BY <1>3, <2>1
  <2>2. CASE p # at
    <3>1. RowFirm(p) \/ DirOf[p] \in touched
      BY <1>1 DEF Handled, FilesDue, Placing
    <3> QED BY <1>3, <2>2, <3>1 DEF RowFirm, Exists
  <2> QED BY <2>1, <2>2
<1>6. Reached'
  <2> SUFFICES ASSUME NEW p \in DOMAIN Delta(cur)
               PROVE  row'[p].now.file = Post(cur, p) \/ p \in todo
    BY <1>3 DEF Reached, Delta, Post
  <2>1. row[p].now.file = Post(cur, p) \/ p \in todo \/ p = at
    BY <1>1 DEF Handled, Reached, Placing
  <2> QED BY <1>2, <1>3, <2>1
<1>7. Looked'
  BY <1>3 DEF Looked
<1> QED BY <1>1, <1>3, <1>4, <1>5, <1>6, <1>7, HandledOn DEF Placing, Applying

LEMMA PruneHandled ==
  ASSUME TypeOK, FilesTell, Prune
  PROVE  Handled'
<1> USE DEF FilesTell
<1>1. /\ pc = "apply" /\ todo = {} /\ pc' = "sync" /\ cur \in Txn
      /\ UNCHANGED <<row, txn, plan, fate, cur, todo>> /\ Dropping \subseteq Dir
      /\ \A d \in Dir : /\ d \notin Dropping => dir'[d] = dir[d]
                        /\ d \in Dropping => ~Exists(d)'
      /\ touched' = (touched \ Dropping) \cup {r \in {Root} : Dropping # {}}
  BY PruneDirs
<1>2. DirsDue'
  BY <1>1 DEF Handled, DirsDue, DirFirm, Placing
<1>3. FilesDue'
  <2> SUFFICES ASSUME NEW p \in Target PROVE RowFirm(p)' \/ DirOf[p] \in touched'
    BY DEF FilesDue
  <2>1. (RowFirm(p) \/ DirOf[p] \in touched) /\ DirOf[p] \in Dir
    BY <1>1, DirAssumption DEF Handled, FilesDue, Placing
  <2>2. CASE DirOf[p] \in Dropping
    BY <1>1, <2>1, <2>2 DEF RowFirm
  <2>3. CASE DirOf[p] \notin Dropping
    BY <1>1, <2>1, <2>3 DEF RowFirm, Exists
  <2> QED BY <2>2, <2>3
<1>4. Reached'
  BY <1>1 DEF Handled, Reached, Placing, Delta, Post
<1>5. Pruned(cur)'
  <2> SUFFICES ASSUME NEW d \in plan[cur].prune, Exists(d)', Empty(d)' PROVE FALSE
    BY <1>1 DEF Pruned
  <2>1. d \in Dir /\ Empty(d)
    BY <1>1 DEF TypeOK, BookType, PlanType, Empty
  <2>2. d \notin Dropping
    BY <1>1, <2>1
  <2>3. Exists(d)
    BY <1>1, <2>1, <2>2 DEF Exists
  <2> QED BY <2>1, <2>2, <2>3 DEF Dropping
<1>6. Looked'
  BY <1>1 DEF Looked
<1> QED BY <1>1, <1>2, <1>3, <1>4, <1>5, <1>6, HandledOn DEF Placing, Applying

\* A change that is decided is worked on with everything firm.
LEMMA DecideHandled ==
  ASSUME JournalSpared, TypeOK, TypeOK', Ledger, Ahead', HeadsKept, FilesTell, SyncJournalAbove
  PROVE  Handled'
<1> USE DEF FilesTell, Goto
<1>1. /\ pc = "jtxns" /\ pc' = "apply" /\ UNCHANGED <<plan, cur>> /\ todo' = DOMAIN Delta(cur)
  BY DEF SyncJournalAbove, JournalSpared, Strikes
<1>2. Newest(cur)' /\ Firm' /\ Lives(txn'[cur'])
  <2>1. ASSUME NEW u \in Txn, u = cur PROVE Newest(u)' /\ Firm' /\ Lives(txn'[u])
    BY <2>1, DecidesTold DEF Begins
  <2> QED BY <1>1, <2>1, DecidesTold
<1>3. DirsDue' /\ FilesDue' /\ Reached' /\ Looked'
  BY <1>1, <1>2 DEF Firm, DirsDue, FilesDue, Reached, Looked, Delta
<1> QED BY <1>1, <1>2, <1>3 DEF Handled, Applying, Removing

\* A change that is taken up is synced first, with all it may have touched.
LEMMA TakeUpHandled ==
  ASSUME Unedited, TypeOK, TypeOK', Ledger, Ahead, HeadsKept, FilesTell, [Next]_vars, RecoverCommitted
  PROVE  Handled'
<1> USE DEF FilesTell, Goto, folder
<1>1. /\ pc' = "ancestors" /\ UNCHANGED <<row, dir, txn, plan>>
      /\ todo' = DOMAIN Delta(cur') /\ touched' = Ancestors(cur')
  BY DEF RecoverCommitted, TakeUp
<1>2. PICK u \in Txn : u = cur'
  BY TakesUpTold
<1>3. Newest(u)' /\ Lives(txn'[u]) /\ Told'
  BY <1>2, TakesUpTold
<1>4. u \in Revision /\ u # Base
  BY NAssumption DEF Revision, Txn, Base
<1>5. Tells(u)'
  BY <1>3, <1>4 DEF Told
<1>6. Changed(u)' = DOMAIN Delta(u)
  BY <1>1, <1>4 DEF Changed, Delta
<1>7. FilesDue'
  <2> SUFFICES ASSUME NEW p \in Target PROVE RowFirm(p)' \/ DirOf[p] \in touched'
    BY DEF FilesDue
  <2>1. CASE p \notin DOMAIN Delta(u)
    BY <1>5, <1>6, <2>1 DEF Tells, Intact
  <2>2. CASE p \in DOMAIN Delta(u) /\ ~Exists(DirOf[p])
    BY <1>1, <2>2 DEF RowFirm, Exists
  <2>3. CASE p \in DOMAIN Delta(u) /\ Exists(DirOf[p])
    BY <1>1, <1>2, <2>3 DEF Ancestors
  <2> QED BY <2>1, <2>2, <2>3
<1>8. DirsDue' /\ Reached' /\ Looked'
  BY <1>1 DEF DirsDue, Reached, Looked, Ancestors, Delta
<1>9. Newest(cur)' /\ Lives(txn'[cur'])
  BY <1>2, <1>3
<1> QED BY <1>1, <1>7, <1>8, <1>9 DEF Handled, Applying, Removing

\* What recovery discards has no journal, and so is in place if it was made.
LEMMA DiscardHandled ==
  ASSUME TypeOK, FilesTell, RecoverDiscard
  PROVE  Handled'
<1> USE DEF FilesTell, Goto, folder, book
<1>1. PICK s \in scan : cur' = s /\ txn[s].now.journal # "whole"
  BY FirstIn DEF RecoverDiscard, TypeOK, ProcessType
<1>2. pc' = "discard" /\ UNCHANGED <<row, dir, plan, fate>>
  BY DEF RecoverDiscard
<1>3. s \in Txn /\ s \in Revision /\ ~Lives(txn[s])
  BY <1>1 DEF TypeOK, ProcessType, Revision, Lives, Committing
<1>4. ASSUME Newest(s) PROVE InPlace(s)'
  <2>1. InPlace(s)
    BY <1>3, <1>4 DEF Told, Tells
  <2> QED BY <1>2, <2>1 DEF InPlace, Changed, Firm, DirFirm, RowFirm, Exists, Delta, Post, Pruned,
       Empty
<1>5. Newest(cur)' => Newest(s)
  BY <1>1, <1>2 DEF Newest
<1>6. Newest(cur)' => InPlace(cur)'
  BY <1>1, <1>4, <1>5
<1>7. DirsDue' /\ FilesDue' /\ Reached' /\ Looked'
  BY <1>2 DEF DirsDue, FilesDue, Reached, Looked, Placing
<1> QED BY <1>2, <1>6, <1>7 DEF Handled, Applying

LEMMA AfterHandled ==
  ASSUME Unedited, TypeOK, FilesTell, [Next]_vars,
         Publish \/ Retire \/ RetireDone \/ SyncPublished \/ RemoveJournal \/ Unlink \/ RemoveTxnDir
  PROVE  Handled'
<1> USE DEF FilesTell, Goto, folder, book, work
<1>1. pc \in {"publish", "retire", "published", "finish", "discard", "rmdir"}
      /\ UNCHANGED <<plan, fate, cur>>
  BY DEF Publish, Retire, RetireDone, SyncPublished, SyncTouched, RemoveJournal, Unlink, RemoveTxnDir
<1>2. cur \in Txn
  BY <1>1 DEF TypeOK, ProcessType
<1>3. Still
  BY <1>1, StepsStill DEF PlaceFile, RemoveFile, MakeParent, Prune, PowerLoss, Publish, Retire,
     RetireDone, SyncPublished, SyncTouched, SyncFails, RemoveJournal, Unlink, RemoveTxnDir, Exit
<1>4. CASE pc' = "mark"
  <2>1. pc = "published" /\ UNCHANGED txn
    BY <1>4 DEF Publish, Retire, RetireDone, SyncPublished, SyncTouched, RemoveJournal, Unlink,
       RemoveTxnDir
  <2> QED BY <1>1, <1>4, <2>1, HandledMarks DEF Applying
<1>5. CASE pc' # "mark"
  <2>1. \/ pc' \in {"retire", "published", "finish"} /\ pc \notin Removing /\ UNCHANGED txn
        \/ pc' \in Removing
    BY <1>5 DEF Publish, Retire, RetireDone, SyncPublished, SyncTouched, SyncFails, RemoveJournal,
       Unlink, RemoveTxnDir, Removing
  <2> QED BY <1>1, <1>2, <1>3, <2>1, HandledAfter DEF Removing
<1> QED BY <1>4, <1>5

LEMMA HandledStep ==
  ASSUME JournalSpared, Unedited, TypeOK, TypeOK', Ledger, Ahead, Ahead', HeadsKept, FilesTell,
         [Next]_vars
  PROVE  Handled'
<1> USE DEF Goto
<1>1. CASE \/ SyncAncestors \/ Look \/ Rewrite \/ RewriteFails \/ MakeParent \/ SyncParent
           \/ PlaceFile \/ RemoveFile \/ Prune \/ SyncPlaced
  BY <1>1, AncestorsHandled, LookHandled, RewriteHandled, ParentHandled, PlaceHandled,
     PruneHandled, PlacedHandled
<1>2. CASE SyncJournalAbove \/ RecoverCommitted \/ RecoverDiscard
  BY <1>2, DecideHandled, TakeUpHandled, DiscardHandled
<1>3. CASE \/ Publish \/ Retire \/ RetireDone \/ SyncPublished
           \/ RemoveJournal \/ Unlink \/ RemoveTxnDir
  BY <1>3, AfterHandled
<1>4. CASE UNCHANGED vars
  <2>1. UNCHANGED <<row, dir, txn, plan, fate, pc, cur, todo, at, touched>>
    BY <1>4 DEF vars, folder, book, work
  <2> QED BY <2>1 DEF FilesTell, Handled, Newest, InPlace, Changed, Firm, DirFirm, RowFirm, Exists,
       Delta, Post, Pre, Pruned, Empty, DirsDue, FilesDue, Reached, Looked
<1>5. CASE pc' \notin Applying \cup Removing
  BY <1>5, HandledRests
<1>6. CASE Open \/ RecoverEnd \/ Plan \/ Close \/ Kill \/ PowerLoss
  BY <1>5, <1>6 DEF Open, RecoverEnd, Plan, Close, Kill, PowerLoss, Exit, Applying, Removing
<1>7. CASE Commit /\ ~SyncJournalAbove
  <2>1. CASE Retract \/ SyncRetraction
    BY <2>1 DEF Retract, SyncRetraction, Ahead
  <2>2. CASE \/ PreflightRefuses \/ Stage \/ SyncStaged \/ CreateJournal \/ WriteJournal
             \/ SyncJournalFile \/ SyncJournalDir
    BY <1>5, <2>2 DEF PreflightRefuses, Stage, SyncStaged, CreateJournal, WriteJournal,
       SyncJournalFile, SyncJournalDir, JournalSpared, Strikes, Applying, Removing
  <2> QED BY <1>7, <2>1, <2>2 DEF Commit
<1>8. CASE Mark \/ SyncRemoval \/ Lost \/ Refused
  <2>1. pc' \in {"idle", "scan", "ready"}
    BY <1>8 DEF Mark, SyncRemoval, Settle, Lost, RewriteLost, PlaceLost, PublishLost, Refused,
       PlaceBlocked, FinishBlocked, DiscardBlocked, Suspend, Halt, Report, Exit
  <2> QED BY <1>5, <2>1 DEF Applying, Removing
<1> QED
  BY <1>1, <1>2, <1>3, <1>4, <1>6, <1>7, <1>8, NoEdit
     DEF Next, Step, Recovery, Apply, Finish

-----------------------------------------------------------------------------
(* The whole                                                               *)

LEMMA FilesTellInit == Init => FilesTell
<1> SUFFICES ASSUME Init PROVE FilesTell
  OBVIOUS
<1> USE DEF Init
<1>1. \A s \in Txn : txn[s].now = Gone /\ txn[s].may = {Gone} /\ fate[s] = "new"
  BY DEF Durable
<1>2. Cached /\ Sole /\ Planned /\ dropped = {}
  BY <1>1 DEF Cached, Sole, Planned, MayBeLive, Committing, Loose, Gone
<1>3. PICK here \in SUBSET Target :
        /\ row = [p \in Target |->
             Durable([file |-> IF p \in here THEN Base ELSE Absent, staged |-> {}])]
        /\ dir = [d \in Dir |-> Durable(\E p \in here : DirOf[p] = d)]
  OBVIOUS
<1>4. /\ \A p \in Target : /\ row[p].now.file = (IF p \in here THEN Base ELSE Absent)
                           /\ row[p].may = {row[p].now}
      /\ \A d \in Dir : dir[d].now = (\E p \in here : DirOf[p] = d) /\ dir[d].may = {dir[d].now}
  BY <1>3 DEF Durable
<1>5. Rooted
  BY <1>4, DirAssumption DEF Rooted, Exists
<1>6. Firm
  <2>1. /\ \A p \in Target : row[p].may = {row[p].now}
        /\ \A d \in Dir : dir[d].may = {dir[d].now}
    BY <1>4
  <2>2. \A p \in Target : RowFirm(p)
    BY <2>1 DEF RowFirm
  <2>3. \A d \in Dir : DirFirm(d)
    BY <2>1 DEF DirFirm
  <2> QED BY <2>2, <2>3 DEF Firm
<1>7. Told
  <2> SUFFICES ASSUME NEW t \in Revision, Newest(t) PROVE Tells(t)
    BY DEF Told
  <2>1. t = Base /\ Changed(t) = {}
    BY <1>1 DEF Newest, Revision, Changed
  <2>2. InPlace(t)
    BY <1>6, <2>1 DEF InPlace
  <2>3. ASSUME NEW p \in Target PROVE Intact(p)
    <3>1. Spread(p) = {row[p].now.file}
      BY <1>5, <1>6, TypeInit, FirmSpread
    <3>2. RowFirm(p)
      BY <1>6 DEF Firm
    <3> QED BY <3>1, <3>2 DEF Intact
  <2> QED BY <1>1, <2>1, <2>2, <2>3 DEF Tells
<1>8. Handled
  BY DEF Handled, DirsDue, FilesDue, Reached, Looked, Placing, Applying, Removing
<1> QED BY <1>2, <1>5, <1>7, <1>8 DEF FilesTell

LEMMA FilesTellStep ==
  ASSUME JournalSpared, RemovalSpared, Undropped, Unedited,
         TypeOK, TypeOK', Ledger, Ledger', Ahead, Ahead', HeadsKept, HeadsKept', FilesTell,
         [Next]_vars
  PROVE  FilesTell'
<1> USE DEF FilesTell
<1>1. Cached'
  BY CachedStep
<1>2. Sole'
  BY <1>1, SoleStep
<1>3. Planned' /\ dropped' = {}
  BY PlannedStep, DroppedStep
<1>4. Rooted' /\ Told' /\ Handled'
  BY RootedStep, ToldStep, HandledStep
<1> QED BY <1>1, <1>2, <1>3, <1>4

\* A change and its files, wherever its journal may be missing.
LEMMA FilesSay ==
  ASSUME TypeOK, HeadsKept, FilesTell, NEW t \in Txn, fate[t] # "new",
         \A u \in Txn : u > t => fate[u] \in {"new", "refused"}
  PROVE  \/ Lives(txn[t])
         \/ \A p \in DOMAIN Delta(t) : Post(t, p) # Pre(t, p) /\ Spread(p) = {Post(t, p)}
         \/ \A p \in DOMAIN Delta(t) : Post(t, p) # Pre(t, p) /\ Spread(p) = {Pre(t, p)}
<1> USE DEF FilesTell
<1>1. PICK n \in Revision : Headed(n)
  BY DEF HeadsKept
<1>2. Newest(n) /\ Tells(n)
  BY <1>1 DEF Headed, Told
<1>3. \A p \in DOMAIN Delta(t) : p \in Target /\ Post(t, p) # Pre(t, p)
  BY DEF Planned, TypeOK, BookType, PlanType, Delta
<1>4. t # Base /\ (n # Base => n \in Txn /\ fate[n] = "committed")
  BY <1>2, NAssumption DEF Newest, Revision, Txn, Base
<1>5. CASE t = n
  <2>1. ASSUME InPlace(t), NEW p \in DOMAIN Delta(t) PROVE Spread(p) = {Post(t, p)}
    BY <1>3, <1>4, <2>1, FirmSpread DEF InPlace, Changed
  <2> QED BY <1>2, <1>3, <1>5, <2>1 DEF Tells
<1>6. CASE t # n
  <2>1. t > n
    BY <1>4, <1>6, NAssumption DEF Txn, Base
  <2>2. InPlace(n) /\ Found(t)
    BY <1>2, <2>1 DEF Tells
  <2>3. ASSUME NEW p \in DOMAIN Delta(t) PROVE Spread(p) = {Pre(t, p)}
    BY <1>3, <2>2, <2>3, FirmSpread DEF InPlace, Found
  <2> QED BY <1>3, <2>3
<1> QED BY <1>5, <1>6

\* Where a change's journal may be missing, no disk holds one of its files as the
\* change leaves it and, of them all, none as the change found it, or the other way
\* round.
LEMMA SaysBeforeOrAfter ==
  ASSUME TypeOK, HeadsKept, FilesTell
  PROVE  BeforeOrAfter
<1> SUFFICES ASSUME NEW t \in Txn, fate[t] # "new", ~MustBeLive(t),
                    \A u \in Txn : u > t => fate[u] \in {"new", "refused"}
             PROVE  \/ \A p \in DOMAIN Delta(t) : Post(t, p) \notin AfterLoss(p)
                    \/ \A p \in DOMAIN Delta(t) : Pre(t, p) \notin AfterLoss(p)
  BY DEF BeforeOrAfter
<1>1. ~Lives(txn[t])
  BY DEF Lives, MustBeLive
<1>2. \A p \in Target : AfterLoss(p) \subseteq Spread(p)
  BY DEF Spread
<1>3. DOMAIN Delta(t) \subseteq Target
  BY DEF TypeOK, BookType, PlanType, Delta
<1> QED BY <1>1, <1>2, <1>3, FilesSay

\* A process that is ready to plan finds no journal to be finished.
LEMMA SaysTwoOutcomes ==
  ASSUME TypeOK, Ledger, HeadsKept, FilesTell
  PROVE  NoThirdOutcome
<1> SUFFICES ASSUME pc = "ready", NEW t \in Txn, fate[t] # "new",
                    \A u \in Txn : u > t => fate[u] \in {"new", "refused"}
             PROVE  \/ \A p \in DOMAIN Delta(t) : row[p].now.file # Post(t, p)
                    \/ \A p \in DOMAIN Delta(t) : row[p].now.file # Pre(t, p)
  BY DEF NoThirdOutcome
<1>1. Settled(t)
  BY NAssumption DEF Ledger, Stages, Cleared, Txn
<1>2. ~Lives(txn[t])
  BY <1>1 DEF Settled, Unwritten, Journals, Lives, Committing
<1>3. \A p \in Target : row[p].now.file \in Spread(p)
  BY DEF Spread
<1>4. DOMAIN Delta(t) \subseteq Target
  BY DEF TypeOK, BookType, PlanType, Delta
<1> QED BY <1>2, <1>3, <1>4, FilesSay

LEMMA TellsAlways ==
  ASSUME JournalSpared, RemovalSpared, Undropped, Unedited
  PROVE  Spec => [](TypeOK /\ Ledger /\ HeadsKept /\ FilesTell)
<1>1. /\ TypeOK /\ TypeOK' /\ Ledger /\ Ledger' /\ Ahead /\ Ahead' /\ HeadsKept /\ [Next]_vars
      => HeadsKept'
  BY HeadsStep, ClosingStep DEF HeadsKept
<1>2. /\ TypeOK /\ TypeOK' /\ Ledger /\ Ledger' /\ Ahead /\ Ahead' /\ HeadsKept /\ HeadsKept'
      /\ FilesTell /\ [Next]_vars
      => FilesTell'
  BY FilesTellStep
<1> QED BY <1>1, <1>2, HeadsInit, FilesTellInit, Kept, AheadAlways, PTL DEF Spec

\* Before or after, on every disk, wherever the journal may be missing: whatever fails
\* but the syncing of a journal, or what comes between a transaction's removal and
\* its sync, and while nobody else writes the files and no failed sync drops them.
THEOREM BeforeOrAfterKept ==
  ASSUME JournalSpared, RemovalSpared, Undropped, Unedited
  PROVE  Spec => []BeforeOrAfter
<1>1. TypeOK /\ Ledger /\ HeadsKept /\ FilesTell => BeforeOrAfter
  BY SaysBeforeOrAfter
<1> QED BY <1>1, TellsAlways, PTL

\* And a process that is ready to plan finds the last change made or not made, with
\* no third outcome.
THEOREM TwoOutcomes ==
  ASSUME JournalSpared, RemovalSpared, Undropped, Unedited
  PROVE  Spec => []NoThirdOutcome
<1>1. TypeOK /\ Ledger /\ HeadsKept /\ FilesTell => NoThirdOutcome
  BY SaysTwoOutcomes
<1> QED BY <1>1, TellsAlways, PTL

-----------------------------------------------------------------------------
(* What the disk has in store                                              *)

\* On every disk t's p is staged, or in place in a directory that is there.
Stores(t, p) ==
  \A d \in dir[DirOf[p]].may \cup {dir[DirOf[p]].now} :
    \A m \in row[p].may \cup {row[p].now} : t \in m.staged \/ (d /\ m.file = t)

\* Every disk has the files t writes, and its head.
Stocked(t) ==
  /\ \A p \in Writes(t) : Stores(t, p)
  /\ \A x \in Histories : t \in x.staged \cup x.heads

\* What is made, or may be made, has what it needs.
Stocks ==
  /\ \A t \in Txn : Newest(t) \/ Loose(t) => Stocked(t)
  /\ pc \in {"journal", "jwrite"} \cup Window => Stocked(cur)
  /\ pc = "staged" =>
       /\ \A p \in Writes(cur) : cur \in row[p].now.staged
       /\ cur \in hist.now.staged
  /\ pc = "rewrite" => at \in Writes(cur) /\ row[at].now.file = Post(cur, at)

-----------------------------------------------------------------------------
(* What recovery needs                                                     *)

\* t's copies and t's head are where they were, or were already lost.
Sparing(t) ==
  /\ \A d \in Dir : dir'[d].may \cup {dir'[d].now} \subseteq dir[d].may \cup {dir[d].now}
  /\ \A p \in Target : \A m \in row'[p].may \cup {row'[p].now} :
       \E n \in row[p].may \cup {row[p].now} :
         (t \in n.staged => t \in m.staged) /\ n.file = m.file
  /\ \A x \in Histories' : \E y \in Histories :
       t \in y.staged \cup y.heads => t \in x.staged \cup x.heads

LEMMA WritesTyped ==
  ASSUME TypeOK, NEW t \in Txn
  PROVE  Writes(t) \subseteq DOMAIN Delta(t) /\ DOMAIN Delta(t) \subseteq Target
BY DEF Writes, Delta, TypeOK, BookType, PlanType

LEMMA SparingStocked ==
  ASSUME TypeOK, NEW t \in Txn, Sparing(t), Stocked(t), plan'[t] = plan[t]
  PROVE  Stocked(t)'
<1>1. Writes(t)' = Writes(t) /\ Writes(t) \subseteq Target
  BY WritesTyped DEF Writes, Delta, Post
<1>2. ASSUME NEW p \in Writes(t) PROVE Stores(t, p)'
  <2>1. DirOf[p] \in Dir /\ p \in Target /\ Stores(t, p)
    BY <1>1, DirAssumption DEF Stocked
  <2> QED BY <2>1 DEF Sparing, Stores
<1>3. \A x \in Histories' : t \in x.staged \cup x.heads
  BY DEF Stocked, Sparing
<1> QED BY <1>1, <1>2, <1>3 DEF Stocked

LEMMA SparingSame ==
  ASSUME UNCHANGED <<row, dir, hist>>, NEW t
  PROVE  Sparing(t)
BY DEF Sparing, Histories

LEMMA SparingSync ==
  ASSUME TypeOK, NEW t,
         \/ (\E u \in Txn : SyncTxn(u)) /\ UNCHANGED dir
         \/ \E x : SyncDir(x)
  PROVE  Sparing(t)
<1>1. \A d \in Dir : dir'[d].now = dir[d].now /\ dir'[d].may \subseteq dir[d].may
  BY DEF SyncDir, Sync, TypeOK, FolderType, Cells
<1>2. /\ \A p \in Target : row'[p].now = row[p].now /\ row'[p].may \subseteq row[p].may
      /\ hist'.now = hist.now /\ hist'.may \subseteq hist.may
  <2>1. CASE \E u \in Txn : SyncTxn(u)
    BY <2>1 DEF SyncTxn, Sync, TypeOK, FolderType, Cells
  <2>2. CASE \E x : SyncDir(x)
    BY <2>2 DEF SyncDir, Sync, TypeOK, FolderType, Cells
  <2> QED BY <2>1, <2>2
<1> QED BY <1>1, <1>2 DEF Sparing, Histories

\* Staging spares all there is, unlinking what is another's.
LEMMA SparingStage ==
  ASSUME TypeOK, NEW t, NEW u, NEW S \in SUBSET Target, NEW there \in BOOLEAN, there \/ t # u,
         StageRows(u, S, there), StageHead(u, there), UNCHANGED dir
  PROVE  Sparing(t)
<1> DEFINE New(m) == [m EXCEPT !.staged = IF there THEN @ \cup {u} ELSE @ \ {u}]
<1>1. \A m \in Row : New(m).file = m.file /\ (t \in m.staged => t \in New(m).staged)
  BY DEF Row
<1>2. \A m \in Hist : New(m).heads = m.heads /\ (t \in m.staged => t \in New(m).staged)
  BY DEF Hist
<1>3. \A p \in Target :
        /\ row'[p].now \in {row[p].now, New(row[p].now)}
        /\ \A m \in row'[p].may : m \in row[p].may \/ \E n \in row[p].may : m = New(n)
  BY DEF StageRows, Issue
<1>4. /\ hist'.now = New(hist.now)
      /\ \A m \in hist'.may : m \in hist.may \/ \E n \in hist.may : m = New(n)
  BY DEF StageHead, Issue
<1> HIDE DEF New
<1>5. /\ \A p \in Target : row[p].now \in Row /\ \A m \in row[p].may : m \in Row
      /\ \A x \in Histories : x \in Hist
  BY HistoryTyped DEF TypeOK, FolderType, Cells
<1>6. ASSUME NEW p \in Target, NEW m \in row'[p].may \cup {row'[p].now}
      PROVE  \E n \in row[p].may \cup {row[p].now} :
               (t \in n.staged => t \in m.staged) /\ n.file = m.file
  BY <1>1, <1>3, <1>5
<1>7. ASSUME NEW x \in Histories'
      PROVE  \E y \in Histories : t \in y.staged \cup y.heads => t \in x.staged \cup x.heads
  BY <1>2, <1>4, <1>5 DEF Histories
<1> QED BY <1>6, <1>7 DEF Sparing

LEMMA SparingRewrite ==
  ASSUME TypeOK, Rewrite, NEW t
  PROVE  Sparing(t)
<1>1. /\ at \in Target /\ row[at] \in Cells(Row) /\ cur = row[at].now.file /\ UNCHANGED <<dir, hist>>
      /\ Put(at, cur)
  BY DEF Rewrite, Placed, TypeOK, FolderType, ProcessType, BookType, PlanType, Delta
<1>2. \A p \in Target : p # at => row'[p] = row[p]
  BY <1>1 DEF Put, TypeOK, FolderType
<1> DEFINE New(m) == [m EXCEPT !.file = cur]
<1>3. \A m \in Row : New(m).file = cur /\ New(m).staged = m.staged
  BY DEF Row
<1>4. /\ row'[at].now = New(row[at].now)
      /\ \A m \in row'[at].may :
           m \in row[at].may \/ \E n \in row[at].may : n.file = cur /\ m = New(n)
  BY <1>1 DEF Put, Issue, TypeOK, FolderType
<1> HIDE DEF New
<1>5. \A m \in row'[at].may \cup {row'[at].now} : \E n \in row[at].may \cup {row[at].now} :
        m.staged = n.staged /\ m.file = n.file
  BY <1>1, <1>3, <1>4 DEF Cells
<1>6. \A x \in Histories' : x \in Histories
  BY <1>1 DEF Histories
<1> QED BY <1>1, <1>2, <1>5, <1>6 DEF Sparing

\* A head moves from among the staged, or another is retired.
LEMMA SparingHeads ==
  ASSUME TypeOK, Ledger, NEW t \in Txn, Publish \/ (Retire /\ t = cur)
  PROVE  Sparing(t)
<1>1. UNCHANGED <<row, dir>> /\ cur \in Txn
  BY DEF Publish, Retire, TypeOK, ProcessType
<1>2. \A x \in Histories' : \E y \in Histories :
        t \in y.staged \cup y.heads => t \in x.staged \cup x.heads
  <2>1. CASE Publish /\ UNCHANGED hist
    BY <2>1 DEF Histories
  <2>2. CASE Publish /\ MoveHead
    <3> DEFINE New(m) == [heads |-> m.heads \cup {cur}, staged |-> m.staged \ {cur}]
    <3>1. \A m : t \in m.staged \cup m.heads => t \in New(m).staged \cup New(m).heads
      OBVIOUS
    <3>2. /\ hist'.now = New(hist.now)
          /\ \A m \in hist'.may : m \in hist.may \/ \E n \in hist.may : m = New(n)
      BY <2>2 DEF MoveHead, Issue
    <3> HIDE DEF New
    <3> QED BY <3>1, <3>2 DEF Histories
  <2>3. CASE Retire /\ t = cur
    <3>1. PICK h \in Retired(cur) \cap hist.now.heads :
            LET Same(m) == (h \in m.heads) = (h \in hist.now.heads)
                New(m) == [m EXCEPT !.heads = @ \ {h}]
            IN  hist' = Issue(hist, Same, New)
      BY <2>3 DEF Retire
    <3>2. h # cur
      <4>1. fate[cur] # "new"
        BY <2>3 DEF Retire, Ledger, Stages, Applying
      <4>2. h < cur
        BY <1>1, <4>1 DEF Ledger, HeadsDecided
      <4> QED BY <1>1, <4>2, NAssumption DEF Txn
    <3> DEFINE New(m) == [m EXCEPT !.heads = @ \ {h}]
    <3>3. \A m \in Hist : t \in m.staged \cup m.heads => t \in New(m).staged \cup New(m).heads
      BY <2>3, <3>2 DEF Hist
    <3>4. /\ hist'.now = New(hist.now)
          /\ \A m \in hist'.may : m \in hist.may \/ \E n \in hist.may : m = New(n)
      BY <3>1 DEF Issue
    <3> HIDE DEF New
    <3> QED BY <3>3, <3>4, HistoryTyped DEF Histories
  <2> QED BY <2>1, <2>2, <2>3 DEF Publish
<1> QED BY <1>1, <1>2 DEF Sparing


\* What is in place is there on every disk.
LEMMA InPlaceStores ==
  ASSUME TypeOK, Rooted, Planned, NEW t \in Txn, fate[t] # "new", InPlace(t)
  PROVE  \A p \in Writes(t) :
           /\ p \in Target /\ DirOf[p] \in Dir
           /\ \A d \in dir[DirOf[p]].may \cup {dir[DirOf[p]].now} : d
           /\ \A m \in row[p].may \cup {row[p].now} : m.file = t
<1> SUFFICES ASSUME NEW p \in Writes(t)
             PROVE  /\ p \in Target /\ DirOf[p] \in Dir
                    /\ \A d \in dir[DirOf[p]].may \cup {dir[DirOf[p]].now} : d
                    /\ \A m \in row[p].may \cup {row[p].now} : m.file = t
  OBVIOUS
<1>1. p \in DOMAIN Delta(t) /\ p \in Target /\ DirOf[p] \in Dir /\ Post(t, p) = t /\ t # Absent
  BY WritesTyped, DirAssumption, NAssumption DEF Planned, Writes, Txn, Absent
<1>2. t # Base /\ Firm /\ row[p].now.file = t
  BY <1>1, NAssumption DEF InPlace, Changed, Txn, Base
<1>3. Exists(DirOf[p]) /\ dir[DirOf[p]].may \subseteq {dir[DirOf[p]].now}
  BY <1>1, <1>2 DEF Rooted, Firm, DirFirm
<1>4. \A m \in row[p].may : m.file = row[p].now.file
  BY <1>1, <1>2, <1>3 DEF Firm, RowFirm
<1> QED BY <1>1, <1>2, <1>3, <1>4 DEF Exists

\* While a change is applied nothing else is made or may be.
LEMMA ApplyingSole ==
  ASSUME TypeOK, FilesTell, pc \in Applying, NEW t \in Txn, Newest(t) \/ Loose(t)
  PROVE  t = cur /\ Newest(cur)
<1>1. Newest(cur) /\ Lives(txn[cur]) /\ cur \in Txn /\ cur \in Revision /\ t \in Revision
  BY DEF FilesTell, Handled, TypeOK, ProcessType, Applying, Revision
<1>2. MayBeLive(cur) /\ fate[cur] = "committed"
  BY <1>1, NAssumption DEF FilesTell, Cached, Lives, MayBeLive, Newest, Txn, Base
<1>3. ~Loose(t)
  BY <1>1, <1>2 DEF FilesTell, Sole
<1> QED BY <1>1, <1>3, NewestOne

\* What is made, or may be made, after a step had what it needs before.
LEMMA StockedBefore ==
  ASSUME JournalSpared, TypeOK, Ledger, Ahead, FilesTell, Stocks, [Next]_vars,
         NEW t \in Txn, Newest(t)' \/ Loose(t)'
  PROVE  /\ Stocked(t) /\ fate[t] # "new" /\ plan'[t] = plan[t]
         /\ \/ Newest(t) /\ Newest(t)'
            \/ Loose(t)
            \/ t = cur /\ pc \in {"jwrite"} \cup Window
<1> USE DEF FilesTell
<1>0. t # Base
  BY NAssumption DEF Txn, Base
<1>1. CASE SyncJournalAbove /\ t = cur
  <2>1. pc \in Window /\ fate[cur] = "planned" /\ UNCHANGED plan
    BY <1>1 DEF SyncJournalAbove, Window, Ledger, Stages, Making
  <2> QED BY <1>1, <2>1 DEF Stocks
<1>2. CASE WriteJournal /\ t = cur
  <2>1. pc = "jwrite" /\ fate[cur] = "planned" /\ UNCHANGED plan
    BY <1>2 DEF WriteJournal, Ledger, Stages, Making, Early, book
  <2> QED BY <1>2, <2>1 DEF Stocks
<1>3. CASE Plan
  <2>1. PICK u \in Txn : fate[u] = "new" /\ fate' = [fate EXCEPT ![u] = "planned"]
    BY <1>3 DEF Plan
  <2>2. UNCHANGED txn
    BY <1>3 DEF Plan, folder
  <2>3. \A v \in Txn : fate'[v] = IF v = u THEN "planned" ELSE fate[v]
    BY <2>1 DEF TypeOK, BookType
  <2>4. Newest(t)' => Newest(t)
    BY <1>0, <2>1, <2>3 DEF Newest
  <2>5. Unwritten(u)
    BY <2>1 DEF Ledger, InTurn
  <2>6. Loose(t)' => Loose(t)
    BY <2>2, <2>3, <2>5 DEF Loose, Unwritten
  <2>7. fate[t] # "new"
    BY <1>0, <2>4, <2>6 DEF Newest, Loose
  <2> QED BY <2>4, <2>6, <2>7, PlansStay DEF Stocks
<1>4. CASE RecoverCommitted
  <2>1. PICK s \in scan : txn[s].now.journal = "whole" /\ fate' = [fate EXCEPT ![s] = "committed"]
    BY <1>4, FirstIn DEF RecoverCommitted, TakeUp, TypeOK, ProcessType
  <2>2. s \in Txn /\ UNCHANGED <<txn, plan>> /\ fate[s] \in {"planned", "refused", "committed"}
    BY <1>4, <2>1 DEF RecoverCommitted, TakeUp, folder, TypeOK, ProcessType, BookType, Ledger,
       Stages
  <2>3. \A v \in Txn : fate'[v] = IF v = s THEN "committed" ELSE fate[v]
    BY <2>1, <2>2 DEF TypeOK, BookType
  <2>4. Loose(t)' => Loose(t)
    BY <2>2, <2>3 DEF Loose, Unwritten
  <2>5. fate[s] # "committed" => Loose(s)
    BY <2>1, <2>2 DEF Loose, Unwritten, Journals
  <2>6. Newest(t)' => Newest(t) \/ Loose(t)
    BY <1>0, <2>3, <2>5 DEF Newest
  <2>7. fate[t] # "new"
    BY <1>0, <2>4, <2>6 DEF Newest, Loose
  <2>8. Newest(t) => Newest(t)' \/ Loose(t)
    BY <2>3, <2>4 DEF Newest
  <2> QED BY <2>2, <2>4, <2>6, <2>7, <2>8 DEF Stocks
<1>5. CASE ~Plan /\ ~RecoverCommitted /\ ~(SyncJournalAbove /\ t = cur) /\ ~(WriteJournal /\ t = cur)
  <2>1. \A u \in Txn : \/ fate'[u] = fate[u]
                       \/ fate[u] \in {"planned", "refused"} /\ fate'[u] = "refused"
                       \/ SyncJournalAbove /\ u = cur /\ fate'[u] = "committed"
    <3>1. CASE SyncJournalAbove
      BY <3>1 DEF SyncJournalAbove, TypeOK, BookType
    <3>2. CASE ~SyncJournalAbove
      BY <1>5, <3>2, FatesStay
    <3> QED BY <3>1, <3>2
  <2>2. Loose(t)' => Loose(t)
    BY <1>5, <2>1, TxnsStay DEF Loose, Unwritten, Fades
  <2>3. Newest(t)' => Newest(t)
    <3>1. \A u \in Txn : fate[u] = "committed" => fate'[u] = "committed"
      BY <2>1
    <3> QED BY <1>0, <1>5, <2>1, <3>1 DEF Newest
  <2>4. fate[t] # "new"
    BY <1>0, <2>2, <2>3 DEF Newest, Loose
  <2> QED BY <2>2, <2>3, <2>4, PlansStay DEF Stocks
<1> QED BY <1>1, <1>2, <1>3, <1>4, <1>5


\* A target that is put in place takes its copy along.
LEMMA StockedPlaced ==
  ASSUME TypeOK, Ledger, FilesTell, PlaceFile \/ RemoveFile, Stocked(cur)
  PROVE  Stocked(cur)'
<1> USE DEF FilesTell, work, Goto
<1>1. /\ pc = "place" /\ UNCHANGED <<dir, hist, plan, cur>> /\ cur \in Txn
      /\ at \in Target /\ DirOf[at] \in Dir /\ row[at] \in Cells(Row)
      /\ \A p \in Target : p # at => row'[p] = row[p]
  <2>1. pc = "place" /\ hist' = hist
    BY DEF PlaceFile, RemoveFile, Placed
  <2> QED BY <2>1, PutInPlace, Unplaced DEF TypeOK, FolderType
<1>2. Writes(cur)' = Writes(cur) /\ Writes(cur) \subseteq Target
  BY <1>1, WritesTyped DEF Writes, Delta, Post
<1>3. ASSUME NEW p \in Writes(cur), p # at PROVE Stores(cur, p)'
  BY <1>1, <1>2, <1>3 DEF Stocked, Stores
<1>4. ASSUME NEW p \in Writes(cur), p = at PROVE Stores(cur, p)'
  <2>1. PlaceFile
    BY <1>4 DEF RemoveFile
  <2>2. \A d \in dir[DirOf[p]].may \cup {dir[DirOf[p]].now} : d
    <3>1. DirFirm(DirOf[at])
      BY <1>1 DEF Handled, DirsDue, Placing
    <3> QED BY <1>4, <2>1, <3>1 DEF PlaceFile, DirFirm, Exists
  <2> DEFINE New(m) == [file |-> cur, staged |-> m.staged \ {cur}]
  <2>3. \A m : New(m).file = cur
    OBVIOUS
  <2>4. /\ row'[at].now = New(row[at].now)
        /\ \A m \in row'[at].may : m \in row[at].may \/ \E n \in row[at].may : m = New(n)
    BY <1>1, <2>1 DEF PlaceFile, Rename, Issue, TypeOK, FolderType
  <2> HIDE DEF New
  <2>5. \A m \in row'[p].may \cup {row'[p].now} : m \in row[p].may \/ m.file = cur
    BY <1>4, <2>3, <2>4
  <2> QED BY <1>1, <1>4, <2>2, <2>5 DEF Stocked, Stores
<1>5. \A p \in Writes(cur)' : Stores(cur, p)'
  BY <1>2, <1>3, <1>4
<1>6. \A x \in Histories' : cur \in x.staged \cup x.heads
  BY <1>1 DEF Stocked, Histories
<1> QED BY <1>1, <1>5, <1>6 DEF Stocked

\* A directory is made where every copy is still staged.
LEMMA StockedParent ==
  ASSUME TypeOK, FilesTell, MakeParent, Stocked(cur)
  PROVE  Stocked(cur)'
<1> USE DEF FilesTell, book, work
<1>1. cur \in Txn /\ UNCHANGED <<hist, plan, cur>>
  BY DEF MakeParent, TypeOK, ProcessType
<1>2. Writes(cur)' = Writes(cur) /\ Writes(cur) \subseteq Target
  BY <1>1, WritesTyped DEF Writes, Delta, Post
<1>3. ASSUME NEW p \in Writes(cur) PROVE Stores(cur, p)'
  <2>1. p \in Target /\ DirOf[p] \in Dir /\ Stores(cur, p)
    BY <1>2, <1>3, DirAssumption DEF Stocked
  <2>2. CASE DirOf[p] # DirOf[at]
    <3>1. row'[p] = row[p] /\ dir'[DirOf[p]] = dir[DirOf[p]]
      BY <2>1, <2>2, ParentMade
    <3> QED BY <1>1, <2>1, <3>1 DEF Stores
  <2>3. CASE DirOf[p] = DirOf[at]
    <3>1. ~dir[DirOf[p]].now
      BY <2>3, ParentMade DEF Exists
    <3>2. \A m \in row[p].may \cup {row[p].now} : cur \in m.staged
      BY <2>1, <3>1 DEF Stores
    <3>3. row'[p].now = row[p].now /\ \A m \in row'[p].may : \E n \in row[p].may : m.staged = n.staged
      BY <2>1, ParentMade
    <3> QED BY <1>1, <3>2, <3>3 DEF Stores
  <2> QED BY <2>2, <2>3
<1>4. \A p \in Writes(cur)' : Stores(cur, p)'
  BY <1>2, <1>3
<1> QED BY <1>1, <1>4 DEF Stocked, Histories

\* No directory that is dropped holds what is in place.
LEMMA StockedPruned ==
  ASSUME TypeOK, FilesTell, Prune, Stocked(cur)
  PROVE  Stocked(cur)'
<1> USE DEF FilesTell
<1>1. cur \in Txn /\ UNCHANGED <<row, hist, plan, cur>> /\ pc = "apply" /\ todo = {}
  BY PruneDirs DEF Prune
<1>2. Writes(cur)' = Writes(cur) /\ Writes(cur) \subseteq Target
  BY <1>1, WritesTyped DEF Writes, Delta, Post
<1>3. ASSUME NEW p \in Writes(cur) PROVE Stores(cur, p)'
  <2>1. p \in Target /\ DirOf[p] \in Dir /\ Stores(cur, p)
    BY <1>2, <1>3, DirAssumption DEF Stocked
  <2>2. row[p].now.file = Post(cur, p) /\ Post(cur, p) # Absent
    BY <1>1, <1>3 DEF Handled, Reached, Placing, Writes
  <2>3. DirOf[p] \notin Dropping
    BY <2>1, <2>2 DEF Dropping, Empty
  <2>4. dir'[DirOf[p]] = dir[DirOf[p]]
    BY <2>1, <2>3, PruneDirs
  <2> QED BY <1>1, <2>1, <2>4 DEF Stores
<1>4. \A p \in Writes(cur)' : Stores(cur, p)'
  BY <1>2, <1>3
<1> QED BY <1>1, <1>4 DEF Stocked, Histories

\* What is unlinked is unlinked of a change that is in place.
LEMMA StockedUnlinked ==
  ASSUME TypeOK, HeadsKept, FilesTell, Unlink, fate[cur] # "new",
         Newest(cur) \/ Loose(cur), Stocked(cur)
  PROVE  Stocked(cur)'
<1> USE DEF FilesTell, book, work
<1>1. /\ cur \in Txn /\ cur \in Revision /\ pc = "discard" /\ UNCHANGED <<dir, plan, cur>>
      /\ StageRows(cur, Target, FALSE) /\ StageHead(cur, FALSE)
  BY DEF Unlink, TypeOK, ProcessType, Revision
<1>2. Newest(cur) /\ Alone(cur)
  <2>1. PICK n \in Revision : Newest(n) /\ Spent(cur, n)
    BY <1>1 DEF HeadsKept, Headed, Waiting, Removing
  <2>2. Newest(cur)
    BY <2>1 DEF Spent
  <2> QED BY <1>1, <2>1, <2>2, NewestOne DEF Spent
<1>3. InPlace(cur)
  BY <1>1, <1>2 DEF Handled, Removing
<1>4. Writes(cur)' = Writes(cur)
  BY <1>1 DEF Writes, Delta, Post
<1> DEFINE New(m) == [m EXCEPT !.staged = IF FALSE THEN @ \cup {cur} ELSE @ \ {cur}]
<1>5. \A m \in Row : New(m).file = m.file
  BY DEF Row
<1>6. \A m \in Hist : New(m).heads = m.heads
  BY DEF Hist
<1>7. \A p \in Target : /\ row'[p].now \in {row[p].now, New(row[p].now)}
                        /\ \A m \in row'[p].may : m \in row[p].may \/ \E n \in row[p].may : m = New(n)
  BY <1>1 DEF StageRows, Issue
<1>8. /\ hist'.now = New(hist.now)
      /\ \A m \in hist'.may : m \in hist.may \/ \E n \in hist.may : m = New(n)
  BY <1>1 DEF StageHead, Issue
<1> HIDE DEF New
<1>9. /\ \A p \in Target : row[p].now \in Row /\ \A m \in row[p].may : m \in Row
      /\ \A x \in Histories : x \in Hist
  BY HistoryTyped DEF TypeOK, FolderType, Cells
<1>10. ASSUME NEW p \in Writes(cur) PROVE Stores(cur, p)'
  <2>1. /\ p \in Target /\ \A d \in dir[DirOf[p]].may \cup {dir[DirOf[p]].now} : d
        /\ \A m \in row[p].may \cup {row[p].now} : m.file = cur
    BY <1>1, <1>3, <1>10, InPlaceStores
  <2>2. \A m \in row'[p].may \cup {row'[p].now} : m.file = cur
    BY <1>5, <1>7, <1>9, <2>1
  <2> QED BY <1>1, <2>1, <2>2 DEF Stores
<1>11. \A x \in Histories' : x.heads = {cur}
  BY <1>2, <1>6, <1>8, <1>9 DEF Alone, Histories
<1> QED BY <1>1, <1>4, <1>10, <1>11 DEF Stocked

\* What the power leaves is enough, where the transaction is lost too.
LEMMA StockedLost ==
  ASSUME TypeOK, HeadsKept, FilesTell, PowerLoss, NEW t \in Txn, fate[t] # "new",
         Newest(t) \/ Loose(t)', Stocked(t)
  PROVE  Stocked(t)'
<1> USE DEF FilesTell, book
<1>1. PICK tt \in Choices(Txn, LAMBDA u : txn[u].may),
           rr \in Choices(Target, LAMBDA p : row[p].may),
           dd \in Choices(Dir, LAMBDA d : dir[d].may),
           hh \in hist.may :
        /\ txn' = [u \in Txn |-> Durable(IF tt[u].dir THEN tt[u] ELSE Gone)]
        /\ row' = [p \in Target |->
             Durable([file   |-> IF dd[DirOf[p]] THEN rr[p].file ELSE Absent,
                      staged |-> {u \in rr[p].staged : tt[u].dir}])]
        /\ dir' = [d \in Dir |-> Durable(dd[d])]
        /\ hist' = Durable([hh EXCEPT !.staged = {u \in @ : tt[u].dir}])
  BY DEF PowerLoss
<1>2. /\ tt[t] \in txn[t].may
      /\ \A p \in Target : rr[p] \in row[p].may
      /\ \A d \in Dir : dd[d] \in dir[d].may
      /\ hh \in Histories /\ hh \in Hist
  BY <1>1, HistoryTyped DEF Choices, Histories
<1>3. /\ \A p \in Target : /\ row'[p].may \cup {row'[p].now} = {row'[p].now}
                           /\ row'[p].now.file = (IF dd[DirOf[p]] THEN rr[p].file ELSE Absent)
                           /\ tt[t].dir /\ t \in rr[p].staged => t \in row'[p].now.staged
      /\ \A d \in Dir : dir'[d].may \cup {dir'[d].now} = {dd[d]}
      /\ Histories' = {hist'.now} /\ hist'.now.heads = hh.heads
      /\ tt[t].dir /\ t \in hh.staged => t \in hist'.now.staged
  BY <1>1, <1>2 DEF Durable, Histories, Hist
<1>4. UNCHANGED plan /\ fate' = fate /\ Writes(t)' = Writes(t) /\ Writes(t) \subseteq Target
  BY WritesTyped DEF PowerLoss, Writes, Delta, Post
<1>5. CASE tt[t].dir
  <2>1. ASSUME NEW p \in Writes(t) PROVE Stores(t, p)'
    <3>1. p \in Target /\ DirOf[p] \in Dir
      BY <1>4, <2>1, DirAssumption
    <3>2. t \in rr[p].staged \/ (dd[DirOf[p]] /\ rr[p].file = t)
      BY <1>2, <2>1, <3>1 DEF Stocked, Stores
    <3> QED BY <1>3, <1>5, <3>1, <3>2 DEF Stores
  <2>2. t \in hh.staged \cup hh.heads
    BY <1>2 DEF Stocked
  <2> QED BY <1>3, <1>4, <1>5, <2>1, <2>2 DEF Stocked
<1>6. CASE ~tt[t].dir
  <2>1. ~Lives(txn[t]) /\ txn'[t] = Durable(Gone)
    BY <1>1, <1>2, <1>6 DEF Lives, Committing
  <2>2. ~Loose(t)'
    BY <2>1 DEF Loose, Unwritten, Journals, Durable, Gone
  <2>3. Newest(t) /\ t \in Revision /\ t # Base
    BY <2>2, NAssumption DEF Revision, Txn, Base
  <2>4. Alone(t)
    <3>1. PICK n \in Revision : Newest(n) /\ Held(n)
      BY DEF HeadsKept, Headed
    <3> QED BY <2>1, <2>3, <3>1, NewestOne DEF Held
  <2>5. InPlace(t)
    BY <2>1, <2>3 DEF Told, Tells
  <2>6. ASSUME NEW p \in Writes(t) PROVE Stores(t, p)'
    <3>1. /\ p \in Target /\ DirOf[p] \in Dir
          /\ \A d \in dir[DirOf[p]].may \cup {dir[DirOf[p]].now} : d
          /\ \A m \in row[p].may \cup {row[p].now} : m.file = t
      BY <2>5, <2>6, InPlaceStores
    <3>2. dd[DirOf[p]] /\ rr[p].file = t
      BY <1>2, <3>1
    <3> QED BY <1>3, <3>1, <3>2 DEF Stores
  <2>7. t \in hh.heads
    BY <1>2, <2>4 DEF Alone
  <2> QED BY <1>3, <1>4, <2>6, <2>7 DEF Stocked
<1> QED BY <1>5, <1>6


\* A step that spares no copy of t's is one of these.
LEMMA Spares ==
  ASSUME JournalSpared, Unedited, TypeOK, Ledger, [Next]_vars, NEW t \in Txn,
         ~Unlink, ~Retire, ~PlaceFile, ~RemoveFile, ~MakeParent, ~Prune, ~PowerLoss
  PROVE  Sparing(t)
<1> USE DEF Goto, folder, book, sweep, work, budget
<1>1. CASE UNCHANGED <<row, dir, hist>>
  BY <1>1, SparingSame
<1>2. CASE Recovery \/ Plan \/ Close \/ Kill \/ Refused \/ Lost \/ UNCHANGED vars
  BY <1>1, <1>2 DEF Recovery, Open, RecoverCommitted, TakeUp, RecoverDiscard, RecoverEnd, Plan,
     Close, Kill, Refused, PlaceBlocked, FinishBlocked, DiscardBlocked, Lost, RewriteLost,
     PlaceLost, PublishLost, vars
<1>3. CASE Stage
  <2>1. /\ cur \in Txn /\ UNCHANGED dir /\ Writes(cur) \in SUBSET Target
        /\ StageRows(cur, Writes(cur), TRUE) /\ StageHead(cur, TRUE)
    BY <1>3, WritesTyped DEF Stage, TypeOK, ProcessType
  <2> QED BY <2>1, SparingStage
<1>4. CASE SyncStaged \/ SyncJournalDir \/ SyncRetraction
  <2>1. cur \in Txn
    BY <1>4 DEF SyncStaged, SyncJournalDir, SyncRetraction, TypeOK, ProcessType
  <2>2. (SyncTxn(cur) /\ UNCHANGED dir) \/ UNCHANGED <<row, dir, hist>>
    BY <1>4 DEF SyncStaged, SyncJournalDir, SyncRetraction
  <2> QED BY <1>1, <2>1, <2>2, SparingSync
<1>5. CASE \/ PreflightRefuses \/ CreateJournal \/ WriteJournal \/ SyncJournalFile
           \/ SyncJournalAbove \/ Retract
  BY <1>1, <1>5 DEF PreflightRefuses, CreateJournal, WriteJournal, SyncJournalFile,
     SyncJournalAbove, Retract
<1>6. CASE SyncAncestors \/ SyncPlaced \/ SyncPublished \/ SyncParent
  <2>1. (\E x : SyncDir(x)) \/ UNCHANGED <<row, dir, hist>>
    BY <1>6 DEF SyncAncestors, SyncPlaced, SyncPublished, SyncTouched, SyncParent
  <2> QED BY <1>1, <2>1, SparingSync
<1>7. CASE Rewrite
  BY <1>7, SparingRewrite
<1>8. CASE Publish
  BY <1>8, SparingHeads
<1>9. CASE Look \/ RewriteFails \/ RetireDone \/ Mark \/ RemoveJournal \/ RemoveTxnDir \/ SyncRemoval
  BY <1>1, <1>9 DEF Look, LookAt, RewriteFails, RetireDone, Mark, RemoveJournal, RemoveTxnDir,
     SyncRemoval
<1> QED
  BY <1>2, <1>3, <1>4, <1>5, <1>6, <1>7, <1>8, <1>9, NoEdit
     DEF Next, Step, Commit, Apply, Finish

LEMMA StockedStep ==
  ASSUME JournalSpared, Unedited, TypeOK, Ledger, Ahead, HeadsKept, FilesTell, Stocks, [Next]_vars,
         NEW t \in Txn, Newest(t)' \/ Loose(t)'
  PROVE  Stocked(t)'
<1> USE DEF Goto, Applying, Window
<1>1. /\ Stocked(t) /\ fate[t] # "new" /\ plan'[t] = plan[t]
      /\ \/ Newest(t) /\ Newest(t)'
         \/ Loose(t)
         \/ t = cur /\ pc \in {"jwrite"} \cup Window
  BY StockedBefore
<1>2. CASE PlaceFile \/ RemoveFile \/ MakeParent \/ Prune \/ Retire
  <2>1. pc \in Applying
    BY <1>2 DEF PlaceFile, RemoveFile, MakeParent, Prune, Retire
  <2>2. t = cur
    BY <1>1, <2>1, ApplyingSole
  <2>3. CASE Retire
    BY <1>1, <2>2, <2>3, SparingHeads, SparingStocked
  <2>4. ASSUME NEW u \in Txn, u = cur, ~Retire PROVE Stocked(u)'
    <3>1. UNCHANGED cur /\ Stocked(cur)'
      BY <1>1, <1>2, <2>2, <2>4, StockedPlaced, StockedParent, StockedPruned
         DEF PlaceFile, RemoveFile, Placed, MakeParent, Prune, work
    <3> QED BY <2>4, <3>1 DEF Stocked, Stores, Histories, Writes, Delta, Post
  <2> QED BY <2>2, <2>3, <2>4
<1>3. CASE Unlink
  <2>1. pc = "discard" /\ UNCHANGED cur /\ cur \in Txn
    BY <1>3 DEF Unlink, work, TypeOK, ProcessType
  <2>2. CASE t = cur
    <3>1. Stocked(cur)'
      BY <1>1, <1>3, <2>1, <2>2, StockedUnlinked
    <3>2. Stocked(t)' = Stocked(cur)'
      BY <2>1, <2>2 DEF Stocked, Stores, Histories, Writes, Delta, Post
    <3> QED BY <3>1, <3>2
  <2>3. CASE t # cur
    <3>1. StageRows(cur, Target, FALSE) /\ StageHead(cur, FALSE) /\ UNCHANGED dir
      BY <1>3 DEF Unlink
    <3>2. Target \in SUBSET Target /\ FALSE \in BOOLEAN
      OBVIOUS
    <3>3. Sparing(t)
      BY <2>3, <3>1, <3>2, SparingStage
    <3> QED BY <1>1, <3>3, SparingStocked
  <2> QED BY <2>2, <2>3
<1>4. CASE PowerLoss
  <2>1. ~(Loose(t) /\ Newest(t)')
    BY <1>4 DEF PowerLoss, book, Loose, Newest, Base, Txn
  <2>2. Newest(t)' => Newest(t)
    BY <1>4 DEF PowerLoss, book, Newest
  <2> QED BY <1>1, <1>4, <2>1, <2>2, StockedLost
<1>5. CASE ~(PlaceFile \/ RemoveFile \/ MakeParent \/ Prune \/ Retire \/ Unlink \/ PowerLoss)
  BY <1>1, <1>5, Spares, SparingStocked
<1> QED BY <1>2, <1>3, <1>4, <1>5


\* What is being written has what it needs once it is staged.
LEMMA StockedStaged ==
  ASSUME TypeOK, NEW u \in Txn, SyncTxn(u), UNCHANGED <<dir, plan>>,
         \A p \in Writes(u) : u \in row[p].now.staged, u \in hist.now.staged
  PROVE  Stocked(u)'
<1>1. Writes(u)' = Writes(u) /\ Writes(u) \subseteq Target
  BY WritesTyped DEF Writes, Delta, Post
<1>2. ASSUME NEW p \in Writes(u) PROVE Stores(u, p)'
  <2>1. p \in Target /\ u \in row[p].now.staged
    BY <1>1, <1>2
  <2>2. row'[p] = Sync(row[p], LAMBDA m : (u \in m.staged) = (u \in row[p].now.staged))
    BY <2>1 DEF SyncTxn
  <2>3. \A m \in row'[p].may \cup {row'[p].now} : u \in m.staged
    BY <2>1, <2>2 DEF Sync
  <2> QED BY <2>3 DEF Stores
<1>3. \A x \in Histories' : u \in x.staged
  BY DEF SyncTxn, Sync, Histories
<1> QED BY <1>1, <1>2, <1>3 DEF Stocked

LEMMA StocksStep ==
  ASSUME JournalSpared, Unedited, TypeOK, Ledger, Ahead, HeadsKept, FilesTell, Stocks, [Next]_vars
  PROVE  Stocks'
<1> USE DEF Goto, folder, book, sweep, work, budget
<1>1. \A t \in Txn : Newest(t)' \/ Loose(t)' => Stocked(t)'
  BY StockedStep
<1>2. ASSUME pc' \in {"journal", "jwrite"} \cup Window PROVE Stocked(cur)'
  <2> USE DEF Window
  <2>1. CASE SyncStaged
    <3>1. /\ pc = "staged" /\ SyncTxn(cur) /\ UNCHANGED <<dir, plan, cur>> /\ cur \in Txn
      BY <1>2, <2>1 DEF SyncStaged, JournalSpared, Strikes, TypeOK, ProcessType
    <3>2. ASSUME NEW u \in Txn, u = cur PROVE Stocked(u)'
      BY <3>1, <3>2, StockedStaged DEF Stocks
    <3> QED BY <3>1, <3>2 DEF Stocked, Stores, Histories, Writes, Delta, Post
  <2>2. CASE \/ CreateJournal \/ WriteJournal \/ SyncJournalFile \/ SyncJournalDir \/ UNCHANGED vars
    <3>1. /\ pc \in {"journal", "jwrite"} \cup Window /\ UNCHANGED <<plan, cur>> /\ cur \in Txn
      BY <1>2, <2>2 DEF CreateJournal, WriteJournal, SyncJournalFile, SyncJournalDir, vars, TypeOK,
         ProcessType
    <3>2. Sparing(cur)
      BY <2>2, <3>1, Spares DEF CreateJournal, WriteJournal, SyncJournalFile, SyncJournalDir, vars,
         Unlink, Retire, PlaceFile, RemoveFile, MakeParent, Prune, PowerLoss, Exit
    <3>3. ASSUME NEW u \in Txn, u = cur PROVE Stocked(u)'
      BY <3>1, <3>2, <3>3, SparingStocked DEF Stocks
    <3> QED BY <3>1, <3>3 DEF Stocked, Stores, Histories, Writes, Delta, Post
  <2>3. ~Recovery /\ ~Plan /\ ~Close /\ ~Kill /\ ~PowerLoss
    BY <1>2 DEF Recovery, Open, RecoverCommitted, RecoverDiscard, RecoverEnd, Plan, Close, Kill,
       PowerLoss, Exit
  <2>4. ~PreflightRefuses /\ ~Stage /\ ~SyncJournalAbove /\ ~Retract /\ ~SyncRetraction
    BY <1>2 DEF PreflightRefuses, Stage, SyncJournalAbove, Retract, SyncRetraction, Report, Exit
  <2>5. ~Apply
    BY <1>2 DEF Apply, SyncAncestors, SyncPlaced, SyncPublished, SyncTouched, Look, LookAt,
       Rewrite, Placed, RewriteFails, MakeParent, SyncParent, SyncFails, PlaceFile, RemoveFile, Prune,
       Publish, Retire, RetireDone, Mark, Suspend, Report, Exit
  <2>6. ~Finish /\ ~Lost /\ ~Refused
    BY <1>2 DEF Finish, RemoveJournal, Unlink, RemoveTxnDir, SyncRemoval, Settle, Lost, RewriteLost,
       PlaceLost, PublishLost, Refused, PlaceBlocked, FinishBlocked, DiscardBlocked, Suspend, Halt,
       Report, Exit
  <2> QED BY <2>1, <2>2, <2>3, <2>4, <2>5, <2>6, NoEdit DEF Next, Step, Commit
<1>3. ASSUME pc' = "staged"
      PROVE  /\ \A p \in Writes(cur)' : cur' \in row'[p].now.staged
             /\ cur' \in hist'.now.staged
  <2>1. CASE Stage
    <3>1. /\ UNCHANGED <<plan, cur>> /\ cur \in Txn /\ Writes(cur) \subseteq Target
          /\ StageRows(cur, Writes(cur), TRUE) /\ StageHead(cur, TRUE)
      BY <2>1, WritesTyped DEF Stage, TypeOK, ProcessType
    <3> DEFINE New(m) == [m EXCEPT !.staged = IF TRUE THEN @ \cup {cur} ELSE @ \ {cur}]
    <3>2. (\A m \in Row : cur \in New(m).staged) /\ (\A m \in Hist : cur \in New(m).staged)
      BY DEF Row, Hist
    <3>3. \A p \in Writes(cur) : row'[p].now = New(row[p].now) /\ row[p].now \in Row
      BY <3>1 DEF StageRows, Issue, TypeOK, FolderType, Cells
    <3>4. hist'.now = New(hist.now) /\ hist.now \in Hist
      BY <3>1 DEF StageHead, Issue, TypeOK, FolderType, Cells
    <3> HIDE DEF New
    <3>5. Writes(cur)' = Writes(cur)
      BY <3>1 DEF Writes, Delta, Post
    <3> QED BY <3>1, <3>2, <3>3, <3>4, <3>5
  <2>2. CASE UNCHANGED vars
    BY <1>3, <2>2 DEF vars, Stocks, Writes, Delta, Post
  <2>3. ~Recovery /\ ~Plan /\ ~Close /\ ~Kill /\ ~PowerLoss
    BY <1>3 DEF Recovery, Open, RecoverCommitted, RecoverDiscard, RecoverEnd, Plan, Close, Kill,
       PowerLoss, Exit
  <2>4. Commit => Stage
    BY <1>3 DEF Commit, PreflightRefuses, SyncStaged, CreateJournal, WriteJournal, SyncJournalFile,
       SyncJournalDir, SyncJournalAbove, Retract, SyncRetraction, Report, Exit
  <2>5. ~Apply
    BY <1>3 DEF Apply, SyncAncestors, SyncPlaced, SyncPublished, SyncTouched, Look, LookAt,
       Rewrite, Placed, RewriteFails, MakeParent, SyncParent, SyncFails, PlaceFile, RemoveFile, Prune,
       Publish, Retire, RetireDone, Mark, Suspend, Report, Exit
  <2>6. ~Finish /\ ~Lost /\ ~Refused
    BY <1>3 DEF Finish, RemoveJournal, Unlink, RemoveTxnDir, SyncRemoval, Settle, Lost, RewriteLost,
       PlaceLost, PublishLost, Refused, PlaceBlocked, FinishBlocked, DiscardBlocked, Suspend, Halt,
       Report, Exit
  <2> QED BY <2>1, <2>2, <2>3, <2>4, <2>5, <2>6, NoEdit DEF Next, Step
<1>4. ASSUME pc' = "rewrite"
      PROVE  at' \in Writes(cur)' /\ row'[at'].now.file = Post(cur, at)'
  <2>1. CASE Look
    <3>1. PICK p \in todo : Again(p) /\ at' = p
      BY <1>4, <2>1 DEF Look, LookAt
    <3> QED BY <2>1, <3>1 DEF Look, LookAt, Again, Writes, Delta, Post
  <2>2. CASE UNCHANGED vars
    BY <1>4, <2>2 DEF vars, Stocks, Writes, Delta, Post
  <2>3. ~Recovery /\ ~Plan /\ ~Close /\ ~Kill /\ ~PowerLoss
    BY <1>4 DEF Recovery, Open, RecoverCommitted, RecoverDiscard, RecoverEnd, Plan, Close, Kill,
       PowerLoss, Exit
  <2>4. ~Commit
    BY <1>4 DEF Commit, PreflightRefuses, Stage, SyncStaged, CreateJournal, WriteJournal,
       SyncJournalFile, SyncJournalDir, SyncJournalAbove, Retract, SyncRetraction, Report, Exit
  <2>5. Apply => Look
    BY <1>4 DEF Apply, SyncAncestors, SyncPlaced, SyncPublished, SyncTouched,
       Rewrite, Placed, RewriteFails, MakeParent, SyncParent, SyncFails, PlaceFile, RemoveFile, Prune,
       Publish, Retire, RetireDone, Mark, Suspend, Report, Exit
  <2>6. ~Finish /\ ~Lost /\ ~Refused
    BY <1>4 DEF Finish, RemoveJournal, Unlink, RemoveTxnDir, SyncRemoval, Settle, Lost, RewriteLost,
       PlaceLost, PublishLost, Refused, PlaceBlocked, FinishBlocked, DiscardBlocked, Suspend, Halt,
       Report, Exit
  <2> QED BY <2>1, <2>2, <2>3, <2>4, <2>5, <2>6, NoEdit DEF Next, Step
<1> QED BY <1>1, <1>2, <1>3, <1>4 DEF Stocks

LEMMA StocksInit == Init => Stocks
<1> SUFFICES ASSUME Init PROVE Stocks
  OBVIOUS
<1>1. pc = "idle" /\ \A t \in Txn : fate[t] = "new"
  BY DEF Init
<1>2. \A t \in Txn : ~Newest(t) /\ ~Loose(t)
  BY <1>1, NAssumption DEF Newest, Loose, Txn, Base
<1> QED BY <1>1, <1>2 DEF Stocks, Window

\* So recovery has what it needs.
LEMMA SaysNeverLost ==
  ASSUME TypeOK, Ledger, FilesTell, Stocks
  PROVE  NeverLost
<1> USE DEF FilesTell
<1>1. ASSUME pc = "place", at \in Writes(cur) PROVE cur \in row[at].now.staged
  <2>1. /\ cur \in Txn /\ Newest(cur) /\ row[at].now.file = Pre(cur, at)
        /\ Pre(cur, at) # Post(cur, at) /\ Post(cur, at) \in {Absent, cur}
    BY <1>1, Unplaced
  <2>2. Stores(cur, at) /\ Post(cur, at) = cur
    BY <1>1, <2>1 DEF Stocks, Stocked, Writes
  <2> QED BY <2>1, <2>2 DEF Stores
<1>2. ASSUME pc = "rewrite" PROVE row[at].now.file = cur
  <2>1. at \in Writes(cur) /\ row[at].now.file = Post(cur, at)
    BY <1>2 DEF Stocks
  <2>2. cur \in Txn /\ fate[cur] # "new"
    BY <1>2 DEF TypeOK, ProcessType, Ledger, Stages, Applying
  <2> QED BY <2>1, <2>2 DEF Planned, Writes
<1>3. ASSUME pc = "publish" PROVE cur \in hist.now.heads \/ cur \in hist.now.staged
  <2>1. cur \in Txn /\ Newest(cur)
    BY <1>3 DEF TypeOK, ProcessType, Handled, Applying
  <2> QED BY <2>1 DEF Stocks, Stocked, Histories
<1> QED BY <1>1, <1>2, <1>3 DEF NeverLost

LEMMA StocksAlways ==
  ASSUME JournalSpared, RemovalSpared, Undropped, Unedited
  PROVE  Spec => [](TypeOK /\ Ledger /\ HeadsKept /\ FilesTell /\ Stocks)
<1>1. /\ TypeOK /\ Ledger /\ Ahead /\ HeadsKept /\ FilesTell /\ Stocks /\ [Next]_vars
      => Stocks'
  BY StocksStep
<1> QED BY <1>1, StocksInit, TellsAlways, AheadAlways, PTL DEF Spec

\* Recovery has what it needs: whatever fails but the syncing of a journal, or what
\* comes between a transaction's removal and its sync, and while nobody else writes
\* the files and no failed sync drops them, what is to be placed is staged, what is
\* to be written afresh is there, and the head to be published is staged or there.
THEOREM RecoveryHasAll ==
  ASSUME JournalSpared, RemovalSpared, Undropped, Unedited
  PROVE  Spec => []NeverLost
<1>1. TypeOK /\ Ledger /\ HeadsKept /\ FilesTell /\ Stocks => NeverLost
  BY SaysNeverLost
<1> QED BY <1>1, StocksAlways, PTL


-----------------------------------------------------------------------------
(* What a reader sees of the changes: the abstract store.  A reader sees    *)
(* the change that waits, where there is one, and otherwise the last made,  *)
(* over files that no other step changes.                                   *)

\* What p holds once t is in place.
Made(t, p) == IF p \in Changed(t) THEN Post(t, p) ELSE row[p].now.file

\* What waits, or else the last change made, is what a reader sees.
Shows ==
  \A n \in Revision : Newest(n) =>
    /\ (\A u \in Txn : ~Loose(u)) => \A p \in Target : View[p] = Made(n, p)
    /\ \A u \in Txn : Loose(u) =>
         InPlace(n) /\ Found(u) /\ \A p \in Target : View[p] = Made(u, p)

\* What waits is visible.
Visible == \A u \in Txn : Visibility[u] = IF Loose(u) THEN "visible" ELSE fate[u]

\* What is to be finished is what waits, or the last change made.
LEMMA LiveOnes ==
  ASSUME TypeOK, Ledger, HeadsKept, FilesTell, NEW u \in Txn
  PROVE  /\ Loose(u) <=> fate[u] = "planned" /\ Live(u)
         /\ Live(u) => Loose(u) \/ (fate[u] = "committed" /\ Newest(u))
<1>1. PICK n \in Revision : Headed(n)
  BY DEF HeadsKept
<1>2. Live(u) => ~Unwritten(u)
  BY DEF Live, Committing, Unwritten, Journals
<1>3. Loose(u) => fate[u] = "planned" /\ Live(u)
  <2>1. ASSUME cur = u, pc \in Window PROVE Live(u)
    BY <2>1 DEF Ledger, Progress, Early, Window, Live, Committing
  <2> QED BY <1>1, <2>1 DEF Headed, Waiting, Lives, Live
<1>4. Live(u) /\ fate[u] = "committed" => Newest(u)
  BY DEF FilesTell, Cached, Sole, MayBeLive, Live
<1>5. fate[u] \in {"new", "planned", "refused", "committed"} /\ (fate[u] = "new" => Unwritten(u))
  BY DEF TypeOK, BookType, Ledger, InTurn
<1> QED BY <1>2, <1>3, <1>4, <1>5 DEF Loose

LEMMA LiveOne ==
  ASSUME TypeOK, Ledger, HeadsKept, FilesTell, NEW t \in Txn, NEW u \in Txn, Live(t), Live(u)
  PROVE  t = u
<1>1. PICK n \in Revision : Headed(n)
  BY DEF HeadsKept
<1>2. t \in Revision /\ u \in Revision
  BY DEF Revision
<1>3. \A s \in Txn : Live(s) /\ fate[s] = "committed" => \A v \in Txn : ~Loose(v)
  BY DEF FilesTell, Cached, Sole, MayBeLive, Live
<1> QED BY <1>1, <1>2, <1>3, LiveOnes, NewestOne DEF Headed, Waiting

LEMMA LiveView ==
  ASSUME TypeOK, Ledger, HeadsKept, FilesTell, NEW p \in Target
  PROVE  /\ \A t \in Txn : Live(t) =>
              View[p] = IF p \in DOMAIN Delta(t) /\ row[p].now.file = Pre(t, p)
                        THEN Post(t, p) ELSE row[p].now.file
         /\ (\A t \in Txn : ~Live(t)) => View[p] = row[p].now.file
<1>1. View[p] = IF \E t \in Txn : Finishes(t, p)
                THEN Post(CHOOSE t \in Txn : Finishes(t, p), p)
                ELSE row[p].now.file
  BY DEF View
<1>2. ASSUME NEW t \in Txn, Live(t)
      PROVE  View[p] = IF p \in DOMAIN Delta(t) /\ row[p].now.file = Pre(t, p)
                       THEN Post(t, p) ELSE row[p].now.file
  <2>1. \A u \in Txn : Finishes(u, p) => u = t
    BY <1>2, LiveOne DEF Finishes
  <2>2. Finishes(t, p) <=> p \in DOMAIN Delta(t) /\ row[p].now.file = Pre(t, p)
    BY <1>2 DEF Finishes
  <2>3. Finishes(t, p) => (CHOOSE u \in Txn : Finishes(u, p)) = t
    BY <2>1
  <2> QED BY <1>1, <2>1, <2>2, <2>3
<1>3. (\A t \in Txn : ~Live(t)) => View[p] = row[p].now.file
  BY <1>1 DEF Finishes
<1> QED BY <1>2, <1>3

LEMMA ViewShows == TypeOK /\ Ledger /\ HeadsKept /\ FilesTell => Shows
<1> SUFFICES ASSUME TypeOK, Ledger, HeadsKept, FilesTell, NEW n \in Revision, Newest(n)
             PROVE  /\ (\A u \in Txn : ~Loose(u)) => \A p \in Target : View[p] = Made(n, p)
                    /\ \A u \in Txn : Loose(u) =>
                         InPlace(n) /\ Found(u) /\ \A p \in Target : View[p] = Made(u, p)
  BY DEF Shows
<1>1. Tells(n) /\ (n # Base => n \in Txn)
  BY DEF FilesTell, Told, Revision
<1>2. ASSUME \A u \in Txn : ~Loose(u), NEW p \in Target PROVE View[p] = Made(n, p)
  <2>1. CASE n \in Txn /\ Live(n)
    <3>1. Changed(n) = DOMAIN Delta(n)
      BY <2>1, NAssumption DEF Changed, Txn, Base
    <3>2. p \in Changed(n) => row[p].now.file \in {Pre(n, p), Post(n, p)}
      BY <1>1 DEF Tells, Spread
    <3> QED BY <2>1, <3>1, <3>2, LiveView DEF Made
  <2>2. CASE ~(n \in Txn /\ Live(n))
    <3>1. \A u \in Txn : ~Live(u)
      <4> SUFFICES ASSUME NEW u \in Txn, Live(u) PROVE FALSE
        OBVIOUS
      <4>1. Newest(u) /\ u \in Revision
        BY <1>2, LiveOnes DEF Revision
      <4> QED BY <2>2, <4>1, NewestOne
    <3>2. InPlace(n)
      BY <1>1, <2>2 DEF Tells, Lives, Live
    <3> QED BY <3>1, <3>2, LiveView DEF InPlace, Made
  <2> QED BY <2>1, <2>2
<1>3. ASSUME NEW u \in Txn, Loose(u), NEW p \in Target
      PROVE  InPlace(n) /\ Found(u) /\ View[p] = Made(u, p)
  <2>1. PICK m \in Revision : Headed(m)
    BY DEF HeadsKept
  <2>2. u > n /\ fate[u] # "new"
    <3>1. m = n
      BY <2>1, NewestOne DEF Headed
    <3> QED BY <1>3, <2>1, <3>1 DEF Headed, Waiting, Awaits
  <2>3. InPlace(n) /\ Found(u)
    BY <1>1, <2>2 DEF Tells
  <2>4. Changed(u) = DOMAIN Delta(u) /\ Live(u)
    BY <1>3, LiveOnes, NAssumption DEF Changed, Txn, Base
  <2> QED BY <2>3, <2>4, LiveView DEF Found, Made
<1>4. ASSUME NEW u \in Txn, Loose(u) PROVE InPlace(n) /\ Found(u)
  <2>1. PICK m \in Revision : Headed(m)
    BY DEF HeadsKept
  <2>2. m = n
    BY <2>1, NewestOne DEF Headed
  <2> QED BY <1>1, <1>4, <2>1, <2>2 DEF Headed, Waiting, Awaits, Tells
<1> QED BY <1>2, <1>3, <1>4

LEMMA LooseVisible == TypeOK /\ Ledger /\ HeadsKept /\ FilesTell => Visible
BY LiveOnes DEF Visible, Visibility

\* A reader's files change only where the last change made has them in hand.
LEMMA FilesStay ==
  ASSUME Unedited, TypeOK, TypeOK', Ledger, FilesTell, [Next]_vars, NEW n \in Revision, Newest(n)
  PROVE  \A p \in Target : p \notin Changed(n) \/ InPlace(n) => row'[p].now.file = row[p].now.file
<1> USE DEF FilesTell
<1> SUFFICES ASSUME NEW p \in Target, p \notin Changed(n) \/ InPlace(n)
             PROVE  row'[p].now.file = row[p].now.file
  OBVIOUS
<1>1. CASE PlaceFile \/ RemoveFile
  <2>1. /\ cur \in Txn /\ Newest(cur) /\ at \in DOMAIN Delta(cur)
        /\ row[at].now.file = Pre(cur, at) /\ Pre(cur, at) # Post(cur, at)
    BY <1>1, Unplaced DEF PlaceFile, RemoveFile
  <2>2. n = cur /\ Changed(cur) = DOMAIN Delta(cur)
    BY <2>1, NewestOne, NAssumption DEF Revision, Changed, Txn, Base
  <2>3. p # at
    BY <2>1, <2>2 DEF InPlace
  <2> QED BY <1>1, <2>3, PutInPlace
<1>2. CASE PowerLoss
  <2>1. p \notin Changed(n) => row'[p].now.file = row[p].now.file
    <3>1. row'[p].now.file \in Spread(p)
      BY <1>2, LossFiles DEF Spread
    <3> QED BY <3>1 DEF Told, Tells, Intact
  <2>2. InPlace(n) => row'[p].now.file = row[p].now.file
    BY <1>2, LossStill DEF InPlace, Still
  <2> QED BY <2>1, <2>2
<1>3. CASE MakeParent \/ Prune
  BY <1>3, ParentMade, PruneDirs
<1>4. CASE ~PlaceFile /\ ~RemoveFile /\ ~MakeParent /\ ~Prune /\ ~PowerLoss
  BY <1>4, StepsStill DEF Still
<1> QED BY <1>1, <1>2, <1>3, <1>4


\* What a reader sees stays while the same change waits and the same is the last made.
LEMMA ViewStays ==
  ASSUME Unedited, TypeOK, TypeOK', Ledger, HeadsKept, FilesTell, Shows, Shows', [Next]_vars,
         \A u \in Txn : Loose(u)' <=> Loose(u),
         \A u \in Txn : fate'[u] = "committed" <=> fate[u] = "committed"
  PROVE  View' = View
<1>1. PICK n \in Revision : Newest(n)
  BY DEF HeadsKept, Headed
<1>2. Newest(n)' /\ (n # Base => n \in Txn /\ fate[n] # "new")
  BY <1>1 DEF Newest, Revision
<1>3. ASSUME NEW t \in Revision, t # Base => fate[t] # "new", NEW p \in Target,
             p \notin Changed(t) => row'[p].now.file = row[p].now.file
      PROVE  Made(t, p)' = Made(t, p)
  <2>1. t # Base => Delta(t)' = Delta(t)
    BY <1>3, PlansStay DEF Revision, Delta
  <2> QED BY <1>3, <2>1 DEF Made, Changed, Post
<1>4. CASE \A u \in Txn : ~Loose(u)
  <2>1. ASSUME NEW p \in Target PROVE View'[p] = View[p]
    <3>1. Made(n, p)' = Made(n, p)
      BY <1>1, <1>2, <1>3, FilesStay
    <3>2. \A u \in Txn : ~Loose(u)'
      BY <1>4
    <3>3. View'[p] = Made(n, p)'
      BY <1>2, <3>2 DEF Shows
    <3> QED BY <1>1, <1>4, <3>1, <3>3 DEF Shows
  <2> QED BY <2>1 DEF View
<1>5. ASSUME NEW u \in Txn, Loose(u) PROVE View' = View
  <2>1. InPlace(n) /\ u \in Revision /\ fate[u] # "new"
    BY <1>1, <1>5 DEF Shows, Revision, Loose
  <2>2. ASSUME NEW p \in Target PROVE View'[p] = View[p]
    <3>1. Made(u, p)' = Made(u, p)
      BY <1>1, <1>3, <2>1, FilesStay
    <3>2. Loose(u)'
      BY <1>5
    <3>3. View'[p] = Made(u, p)'
      BY <1>2, <3>2 DEF Shows
    <3> QED BY <1>1, <1>5, <3>1, <3>3 DEF Shows
  <2> QED BY <2>2 DEF View
<1> QED BY <1>4, <1>5

\* While a journal is written nothing is taken from it.
LEMMA WindowNext ==
  ASSUME JournalSpared, Unedited, [Next]_vars, pc \in Window, ~SyncJournalAbove, ~PowerLoss
  PROVE  pc' \in Window /\ cur' = cur
<1> USE DEF Goto, Window, work
<1>1. CASE SyncJournalFile \/ SyncJournalDir
  BY <1>1 DEF SyncJournalFile, SyncJournalDir, JournalSpared, Strikes
<1>2. CASE UNCHANGED vars
  BY <1>2 DEF vars
<1>3. ~Kill
  BY DEF Kill, KindOfKill, JournalWindow, JournalSpared, Strikes
<1>4. ~Recovery /\ ~Plan /\ ~Close
  BY DEF Recovery, Open, RecoverCommitted, RecoverDiscard, RecoverEnd, Plan, Close
<1>5. Commit => SyncJournalFile \/ SyncJournalDir
  BY DEF Commit, PreflightRefuses, Stage, SyncStaged, CreateJournal, WriteJournal, Retract,
     SyncRetraction
<1>6. ~Apply /\ ~Lost /\ ~Refused /\ ~Finish
  BY DEF Apply, SyncAncestors, SyncPlaced, SyncPublished, SyncTouched, SyncParent, Look, Rewrite,
     RewriteFails, MakeParent, PlaceFile, RemoveFile, Prune, Publish, Retire, RetireDone, Mark, Lost,
     RewriteLost, PlaceLost, PublishLost, Refused, PlaceBlocked, FinishBlocked, DiscardBlocked,
     Finish, RemoveJournal, Unlink, RemoveTxnDir, SyncRemoval
<1> QED BY <1>1, <1>2, <1>3, <1>4, <1>5, <1>6, NoEdit DEF Next, Step

\* What waits begins to wait when its journal is whole, and waits until it is decided,
\* unless the power takes the journal.
LEMMA LooseStays ==
  ASSUME JournalSpared, Unedited, TypeOK, Ledger, Ledger', Ahead, HeadsKept, [Next]_vars,
         ~Plan, ~WriteJournal, ~SyncJournalAbove, ~RecoverCommitted, NEW u \in Txn
  PROVE  /\ Loose(u)' => Loose(u)
         /\ ~PowerLoss => (Loose(u)' <=> Loose(u))
<1>1. \/ fate'[u] = fate[u]
      \/ fate[u] \in {"planned", "refused"} /\ fate'[u] = "refused"
  BY FatesStay
<1>2. Fades(txn[u], txn'[u]) /\ (Takes(u) \/ Lasts(txn[u], txn'[u]))
  BY TxnsStay
<1>3. Loose(u)' => Loose(u)
  BY <1>1, <1>2 DEF Loose, Unwritten, Fades
<1>4. ASSUME Loose(u), ~PowerLoss PROVE Loose(u)'
  <2>1. PICK n \in Revision : Headed(n)
    BY DEF HeadsKept
  <2>2. Lives(txn[u]) \/ (cur = u /\ pc \in Window)
    BY <1>4, <2>1 DEF Headed, Waiting
  <2>3. CASE Lives(txn[u])
    <3>1. ~Takes(u)
      BY <1>4, <2>1 DEF Takes, Headed, Waiting, Removing, Spent, Ledger, Stages, Applying, Loose
    <3>2. Lives(txn'[u])
      BY <1>2, <2>3, <3>1 DEF Lasts
    <3> QED BY <1>1, <1>4, <3>2 DEF Loose, Unwritten, Journals, Lives, Committing
  <2>4. CASE cur = u /\ pc \in Window
    <3>1. pc' \in Window /\ cur' = u
      BY <1>4, <2>4, WindowNext
    <3>2. txn'[u].now.journal = "whole"
      BY <3>1 DEF Ledger, Progress
    <3> QED BY <1>1, <1>4, <3>2 DEF Loose, Unwritten, Journals
  <2> QED BY <2>2, <2>3, <2>4
<1> QED BY <1>3, <1>4

\* A step that refuses a change refuses the one in hand.
LEMMA OneRefused ==
  ASSUME TypeOK, Ledger, [Next]_vars, ~Plan, ~SyncJournalAbove, ~RecoverCommitted
  PROVE  \/ UNCHANGED fate
         \/ cur \in Txn /\ fate[cur] = "planned" /\ fate' = [fate EXCEPT ![cur] = "refused"]
<1> USE DEF Goto, folder, book, sweep, work, budget
<1>0. /\ pc \in Making \cup Removing => cur \in Txn
      /\ pc \in Making => fate[cur] = "planned"
      /\ pc \in Removing => fate[cur] # "new"
      /\ fate \in [Txn -> {"new", "planned", "committed", "refused"}]
  BY DEF TypeOK, ProcessType, BookType, Ledger, Stages, Making, Removing, Early, Window
<1>1. CASE PreflightRefuses
  BY <1>0, <1>1 DEF PreflightRefuses, Making, Early
<1>2. CASE pc \in Removing /\ Settle
  <2>1. cur \in Txn /\ fate[cur] \in {"planned", "committed", "refused"}
    BY <1>0, <1>2
  <2>2. fate[cur] \in {"committed", "refused"} => fate' = fate
    BY <1>0, <1>2, <2>1 DEF Settle
  <2>3. fate[cur] = "planned" => fate' = [fate EXCEPT ![cur] = "refused"]
    BY <1>2 DEF Settle
  <2> QED BY <2>1, <2>2, <2>3
<1>3. CASE SyncRemoval \/ DiscardBlocked
  BY <1>2, <1>3 DEF SyncRemoval, DiscardBlocked, Removing
<1>4. CASE Commit
  BY <1>1, <1>4 DEF Commit, Stage, SyncStaged, CreateJournal, WriteJournal, SyncJournalFile,
     SyncJournalDir, Retract, SyncRetraction
<1>5. CASE Apply
  BY <1>5 DEF Apply, SyncAncestors, SyncPlaced, SyncPublished, SyncTouched, Look, LookAt,
     Rewrite, Placed, RewriteFails, MakeParent, SyncParent, PlaceFile, RemoveFile, Prune,
     Publish, Retire, RetireDone, Mark
<1>6. CASE Finish \/ Lost
  BY <1>3, <1>6 DEF Finish, RemoveJournal, Unlink, RemoveTxnDir, Lost, RewriteLost,
     PlaceLost, PublishLost
<1>7. CASE \/ Recovery \/ Close \/ PlaceBlocked \/ FinishBlocked \/ Kill \/ PowerLoss
           \/ UNCHANGED vars \/ \E p \in Target : Edit(p)
  BY <1>7 DEF Recovery, Open, RecoverDiscard, RecoverEnd, Close, PlaceBlocked,
     FinishBlocked, Kill, PowerLoss, Edit, vars
<1> QED BY <1>3, <1>4, <1>5, <1>6, <1>7 DEF Next, Step, Refused


\* The store's step that a step maps to.
StoreStep == Store!Next \/ UNCHANGED <<View, Visibility, [t \in Txn |-> Delta(t)]>>

LEMMA StoreProposes ==
  ASSUME Unedited, TypeOK, TypeOK', Ledger, HeadsKept, Ledger', HeadsKept', FilesTell, FilesTell',
         Visible, Visible', [Next]_vars, Plan
  PROVE  StoreStep
<1>1. PICK t \in Txn :
        /\ fate[t] = "new" /\ fate' = [fate EXCEPT ![t] = "planned"]
        /\ \E d \in {e \in Deltas(t) : Sound(e)} :
           \E gone \in {{}} \cup {{e} : e \in Droppable(d)} :
             plan' = [plan EXCEPT ![t] =
                        [change |-> d, retire |-> hist.now.heads, prune |-> gone]]
  BY DEF Plan
<1>2. PICK d \in Deltas(t) :
        \E gone : plan' = [plan EXCEPT ![t] =
                     [change |-> d, retire |-> hist.now.heads, prune |-> gone]]
  BY <1>1
<1>3. \A u \in Txn : Delta(u)' = IF u = t THEN d ELSE Delta(u)
  BY <1>2 DEF Delta, TypeOK, BookType
<1>4. UNCHANGED <<row, txn>> /\ pc = "ready"
  BY DEF Plan, folder
<1>5. \A u \in Txn : ~Live(u) /\ ~Live(u)'
  <2>1. \A u \in Txn : Settled(u)
    BY <1>4, NAssumption DEF Ledger, Stages, Cleared, Txn
  <2> QED BY <1>4, <2>1 DEF Settled, Unwritten, Journals, Live, Committing
<1>6. View' = View
  BY <1>4, <1>5 DEF View, Finishes
<1>7. Visibility[t] = "new" /\ Visibility' = [Visibility EXCEPT ![t] = "planned"]
  <2>1. \A u \in Txn : fate'[u] = IF u = t THEN "planned" ELSE fate[u]
    BY <1>1 DEF TypeOK, BookType
  <2> QED BY <1>1, <1>5, <2>1 DEF Visibility
<1>8. PICK S \in (SUBSET Target) \ {{}} : d \in [S -> Store!Change]
  <2>1. \A p \in Target : row[p].now.file \in Content
    BY DEF TypeOK, FolderType, Cells, Row
  <2>2. t \in Content /\ Absent \in Content
    BY DEF Content
  <2> QED BY <2>1, <2>2 DEF Deltas, Store!Change
<1>9. [u \in Txn |-> Delta(u)]' = [[u \in Txn |-> Delta(u)] EXCEPT ![t] = d]
  BY <1>3
<1>10. Store!Propose(t)
  BY <1>6, <1>7, <1>8, <1>9 DEF Store!Propose
<1> QED BY <1>10 DEF StoreStep, Store!Next

\* The changes a step does not plan are as they were.
LEMMA DeltasStay ==
  ASSUME TypeOK, Ledger, [Next]_vars, ~Plan
  PROVE  UNCHANGED plan
<1>1. CASE SyncJournalAbove \/ RecoverCommitted
  BY <1>1 DEF SyncJournalAbove, RecoverCommitted, TakeUp
<1>2. CASE ~SyncJournalAbove /\ ~RecoverCommitted
  BY <1>2, FatesStay
<1> QED BY <1>1, <1>2

LEMMA StoreShows ==
  ASSUME TypeOK, TypeOK', Ledger, HeadsKept, FilesTell, Ledger', HeadsKept', FilesTell',
         Shows', [Next]_vars, WriteJournal
  PROVE  StoreStep
<1> USE DEF Goto, book, work
<1>1. /\ pc = "jwrite" /\ pc' = "jsync" /\ cur \in Txn /\ UNCHANGED <<row, plan, fate, cur>>
      /\ SetJournal(cur, "whole") /\ fate[cur] = "planned"
  BY DEF WriteJournal, TypeOK, ProcessType, Ledger, Stages, Making, Early
<1>2. \A u \in Txn : ~Live(u)
  <2>1. \A u \in Txn : u # cur => Settled(u)
    BY <1>1 DEF Ledger, Stages, Cleared, Making, Early
  <2>2. Unwritten(cur)
    BY <1>1 DEF Ledger, Progress, Early
  <2> QED BY <2>1, <2>2 DEF Settled, Unwritten, Journals, Live, Committing
<1>3. \A u \in Txn : Live(u)' <=> u = cur
  <2>1. \A u \in Txn : u # cur => txn'[u] = txn[u]
    BY <1>1 DEF SetJournal, TypeOK, FolderType
  <2>2. Committing(txn'[cur].now)
    BY <1>1 DEF Ledger, Progress, Early, Window, Committing
  <2> QED BY <1>1, <1>2, <2>1, <2>2 DEF Live
<1>4. Visibility[cur] = "planned" /\ Visibility' = [Visibility EXCEPT ![cur] = "visible"]
  BY <1>1, <1>2, <1>3 DEF Visibility
<1>5. \A p \in Target : View[p] = row[p].now.file
  BY <1>2 DEF View, Finishes
<1>6. ASSUME NEW u \in Txn, u = cur, NEW p \in Target
      PROVE  View'[p] = IF p \in DOMAIN Delta(u) /\ View[p] = Delta(u)[p].pre
                        THEN Delta(u)[p].post ELSE View[p]
  <2>1. PICK n \in Revision : Newest(n)'
    BY DEF HeadsKept, Headed
  <2>2. Loose(u)'
    BY <1>1, <1>3, <1>6 DEF Loose, Live, Committing, Unwritten, Journals
  <2>3. Found(u)' /\ View'[p] = Made(u, p)'
    BY <2>1, <2>2 DEF Shows
  <2> QED BY <1>1, <1>5, <2>3, NAssumption DEF Found, Made, Changed, Delta, Pre, Post, Txn, Base
<1>7. View' = Store!Applied(View, Delta(cur))
  BY <1>1, <1>6 DEF Store!Applied, View
<1>8. [t \in Txn |-> Delta(t)]' = [t \in Txn |-> Delta(t)] /\ [t \in Txn |-> Delta(t)][cur] = Delta(cur)
  BY <1>1 DEF Delta
<1>9. Store!Show(cur)
  BY <1>1, <1>4, <1>7, <1>8 DEF Store!Show
<1> QED BY <1>1, <1>9 DEF StoreStep, Store!Next

\* What the power takes of a change that waits, it takes whole.
LEMMA StoreWithdraws ==
  ASSUME JournalSpared, Unedited, TypeOK, TypeOK', Ledger, Ledger', Ahead, HeadsKept, HeadsKept', FilesTell, FilesTell',
         Shows, Shows', Visible, Visible', [Next]_vars, PowerLoss
  PROVE  StoreStep
<1>1. UNCHANGED <<plan, fate>> /\ ~Plan /\ ~WriteJournal /\ ~SyncJournalAbove /\ ~RecoverCommitted
  <2>1. /\ faults > 0 /\ faults' = faults - 1 /\ pc' = "idle" /\ UNCHANGED <<plan, fate>>
    BY DEF PowerLoss, Strikes, Exit, Goto, book
  <2> QED BY <2>1 DEF Plan, WriteJournal, SyncJournalAbove, RecoverCommitted, Goto
<1>2. \A u \in Txn : Loose(u)' => Loose(u)
  BY <1>1, LooseStays
<1>3. [t \in Txn |-> Delta(t)]' = [t \in Txn |-> Delta(t)]
  BY <1>1 DEF Delta
<1>4. PICK n \in Revision : Headed(n)
  BY DEF HeadsKept
<1>5. Newest(n) /\ Newest(n)'
  BY <1>1, <1>4 DEF Headed, Newest
<1>6. CASE \A u \in Txn : Loose(u) => Loose(u)'
  <2>1. \A u \in Txn : Loose(u)' <=> Loose(u)
    BY <1>2, <1>6
  <2>2. View' = View
    BY <1>1, <2>1, ViewStays
  <2>3. \A u \in Txn : Visibility'[u] = Visibility[u]
    BY <1>1, <2>1 DEF Visible
  <2>4. Visibility' = Visibility
    BY <2>3 DEF Visibility
  <2> QED BY <1>3, <2>2, <2>4 DEF StoreStep
<1>7. ASSUME NEW u \in Txn, Loose(u), ~Loose(u)' PROVE StoreStep
  <2>1. fate[u] = "planned" /\ \A v \in Txn : Loose(v) => v = u
    BY <1>4, <1>7 DEF Headed, Waiting
  <2>2. \A v \in Txn : ~Loose(v)'
    BY <1>2, <1>7, <2>1
  <2>3. Visibility[u] = "visible" /\ Visibility' = [Visibility EXCEPT ![u] = "planned"]
    <3>1. \A v \in Txn : Visibility'[v] = IF v = u THEN "planned" ELSE Visibility[v]
      BY <1>1, <1>7, <2>1, <2>2 DEF Visible
    <3>2. Visibility[u] = "visible"
      BY <1>7 DEF Visible
    <3> QED BY <3>1, <3>2 DEF Visibility
  <2>4. InPlace(n) /\ Found(u) /\ \A p \in Target : View[p] = Made(u, p)
    BY <1>5, <1>7 DEF Shows
  <2>5. \A p \in Target : row'[p].now.file = row[p].now.file
    BY <1>5, <2>4, FilesStay
  <2>6. Changed(u) = DOMAIN Delta(u) /\ (n # Base => n \in Txn)
    BY NAssumption DEF Changed, Txn, Base, Revision
  <2>7. ASSUME NEW p \in Target
        PROVE  View'[p] = IF p \in DOMAIN Delta(u) /\ View[p] = Delta(u)[p].post
                          THEN Delta(u)[p].pre ELSE View[p]
    <3>1. View'[p] = Made(n, p)'
      BY <1>5, <2>2 DEF Shows
    <3>2. Made(n, p)' = row[p].now.file
      BY <1>1, <2>4, <2>5, <2>6 DEF Made, Changed, InPlace, Post, Delta
    <3> QED BY <2>4, <2>6, <3>1, <3>2 DEF Found, Made, Pre, Post
  <2>8. View' = Store!Undone(View, Delta(u))
    BY <2>7 DEF Store!Undone, View
  <2>9. [t \in Txn |-> Delta(t)][u] = Delta(u)
    OBVIOUS
  <2>10. Store!Withdraw(u)
    BY <1>3, <2>3, <2>8, <2>9 DEF Store!Withdraw
  <2> QED BY <2>10 DEF StoreStep, Store!Next
<1> QED BY <1>6, <1>7


\* A change that waits is decided, at the commit point or by recovery.
LEMMA StoreCommits ==
  ASSUME TypeOK, TypeOK', Ledger, HeadsKept, FilesTell, Shows, Shows', Visible, Visible',
         NEW u \in Txn, Loose(u), fate' = [fate EXCEPT ![u] = "committed"],
         UNCHANGED <<row, plan>>, Newest(u)', \A v \in Txn : ~Loose(v)'
  PROVE  StoreStep
<1>1. PICK n \in Revision : Headed(n)
  BY DEF HeadsKept
<1>2. \A v \in Txn : Loose(v) => v = u
  BY <1>1 DEF Headed, Waiting
<1>3. Visibility[u] = "visible" /\ Visibility' = [Visibility EXCEPT ![u] = "committed"]
  <2>1. \A v \in Txn : fate'[v] = IF v = u THEN "committed" ELSE fate[v]
    BY DEF TypeOK, BookType
  <2>2. \A v \in Txn : Visibility'[v] = IF v = u THEN "committed" ELSE Visibility[v]
    BY <1>2, <2>1 DEF Visible
  <2>3. Visibility[u] = "visible"
    BY DEF Visible
  <2> QED BY <2>2, <2>3 DEF Visibility
<1>4. u \in Revision
  BY DEF Revision
<1>5. ASSUME NEW p \in Target PROVE View'[p] = View[p]
  <2>1. View'[p] = Made(u, p)'
    BY <1>4 DEF Shows
  <2>2. View[p] = Made(u, p)
    BY <1>1 DEF Shows, Headed
  <2> QED BY <2>1, <2>2 DEF Made, Changed, Delta, Post
<1>6. View' = View
  BY <1>5 DEF View
<1>7. [t \in Txn |-> Delta(t)]' = [t \in Txn |-> Delta(t)]
  BY DEF Delta
<1>8. Store!Commit(u)
  BY <1>3, <1>6, <1>7 DEF Store!Commit
<1> QED BY <1>8 DEF StoreStep, Store!Next

LEMMA StoreDecides ==
  ASSUME JournalSpared, TypeOK, TypeOK', Ledger, Ledger', Ahead, Ahead', HeadsKept, HeadsKept', FilesTell, FilesTell',
         Shows, Shows', Visible, Visible', [Next]_vars, SyncJournalAbove
  PROVE  StoreStep
<1> USE DEF FilesTell
<1>1. /\ pc = "jtxns" /\ cur \in Txn /\ fate' = [fate EXCEPT ![cur] = "committed"]
      /\ UNCHANGED <<row, plan, cur>>
  BY DEF SyncJournalAbove, JournalSpared, Strikes, TypeOK, ProcessType
<1>2. ASSUME NEW u \in Txn, u = cur PROVE StoreStep
  <2>1. Newest(u)' /\ Lives(txn'[u])
    BY <1>2, DecidesTold DEF Begins
  <2>2. Loose(u)
    BY <1>1, <1>2 DEF Ledger, Stages, Progress, Making, Window, Loose, Unwritten, Journals
  <2>3. ASSUME NEW v \in Txn PROVE ~Loose(v)'
    <3>1. fate'[u] = "committed" /\ MayBeLive(u)'
      BY <1>1, <1>2, <2>1 DEF TypeOK, BookType, Cached, Lives, MayBeLive
    <3> QED BY <3>1 DEF Sole
  <2> QED BY <1>1, <1>2, <2>1, <2>2, <2>3, StoreCommits
<1> QED BY <1>1, <1>2

LEMMA StoreTakesUp ==
  ASSUME Unedited, TypeOK, TypeOK', Ledger, Ledger', Ahead, HeadsKept, HeadsKept', FilesTell, FilesTell',
         Shows, Shows', Visible, Visible', [Next]_vars, RecoverCommitted
  PROVE  StoreStep
<1> USE DEF FilesTell
<1>1. PICK s \in scan : /\ txn[s].now.journal = "whole"
                        /\ cur' = s /\ fate' = [fate EXCEPT ![s] = "committed"]
  BY FirstIn DEF RecoverCommitted, TakeUp, TypeOK, ProcessType
<1>2. /\ s \in Txn /\ fate[s] \in {"planned", "refused", "committed"}
      /\ UNCHANGED <<row, txn, plan>>
  BY <1>1 DEF RecoverCommitted, TakeUp, folder, TypeOK, ProcessType, BookType, Ledger, Stages
<1>3. Newest(s)' /\ Lives(txn'[s])
  BY <1>1, <1>2, TakesUpTold
<1>4. [t \in Txn |-> Delta(t)]' = [t \in Txn |-> Delta(t)]
  BY <1>2 DEF Delta
<1>5. CASE fate[s] = "committed"
  <2>1. fate' = fate
    BY <1>1, <1>2, <1>5 DEF TypeOK, BookType
  <2>2. \A u \in Txn : Loose(u)' <=> Loose(u)
    BY <1>2, <2>1 DEF Loose, Unwritten
  <2>3. View' = View
    BY <2>1, <2>2, ViewStays
  <2>4. \A u \in Txn : Visibility'[u] = Visibility[u]
    BY <2>1, <2>2 DEF Visible
  <2>5. Visibility' = Visibility
    BY <2>4 DEF Visibility
  <2> QED BY <1>4, <2>3, <2>5 DEF StoreStep
<1>6. CASE fate[s] # "committed"
  <2>1. Loose(s)
    BY <1>1, <1>2, <1>6 DEF Loose, Unwritten, Journals
  <2>2. ASSUME NEW v \in Txn PROVE ~Loose(v)'
    <3>1. fate'[s] = "committed" /\ MayBeLive(s)'
      BY <1>1, <1>2, <1>3 DEF TypeOK, BookType, Cached, Lives, MayBeLive
    <3> QED BY <1>2, <3>1 DEF Sole
  <2> QED BY <1>1, <1>2, <1>3, <2>1, <2>2, StoreCommits
<1> QED BY <1>5, <1>6

\* Any other step refuses the change in hand, of which a reader sees nothing, or is
\* not seen.
LEMMA StoreElse ==
  ASSUME JournalSpared, Unedited, TypeOK, TypeOK', Ledger, Ledger', Ahead, HeadsKept, HeadsKept', FilesTell,
         Shows, Shows', Visible, Visible', [Next]_vars,
         ~Plan, ~WriteJournal, ~SyncJournalAbove, ~RecoverCommitted, ~PowerLoss
  PROVE  StoreStep
<1>1. UNCHANGED plan /\ [t \in Txn |-> Delta(t)]' = [t \in Txn |-> Delta(t)]
  BY DeltasStay DEF Delta
<1>2. \A u \in Txn : Loose(u)' <=> Loose(u)
  BY LooseStays
<1>3. \A u \in Txn : fate'[u] = "committed" <=> fate[u] = "committed"
  BY FatesStay
<1>4. View' = View
  BY <1>2, <1>3, ViewStays
<1>5. CASE UNCHANGED fate
  <2>1. \A u \in Txn : Visibility'[u] = Visibility[u]
    BY <1>2, <1>5 DEF Visible
  <2>2. Visibility' = Visibility
    BY <2>1 DEF Visibility
  <2> QED BY <1>1, <1>4, <2>2 DEF StoreStep
<1>6. CASE cur \in Txn /\ fate[cur] = "planned" /\ fate' = [fate EXCEPT ![cur] = "refused"]
  <2>1. \A v \in Txn : fate'[v] = IF v = cur THEN "refused" ELSE fate[v]
    BY <1>6 DEF TypeOK, BookType
  <2>2. ~Loose(cur)
    <3>1. PICK n \in Revision : Headed(n)'
      BY DEF HeadsKept
    <3>2. \A u \in Txn : Loose(u)' => fate'[u] = "planned"
      BY <3>1 DEF Headed, Waiting
    <3> QED BY <1>2, <1>6, <2>1, <3>2
  <2>3. \A v \in Txn : Visibility'[v] = IF v = cur THEN "refused" ELSE Visibility[v]
    BY <1>2, <1>6, <2>1, <2>2 DEF Visible
  <2>4. Visibility[cur] = "planned"
    BY <1>6, <2>2 DEF Visible
  <2>5. Visibility' = [Visibility EXCEPT ![cur] = "refused"]
    BY <2>3 DEF Visibility
  <2>6. Store!Refuse(cur)
    BY <1>1, <1>4, <2>4, <2>5 DEF Store!Refuse
  <2> QED BY <1>6, <2>6 DEF StoreStep, Store!Next
<1> QED BY <1>5, <1>6, OneRefused

LEMMA StoreSteps ==
  ASSUME JournalSpared, Unedited, TypeOK, TypeOK', Ledger, Ledger', Ahead, Ahead', HeadsKept,
         HeadsKept', FilesTell, FilesTell', Shows, Shows', Visible, Visible', [Next]_vars
  PROVE  [Store!Next]_(Store!vars)
<1>1. StoreStep
  BY StoreProposes, StoreShows, StoreWithdraws, StoreDecides, StoreTakesUp, StoreElse
<1> QED BY <1>1 DEF StoreStep, Store!vars

LEMMA StoreInit == Init => Store!Init
<1> SUFFICES ASSUME Init PROVE Store!Init
  OBVIOUS
<1>1. /\ \A t \in Txn : ~Live(t) /\ fate[t] = "new" /\ Delta(t) = <<>>
      /\ \A p \in Target : row[p].now.file \in {Absent, Base}
  BY DEF Init, Durable, Gone, Live, Committing, Delta, NoPlan
<1>2. View \in [Target -> Content]
  BY <1>1 DEF View, Finishes, Content
<1>3. Visibility = [t \in Txn |-> "new"] /\ [t \in Txn |-> Delta(t)] = [t \in Txn |-> <<>>]
  BY <1>1 DEF Visibility
<1> QED BY <1>2, <1>3 DEF Store!Init

\* Every change is one change: for a reader of the files and journals it is made at
\* once or not at all, decided once and never undone, whatever fails but the syncing
\* of a journal, or what comes between a transaction's removal and its sync, and while
\* nobody else writes the files and no failed sync drops them.
THEOREM OneChange ==
  ASSUME JournalSpared, RemovalSpared, Undropped, Unedited
  PROVE  Spec => Atomic
<1>1. Spec => [](TypeOK /\ Ledger /\ HeadsKept /\ FilesTell /\ Shows /\ Visible)
  BY TellsAlways, ViewShows, LooseVisible, PTL
<1>2. /\ TypeOK /\ TypeOK' /\ Ledger /\ Ledger' /\ Ahead /\ Ahead' /\ HeadsKept /\ HeadsKept'
      /\ FilesTell /\ FilesTell' /\ Shows /\ Shows' /\ Visible /\ Visible' /\ [Next]_vars
      => [Store!Next]_(Store!vars)
  BY StoreSteps
<1> QED BY <1>1, <1>2, StoreInit, AheadAlways, PTL DEF Spec, Atomic, Store!Spec

=============================================================================
