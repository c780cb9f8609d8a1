---------------------------- MODULE JournalProof ----------------------------
(***************************************************************************)
(* Proofs about the commit protocol, for every number of changes, targets, *)
(* faults and edits: its types, its journal on the disk, what its callers  *)
(* are told -- a change that was refused stays unwritten, one that was     *)
(* acknowledged is not lost, and no disk brings an older change back after *)
(* it -- and, whatever fails but the syncing of a journal, that a process  *)
(* that is ready to plan finds the head of the last change made, and no    *)
(* other.                                                                  *)
(*                                                                         *)
(* One invariant, Ledger, carries all that callers are told.  It follows   *)
(* the process through a change, and keeps, of every other change, what    *)
(* its journal and history's heads may be on the disk.  Another,           *)
(* HeadsKept, names the last change made.  Until its own head is the only  *)
(* one on every disk its journal is there to be finished, and what waits   *)
(* to be decided was planned when its head was the only one.               *)
(***************************************************************************)
EXTENDS Journal, NaturalsInduction, WellFoundedInduction, TLAPS

-----------------------------------------------------------------------------
(* The folder's operations keep its type                                   *)

LEMMA RenameType ==
  ASSUME row \in [Target -> Cells(Row)], NEW p \in Target, NEW t \in Txn, Rename(p, t)
  PROVE  row' \in [Target -> Cells(Row)]
BY DEF Rename, Issue, Cells, Row, Content

LEMMA PutType ==
  ASSUME row \in [Target -> Cells(Row)], NEW p \in Target, NEW c \in Content, Put(p, c)
  PROVE  row' \in [Target -> Cells(Row)]
BY DEF Put, Issue, Cells, Row, Content

LEMMA StageRowsType ==
  ASSUME row \in [Target -> Cells(Row)],
         NEW t \in Txn, NEW S \in SUBSET Target, NEW there \in BOOLEAN,
         StageRows(t, S, there)
  PROVE  row' \in [Target -> Cells(Row)]
<1>1. ASSUME NEW m \in Row
      PROVE  [m EXCEPT !.staged = IF there THEN @ \cup {t} ELSE @ \ {t}] \in Row
  BY <1>1 DEF Row
<1>2. ASSUME NEW p \in Target
      PROVE  row[p] \in Cells(Row) /\ row'[p] \in Cells(Row)
  <2>1. row[p] \in Cells(Row)
    OBVIOUS
  <2>2. CASE p \in S
    BY <1>1, <2>1, <2>2 DEF StageRows, Issue, Cells
  <2>3. CASE p \notin S
    BY <2>1, <2>3 DEF StageRows
  <2> QED BY <2>1, <2>2, <2>3
<1> QED BY <1>2 DEF StageRows

LEMMA StageHeadType ==
  ASSUME hist \in Cells(Hist), NEW t \in Txn, NEW there \in BOOLEAN, StageHead(t, there)
  PROVE  hist' \in Cells(Hist)
BY DEF StageHead, Issue, Cells, Hist

LEMMA WithJournalType ==
  ASSUME NEW c \in Cells(TxnDir), NEW j \in {"none", "torn", "whole"}
  PROVE  WithJournal(c, j) \in Cells(TxnDir)
BY DEF WithJournal, Issue, Cells, TxnDir

LEMMA WithMarkerType ==
  ASSUME NEW c \in Cells(TxnDir), NEW b \in BOOLEAN
  PROVE  WithMarker(c, b) \in Cells(TxnDir)
BY DEF WithMarker, Issue, Cells, TxnDir

LEMMA WithDirType ==
  ASSUME NEW c \in Cells(TxnDir), NEW b \in BOOLEAN
  PROVE  WithDir(c, b) \in Cells(TxnDir)
BY DEF WithDir, Issue, Cells, TxnDir

LEMMA SetJournalType ==
  ASSUME txn \in [Txn -> Cells(TxnDir)], NEW t \in Txn,
         NEW j \in {"none", "torn", "whole"}, SetJournal(t, j)
  PROVE  txn' \in [Txn -> Cells(TxnDir)]
BY WithJournalType DEF SetJournal

LEMMA SetMarkerType ==
  ASSUME txn \in [Txn -> Cells(TxnDir)], NEW t \in Txn, NEW b \in BOOLEAN, SetMarker(t, b)
  PROVE  txn' \in [Txn -> Cells(TxnDir)]
BY WithMarkerType DEF SetMarker

LEMMA SetDirType ==
  ASSUME txn \in [Txn -> Cells(TxnDir)], NEW t \in Txn, NEW b \in BOOLEAN, SetDir(t, b)
  PROVE  txn' \in [Txn -> Cells(TxnDir)]
BY WithDirType DEF SetDir

LEMMA UnlinkType ==
  ASSUME txn \in [Txn -> Cells(TxnDir)], cur \in Txn, Unlink
  PROVE  txn' \in [Txn -> Cells(TxnDir)]
<1>1. WithJournal(txn[cur], "none") \in Cells(TxnDir)
  BY WithJournalType
<1>2. WithMarker(WithJournal(txn[cur], "none"), FALSE) \in Cells(TxnDir)
  BY <1>1, WithMarkerType
<1> QED BY <1>2 DEF Unlink

LEMMA SyncTxnType ==
  ASSUME row \in [Target -> Cells(Row)], txn \in [Txn -> Cells(TxnDir)],
         hist \in Cells(Hist), NEW t \in Txn, SyncTxn(t)
  PROVE  /\ row' \in [Target -> Cells(Row)]
         /\ txn' \in [Txn -> Cells(TxnDir)]
         /\ hist' \in Cells(Hist)
BY DEF SyncTxn, Sync, Cells

LEMMA SyncTransactionsType ==
  ASSUME txn \in [Txn -> Cells(TxnDir)], SyncTransactions
  PROVE  txn' \in [Txn -> Cells(TxnDir)]
BY DEF SyncTransactions, Sync, Cells

LEMMA SyncDirType ==
  ASSUME row \in [Target -> Cells(Row)], dir \in [Dir -> Cells(BOOLEAN)],
         hist \in Cells(Hist), NEW x, SyncDir(x)
  PROVE  /\ row' \in [Target -> Cells(Row)]
         /\ dir' \in [Dir -> Cells(BOOLEAN)]
         /\ hist' \in Cells(Hist)
BY DEF SyncDir, Sync, Cells

LEMMA MakeParentType ==
  ASSUME row \in [Target -> Cells(Row)], MakeParent
  PROVE  row' \in [Target -> Cells(Row)]
<1> SUFFICES ASSUME NEW p \in Target PROVE row'[p] \in Cells(Row)
  BY DEF MakeParent
<1>1. row[p] \in Cells(Row)
  OBVIOUS
<1>2. {[m EXCEPT !.file = Absent] : m \in row[p].may} \in SUBSET Row
  BY <1>1 DEF Cells, Row, Content
<1>3. [row[p] EXCEPT !.may = {[m EXCEPT !.file = Absent] : m \in @}] \in Cells(Row)
  BY <1>1, <1>2 DEF Cells
<1> QED BY <1>1, <1>3 DEF MakeParent

LEMMA SyncJournalFileType ==
  ASSUME txn \in [Txn -> Cells(TxnDir)], cur \in Txn, SyncJournalFile
  PROVE  txn' \in [Txn -> Cells(TxnDir)]
<1>1. CASE txn' = [txn EXCEPT ![cur] = Sync(@, LAMBDA m : m.journal # "torn")]
  BY <1>1 DEF Sync, Cells
<1>2. CASE txn' = [txn EXCEPT ![cur] = [now |-> [@.now EXCEPT !.journal = "torn"],
                                        may |-> {m \in @.may : m.journal # "whole"}]]
  <2>1. txn[cur] \in Cells(TxnDir)
    OBVIOUS
  <2>2. [txn[cur].now EXCEPT !.journal = "torn"] \in TxnDir
    BY <2>1 DEF Cells, TxnDir
  <2>3. {m \in txn[cur].may : m.journal # "whole"} \in SUBSET TxnDir
    BY <2>1 DEF Cells
  <2> QED BY <1>2, <2>2, <2>3 DEF Cells
<1> QED BY <1>1, <1>2 DEF SyncJournalFile

LEMMA SaveType ==
  ASSUME row \in [Target -> Cells(Row)], NEW p \in Target, Edit(p)
  PROVE  row' \in [Target -> Cells(Row)]
<1>1. Edits \subseteq Content
  BY ChoiceAssumption
<1> QED BY <1>1 DEF Edit, Save, Cells, Row

LEMMA DeltasType ==
  ASSUME row \in [Target -> Cells(Row)], NEW t \in Txn, NEW d \in Deltas(t)
  PROVE  DOMAIN d \subseteq Target /\ \A p \in DOMAIN d : d[p] \in Change
BY DEF Deltas, Change, Cells, Row, Content

\* A set of transactions that is not empty has a first.
LEMMA FirstIn ==
  ASSUME NEW S \in SUBSET Txn, S # {}
  PROVE  First(S) \in S /\ \A u \in S : First(S) <= u
<1>1. Txn \subseteq Nat
  BY NAssumption DEF Txn
<1>2. PICK t \in S : \A u \in S : <<u, t>> \notin OpToRel(<, Nat)
  BY <1>1, NatLessThanWellFounded, WFMin
<1>3. ASSUME NEW u \in S PROVE t <= u
  <2>1. u \in Nat /\ t \in Nat
    BY <1>1
  <2>2. ~(u < t)
    <3>1. SUFFICES ASSUME u < t PROVE <<u, t>> \in OpToRel(<, Nat)
      BY <1>2
    <3>2. <<u, t>> \in Nat \X Nat /\ <<u, t>>[1] < <<u, t>>[2]
      BY <2>1, <3>1
    <3> QED BY <3>2 DEF OpToRel
  <2> QED BY <2>1, <2>2
<1> QED BY <1>3 DEF First

\* A fault leaves the budget a number.
LEMMA StrikesType ==
  ASSUME BudgetType, NEW f, Strikes(f)
  PROVE  faults' \in 0..MaxFaults
BY ChoiceAssumption DEF BudgetType, Strikes

\* A process that is gone or rests is at no work that could have another type.
LEMMA ExitType ==
  ASSUME Exit
  PROVE  ProcessType'
BY DEF Exit, Rest, Goto, ProcessType, Locations

LEMMA ReportType ==
  ASSUME BookType, cur \in Txn, NEW why \in {"refused", "pending", "unknown"}, Report(why),
         UNCHANGED <<plan, fate>>
  PROVE  ProcessType' /\ BookType'
BY ExitType DEF Report, BookType, PlanType

LEMMA SuspendType ==
  ASSUME BookType, ProcessType, cur \in Txn, Suspend, UNCHANGED <<plan, fate>>
  PROVE  ProcessType' /\ BookType'
<1>1. CASE recovering
  BY <1>1 DEF Suspend, Rest, Goto, BookType, PlanType, ProcessType, Locations
<1>2. CASE ~recovering
  BY <1>2, ReportType DEF Suspend
<1> QED BY <1>1, <1>2

LEMMA HaltType ==
  ASSUME BookType, cur \in Txn, Halt, UNCHANGED <<plan, fate>>
  PROVE  ProcessType' /\ BookType'
<1>1. CASE recovering
  BY <1>1, ExitType DEF Halt, BookType, PlanType
<1>2. CASE ~recovering
  BY <1>2, ReportType DEF Halt
<1> QED BY <1>1, <1>2

LEMMA SettleType ==
  ASSUME BookType, ProcessType, cur \in Txn, Settle
  PROVE  ProcessType' /\ BookType'
BY DEF Settle, Rest, Goto, BookType, PlanType, ProcessType, Locations, sweep

\* No step leaves the types.
LEMMA TypeStep ==
  ASSUME TypeOK, [Next]_vars
  PROVE  TypeOK'
<1> USE DEF TypeOK, FolderType, BookType, ProcessType, BudgetType, PlanType, Locations,
            folder, book, sweep, work, budget, Goto, Delta
<1>1. CASE Open
  BY <1>1 DEF Open
<1>2. CASE RecoverCommitted
  <2>1. First(scan) \in Txn
    BY <1>2, FirstIn DEF RecoverCommitted
  <2>2. Ancestors(First(scan)) \subseteq Dir \cup {Root, HistDir}
    <3>1. \A p \in DOMAIN Delta(First(scan)) : DirOf[p] \in Dir
      BY <2>1, DirAssumption
    <3> QED BY <3>1 DEF Ancestors
  <2> DEFINE t == First(scan)
  <2>3. \E marked : TakeUp(t, marked) /\ marked = txn[t].now.marker
    BY <1>2 DEF RecoverCommitted
  <2>4. txn[t].now.marker \in BOOLEAN
    BY <2>1 DEF Cells, TxnDir
  <2> HIDE DEF t
  <2> QED BY <1>2, <2>1, <2>2, <2>3, <2>4 DEF RecoverCommitted, TakeUp, t
<1>3. CASE RecoverDiscard
  BY <1>3, FirstIn DEF RecoverDiscard
<1>4. CASE RecoverEnd
  BY <1>4 DEF RecoverEnd, Exit, Rest
<1>5. CASE PreflightRefuses
  BY <1>5 DEF PreflightRefuses, Rest
<1>6. CASE Stage
  BY <1>6, SetDirType, StageRowsType, StageHeadType DEF Stage, Writes
<1>7. CASE SyncStaged
  BY <1>7, SyncTxnType, ChoiceAssumption DEF SyncStaged, Calm, Strikes
<1>8. CASE CreateJournal
  BY <1>8, SetJournalType DEF CreateJournal
<1>9. CASE WriteJournal
  BY <1>9, SetJournalType DEF WriteJournal
<1>10. CASE SyncJournalFile
  <2>1. txn' \in [Txn -> Cells(TxnDir)]
    BY <1>10, SyncJournalFileType DEF SyncJournalFile
  <2>2. faults' \in 0..MaxFaults
    BY <1>10, StrikesType DEF SyncJournalFile, Calm
  <2> QED BY <1>10, <2>1, <2>2 DEF SyncJournalFile
<1>11. CASE SyncJournalDir
  BY <1>11, SyncTxnType, ChoiceAssumption DEF SyncJournalDir, Calm, Strikes
<1>12. CASE SyncJournalAbove
  BY <1>12, SyncTransactionsType, ChoiceAssumption DEF SyncJournalAbove, Calm, Strikes
<1>13. CASE Retract
  <2>1. CASE SetJournal(cur, "none") /\ Goto("unlinked") /\ Calm /\ UNCHANGED <<told, sweep, work>>
    BY <1>13, <2>1, SetJournalType DEF Retract, Calm
  <2>2. CASE Strikes("place") /\ Report("unknown") /\ UNCHANGED txn
    BY <1>13, <2>2, StrikesType, ReportType DEF Retract
  <2> QED BY <1>13, <2>1, <2>2 DEF Retract
<1>14. CASE SyncRetraction
  <2>1. CASE SyncTxn(cur) /\ Goto("discard") /\ Calm /\ UNCHANGED <<told, sweep, work>>
    BY <1>14, <2>1, SyncTxnType DEF SyncRetraction, Calm
  <2>2. CASE Strikes("syncjournal") /\ Report("unknown") /\ UNCHANGED <<row, hist, txn>>
    BY <1>14, <2>2, StrikesType, ReportType DEF SyncRetraction
  <2> QED BY <1>14, <2>1, <2>2 DEF SyncRetraction
<1>15. CASE SyncAncestors
  BY <1>15, SyncDirType, ChoiceAssumption DEF SyncAncestors, SyncTouched, SyncFails, Calm, Strikes
<1>16. CASE Look
  BY <1>16, DirAssumption DEF Look, LookAt
<1>17. CASE Rewrite
  BY <1>17, PutType, DirAssumption DEF Rewrite, Placed, Content
<1>18. CASE RewriteFails
  BY <1>18, ChoiceAssumption DEF RewriteFails, Strikes
<1>19. CASE MakeParent
  <2>1. row' \in [Target -> Cells(Row)]
    BY <1>19, MakeParentType
  <2>2. dir' \in [Dir -> Cells(BOOLEAN)]
    BY <1>19 DEF MakeParent, Issue, Cells
  <2> QED BY <1>19, <2>1, <2>2 DEF MakeParent
<1>20. CASE SyncParent
  BY <1>20, SyncDirType, ChoiceAssumption DEF SyncParent, SyncFails, Calm, Strikes
<1>21. CASE PlaceFile
  BY <1>21, RenameType, DirAssumption DEF PlaceFile, Placed
<1>22. CASE RemoveFile
  BY <1>22, PutType, DirAssumption DEF RemoveFile, Placed, Content
<1>23. CASE Prune
  BY <1>23 DEF Prune, Issue, Cells
<1>24. CASE SyncPlaced
  BY <1>24, SyncDirType, ChoiceAssumption DEF SyncPlaced, SyncTouched, SyncFails, Calm, Strikes
<1>25. CASE Publish
  BY <1>25 DEF Publish, MoveHead, Issue, Cells, Hist, Revision
<1>26. CASE Retire
  <2>1. PICK h \in Retired(cur) \cap hist.now.heads :
          LET Same(m) == (h \in m.heads) = (h \in hist.now.heads)
              New(m) == [m EXCEPT !.heads = @ \ {h}]
          IN  hist' = Issue(hist, Same, New)
    BY <1>26 DEF Retire
  <2>2. \A m \in Hist : [m EXCEPT !.heads = @ \ {h}] \in Hist
    BY DEF Hist
  <2>3. hist' \in Cells(Hist)
    BY <2>1, <2>2 DEF Issue, Cells
  <2> QED BY <1>26, <2>3 DEF Retire
<1>27. CASE RetireDone
  BY <1>27 DEF RetireDone
<1>28. CASE SyncPublished
  BY <1>28, SyncDirType, ChoiceAssumption DEF SyncPublished, SyncTouched, SyncFails, Calm, Strikes
<1>29. CASE Mark
  <2>1. txn' \in [Txn -> Cells(TxnDir)]
    BY <1>29, SetMarkerType DEF Mark
  <2>2. faults' \in 0..MaxFaults
    BY <1>29, StrikesType DEF Mark, Calm
  <2> QED BY <1>29, <2>1, <2>2, SuspendType DEF Mark
<1>30. CASE RemoveJournal
  BY <1>30, SetJournalType DEF RemoveJournal
<1>31. CASE Unlink
  <2>1. txn' \in [Txn -> Cells(TxnDir)]
    BY <1>31, UnlinkType DEF Unlink
  <2>2. row' \in [Target -> Cells(Row)] /\ hist' \in Cells(Hist)
    BY <1>31, StageRowsType, StageHeadType DEF Unlink
  <2> QED BY <1>31, <2>1, <2>2 DEF Unlink
<1>32. CASE RemoveTxnDir
  BY <1>32, SetDirType DEF RemoveTxnDir
<1>33. CASE SyncRemoval
  <2>1. txn' \in [Txn -> Cells(TxnDir)]
    BY <1>33, SyncTransactionsType DEF SyncRemoval
  <2>2. faults' \in 0..MaxFaults
    BY <1>33, StrikesType DEF SyncRemoval, Calm
  <2> QED BY <1>33, <2>1, <2>2, SettleType DEF SyncRemoval
<1>34. CASE RewriteLost
  BY <1>34 DEF RewriteLost, Halt, Report, Exit, Rest
<1>35. CASE PlaceLost
  BY <1>35 DEF PlaceLost, Halt, Report, Exit, Rest
<1>36. CASE PublishLost
  BY <1>36 DEF PublishLost, Suspend, Report, Exit, Rest
<1>37. CASE Plan
  <2>1. PICK t \in Txn : /\ cur' = t
                         /\ fate' = [fate EXCEPT ![t] = "planned"]
                         /\ \E d \in {e \in Deltas(t) : Sound(e)} :
                            \E gone \in {{}} \cup {{e} : e \in Droppable(d)} :
                              plan' = [plan EXCEPT ![t] = [change |-> d,
                                                           retire |-> hist.now.heads,
                                                           prune |-> gone]]
    BY <1>37 DEF Plan
  <2>2. PICK d \in Deltas(t), gone \in SUBSET Dir :
          plan' = [plan EXCEPT ![t] = [change |-> d, retire |-> hist.now.heads,
                                       prune |-> gone]]
    <3>1. PICK d \in {e \in Deltas(t) : Sound(e)} :
            \E gone \in {{}} \cup {{e} : e \in Droppable(d)} :
              plan' = [plan EXCEPT ![t] = [change |-> d, retire |-> hist.now.heads,
                                           prune |-> gone]]
      BY <2>1
    <3>2. Droppable(d) \subseteq Dir
      BY DEF Droppable
    <3>3. d \in Deltas(t)
      OBVIOUS
    <3>4. PICK gone \in {{}} \cup {{e} : e \in Droppable(d)} :
            plan' = [plan EXCEPT ![t] = [change |-> d, retire |-> hist.now.heads,
                                         prune |-> gone]]
      BY <3>1
    <3>5. gone \in SUBSET Dir
      BY <3>2
    <3> QED BY <3>3, <3>4, <3>5
  <2>3. hist.now.heads \subseteq Revision
    BY DEF Cells, Hist
  <2>4. PlanType(plan'[t])
    BY <2>2, <2>3, DeltasType
  <2>5. \A u \in Txn : PlanType(plan'[u])
    BY <2>2, <2>4
  <2> QED BY <1>37, <2>1, <2>2, <2>5 DEF Plan
<1>38. CASE Close
  BY <1>38 DEF Close, Exit, Rest
<1>39. CASE PlaceBlocked
  BY <1>39, SuspendType, StrikesType DEF PlaceBlocked
<1>40. CASE FinishBlocked
  BY <1>40, HaltType, StrikesType DEF FinishBlocked
<1>41. CASE DiscardBlocked
  BY <1>41, HaltType, SettleType, StrikesType DEF DiscardBlocked
<1>42. CASE Kill
  BY <1>42, ExitType, StrikesType DEF Kill
<1>43. CASE PowerLoss
  <2>1. PICK tt \in Choices(Txn, LAMBDA t : txn[t].may),
             rr \in Choices(Target, LAMBDA p : row[p].may),
             dd \in Choices(Dir, LAMBDA d : dir[d].may),
             hh \in hist.may :
        /\ txn' = [t \in Txn |-> Durable(IF tt[t].dir THEN tt[t] ELSE Gone)]
        /\ row' = [p \in Target |->
             Durable([file   |-> IF dd[DirOf[p]] THEN rr[p].file ELSE Absent,
                      staged |-> {t \in rr[p].staged : tt[t].dir}])]
        /\ dir' = [d \in Dir |-> Durable(dd[d])]
        /\ hist' = Durable([hh EXCEPT !.staged = {t \in @ : tt[t].dir}])
    BY <1>43 DEF PowerLoss
  <2>2. /\ \A t \in Txn : tt[t] \in TxnDir
        /\ \A p \in Target : rr[p] \in Row
        /\ \A d \in Dir : dd[d] \in BOOLEAN
        /\ hh \in Hist
    BY DEF Choices, Cells
  <2>3. txn' \in [Txn -> Cells(TxnDir)]
    BY <2>1, <2>2 DEF Durable, Cells, TxnDir, Gone
  <2>4. row' \in [Target -> Cells(Row)]
    BY <2>1, <2>2 DEF Durable, Cells, Row, Content
  <2>5. dir' \in [Dir -> Cells(BOOLEAN)]
    BY <2>1, <2>2 DEF Durable, Cells
  <2>6. hist' \in Cells(Hist)
    <3> DEFINE left == [hh EXCEPT !.staged = {t \in @ : tt[t].dir}]
    <3>1. left \in Hist
      BY <2>2 DEF Hist
    <3> QED BY <2>1, <3>1 DEF Durable, Cells
  <2> QED BY <1>43, <2>3, <2>4, <2>5, <2>6, ExitType, StrikesType DEF PowerLoss
<1>44. CASE \E p \in Target : Edit(p)
  <2>1. PICK p \in Target : Edit(p)
    BY <1>44
  <2>2. row' \in [Target -> Cells(Row)]
    BY <2>1, SaveType
  <2>3. dir' \in [Dir -> Cells(BOOLEAN)]
    BY <2>1, DirAssumption DEF Edit, Durable, Cells
  <2>4. edits' \in 0..MaxEdits
    BY <2>1, ChoiceAssumption DEF Edit
  <2>5. dropped' \subseteq Target
    BY <2>1 DEF Edit
  <2>6. UNCHANGED <<txn, hist, plan, fate, told, pc, recovering, scan, blocked, cur, rewrite,
                    todo, at, touched, faults>>
    BY <2>1 DEF Edit
  <2>7. FolderType'
    BY <2>2, <2>3, <2>5, <2>6
  <2>8. BookType' /\ ProcessType'
    BY <2>6
  <2>9. BudgetType'
    BY <2>4, <2>6
  <2> QED BY <2>7, <2>8, <2>9
<1>45. CASE UNCHANGED vars
  BY <1>45 DEF vars
<1> QED
  BY <1>1, <1>2, <1>3, <1>4, <1>5, <1>6, <1>7, <1>8, <1>9, <1>10, <1>11, <1>12, <1>13,
     <1>14, <1>15, <1>16, <1>17, <1>18, <1>19, <1>20, <1>21, <1>22, <1>23, <1>24, <1>25,
     <1>26, <1>27, <1>28, <1>29, <1>30, <1>31, <1>32, <1>33, <1>34, <1>35, <1>36, <1>37,
     <1>38, <1>39, <1>40, <1>41, <1>42, <1>43, <1>44, <1>45
     DEF Next, Step, Recovery, Commit, Apply, Finish, Lost, Refused

LEMMA TypeInit ==
  ASSUME Init
  PROVE  TypeOK
<1>1. FolderType
  BY DEF Init, FolderType, Durable, Cells, Row, Content, TxnDir, Gone, Hist, Revision
<1>2. BookType
  BY DEF Init, BookType, PlanType, NoPlan
<1>3. ProcessType
  BY DEF Init, ProcessType, Locations
<1>4. BudgetType
  BY ChoiceAssumption DEF Init, BudgetType
<1> QED BY <1>1, <1>2, <1>3, <1>4 DEF TypeOK

\* The types hold in every state of every behaviour of the protocol.
THEOREM Typed == Spec => []TypeOK
<1>1. Init => TypeOK
  BY TypeInit
<1>2. TypeOK /\ [Next]_vars => TypeOK'
  BY TypeStep
<1> QED BY <1>1, <1>2, PTL DEF Spec

-----------------------------------------------------------------------------
(* Write-ahead.  A journal that shows whole is on every disk a power loss  *)
(* leaves, except while its own writer is still making it so; and nothing  *)
(* ends that window but its syncs or the power -- as long as no sync of    *)
(* the journal fails and no process dies while it syncs it.                *)

\* The journal is not whole yet, or is whole and not yet durable.
Early == {"preflight", "staged", "journal", "jwrite"}
Window == {"jsync", "jdir", "jtxns"}

Journals(c) == {m.journal : m \in c.may \cup {c.now}}

\* A journal that shows is durable, or its writer is making it so ...
ShownDurable == \A t \in Txn : Live(t) /\ (pc \in Window => t # cur) => MustBeLive(t)

\* ... and the change it is writing is not decided yet.
Undecided == pc \in Early \cup Window => fate[cur] = "planned"

\* How far the journal of the change in progress is.
Underway ==
  /\ pc \in Early => txn[cur].now.journal # "whole"
  /\ pc \in (Early \cup Window) \ {"preflight"} => txn[cur].now.dir
  /\ pc \in Window => txn[cur].now.journal = "whole"
  /\ pc \in {"jdir", "jtxns"} => \A m \in txn[cur].may : m.journal # "torn"
  /\ pc = "jtxns" => \A m \in txn[cur].may : m.journal = "whole"

\* A change not begun has no journal on any disk.
NewUnwritten == \A t \in Txn : fate[t] = "new" => "whole" \notin Journals(txn[t])

\* The whole: what a step preserves.
Ahead ==
  /\ ShownDurable /\ Undecided /\ Underway /\ NewUnwritten
  /\ pc \notin {"retract", "unlinked"}

\* The cell d shows a whole journal only where c did, and as durably.
Keeps(c, d) ==
  /\ Committing(d.now) =>
       Committing(c.now) /\ ((\A m \in c.may : Committing(m)) => \A m \in d.may : Committing(m))
  /\ "whole" \in Journals(d) => "whole" \in Journals(c)

\* A sync, which only takes states away, keeps.
LEMMA KeepsSync ==
  ASSUME NEW c \in Cells(TxnDir), NEW d \in Cells(TxnDir), d.now = c.now, d.may \subseteq c.may
  PROVE  Keeps(c, d)
BY DEF Keeps, Journals, Cells

LEMMA KeepsMarker ==
  ASSUME NEW c \in Cells(TxnDir), NEW b \in BOOLEAN
  PROVE  Keeps(c, WithMarker(c, b))
<1> DEFINE d == WithMarker(c, b)
           New(m) == [m EXCEPT !.marker = b]
<1>1. \A m \in TxnDir : New(m).journal = m.journal /\ New(m).dir = m.dir
  BY DEF TxnDir
<1>2. c.now \in TxnDir /\ c.may \subseteq TxnDir
  BY DEF Cells
<1>3. d.now = New(c.now) /\ c.may \subseteq d.may
  BY DEF WithMarker, Issue
<1>4. \A m \in d.may : m \in c.may \/ \E n \in c.may : m = New(n)
  BY DEF WithMarker, Issue
<1> HIDE DEF d, New
<1>5. Committing(d.now) =>
        Committing(c.now) /\ ((\A m \in c.may : Committing(m)) => \A m \in d.may : Committing(m))
  BY <1>1, <1>2, <1>3, <1>4 DEF Committing
<1>6. "whole" \in Journals(d) => "whole" \in Journals(c)
  BY <1>1, <1>2, <1>3, <1>4 DEF Journals
<1>7. Keeps(c, d)
  BY <1>5, <1>6 DEF Keeps
<1> QED BY <1>7 DEF d

LEMMA KeepsJournal ==
  ASSUME NEW c \in Cells(TxnDir), NEW j \in {"none", "torn"}
  PROVE  Keeps(c, WithJournal(c, j))
<1> DEFINE d == WithJournal(c, j)
           New(m) == [m EXCEPT !.journal = j]
<1>1. \A m \in TxnDir : New(m).journal = j
  BY DEF TxnDir
<1>2. c.now \in TxnDir /\ c.may \subseteq TxnDir
  BY DEF Cells
<1>3. d.now = New(c.now) /\ c.may \subseteq d.may
  BY DEF WithJournal, Issue
<1>4. \A m \in d.may : m \in c.may \/ \E n \in c.may : m = New(n)
  BY DEF WithJournal, Issue
<1> HIDE DEF d, New
<1>5. Committing(d.now) =>
        Committing(c.now) /\ ((\A m \in c.may : Committing(m)) => \A m \in d.may : Committing(m))
  BY <1>1, <1>2, <1>3, <1>4 DEF Committing
<1>6. "whole" \in Journals(d) => "whole" \in Journals(c)
  BY <1>1, <1>2, <1>3, <1>4 DEF Journals
<1>7. Keeps(c, d)
  BY <1>5, <1>6 DEF Keeps
<1> QED BY <1>7 DEF d

\* Making or removing its directory keeps one whose journal is not whole, and
\* removing it any.
LEMMA KeepsDir ==
  ASSUME NEW c \in Cells(TxnDir), NEW b \in BOOLEAN, b => c.now.journal # "whole"
  PROVE  Keeps(c, WithDir(c, b))
<1> DEFINE d == WithDir(c, b)
           New(m) == [m EXCEPT !.dir = b]
<1>1. \A m \in TxnDir : New(m).journal = m.journal /\ New(m).dir = b
  BY DEF TxnDir
<1>2. c.now \in TxnDir /\ c.may \subseteq TxnDir
  BY DEF Cells
<1>3. d.now = New(c.now) /\ c.may \subseteq d.may
  BY DEF WithDir, Issue
<1>4. \A m \in d.may : m \in c.may \/ \E n \in c.may : m = New(n)
  BY DEF WithDir, Issue
<1> HIDE DEF d, New
<1>5. Committing(d.now) =>
        Committing(c.now) /\ ((\A m \in c.may : Committing(m)) => \A m \in d.may : Committing(m))
  BY <1>1, <1>2, <1>3, <1>4 DEF Committing
<1>6. "whole" \in Journals(d) => "whole" \in Journals(c)
  BY <1>1, <1>2, <1>3, <1>4 DEF Journals
<1>7. Keeps(c, d)
  BY <1>5, <1>6 DEF Keeps
<1> QED BY <1>7 DEF d

\* A step that keeps every transaction directory, begins no change, and neither
\* starts from the window nor leads near it, preserves the invariant.
LEMMA Elsewhere ==
  ASSUME Ahead, pc \notin Window,
         pc' \notin Early \cup Window \cup {"retract", "unlinked"},
         \A t \in Txn : Keeps(txn[t], txn'[t]),
         \A t \in Txn : fate'[t] = "new" => fate[t] = "new"
  PROVE  Ahead'
BY DEF Ahead, ShownDurable, Undecided, Underway, NewUnwritten, Live, MustBeLive, Keeps,
       Early, Window

\* The same of a step that leaves the directories and fates alone.
LEMMA Untouched ==
  ASSUME Ahead, pc \notin Window,
         pc' \notin Early \cup Window \cup {"retract", "unlinked"}, UNCHANGED <<txn, fate>>
  PROVE  Ahead'
<1>1. \A t \in Txn : Keeps(txn[t], txn'[t])
  BY DEF Keeps
<1> QED BY <1>1, Elsewhere

LEMMA KeepsTwice ==
  ASSUME NEW b, NEW c, NEW d, Keeps(b, c), Keeps(c, d)
  PROVE  Keeps(b, d)
BY DEF Keeps

\* Nothing interrupts the writing of the journal but the power.
JournalSpared == "killjournal" \notin Faults /\ "syncjournal" \notin Faults

\* No step leaves the invariant.
LEMMA AheadStep ==
  ASSUME JournalSpared, TypeOK, Ahead, [Next]_vars
  PROVE  Ahead'
<1> USE DEF Goto, Early, Window
<1>0. /\ \A t \in Txn : txn[t] \in Cells(TxnDir)
      /\ DOMAIN fate = Txn /\ fate \in [Txn -> {"new", "planned", "committed", "refused"}]
      /\ pc \notin {"idle", "scan", "ready"} => cur \in Txn
      /\ pc \notin {"retract", "unlinked"}
  BY DEF TypeOK, FolderType, BookType, ProcessType, Ahead
<1>1. CASE Open
  BY <1>1, Untouched DEF Open, folder, book
<1>2. CASE RecoverDiscard
  BY <1>2, Untouched DEF RecoverDiscard, folder, book
<1>3. CASE RecoverEnd
  BY <1>3, Untouched DEF RecoverEnd, Exit, folder, book
<1>4. CASE Close
  BY <1>4, Untouched DEF Close, Exit, folder, book
<1>5. CASE SyncAncestors
  BY <1>5, Untouched DEF SyncAncestors, SyncTouched, SyncFails, book
<1>6. CASE Look
  BY <1>6, Untouched DEF Look, LookAt, folder, book
<1>7. CASE Rewrite
  BY <1>7, Untouched DEF Rewrite, Placed, book
<1>8. CASE RewriteFails
  BY <1>8, Untouched DEF RewriteFails, folder, book
<1>9. CASE MakeParent
  BY <1>9, Untouched DEF MakeParent, book
<1>10. CASE SyncParent
  BY <1>10, Untouched DEF SyncParent, SyncFails, book
<1>11. CASE PlaceFile
  BY <1>11, Untouched DEF PlaceFile, Placed, book
<1>12. CASE RemoveFile
  BY <1>12, Untouched DEF RemoveFile, Placed, book
<1>13. CASE Prune
  BY <1>13, Untouched DEF Prune, book
<1>14. CASE SyncPlaced
  BY <1>14, Untouched DEF SyncPlaced, SyncTouched, SyncFails, book
<1>15. CASE Publish
  BY <1>15, Untouched DEF Publish, book
<1>16. CASE Retire
  BY <1>16, Untouched DEF Retire, book
<1>17. CASE RetireDone
  BY <1>17, Untouched DEF RetireDone, folder, book
<1>18. CASE SyncPublished
  BY <1>18, Untouched DEF SyncPublished, SyncTouched, SyncFails, book
<1>19. CASE RewriteLost
  BY <1>19, Untouched DEF RewriteLost, Halt, Report, Exit, folder
<1>20. CASE PlaceLost
  BY <1>20, Untouched DEF PlaceLost, Halt, Report, Exit, folder
<1>21. CASE PublishLost
  BY <1>21, Untouched DEF PublishLost, Suspend, Report, Exit, folder
<1>22. CASE PlaceBlocked
  BY <1>22, Untouched DEF PlaceBlocked, Suspend, Report, Exit, folder
<1>23. CASE FinishBlocked
  BY <1>23, Untouched DEF FinishBlocked, Halt, Report, Exit, folder
<1>24. CASE Kill
  BY <1>24, Untouched DEF Kill, KindOfKill, Strikes, JournalWindow, JournalSpared, Exit, folder, book
<1>25. CASE Retract
  BY <1>25, <1>0 DEF Retract
<1>26. CASE SyncRetraction
  BY <1>26, <1>0 DEF SyncRetraction
<1>27. CASE RecoverCommitted
  <2>1. \A t \in Txn : Keeps(txn[t], txn'[t])
    BY <1>27 DEF Keeps, RecoverCommitted, TakeUp, folder
  <2>2. \A t \in Txn : fate'[t] = "new" => fate[t] = "new"
    BY <1>27, <1>0 DEF RecoverCommitted, TakeUp
  <2>3. pc \notin Window /\ pc' \notin Early \cup Window \cup {"retract", "unlinked"}
    BY <1>27 DEF RecoverCommitted
  <2> QED BY <2>1, <2>2, <2>3, Elsewhere
<1>28. CASE PreflightRefuses
  <2>1. \A t \in Txn : Keeps(txn[t], txn'[t])
    BY <1>28 DEF Keeps, PreflightRefuses, folder
  <2>2. \A t \in Txn : fate'[t] = "new" => fate[t] = "new"
    BY <1>28, <1>0 DEF PreflightRefuses
  <2>3. pc \notin Window /\ pc' \notin Early \cup Window \cup {"retract", "unlinked"}
    BY <1>28 DEF PreflightRefuses
  <2> QED BY <2>1, <2>2, <2>3, Elsewhere
<1>29. CASE DiscardBlocked
  <2>1. \A t \in Txn : Keeps(txn[t], txn'[t])
    BY <1>29 DEF Keeps, DiscardBlocked, folder
  <2>2. \A t \in Txn : fate'[t] = "new" => fate[t] = "new"
    BY <1>29, <1>0 DEF DiscardBlocked, Settle
  <2>3. pc \notin Window /\ pc' \notin Early \cup Window \cup {"retract", "unlinked"}
    BY <1>29 DEF DiscardBlocked, Halt, Settle, Report, Exit
  <2> QED BY <2>1, <2>2, <2>3, Elsewhere
<1>30. CASE Mark
  <2>1. \A t \in Txn : Keeps(txn[t], txn'[t])
    <3>1. UNCHANGED txn \/ txn' = [txn EXCEPT ![cur] = WithMarker(@, TRUE)]
      BY <1>30 DEF Mark, SetMarker
    <3>2. Keeps(txn[cur], WithMarker(txn[cur], TRUE))
      BY <1>0, <1>30, KeepsMarker DEF Mark
    <3>3. \A t \in Txn : Keeps(txn[t], txn[t])
      BY DEF Keeps
    <3> QED BY <3>1, <3>2, <3>3 DEF TypeOK, FolderType
  <2>2. \A t \in Txn : fate'[t] = "new" => fate[t] = "new"
    BY <1>30 DEF Mark
  <2>3. pc \notin Window /\ pc' \notin Early \cup Window \cup {"retract", "unlinked"}
    BY <1>30 DEF Mark, Suspend, Report, Exit
  <2> QED BY <2>1, <2>2, <2>3, Elsewhere
<1>31. CASE RemoveJournal
  <2>1. \A t \in Txn : Keeps(txn[t], txn'[t])
    BY <1>0, <1>31, KeepsJournal DEF RemoveJournal, SetJournal, Keeps
  <2>2. \A t \in Txn : fate'[t] = "new" => fate[t] = "new"
    BY <1>31 DEF RemoveJournal, book
  <2>3. pc \notin Window /\ pc' \notin Early \cup Window \cup {"retract", "unlinked"}
    BY <1>31 DEF RemoveJournal
  <2> QED BY <2>1, <2>2, <2>3, Elsewhere
<1>32. CASE Unlink
  <2>1. \A t \in Txn : Keeps(txn[t], txn'[t])
    <3> DEFINE half == WithJournal(txn[cur], "none")
    <3>1. half \in Cells(TxnDir)
      BY <1>0, <1>32, WithJournalType DEF Unlink
    <3>2. Keeps(txn[cur], half)
      BY <1>0, <1>32, KeepsJournal DEF Unlink
    <3>3. txn' = [txn EXCEPT ![cur] = WithMarker(half, FALSE)]
      BY <1>32 DEF Unlink
    <3> HIDE DEF half
    <3>4. Keeps(txn[cur], WithMarker(half, FALSE))
      BY <3>1, <3>2, KeepsMarker, KeepsTwice
    <3>5. \A t \in Txn : Keeps(txn[t], txn[t])
      BY DEF Keeps
    <3> QED BY <1>0, <3>3, <3>4, <3>5 DEF TypeOK, FolderType
  <2>2. \A t \in Txn : fate'[t] = "new" => fate[t] = "new"
    BY <1>32 DEF Unlink, book
  <2>3. pc \notin Window /\ pc' \notin Early \cup Window \cup {"retract", "unlinked"}
    BY <1>32 DEF Unlink
  <2> QED BY <2>1, <2>2, <2>3, Elsewhere
<1>33. CASE RemoveTxnDir
  <2>1. \A t \in Txn : Keeps(txn[t], txn'[t])
    <3>1. Keeps(txn[cur], WithDir(txn[cur], FALSE))
      BY <1>0, <1>33, KeepsDir DEF RemoveTxnDir
    <3>2. txn' = [txn EXCEPT ![cur] = WithDir(@, FALSE)]
      BY <1>33 DEF RemoveTxnDir, SetDir
    <3>3. \A t \in Txn : Keeps(txn[t], txn[t])
      BY DEF Keeps
    <3> QED BY <3>1, <3>2, <3>3 DEF TypeOK, FolderType
  <2>2. \A t \in Txn : fate'[t] = "new" => fate[t] = "new"
    BY <1>33 DEF RemoveTxnDir, book
  <2>3. pc \notin Window /\ pc' \notin Early \cup Window \cup {"retract", "unlinked"}
    BY <1>33 DEF RemoveTxnDir
  <2> QED BY <2>1, <2>2, <2>3, Elsewhere
<1>34. CASE SyncRemoval
  <2>1. \A t \in Txn : Keeps(txn[t], txn'[t])
    <3>1. CASE UNCHANGED txn
      BY <3>1 DEF Keeps
    <3>2. CASE SyncTransactions
      <4> SUFFICES ASSUME NEW t \in Txn PROVE Keeps(txn[t], txn'[t])
        OBVIOUS
      <4>1. txn'[t].now = txn[t].now /\ txn'[t].may \subseteq txn[t].may
        BY <1>0, <3>2 DEF SyncTransactions, Sync, Cells
      <4>2. txn'[t] \in Cells(TxnDir)
        BY <3>2, SyncTransactionsType DEF TypeOK, FolderType
      <4> QED BY <1>0, <4>1, <4>2, KeepsSync
    <3> QED BY <1>34, <3>1, <3>2 DEF SyncRemoval
  <2>2. \A t \in Txn : fate'[t] = "new" => fate[t] = "new"
    BY <1>34, <1>0 DEF SyncRemoval, Settle
  <2>3. pc \notin Window /\ pc' \notin Early \cup Window \cup {"retract", "unlinked"}
    BY <1>34 DEF SyncRemoval, Settle
  <2> QED BY <2>1, <2>2, <2>3, Elsewhere
<1>35. CASE Plan
  <2>1. UNCHANGED txn /\ pc = "ready" /\ pc' = "preflight"
    BY <1>35 DEF Plan, folder
  <2>2. PICK t \in Txn : fate[t] = "new" /\ cur' = t /\ fate' = [fate EXCEPT ![t] = "planned"]
    BY <1>35 DEF Plan
  <2>3. txn[t].now.journal # "whole"
    BY <2>2 DEF Ahead, NewUnwritten, Journals
  <2> QED BY <1>0, <2>1, <2>2, <2>3
          DEF Ahead, ShownDurable, Undecided, Underway, NewUnwritten, Live, MustBeLive
<1>36. CASE Stage
  <2>1. /\ pc = "preflight" /\ pc' = "staged" /\ cur \in Txn /\ cur' = cur /\ fate' = fate
        /\ txn' = [txn EXCEPT ![cur] = WithDir(@, TRUE)]
    BY <1>0, <1>36 DEF Stage, SetDir, book, work
  <2>2. txn[cur].now.journal # "whole"
    BY <2>1 DEF Ahead, Underway
  <2>3. Keeps(txn[cur], WithDir(txn[cur], TRUE))
    BY <1>0, <2>1, <2>2, KeepsDir
  <2>4. /\ WithDir(txn[cur], TRUE).now.dir
        /\ WithDir(txn[cur], TRUE).now.journal = txn[cur].now.journal
    BY <1>0, <2>1 DEF WithDir, Issue, Cells, TxnDir
  <2>5. txn'[cur] = WithDir(txn[cur], TRUE) /\ \A t \in Txn : t # cur => txn'[t] = txn[t]
    BY <2>1 DEF TypeOK, FolderType
  <2> HIDE DEF Goto
  <2> QED BY <1>0, <2>1, <2>2, <2>3, <2>4, <2>5 DEF Keeps, Committing, Ahead, ShownDurable, Undecided, Underway, NewUnwritten, Live, MustBeLive
<1>37. CASE SyncStaged
  <2>0. ~Strikes("syncjournal")
    BY DEF JournalSpared, Strikes
  <2>1. /\ pc = "staged" /\ pc' = "journal" /\ SyncTxn(cur) /\ cur \in Txn
        /\ cur' = cur /\ fate' = fate
    BY <1>0, <1>37, <2>0 DEF SyncStaged, book, work
  <2>2. /\ \A t \in Txn : txn'[t].now = txn[t].now /\ txn'[t].may \subseteq txn[t].may
        /\ \A m \in txn'[cur].may : m.journal = txn[cur].now.journal
    BY <1>0, <2>1 DEF TypeOK, FolderType, SyncTxn, Sync, Cells
  <2>3. \A t \in Txn : Journals(txn'[t]) \subseteq Journals(txn[t])
    BY <2>2 DEF Journals
  <2> QED BY <1>0, <2>1, <2>2, <2>3 DEF Ahead, ShownDurable, Undecided, Underway, NewUnwritten, Live, MustBeLive
<1>38. CASE CreateJournal
  <2>1. /\ pc = "journal" /\ pc' = "jwrite" /\ cur \in Txn /\ cur' = cur /\ fate' = fate
        /\ txn' = [txn EXCEPT ![cur] = WithJournal(@, "torn")]
    BY <1>0, <1>38 DEF CreateJournal, SetJournal, book, work
  <2>2. Keeps(txn[cur], WithJournal(txn[cur], "torn"))
    BY <1>0, <2>1, KeepsJournal
  <2>3. /\ WithJournal(txn[cur], "torn").now.dir = txn[cur].now.dir
        /\ WithJournal(txn[cur], "torn").now.journal = "torn"
    BY <1>0, <2>1 DEF WithJournal, Issue, Cells, TxnDir
  <2>4. /\ txn'[cur] = WithJournal(txn[cur], "torn")
        /\ \A t \in Txn : t # cur => txn'[t] = txn[t]
    BY <2>1 DEF TypeOK, FolderType
  <2> QED BY <1>0, <2>1, <2>2, <2>3, <2>4 DEF Keeps, Committing, Ahead, ShownDurable, Undecided, Underway, NewUnwritten, Live, MustBeLive
<1>39. CASE WriteJournal
  <2>1. /\ pc = "jwrite" /\ pc' = "jsync" /\ cur \in Txn /\ cur' = cur /\ fate' = fate
        /\ txn' = [txn EXCEPT ![cur] = WithJournal(@, "whole")]
    BY <1>0, <1>39 DEF WriteJournal, SetJournal, book, work
  <2>2. /\ WithJournal(txn[cur], "whole").now.dir = txn[cur].now.dir
        /\ WithJournal(txn[cur], "whole").now.journal = "whole"
    BY <1>0, <2>1 DEF WithJournal, Issue, Cells, TxnDir
  <2>3. /\ txn'[cur] = WithJournal(txn[cur], "whole")
        /\ \A t \in Txn : t # cur => txn'[t] = txn[t]
    BY <2>1 DEF TypeOK, FolderType
  <2>4. fate[cur] = "planned"
    BY <2>1 DEF Ahead, Undecided
  <2> QED BY <1>0, <2>1, <2>2, <2>3, <2>4 DEF Ahead, ShownDurable, Undecided, Underway, NewUnwritten, Live, MustBeLive
<1>40. CASE SyncJournalFile
  <2>0. ~Strikes("syncjournal")
    BY DEF JournalSpared, Strikes
  <2>1. /\ pc = "jsync" /\ pc' = "jdir" /\ cur \in Txn /\ cur' = cur /\ fate' = fate
        /\ txn' = [txn EXCEPT ![cur] = Sync(@, LAMBDA m : m.journal # "torn")]
    BY <1>0, <1>40, <2>0 DEF SyncJournalFile, book, work
  <2>2. /\ \A t \in Txn : txn'[t].now = txn[t].now /\ txn'[t].may \subseteq txn[t].may
        /\ \A m \in txn'[cur].may : m.journal # "torn"
    BY <1>0, <2>1 DEF TypeOK, FolderType, Sync, Cells
  <2>3. \A t \in Txn : Journals(txn'[t]) \subseteq Journals(txn[t])
    BY <2>2 DEF Journals
  <2> QED BY <1>0, <2>1, <2>2, <2>3 DEF Ahead, ShownDurable, Undecided, Underway, NewUnwritten, Live, MustBeLive
<1>41. CASE SyncJournalDir
  <2>0. ~Strikes("syncjournal")
    BY DEF JournalSpared, Strikes
  <2>1. /\ pc = "jdir" /\ pc' = "jtxns" /\ SyncTxn(cur) /\ cur \in Txn
        /\ cur' = cur /\ fate' = fate
    BY <1>0, <1>41, <2>0 DEF SyncJournalDir, book, work
  <2>2. /\ \A t \in Txn : txn'[t].now = txn[t].now /\ txn'[t].may \subseteq txn[t].may
        /\ \A m \in txn'[cur].may : m.journal = txn[cur].now.journal
    BY <1>0, <2>1 DEF TypeOK, FolderType, SyncTxn, Sync, Cells
  <2>3. \A t \in Txn : Journals(txn'[t]) \subseteq Journals(txn[t])
    BY <2>2 DEF Journals
  <2> QED BY <1>0, <2>1, <2>2, <2>3 DEF Ahead, ShownDurable, Undecided, Underway, NewUnwritten, Live, MustBeLive
<1>42. CASE SyncJournalAbove
  <2>0. ~Strikes("syncjournal")
    BY DEF JournalSpared, Strikes
  <2>1. /\ pc = "jtxns" /\ pc' = "apply" /\ SyncTransactions /\ cur \in Txn
        /\ cur' = cur /\ fate' = [fate EXCEPT ![cur] = "committed"]
    BY <1>0, <1>42, <2>0 DEF SyncJournalAbove
  <2>2. \A t \in Txn : /\ txn'[t].now = txn[t].now /\ txn'[t].may \subseteq txn[t].may
                       /\ \A m \in txn'[t].may : m.dir = txn[t].now.dir
    BY <1>0, <2>1 DEF SyncTransactions, Sync, Cells
  <2>3. \A t \in Txn : Journals(txn'[t]) \subseteq Journals(txn[t])
    BY <2>2 DEF Journals
  <2>4. \A m \in txn'[cur].may : Committing(m)
    BY <2>1, <2>2 DEF Committing, Ahead, Underway
  <2> QED BY <1>0, <2>1, <2>2, <2>3, <2>4 DEF Ahead, ShownDurable, Undecided, Underway, NewUnwritten, Live, MustBeLive
<1>43. CASE PowerLoss
  <2>1. pc' = "idle" /\ fate' = fate
    BY <1>43 DEF PowerLoss, Exit, book
  <2>2. PICK tt \in Choices(Txn, LAMBDA t : txn[t].may) :
          txn' = [t \in Txn |-> Durable(IF tt[t].dir THEN tt[t] ELSE Gone)]
    BY <1>43 DEF PowerLoss
  <2>3. \A t \in Txn : tt[t] \in txn[t].may
    BY <2>2 DEF Choices
  <2>4. \A t \in Txn : Journals(txn'[t]) \subseteq Journals(txn[t]) \cup {"none"}
    BY <2>2, <2>3 DEF Journals, Durable, Gone
  <2>5. \A t \in Txn : txn'[t].may = {txn'[t].now}
    BY <2>2 DEF Durable
  <2> QED BY <2>1, <2>4, <2>5 DEF Ahead, ShownDurable, Undecided, Underway, NewUnwritten, Live, MustBeLive
<1>44. CASE \E p \in Target : Edit(p)
  <2>1. PICK p \in Target : Edit(p)
    BY <1>44
  <2> QED BY <2>1 DEF Edit, book, work, Journals, Ahead, ShownDurable, Undecided, Underway, NewUnwritten, Live, MustBeLive
<1>45. CASE UNCHANGED vars
  BY <1>45 DEF vars, folder, book, work, Journals, Ahead, ShownDurable, Undecided, Underway, NewUnwritten, Live, MustBeLive
<1> QED
  BY <1>1, <1>2, <1>3, <1>4, <1>5, <1>6, <1>7, <1>8, <1>9, <1>10, <1>11, <1>12, <1>13,
     <1>14, <1>15, <1>16, <1>17, <1>18, <1>19, <1>20, <1>21, <1>22, <1>23, <1>24, <1>25,
     <1>26, <1>27, <1>28, <1>29, <1>30, <1>31, <1>32, <1>33, <1>34, <1>35, <1>36, <1>37,
     <1>38, <1>39, <1>40, <1>41, <1>42, <1>43, <1>44, <1>45
     DEF Next, Step, Recovery, Commit, Apply, Finish, Lost, Refused

LEMMA AheadAlways ==
  ASSUME JournalSpared
  PROVE  Spec => [](TypeOK /\ Ahead)
<1>1. Init => Ahead
  BY DEF Init, Ahead, ShownDurable, Undecided, Underway, NewUnwritten, Live, Committing,
         Durable, Gone, Journals, Early, Window
<1>2. TypeOK /\ Ahead /\ [Next]_vars => Ahead'
  BY AheadStep
<1> QED BY <1>1, <1>2, Typed, PTL DEF Spec

\* As long as no failure strikes while the journal is being synced, a decided
\* change whose journal is still there can be finished after any power loss.
THEOREM Journaled ==
  ASSUME JournalSpared
  PROVE  Spec => []WriteAhead
<1>1. Ahead => WriteAhead
  BY DEF Ahead, ShownDurable, Undecided, WriteAhead
<1> QED BY <1>1, AheadAlways, PTL

-----------------------------------------------------------------------------
(* What callers are told                                                   *)

\* A change before its commit point, in place, and being taken away.
Making == Early \cup Window \cup {"retract", "unlinked"}
Applying == {"ancestors", "apply", "place", "parent", "rewrite", "sync", "mark",
             "publish", "retire", "published", "finish"}
Removing == {"discard", "rmdir", "removed"}

\* No disk holds a whole journal of t, in its directory or out of it.
Unwritten(t) == "whole" \notin Journals(txn[t])

\* Whether a directory is there, in the cache or on some disk.
Dirs(c) == {m.dir : m \in c.may \cup {c.now}}

\* Nothing recovery would find of t can be finished.
Settled(t) == ~txn[t].now.dir \/ Unwritten(t)

\* The journal of t is there, in the cache and on every disk.
Lives(c) == Committing(c.now) /\ \A m \in c.may : Committing(m)

\* The head of t is published, in the cache and on every disk.
Published(t) == \A h \in hist.may \cup {hist.now} : t \in h.heads

Superseded(t) == \E u \in Txn : t < u /\ fate[u] = "committed"

\* Changes are begun one after another, and one not begun has left nothing.
InTurn ==
  /\ \A s, t \in Txn : s < t /\ fate[t] # "new" => fate[s] # "new"
  /\ \A t \in Txn : fate[t] = "new" => told[t] = "none" /\ Unwritten(t) /\ TRUE \notin Dirs(txn[t])
  /\ pc \in Making => \A s \in Txn : cur < s => fate[s] = "new"

\* What the process is at says how far its change has come.
Stages ==
  /\ pc \in {"idle", "scan", "ready"} => cur = 0
  /\ pc \in Making => fate[cur] = "planned" /\ told[cur] = "none" /\ ~recovering
  /\ pc \in Applying => fate[cur] = "committed"
  /\ pc \in Removing => fate[cur] # "new"
  /\ ~recovering => scan = {} /\ ~blocked
  /\ \A t \in scan : fate[t] # "new"
  /\ pc = "scan" => recovering
  /\ pc = "ready" => ~recovering

\* How much of the journal is there, and on the disk.
Progress ==
  /\ pc \in Early => Unwritten(cur)
  /\ pc \in (Early \cup Window) \ {"preflight"} => txn[cur].now.dir
  /\ pc \in Window => txn[cur].now.journal = "whole"
  /\ pc \in {"jdir", "jtxns"} => \A m \in txn[cur].may : m.journal # "torn"
  /\ pc = "jtxns" => \A m \in txn[cur].may : m.journal = "whole"
  /\ pc = "unlinked" => txn[cur].now.journal = "none"
  /\ pc \in Removing /\ ~recovering /\ fate[cur] # "committed" => Unwritten(cur)
  /\ pc = "removed" => ~txn[cur].now.dir

\* A process that is past a transaction has left nothing of it to find, or is
\* blocked by it.
Cleared ==
  pc # "idle" /\ ~blocked => \A t \in Txn : t \in scan \/ t = cur \/ Settled(t)

\* Before a journal is removed its change's head is published for good.
Publishing ==
  /\ pc \in {"retire", "published"} => cur \in hist.now.heads
  /\ pc = "published" => HistDir \in touched \/ Published(cur)
  /\ pc = "finish" => Published(cur)

\* Heads are of decided changes, and a change retires older ones only.
HeadsDecided ==
  /\ \A h \in hist.may \cup {hist.now} : \A t \in h.heads : t = Base \/ fate[t] = "committed"
  /\ \A t \in Txn : fate[t] # "new" => \A h \in Retired(t) : h < t

\* What keeps a decided change: its journal, its head, or a later change.
Safe(t) == \/ Lives(txn[t]) /\ ~(pc \in Removing /\ cur = t)
           \/ Published(t)
           \/ Superseded(t)
Promised == \A t \in Txn : Decided(t) => fate[t] = "committed" /\ Safe(t)

Withdrawn == \A t \in Txn : told[t] = "refused" => Unwritten(t)

\* The whole: what a step preserves.
Ledger == /\ InTurn /\ Stages /\ Progress /\ Cleared
          /\ Publishing /\ HeadsDecided /\ Promised /\ Withdrawn /\ OneJournal

-----------------------------------------------------------------------------
(* What the operations do to a transaction directory                       *)

\* The cell d holds nothing that could be found or finished and c did not.
Wanes(c, d) ==
  /\ TRUE \in Dirs(d) => TRUE \in Dirs(c)
  /\ "whole" \in Journals(d) => "whole" \in Journals(c)
  /\ (\E m \in d.may : Committing(m)) => \E m \in c.may : Committing(m)

\* What is for good in c is in d.
Lasts(c, d) == Lives(c) => Lives(d)

LEMMA Unmoved ==
  ASSUME NEW c
  PROVE  Wanes(c, c) /\ Lasts(c, c)
BY DEF Wanes, Lasts

LEMMA Synced ==
  ASSUME NEW c, NEW d, d.now = c.now, d.may \subseteq c.may
  PROVE  Wanes(c, d) /\ Lasts(c, d)
BY DEF Wanes, Lasts, Lives, Journals, Dirs

LEMMA Marked ==
  ASSUME NEW c \in Cells(TxnDir), NEW b \in BOOLEAN
  PROVE  /\ Wanes(c, WithMarker(c, b)) /\ Lasts(c, WithMarker(c, b))
         /\ WithMarker(c, b).now.dir = c.now.dir
         /\ WithMarker(c, b).now.journal = c.now.journal
<1> DEFINE d == WithMarker(c, b)
           New(m) == [m EXCEPT !.marker = b]
<1>1. \A m \in TxnDir : New(m).journal = m.journal /\ New(m).dir = m.dir
  BY DEF TxnDir
<1>2. c.now \in TxnDir /\ c.may \subseteq TxnDir
  BY DEF Cells
<1>3. d.now = New(c.now)
  BY DEF WithMarker, Issue
<1>4. \A m \in d.may : m \in c.may \/ \E n \in c.may : m = New(n)
  BY DEF WithMarker, Issue
<1> HIDE DEF d, New
<1>5. d.now.dir = c.now.dir /\ d.now.journal = c.now.journal
  BY <1>1, <1>2, <1>3
<1>6. \A m \in d.may : \E n \in c.may : m.journal = n.journal /\ m.dir = n.dir
  BY <1>1, <1>2, <1>4
<1>7. Wanes(c, d) /\ Lasts(c, d)
  BY <1>5, <1>6 DEF Wanes, Lasts, Lives, Journals, Dirs, Committing
<1> QED BY <1>5, <1>7 DEF d

LEMMA Journalled ==
  ASSUME NEW c \in Cells(TxnDir), NEW j \in {"none", "torn", "whole"}
  PROVE  /\ j # "whole" => Wanes(c, WithJournal(c, j))
         /\ WithJournal(c, j).now.dir = c.now.dir
         /\ WithJournal(c, j).now.journal = j
<1> DEFINE d == WithJournal(c, j)
           New(m) == [m EXCEPT !.journal = j]
<1>1. \A m \in TxnDir : New(m).journal = j /\ New(m).dir = m.dir
  BY DEF TxnDir
<1>2. c.now \in TxnDir /\ c.may \subseteq TxnDir
  BY DEF Cells
<1>3. d.now = New(c.now)
  BY DEF WithJournal, Issue
<1>4. \A m \in d.may : m \in c.may \/ \E n \in c.may : m = New(n)
  BY DEF WithJournal, Issue
<1> HIDE DEF d, New
<1>5. d.now.dir = c.now.dir /\ d.now.journal = j
  BY <1>1, <1>2, <1>3
<1>6. \A m \in d.may : \/ m \in c.may
                       \/ m.journal = j /\ \E n \in c.may : m.dir = n.dir
  BY <1>1, <1>2, <1>4
<1>7. j # "whole" => Wanes(c, d)
  BY <1>5, <1>6 DEF Wanes, Journals, Dirs, Committing
<1> QED BY <1>5, <1>7 DEF d

LEMMA Housed ==
  ASSUME NEW c \in Cells(TxnDir), NEW b \in BOOLEAN
  PROVE  /\ b /\ "whole" \notin Journals(c) => "whole" \notin Journals(WithDir(c, b))
         /\ ~b => Wanes(c, WithDir(c, b))
         /\ WithDir(c, b).now.dir = b
         /\ WithDir(c, b).now.journal = c.now.journal
<1> DEFINE d == WithDir(c, b)
           New(m) == [m EXCEPT !.dir = b]
<1>1. \A m \in TxnDir : New(m).journal = m.journal /\ New(m).dir = b
  BY DEF TxnDir
<1>2. c.now \in TxnDir /\ c.may \subseteq TxnDir
  BY DEF Cells
<1>3. d.now = New(c.now)
  BY DEF WithDir, Issue
<1>4. \A m \in d.may : m \in c.may \/ \E n \in c.may : m = New(n)
  BY DEF WithDir, Issue
<1> HIDE DEF d, New
<1>5. d.now.dir = b /\ d.now.journal = c.now.journal
  BY <1>1, <1>2, <1>3
<1>6. \A m \in d.may : m \in c.may \/ (m.dir = b /\ \E n \in c.may : m.journal = n.journal)
  BY <1>1, <1>2, <1>4
<1>7. "whole" \in Journals(d) => "whole" \in Journals(c)
  BY <1>5, <1>6 DEF Journals
<1>8. ~b => Wanes(c, d)
  BY <1>5, <1>6, <1>7 DEF Wanes, Dirs, Committing
<1> QED BY <1>5, <1>7, <1>8 DEF d

-----------------------------------------------------------------------------
(* Steps alike                                                             *)

\* A step that goes on with the work on a decided change, before its head is
\* published.
LEMMA GoesOn ==
  ASSUME TypeOK, Ledger,
         pc \in Applying \ {"retire", "published", "finish"},
         pc' \in Applying \ {"retire", "published", "finish"},
         UNCHANGED <<txn, plan, fate, told, recovering, scan, blocked, cur>>,
         hist'.now = hist.now, hist'.may \subseteq hist.may
  PROVE  Ledger'
<1> USE DEF Ledger, Early, Window, Making, Applying, Removing
<1>1. InTurn' /\ Stages' /\ Progress' /\ Cleared' /\ Publishing'
  BY DEF InTurn, Stages, Progress, Cleared, Publishing, Settled, Unwritten
<1>2. HeadsDecided'
  BY DEF HeadsDecided, Retired
<1>3. \A t \in Txn : Decided(t)' => Decided(t)
  BY DEF Decided
<1>4. Promised'
  BY <1>3 DEF Promised, Safe, Published, Superseded
<1>5. Withdrawn' /\ OneJournal'
  BY <1>3 DEF Withdrawn, Unwritten, OneJournal, MayBeLive
<1> QED BY <1>1, <1>2, <1>4, <1>5

\* A step with which the process is gone, or tells its caller that a decided
\* change is pending, or that it does not know.
LEMMA Leaves ==
  ASSUME TypeOK, Ledger, Exit, UNCHANGED <<hist, plan, fate>>,
         \A t \in Txn : Wanes(txn[t], txn'[t]) /\ Lasts(txn[t], txn'[t]),
         \/ UNCHANGED told
         \/ cur \in Txn /\ fate[cur] = "committed" /\ ~recovering
              /\ told' = [told EXCEPT ![cur] = "pending"]
         \/ cur \in Txn /\ fate[cur] # "new" /\ told' = [told EXCEPT ![cur] = "unknown"]
  PROVE  Ledger'
<1> USE DEF Ledger, Early, Window, Making, Applying, Removing, Exit, Rest, Goto
<1>0. \A t \in Txn : told'[t] = told[t] \/ (t = cur /\ fate[t] # "new" /\ told'[t] = "unknown")
                     \/ (Decided(t) /\ told'[t] = "pending")
  BY DEF Decided, TypeOK, BookType
<1>1. InTurn'
  BY <1>0 DEF InTurn, Unwritten, Wanes, Decided, Promised
<1>2. Stages' /\ Progress' /\ Cleared' /\ Publishing'
  BY DEF Stages, Progress, Cleared, Publishing
<1>3. HeadsDecided'
  BY DEF HeadsDecided, Retired
<1>4. \A t \in Txn : Decided(t)' => Decided(t)
  BY <1>0 DEF Decided, Txn
<1>5. Promised'
  BY <1>4 DEF Promised, Safe, Published, Superseded, Lasts
<1>6. Withdrawn' /\ OneJournal'
  BY <1>0, <1>4 DEF Withdrawn, Unwritten, OneJournal, MayBeLive, Wanes
<1> QED BY <1>1, <1>2, <1>3, <1>5, <1>6

\* A step with which recovery leaves a change unfinished and goes on.
LEMMA PassesOver ==
  ASSUME TypeOK, Ledger, recovering, pc' = "scan", Rest, blocked' = TRUE,
         UNCHANGED <<hist, plan, fate, told, recovering, scan>>,
         \A t \in Txn : Wanes(txn[t], txn'[t]) /\ Lasts(txn[t], txn'[t])
  PROVE  Ledger'
<1> USE DEF Ledger, Early, Window, Making, Applying, Removing, Rest
<1>1. InTurn'
  BY DEF InTurn, Unwritten, Wanes
<1>2. Stages' /\ Progress' /\ Cleared' /\ Publishing'
  BY DEF Stages, Progress, Cleared, Publishing
<1>3. HeadsDecided'
  BY DEF HeadsDecided, Retired
<1>4. \A t \in Txn : Decided(t)' => Decided(t)
  BY DEF Decided, Txn
<1>5. Promised'
  BY <1>4 DEF Promised, Safe, Published, Superseded, Lasts
<1>6. Withdrawn' /\ OneJournal'
  BY <1>4 DEF Withdrawn, Unwritten, OneJournal, MayBeLive, Wanes
<1> QED BY <1>1, <1>2, <1>3, <1>5, <1>6

\* A step of the process at work on a decided change that leaves or passes over it.
LEMMA Suspended ==
  ASSUME TypeOK, Ledger, pc \in Applying, Suspend, UNCHANGED <<hist, plan, fate>>,
         \A t \in Txn : Wanes(txn[t], txn'[t]) /\ Lasts(txn[t], txn'[t])
  PROVE  Ledger'
<1>1. cur \in Txn /\ fate[cur] = "committed"
  BY DEF TypeOK, ProcessType, Ledger, Stages, Applying
<1>2. CASE recovering
  BY <1>2, PassesOver DEF Suspend, Goto
<1>3. CASE ~recovering
  BY <1>1, <1>3, Leaves DEF Suspend, Report
<1> QED BY <1>2, <1>3

LEMMA Halted ==
  ASSUME TypeOK, Ledger, cur \in Txn, recovering \/ fate[cur] = "committed", Halt,
         UNCHANGED <<hist, plan, fate>>,
         \A t \in Txn : Wanes(txn[t], txn'[t]) /\ Lasts(txn[t], txn'[t])
  PROVE  Ledger'
<1>1. CASE recovering
  BY <1>1, Leaves DEF Halt
<1>2. CASE ~recovering
  BY <1>2, Leaves DEF Halt, Report
<1> QED BY <1>1, <1>2

-----------------------------------------------------------------------------
(* The steps                                                               *)

\* Every directory as it was.
LEMMA AsItWas ==
  ASSUME UNCHANGED txn
  PROVE  \A t \in Txn : Wanes(txn[t], txn'[t]) /\ Lasts(txn[t], txn'[t])
BY Unmoved

\* A change is begun after all the others, and retires the heads there are.
LEMMA PlanOpened ==
  ASSUME TypeOK, Ledger, Plan
  PROVE  Ledger'
<1> USE DEF Ledger, Goto, folder, sweep
<1>1. PICK t \in Txn :
        /\ fate[t] = "new" /\ \A u \in 1..(t - 1) : fate[u] # "new"
        /\ cur' = t /\ fate' = [fate EXCEPT ![t] = "planned"]
        /\ \E d, gone : plan' = [plan EXCEPT ![t] =
                          [change |-> d, retire |-> hist.now.heads, prune |-> gone]]
  BY DEF Plan
<1>2. /\ pc = "ready" /\ pc' = "preflight" /\ cur = 0
      /\ UNCHANGED <<txn, hist, told, recovering, scan, blocked>>
  BY DEF Plan, Stages
<1>3. \A s \in Txn : fate[s] # "new" => s < t
  <2> SUFFICES ASSUME NEW s \in Txn, fate[s] # "new" PROVE s < t
    OBVIOUS
  <2>1. ~(t < s)
    BY <1>1 DEF InTurn
  <2>2. t # s
    BY <1>1
  <2> QED BY <2>1, <2>2, NAssumption DEF Txn
<1>4. \A s \in Txn : s < t => fate[s] # "new"
  BY <1>1, NAssumption DEF Txn
<1>5. /\ \A s \in Txn : fate'[s] = IF s = t THEN "planned" ELSE fate[s]
      /\ \A s \in Txn : s # t => Retired(s)' = Retired(s)
      /\ Retired(t)' = hist.now.heads
  BY <1>1 DEF TypeOK, BookType, Retired
<1>6. InTurn'
  BY <1>1, <1>2, <1>3, <1>4, <1>5, NAssumption
     DEF InTurn, Unwritten, Making, Early, Window, Txn
<1>7. ~recovering
  BY <1>2 DEF Stages
<1>8. Stages' /\ Progress' /\ Publishing'
  BY <1>1, <1>2, <1>5, <1>7 DEF Stages, Progress, Publishing, Making, Early, Window,
     Applying, Removing, InTurn, Unwritten
<1>9. Cleared'
  BY <1>1, <1>2, <1>7 DEF Cleared, Settled, Unwritten, Stages, Txn
<1>10. \A h \in hist.now.heads : h < t
  BY <1>3, NAssumption DEF HeadsDecided, TypeOK, FolderType, Cells, Hist, Revision, Base, Txn
<1>11. HeadsDecided'
  BY <1>1, <1>2, <1>5, <1>10 DEF HeadsDecided, TypeOK, FolderType, Cells, Hist, Revision
<1>12. \A s \in Txn : Decided(s)' => Decided(s)
  BY <1>1, <1>2, <1>5 DEF Decided
<1>13. Promised' /\ Withdrawn' /\ OneJournal'
  BY <1>1, <1>2, <1>5, <1>12 DEF Promised, Safe, Published, Superseded, Withdrawn, Unwritten,
     OneJournal, MayBeLive, Stages, Removing
<1> QED BY <1>6, <1>8, <1>9, <1>11, <1>13

\* A change that recovery finds whole is decided from now on, if it was not.
LEMMA TakenUp ==
  ASSUME TypeOK, Ledger, RecoverCommitted
  PROVE  Ledger'
<1> USE DEF Ledger, Goto, folder
<1>1. PICK t \in scan : /\ txn[t].now.journal = "whole"
                        /\ cur' = t /\ scan' = scan \ {t}
                        /\ fate' = [fate EXCEPT ![t] = "committed"]
  BY FirstIn DEF RecoverCommitted, TakeUp, TypeOK, ProcessType
<1>2. /\ pc = "scan" /\ pc' = "ancestors" /\ cur = 0 /\ recovering
      /\ UNCHANGED <<txn, hist, plan, told, recovering, blocked>>
  BY DEF RecoverCommitted, TakeUp, Stages
<1>3. t \in Txn /\ fate[t] # "new"
  BY <1>1 DEF TypeOK, ProcessType, InTurn, Unwritten, Journals
<1>4. \A s \in Txn : /\ fate'[s] = IF s = t THEN "committed" ELSE fate[s]
                     /\ Retired(s)' = Retired(s)
  BY <1>1, <1>2, <1>3 DEF TypeOK, BookType, Retired
<1>5. InTurn'
  BY <1>2, <1>3, <1>4 DEF InTurn, Unwritten, Making, Early, Window
<1>6. Stages' /\ Progress' /\ Publishing'
  BY <1>1, <1>2, <1>3, <1>4 DEF Stages, Progress, Publishing, Making, Early, Window,
     Applying, Removing
<1>7. Cleared'
  BY <1>1, <1>2 DEF Cleared, Settled, Unwritten, Txn
<1>8. HeadsDecided'
  BY <1>2, <1>3, <1>4 DEF HeadsDecided, TypeOK, FolderType, Cells, Hist, Revision
<1>9. \A s \in Txn : Decided(s)' => Decided(s)
  BY <1>2 DEF Decided
<1>10. Promised'
  BY <1>2, <1>4, <1>9 DEF Promised, Safe, Published, Superseded, Removing
<1>11. Withdrawn' /\ OneJournal'
  BY <1>2, <1>9 DEF Withdrawn, Unwritten, OneJournal, MayBeLive
<1> QED BY <1>5, <1>6, <1>7, <1>8, <1>10, <1>11

\* One that it does not is taken away: its journal is not there for good.
LEMMA TakenAway ==
  ASSUME TypeOK, Ledger, RecoverDiscard
  PROVE  Ledger'
<1> USE DEF Ledger, Goto, folder, book
<1>1. PICK t \in scan : txn[t].now.journal # "whole" /\ cur' = t /\ scan' = scan \ {t}
  BY FirstIn DEF RecoverDiscard, TypeOK, ProcessType
<1>2. /\ pc = "scan" /\ pc' = "discard" /\ cur = 0 /\ recovering
      /\ UNCHANGED <<txn, hist, plan, fate, told, recovering, blocked>>
  BY DEF RecoverDiscard, Stages
<1>3. t \in Txn /\ fate[t] # "new" /\ ~Lives(txn[t])
  BY <1>1 DEF TypeOK, ProcessType, Stages, Lives, Committing
<1>4. InTurn' /\ Stages' /\ Progress' /\ Publishing'
  BY <1>1, <1>2, <1>3 DEF InTurn, Stages, Progress, Publishing, Unwritten, Making, Early,
     Window, Applying, Removing
<1>5. Cleared'
  BY <1>1, <1>2 DEF Cleared, Settled, Unwritten, Txn
<1>6. HeadsDecided'
  BY <1>2 DEF HeadsDecided, Retired
<1>7. \A s \in Txn : Decided(s)' => Decided(s)
  BY <1>2 DEF Decided
<1>8. Promised'
  BY <1>1, <1>2, <1>3, <1>7 DEF Promised, Safe, Published, Superseded
<1>9. Withdrawn' /\ OneJournal'
  BY <1>2, <1>7 DEF Withdrawn, Unwritten, OneJournal, MayBeLive
<1> QED BY <1>4, <1>5, <1>6, <1>8, <1>9

\* The process looks at what is there, and goes on when all of it is settled.
LEMMA Opened ==
  ASSUME TypeOK, Ledger, Open
  PROVE  Ledger'
<1> USE DEF Ledger, Goto, Open, folder, book, work
<1>1. InTurn' /\ Stages' /\ Progress' /\ Publishing'
  <2>1. \A t \in Txn : txn[t].now.dir => fate[t] # "new"
    <3> SUFFICES ASSUME NEW t \in Txn, txn[t].now.dir, fate[t] = "new" PROVE FALSE
      OBVIOUS
    <3>1. txn[t].now.dir = TRUE
      BY DEF TypeOK, FolderType, Cells, TxnDir
    <3> QED BY <3>1 DEF InTurn, Dirs
  <2> QED BY <2>1 DEF InTurn, Stages, Progress, Publishing, Unwritten, Making, Early, Window,
             Applying, Removing
<1>2. Cleared'
  BY DEF Cleared, Settled
<1>3. HeadsDecided'
  BY DEF HeadsDecided, Retired
<1>4. \A s \in Txn : Decided(s)' => Decided(s)
  BY DEF Decided, Stages
<1>5. Promised' /\ Withdrawn' /\ OneJournal'
  BY <1>4 DEF Promised, Safe, Published, Superseded, Removing, Withdrawn, Unwritten,
     OneJournal, MayBeLive
<1> QED BY <1>1, <1>2, <1>3, <1>5

LEMMA Ended ==
  ASSUME TypeOK, Ledger, RecoverEnd
  PROVE  Ledger'
<1> USE DEF Ledger, Goto, RecoverEnd, folder, book
<1>1. CASE blocked
  BY <1>1, AsItWas, Leaves
<1>2. CASE ~blocked
  <2> USE <1>2 DEF work
  <2>1. InTurn' /\ Stages' /\ Progress' /\ Publishing' /\ Cleared'
    BY DEF InTurn, Stages, Progress, Publishing, Cleared, Settled, Unwritten, Making, Early,
       Window, Applying, Removing
  <2>2. HeadsDecided'
    BY DEF HeadsDecided, Retired
  <2>3. \A s \in Txn : Decided(s)' => Decided(s)
    BY DEF Decided, Stages, Txn
  <2>4. Promised' /\ Withdrawn' /\ OneJournal'
    BY <2>3 DEF Promised, Safe, Published, Superseded, Removing, Withdrawn, Unwritten,
       OneJournal, MayBeLive
  <2> QED BY <2>1, <2>2, <2>4
<1> QED BY <1>1, <1>2

\* The caller of a change that is not decided is told that it was refused.
LEMMA Declined ==
  ASSUME TypeOK, Ledger, PreflightRefuses
  PROVE  Ledger'
<1> USE DEF Ledger, Goto, Rest, folder, sweep, Early, Making
<1>1. /\ pc = "preflight" /\ pc' = "ready" /\ cur \in Txn /\ cur' = 0 /\ fate[cur] = "planned"
      /\ ~recovering /\ Unwritten(cur)
      /\ \A t \in Txn : /\ fate'[t] = IF t = cur THEN "refused" ELSE fate[t]
                        /\ told'[t] = IF t = cur THEN "refused" ELSE told[t]
      /\ UNCHANGED <<txn, hist, plan, recovering, scan, blocked>>
  BY DEF PreflightRefuses, TypeOK, BookType, ProcessType, Stages, Progress
<1>2. InTurn' /\ Stages' /\ Progress' /\ Publishing' /\ Cleared'
  BY <1>1 DEF InTurn, Stages, Progress, Publishing, Cleared, Settled, Unwritten, Window,
     Applying, Removing
<1>3. HeadsDecided'
  BY <1>1 DEF HeadsDecided, Retired, TypeOK, FolderType, Cells, Hist, Revision
<1>4. \A s \in Txn : Decided(s)' => Decided(s)
  BY <1>1 DEF Decided, Txn
<1>5. Promised' /\ Withdrawn' /\ OneJournal'
  BY <1>1, <1>4 DEF Promised, Safe, Published, Superseded, Removing, Withdrawn, Unwritten,
     OneJournal, MayBeLive
<1> QED BY <1>2, <1>3, <1>5

-----------------------------------------------------------------------------
(* Writing the journal                                                     *)

\* The heads of d are heads of c.
HeadsOf(c, d) ==
  \A h \in d.may \cup {d.now} : \E g \in c.may \cup {c.now} : h.heads = g.heads

\* A step of a change not decided yet touches its own directory only.
LEMMA WritesOn ==
  ASSUME TypeOK, Ledger, pc \in Making, pc' \in Making \cup {"discard"},
         UNCHANGED <<plan, fate, told, recovering, scan, blocked, cur>>,
         HeadsOf(hist, hist'),
         \A t \in Txn : t # cur =>
           /\ Wanes(txn[t], txn'[t]) /\ Lasts(txn[t], txn'[t])
           /\ txn'[t].now.dir = txn[t].now.dir,
         Progress'
  PROVE  Ledger'
<1> USE DEF Ledger, Early, Window, Making, Applying, Removing
<1>1. cur \in Txn /\ fate[cur] = "planned" /\ told[cur] = "none" /\ ~recovering
  BY DEF TypeOK, ProcessType, Stages
<1>2. InTurn'
  BY <1>1 DEF InTurn, Unwritten, Wanes
<1>3. Stages' /\ Publishing'
  BY <1>1 DEF Stages, Publishing
<1>4. Cleared'
  BY <1>1 DEF Cleared, Settled, Unwritten, Wanes
<1>5. HeadsDecided'
  BY DEF HeadsDecided, HeadsOf, Retired
<1>6. \A s \in Txn : Decided(s)' => Decided(s) /\ s # cur /\ ~(cur < s)
  BY <1>1 DEF Decided, InTurn
<1>7. Promised'
  BY <1>1, <1>6 DEF Promised, Safe, Published, HeadsOf, Superseded, Lasts
<1>8. Withdrawn'
  BY <1>1 DEF Withdrawn, Unwritten, Wanes
<1>9. OneJournal'
  <2> SUFFICES ASSUME NEW t \in Txn, NEW u \in Txn, t < u, Decided(u)'
               PROVE  ~MayBeLive(t)'
    BY DEF OneJournal
  <2>1. Decided(u) /\ t # cur
    BY <1>1, <1>6, NAssumption DEF Txn
  <2> QED BY <2>1 DEF OneJournal, MayBeLive, Wanes
<1> QED BY <1>2, <1>3, <1>4, <1>5, <1>7, <1>8, <1>9

\* A sync of the transaction's directory fixes the names in it.
LEMMA TxnSynced ==
  ASSUME TypeOK, cur \in Txn, SyncTxn(cur)
  PROVE  /\ HeadsOf(hist, hist')
         /\ \A t \in Txn : txn'[t].now = txn[t].now /\ txn'[t].may \subseteq txn[t].may
         /\ \A m \in txn'[cur].may : m.journal = txn[cur].now.journal
BY DEF TypeOK, FolderType, SyncTxn, Sync, Cells, HeadsOf

\* No head moves when one is staged or unstaged.
LEMMA HeadStaged ==
  ASSUME TypeOK, NEW t, NEW there \in BOOLEAN, StageHead(t, there)
  PROVE  HeadsOf(hist, hist')
<1> DEFINE New(m) == [m EXCEPT !.staged = IF there THEN @ \cup {t} ELSE @ \ {t}]
<1>1. \A m \in Hist : New(m).heads = m.heads
  BY DEF Hist
<1>2. hist'.now = New(hist.now) /\ \A m \in hist'.may : m \in hist.may \/ \E n \in hist.may : m = New(n)
  BY DEF StageHead, Issue
<1>3. hist.now \in Hist /\ hist.may \subseteq Hist
  BY DEF TypeOK, FolderType, Cells
<1> HIDE DEF New
<1> QED BY <1>1, <1>2, <1>3 DEF HeadsOf

LEMMA Staged ==
  ASSUME TypeOK, Ledger, Stage
  PROVE  Ledger'
<1> USE DEF Ledger, Goto, book, sweep, work
<1>1. /\ pc = "preflight" /\ pc' = "staged" /\ cur \in Txn
      /\ UNCHANGED <<plan, fate, told, recovering, scan, blocked, cur>>
  BY DEF Stage, TypeOK, ProcessType
<1>2. /\ txn'[cur] = WithDir(txn[cur], TRUE)
      /\ \A t \in Txn : t # cur => txn'[t] = txn[t]
      /\ txn[cur] \in Cells(TxnDir)
  BY <1>1 DEF Stage, SetDir, TypeOK, FolderType
<1>3. HeadsOf(hist, hist')
  BY HeadStaged DEF Stage
<1>4. Progress'
  BY <1>1, <1>2, Housed DEF Progress, Unwritten, Early, Window, Removing
<1> QED BY <1>1, <1>2, <1>3, <1>4, Unmoved, WritesOn DEF Making, Early

LEMMA StagedSynced ==
  ASSUME TypeOK, Ledger, SyncStaged
  PROVE  Ledger'
<1> USE DEF Ledger, Goto, book, sweep, work
<1>1. /\ pc = "staged" /\ cur \in Txn
      /\ UNCHANGED <<plan, fate, told, recovering, scan, blocked, cur>>
      /\ \/ SyncTxn(cur) /\ pc' = "journal"
         \/ UNCHANGED <<hist, txn>> /\ pc' = "discard"
  BY DEF SyncStaged, TypeOK, ProcessType
<1>2. /\ HeadsOf(hist, hist')
      /\ \A t \in Txn : txn'[t].now = txn[t].now /\ txn'[t].may \subseteq txn[t].may
  BY <1>1, TxnSynced DEF HeadsOf
<1>3. Progress'
  BY <1>1, <1>2 DEF Progress, Unwritten, Journals, Early, Window, Removing
<1> QED BY <1>1, <1>2, <1>3, Synced, WritesOn DEF Making, Early

LEMMA JournalCreated ==
  ASSUME TypeOK, Ledger, CreateJournal
  PROVE  Ledger'
<1> USE DEF Ledger, Goto, book, sweep, work
<1>1. /\ pc = "journal" /\ pc' = "jwrite" /\ cur \in Txn
      /\ UNCHANGED <<hist, plan, fate, told, recovering, scan, blocked, cur>>
  BY DEF CreateJournal, TypeOK, ProcessType
<1>2. /\ txn'[cur] = WithJournal(txn[cur], "torn")
      /\ \A t \in Txn : t # cur => txn'[t] = txn[t]
      /\ txn[cur] \in Cells(TxnDir)
  BY <1>1 DEF CreateJournal, SetJournal, TypeOK, FolderType
<1>3. /\ Wanes(txn[cur], txn'[cur]) /\ txn'[cur].now.dir = txn[cur].now.dir
      /\ txn'[cur].now.journal = "torn"
  BY <1>2, Journalled
<1>4. Progress'
  BY <1>1, <1>3 DEF Progress, Unwritten, Wanes, Early, Window, Removing
<1>5. HeadsOf(hist, hist')
  BY <1>1 DEF HeadsOf
<1> QED BY <1>1, <1>2, <1>4, <1>5, Unmoved, WritesOn DEF Making, Early

LEMMA JournalWritten ==
  ASSUME TypeOK, Ledger, WriteJournal
  PROVE  Ledger'
<1> USE DEF Ledger, Goto, book, sweep, work
<1>1. /\ pc = "jwrite" /\ pc' = "jsync" /\ cur \in Txn
      /\ UNCHANGED <<hist, plan, fate, told, recovering, scan, blocked, cur>>
  BY DEF WriteJournal, TypeOK, ProcessType
<1>2. /\ txn'[cur] = WithJournal(txn[cur], "whole")
      /\ \A t \in Txn : t # cur => txn'[t] = txn[t]
      /\ txn[cur] \in Cells(TxnDir)
  BY <1>1 DEF WriteJournal, SetJournal, TypeOK, FolderType
<1>3. Progress'
  BY <1>1, <1>2, Journalled DEF Progress, Early, Window, Removing
<1>4. HeadsOf(hist, hist')
  BY <1>1 DEF HeadsOf
<1> QED BY <1>1, <1>2, <1>3, <1>4, Unmoved, WritesOn DEF Making, Early, Window

LEMMA JournalFileSynced ==
  ASSUME TypeOK, Ledger, SyncJournalFile
  PROVE  Ledger'
<1> USE DEF Ledger, Goto, book, sweep, work
<1>1. /\ pc = "jsync" /\ pc' \in {"jdir", "retract"} /\ cur \in Txn
      /\ UNCHANGED <<hist, plan, fate, told, recovering, scan, blocked, cur>>
      /\ \A t \in Txn : t # cur => txn'[t] = txn[t]
  BY DEF SyncJournalFile, TypeOK, ProcessType, FolderType
<1>2. ASSUME pc' = "jdir"
      PROVE  /\ txn'[cur].now = txn[cur].now
             /\ \A m \in txn'[cur].may : m.journal # "torn"
  BY <1>1, <1>2 DEF SyncJournalFile, Sync, TypeOK, FolderType, Cells
<1>3. Progress'
  BY <1>1, <1>2 DEF Progress, Early, Window, Removing
<1>4. HeadsOf(hist, hist')
  BY <1>1 DEF HeadsOf
<1> QED BY <1>1, <1>3, <1>4, Unmoved, WritesOn DEF Making, Window

LEMMA JournalDirSynced ==
  ASSUME TypeOK, Ledger, SyncJournalDir
  PROVE  Ledger'
<1> USE DEF Ledger, Goto, book, sweep, work
<1>1. /\ pc = "jdir" /\ cur \in Txn
      /\ UNCHANGED <<plan, fate, told, recovering, scan, blocked, cur>>
      /\ \/ SyncTxn(cur) /\ pc' = "jtxns"
         \/ UNCHANGED <<hist, txn>> /\ pc' = "retract"
  BY DEF SyncJournalDir, TypeOK, ProcessType
<1>2. /\ HeadsOf(hist, hist')
      /\ \A t \in Txn : txn'[t].now = txn[t].now /\ txn'[t].may \subseteq txn[t].may
  BY <1>1, TxnSynced DEF HeadsOf
<1>3. pc' = "jtxns" => \A m \in txn'[cur].may : m.journal = txn[cur].now.journal
  BY <1>1, TxnSynced
<1>4. Progress'
  BY <1>1, <1>2, <1>3 DEF Progress, Early, Window, Removing
<1> QED BY <1>1, <1>2, <1>4, Synced, WritesOn DEF Making, Window

\* The commit point.  The sync that makes the journal durable makes every
\* earlier removal durable with it.
LEMMA JournalAboveSynced ==
  ASSUME TypeOK, Ledger, SyncJournalAbove
  PROVE  Ledger'
<1> USE DEF Ledger, Goto, sweep, Early, Window, Making, Applying, Removing
<1>1. /\ pc = "jtxns" /\ cur \in Txn /\ fate[cur] = "planned" /\ ~recovering /\ ~blocked
      /\ UNCHANGED <<hist, plan, told, recovering, scan, blocked, cur>>
  BY DEF SyncJournalAbove, TypeOK, ProcessType, Stages
<1>2. CASE UNCHANGED <<txn, fate>> /\ pc' = "retract"
  <2>1. Progress' /\ HeadsOf(hist, hist')
    BY <1>1, <1>2 DEF Progress, HeadsOf
  <2> QED BY <1>1, <1>2, <2>1, Unmoved, WritesOn
<1>3. CASE /\ SyncTransactions /\ pc' = "apply"
           /\ fate' = [fate EXCEPT ![cur] = "committed"]
  <2>1. \A t \in Txn : /\ txn'[t].now = txn[t].now /\ txn'[t].may \subseteq txn[t].may
                       /\ \A m \in txn'[t].may : m.dir = txn[t].now.dir
    BY <1>3 DEF SyncTransactions, Sync, TypeOK, FolderType, Cells
  <2>2. \A t \in Txn : Wanes(txn[t], txn'[t]) /\ Lasts(txn[t], txn'[t])
    BY <2>1, Synced
  <2>3. Lives(txn'[cur])
    BY <1>1, <2>1 DEF Progress, Lives, Committing
  <2>4. \A t \in Txn : fate'[t] = IF t = cur THEN "committed" ELSE fate[t]
    BY <1>3 DEF TypeOK, BookType
  <2>5. InTurn'
    <3>1. \A t \in Txn : fate'[t] = "new" <=> fate[t] = "new"
      BY <1>1, <2>4
    <3> QED BY <1>1, <1>3, <2>2, <3>1 DEF InTurn, Unwritten, Wanes
  <2>6. Stages' /\ Progress' /\ Publishing'
    BY <1>1, <1>3, <2>1, <2>4 DEF Stages, Progress, Publishing
  <2>7. Cleared'
    BY <1>1, <1>3, <2>1, <2>2 DEF Cleared, Settled, Unwritten, Wanes
  <2>8. HeadsDecided'
    BY <1>1, <2>4 DEF HeadsDecided, Retired, TypeOK, FolderType, Cells, Hist, Revision
  <2>9. \A s \in Txn : Decided(s)' => s = cur \/ Decided(s)
    BY <1>1 DEF Decided
  <2>10. Promised'
    BY <1>1, <1>3, <2>2, <2>3, <2>4, <2>9 DEF Promised, Safe, Published, Superseded, Lasts
  <2>11. Withdrawn'
    BY <1>1, <2>2 DEF Withdrawn, Unwritten, Wanes
  <2>12. \A t \in Txn : t < cur => ~MayBeLive(t)'
    <3> SUFFICES ASSUME NEW t \in Txn, t < cur PROVE ~MayBeLive(t)'
      OBVIOUS
    <3>1. Settled(t)
      BY <1>1, NAssumption DEF Cleared, Stages, Txn
    <3> QED BY <2>1, <3>1 DEF Settled, Unwritten, Journals, MayBeLive, Committing
  <2>13. OneJournal'
    BY <2>2, <2>9, <2>12 DEF OneJournal, MayBeLive, Wanes
  <2> QED BY <2>5, <2>6, <2>7, <2>8, <2>10, <2>11, <2>13
<1> QED BY <1>1, <1>2, <1>3 DEF SyncJournalAbove

LEMMA Retracted ==
  ASSUME TypeOK, Ledger, Retract
  PROVE  Ledger'
<1> USE DEF Ledger, Goto, sweep, work
<1>1. /\ pc = "retract" /\ cur \in Txn /\ fate[cur] = "planned"
      /\ UNCHANGED <<hist, plan, fate>>
  BY DEF Retract, TypeOK, ProcessType, Stages, Making
<1>2. CASE /\ SetJournal(cur, "none") /\ pc' = "unlinked"
           /\ UNCHANGED <<told, recovering, scan, blocked, cur>>
  <2>1. /\ txn'[cur] = WithJournal(txn[cur], "none")
        /\ \A t \in Txn : t # cur => txn'[t] = txn[t]
        /\ txn[cur] \in Cells(TxnDir)
    BY <1>1, <1>2 DEF SetJournal, TypeOK, FolderType
  <2>2. txn'[cur].now.journal = "none"
    BY <2>1, Journalled
  <2>3. Progress' /\ HeadsOf(hist, hist')
    BY <1>1, <1>2, <2>2 DEF Progress, HeadsOf, Early, Window, Removing
  <2> QED BY <1>1, <1>2, <2>1, <2>3, Unmoved, WritesOn DEF Making
<1>3. CASE Report("unknown") /\ UNCHANGED txn
  BY <1>1, <1>3, AsItWas, Leaves DEF Report
<1> QED BY <1>2, <1>3 DEF Retract

LEMMA RetractionSynced ==
  ASSUME TypeOK, Ledger, SyncRetraction
  PROVE  Ledger'
<1> USE DEF Ledger, Goto, sweep, work
<1>1. /\ pc = "unlinked" /\ cur \in Txn /\ fate[cur] = "planned"
      /\ UNCHANGED <<plan, fate>>
  BY DEF SyncRetraction, TypeOK, ProcessType, Stages, Making
<1>2. CASE /\ SyncTxn(cur) /\ pc' = "discard"
           /\ UNCHANGED <<told, recovering, scan, blocked, cur>>
  <2>1. /\ HeadsOf(hist, hist')
        /\ \A t \in Txn : txn'[t].now = txn[t].now /\ txn'[t].may \subseteq txn[t].may
        /\ \A m \in txn'[cur].may : m.journal = txn[cur].now.journal
    BY <1>1, <1>2, TxnSynced
  <2>2. Progress'
    BY <1>1, <1>2, <2>1 DEF Progress, Unwritten, Journals, Early, Window, Removing
  <2> QED BY <1>1, <1>2, <2>1, <2>2, Synced, WritesOn DEF Making
<1>3. CASE Report("unknown") /\ UNCHANGED <<hist, txn>>
  BY <1>1, <1>3, AsItWas, Leaves DEF Report
<1> QED BY <1>2, <1>3 DEF SyncRetraction

-----------------------------------------------------------------------------
(* Publishing the head                                                     *)

\* A step that changes history keeps the heads that are published for good.
LEMMA PublishesOn ==
  ASSUME TypeOK, Ledger, pc \in Applying, pc' \in Applying,
         UNCHANGED <<txn, plan, fate, told, recovering, scan, blocked, cur>>,
         HeadsDecided', Publishing',
         \A t \in Txn : Published(t) => Published(t)' \/ Superseded(t)
  PROVE  Ledger'
<1> USE DEF Ledger, Early, Window, Making, Applying, Removing
<1>1. InTurn' /\ Stages' /\ Progress' /\ Cleared'
  BY DEF InTurn, Stages, Progress, Cleared, Settled, Unwritten
<1>2. \A t \in Txn : Decided(t)' => Decided(t)
  BY DEF Decided
<1>3. Promised'
  BY <1>2 DEF Promised, Safe, Superseded
<1>4. Withdrawn' /\ OneJournal'
  BY <1>2 DEF Withdrawn, Unwritten, OneJournal, MayBeLive
<1> QED BY <1>1, <1>3, <1>4

LEMMA HeadPublished ==
  ASSUME TypeOK, Ledger, Publish
  PROVE  Ledger'
<1> USE DEF Ledger, Goto, book, sweep, work
<1>1. /\ pc = "publish" /\ pc' = "retire" /\ cur \in Txn /\ fate[cur] = "committed"
      /\ UNCHANGED <<txn, plan, fate, told, recovering, scan, blocked, cur, touched>>
  BY DEF Publish, TypeOK, ProcessType, Stages, Applying
<1>2. /\ cur \in hist'.now.heads
      /\ \A h \in hist'.may \cup {hist'.now} : \E g \in hist.may \cup {hist.now} :
           g.heads \subseteq h.heads /\ h.heads \subseteq g.heads \cup {cur}
  <2>1. CASE cur \in hist.now.heads /\ UNCHANGED hist
    BY <2>1
  <2>2. CASE MoveHead
    <3> DEFINE New(m) == [heads |-> m.heads \cup {cur}, staged |-> m.staged \ {cur}]
    <3>1. \A m : New(m).heads = m.heads \cup {cur}
      OBVIOUS
    <3>2. /\ hist'.now = New(hist.now)
          /\ \A m \in hist'.may : m \in hist.may \/ \E n \in hist.may : m = New(n)
      BY <2>2 DEF MoveHead, Issue
    <3> HIDE DEF New
    <3> QED BY <3>1, <3>2
  <2> QED BY <2>1, <2>2 DEF Publish
<1>3. HeadsDecided'
  BY <1>1, <1>2 DEF HeadsDecided, Retired
<1>4. Publishing'
  BY <1>1, <1>2 DEF Publishing
<1>5. \A t \in Txn : Published(t) => Published(t)'
  BY <1>2 DEF Published
<1> QED BY <1>1, <1>3, <1>4, <1>5, PublishesOn DEF Applying

\* What a change retires is older than it is.
LEMMA HeadRetired ==
  ASSUME TypeOK, Ledger, Retire
  PROVE  Ledger'
<1> USE DEF Ledger, Goto, book, sweep, work
<1>1. /\ pc = "retire" /\ pc' = "retire" /\ cur \in Txn /\ fate[cur] = "committed"
      /\ UNCHANGED <<txn, plan, fate, told, recovering, scan, blocked, cur, touched>>
  BY DEF Retire, TypeOK, ProcessType, Stages, Applying
<1>2. PICK x \in Retired(cur) \cap hist.now.heads :
        LET Same(m) == (x \in m.heads) = (x \in hist.now.heads)
            New(m) == [m EXCEPT !.heads = @ \ {x}]
        IN  hist' = Issue(hist, Same, New)
  BY DEF Retire
<1>3. x < cur /\ x # cur
  <2>1. x < cur
    BY <1>1, <1>2 DEF HeadsDecided
  <2>2. cur \in Int
    BY <1>1, NAssumption DEF Txn
  <2> QED BY <2>1, <2>2
<1>4. /\ hist'.now.heads = hist.now.heads \ {x}
      /\ \A h \in hist'.may \cup {hist'.now} : \E g \in hist.may \cup {hist.now} :
           h.heads \subseteq g.heads /\ g.heads \subseteq h.heads \cup {x}
  <2> DEFINE New(m) == [m EXCEPT !.heads = @ \ {x}]
  <2>1. \A m \in Hist : New(m).heads = m.heads \ {x}
    BY DEF Hist
  <2>2. hist.now \in Hist /\ hist.may \subseteq Hist
    BY DEF TypeOK, FolderType, Cells
  <2>3. /\ hist'.now = New(hist.now)
        /\ \A m \in hist'.may : m \in hist.may \/ \E n \in hist.may : m = New(n)
    BY <1>2 DEF Issue
  <2> HIDE DEF New
  <2> QED BY <2>1, <2>2, <2>3
<1>5. HeadsDecided'
  BY <1>1, <1>4 DEF HeadsDecided, Retired
<1>6. Publishing'
  BY <1>1, <1>3, <1>4 DEF Publishing
<1>7. \A t \in Txn : Published(t) => Published(t)' \/ Superseded(t)
  <2> SUFFICES ASSUME NEW t \in Txn, Published(t), t # x PROVE Published(t)'
    BY <1>1, <1>3 DEF Superseded
  <2> QED BY <1>4 DEF Published
<1> QED BY <1>1, <1>5, <1>6, <1>7, PublishesOn DEF Applying

LEMMA RetirementDone ==
  ASSUME TypeOK, Ledger, RetireDone
  PROVE  Ledger'
<1> USE DEF Ledger, Goto, folder, book, sweep
<1>1. /\ pc = "retire" /\ pc' = "published" /\ touched' = {HistDir}
      /\ UNCHANGED <<txn, hist, plan, fate, told, recovering, scan, blocked, cur>>
  BY DEF RetireDone
<1>2. HeadsDecided' /\ Publishing'
  BY <1>1 DEF HeadsDecided, Publishing, Retired
<1>3. \A t \in Txn : Published(t) => Published(t)'
  BY <1>1 DEF Published
<1> QED BY <1>1, <1>2, <1>3, PublishesOn DEF Applying

LEMMA HeadSynced ==
  ASSUME TypeOK, Ledger, SyncPublished
  PROVE  Ledger'
<1> USE DEF Ledger, Goto, book, sweep
<1>1. /\ pc = "published" /\ cur \in hist.now.heads
      /\ UNCHANGED <<txn, plan, fate, told, recovering, scan, blocked, cur>>
  BY DEF SyncPublished, SyncTouched, Publishing
<1>2. \/ pc' = "finish" /\ touched = {} /\ UNCHANGED <<hist, touched>>
      \/ \E x \in touched : SyncDir(x) /\ touched' = touched \ {x} /\ pc' = pc
      \/ pc' = "mark" /\ UNCHANGED hist
  BY DEF SyncPublished, SyncTouched, SyncFails
<1>3. hist'.now = hist.now /\ hist'.may \subseteq hist.may
  BY <1>2 DEF SyncDir, Sync, TypeOK, FolderType, Cells
<1>4. HeadsDecided'
  BY <1>1, <1>3 DEF HeadsDecided, Retired
<1>5. \A t \in Txn : Published(t) => Published(t)'
  BY <1>3 DEF Published
<1>6. Publishing'
  <2>1. CASE pc' = "finish" /\ touched = {} /\ UNCHANGED <<hist, touched>>
    BY <1>1, <2>1 DEF Publishing, Published
  <2>2. CASE \E x \in touched : SyncDir(x) /\ touched' = touched \ {x} /\ pc' = pc
    <3>1. PICK x \in touched : SyncDir(x) /\ touched' = touched \ {x} /\ pc' = pc
      BY <2>2
    <3>2. CASE x = HistDir
      <4>1. \A h \in hist'.may : h.heads = hist.now.heads
        BY <3>1, <3>2 DEF SyncDir, Sync, TypeOK, FolderType, Cells
      <4> QED BY <1>1, <1>3, <3>1, <4>1 DEF Publishing, Published
    <3>3. CASE x # HistDir
      BY <1>1, <1>3, <1>5, <3>1, <3>3 DEF Publishing, TypeOK, ProcessType
    <3> QED BY <3>2, <3>3
  <2>3. CASE pc' = "mark"
    BY <2>3 DEF Publishing
  <2> QED BY <1>2, <2>1, <2>2, <2>3
<1>7. pc' \in Applying
  BY <1>1, <1>2 DEF Applying
<1> QED BY <1>1, <1>4, <1>5, <1>6, <1>7, PublishesOn DEF Applying

-----------------------------------------------------------------------------
(* Taking the transaction away                                             *)

\* What keeps a decided change no longer is its journal.
LEMMA RemovesOn ==
  ASSUME TypeOK, Ledger, cur \in Txn, pc \in {"finish"} \cup Removing, pc' \in Removing,
         UNCHANGED <<plan, fate, told, recovering, scan, blocked, cur>>,
         HeadsOf(hist, hist'),
         \A t \in Txn : Wanes(txn[t], txn'[t]),
         \A t \in Txn : t # cur => txn'[t] = txn[t],
         Progress'
  PROVE  Ledger'
<1> USE DEF Ledger, Early, Window, Making, Applying, Removing
<1>1. fate[cur] # "new"
  BY DEF Stages
<1>2. InTurn'
  BY <1>1 DEF InTurn, Unwritten, Wanes
<1>3. Stages' /\ Publishing'
  BY <1>1 DEF Stages, Publishing
<1>4. Cleared'
  BY DEF Cleared, Settled, Unwritten
<1>5. HeadsDecided'
  BY DEF HeadsDecided, HeadsOf, Retired
<1>6. \A s \in Txn : Decided(s)' => Decided(s)
  BY DEF Decided
<1>7. \A s \in Txn : Published(s) => Published(s)'
  BY DEF Published, HeadsOf
<1>8. Promised'
  BY <1>6, <1>7 DEF Promised, Safe, Superseded, Publishing
<1>9. Withdrawn' /\ OneJournal'
  BY <1>6 DEF Withdrawn, Unwritten, OneJournal, MayBeLive, Wanes
<1> QED BY <1>2, <1>3, <1>4, <1>5, <1>8, <1>9

LEMMA JournalRemoved ==
  ASSUME TypeOK, Ledger, RemoveJournal
  PROVE  Ledger'
<1> USE DEF Ledger, Goto, book, sweep, work
<1>1. /\ pc = "finish" /\ pc' = "discard" /\ cur \in Txn /\ fate[cur] = "committed"
      /\ UNCHANGED <<hist, plan, fate, told, recovering, scan, blocked, cur>>
  BY DEF RemoveJournal, TypeOK, ProcessType, Stages, Applying
<1>2. /\ txn'[cur] = WithJournal(txn[cur], "none")
      /\ \A t \in Txn : t # cur => txn'[t] = txn[t]
      /\ txn[cur] \in Cells(TxnDir)
  BY <1>1 DEF RemoveJournal, SetJournal, TypeOK, FolderType
<1>3. Progress' /\ HeadsOf(hist, hist')
  BY <1>1 DEF Progress, HeadsOf, Early, Window, Removing
<1> QED BY <1>1, <1>2, <1>3, Unmoved, Journalled, RemovesOn DEF Removing

LEMMA Unlinked ==
  ASSUME TypeOK, Ledger, Unlink
  PROVE  Ledger'
<1> USE DEF Ledger, Goto, book, sweep, work
<1>1. /\ pc = "discard" /\ pc' = "rmdir" /\ cur \in Txn
      /\ UNCHANGED <<plan, fate, told, recovering, scan, blocked, cur>>
  BY DEF Unlink, TypeOK, ProcessType
<1> DEFINE half == WithJournal(txn[cur], "none")
<1>2. /\ txn'[cur] = WithMarker(half, FALSE)
      /\ \A t \in Txn : t # cur => txn'[t] = txn[t]
      /\ half \in Cells(TxnDir) /\ Wanes(txn[cur], half)
  BY <1>1, WithJournalType, Journalled DEF Unlink, TypeOK, FolderType
<1> HIDE DEF half
<1>3. Wanes(half, txn'[cur])
  BY <1>2, Marked
<1>4. Wanes(txn[cur], txn'[cur])
  BY <1>2, <1>3 DEF Wanes
<1>5. HeadsOf(hist, hist')
  BY HeadStaged DEF Unlink
<1>6. Progress'
  BY <1>1, <1>4 DEF Progress, Unwritten, Wanes, Early, Window, Removing
<1> QED BY <1>1, <1>2, <1>4, <1>5, <1>6, Unmoved, RemovesOn DEF Removing

LEMMA DirRemoved ==
  ASSUME TypeOK, Ledger, RemoveTxnDir
  PROVE  Ledger'
<1> USE DEF Ledger, Goto, book, sweep, work
<1>1. /\ pc = "rmdir" /\ pc' = "removed" /\ cur \in Txn
      /\ UNCHANGED <<hist, plan, fate, told, recovering, scan, blocked, cur>>
  BY DEF RemoveTxnDir, TypeOK, ProcessType
<1>2. /\ txn'[cur] = WithDir(txn[cur], FALSE)
      /\ \A t \in Txn : t # cur => txn'[t] = txn[t]
      /\ txn[cur] \in Cells(TxnDir)
  BY <1>1 DEF RemoveTxnDir, SetDir, TypeOK, FolderType
<1>3. Wanes(txn[cur], txn'[cur]) /\ txn'[cur].now.dir = FALSE
  BY <1>2, Housed
<1>4. Progress' /\ HeadsOf(hist, hist')
  BY <1>1, <1>3 DEF Progress, Unwritten, Wanes, HeadsOf, Early, Window, Removing
<1> QED BY <1>1, <1>2, <1>3, <1>4, Unmoved, RemovesOn DEF Removing

\* What has become of a change that is taken away: it was decided before, or
\* its journal is nowhere.
LEMMA SettledOn ==
  ASSUME TypeOK, Ledger, cur \in Txn, pc \in Removing, Settle, UNCHANGED hist, Settled(cur),
         \A t \in Txn : /\ Wanes(txn[t], txn'[t]) /\ Lasts(txn[t], txn'[t])
                        /\ txn'[t].now = txn[t].now
  PROVE  Ledger'
<1> USE DEF Ledger, Goto, Rest, sweep
<1>1. /\ pc' \in {"scan", "ready"} /\ (pc' = "scan" <=> recovering) /\ cur' = 0
      /\ fate[cur] # "new"
      /\ UNCHANGED <<plan, recovering, scan, blocked>>
      /\ ~recovering /\ fate[cur] # "committed" => Unwritten(cur)
      /\ ~recovering => scan = {} /\ ~blocked
      /\ scan \subseteq Txn
  BY DEF Settle, Stages, Progress, TypeOK, ProcessType
<1>2. \A t \in Txn :
        /\ fate'[t] = IF t # cur \/ fate[t] = "committed" THEN fate[t] ELSE "refused"
        /\ told'[t] = IF t # cur \/ recovering THEN told[t] ELSE fate'[t]
  BY DEF Settle, TypeOK, BookType
<1>3. \A t \in Txn : /\ fate'[t] = "new" <=> fate[t] = "new"
                     /\ fate[t] = "committed" => fate'[t] = "committed"
                     /\ fate[t] = "new" => told'[t] = told[t]
  BY <1>1, <1>2
<1>4. InTurn'
  BY <1>1, <1>3 DEF InTurn, Unwritten, Wanes, Making, Early, Window
<1>5. Stages' /\ Progress' /\ Publishing'
  BY <1>1, <1>3 DEF Stages, Progress, Publishing, Making, Early, Window, Applying, Removing
<1>6. Cleared'
  BY <1>1 DEF Cleared, Settled, Unwritten, Wanes, Removing
<1>7. HeadsDecided'
  BY <1>1, <1>3 DEF HeadsDecided, Retired, TypeOK, FolderType, Cells, Hist, Revision
<1>8. \A t \in Txn : Decided(t)' => Decided(t)
  BY <1>1, <1>2 DEF Decided, Txn
<1>9. Promised'
  <2> SUFFICES ASSUME NEW t \in Txn, Decided(t)'
               PROVE  fate'[t] = "committed" /\ Safe(t)'
    BY DEF Promised
  <2>1. fate[t] = "committed" /\ Safe(t)
    BY <1>8 DEF Promised
  <2>2. Superseded(t) => Superseded(t)'
    BY <1>3 DEF Superseded
  <2> QED BY <1>1, <1>3, <2>1, <2>2 DEF Safe, Published, Lasts, Removing
<1>10. Withdrawn'
  BY <1>1, <1>2 DEF Withdrawn, Unwritten, Wanes
<1>11. OneJournal'
  BY <1>8 DEF OneJournal, MayBeLive, Wanes
<1> QED BY <1>4, <1>5, <1>6, <1>7, <1>9, <1>10, <1>11

LEMMA RemovalSynced ==
  ASSUME TypeOK, Ledger, SyncRemoval
  PROVE  Ledger'
<1>1. pc = "removed" /\ pc \in Removing /\ cur \in Txn /\ Settle /\ UNCHANGED hist
  BY DEF SyncRemoval, TypeOK, ProcessType, Removing
<1>2. Settled(cur)
  BY <1>1 DEF Ledger, Progress, Settled
<1>3. \A t \in Txn : txn'[t].now = txn[t].now /\ txn'[t].may \subseteq txn[t].may
  BY DEF SyncRemoval, SyncTransactions, Sync, TypeOK, FolderType, Cells
<1> QED BY <1>1, <1>2, <1>3, Synced, SettledOn

LEMMA RemovalBlocked ==
  ASSUME TypeOK, Ledger, DiscardBlocked
  PROVE  Ledger'
<1>1. /\ pc \in Removing /\ cur \in Txn /\ UNCHANGED <<txn, hist>>
  BY DEF DiscardBlocked, TypeOK, ProcessType, Removing, folder
<1>2. CASE recovering \/ fate[cur] = "committed"
  <2>1. Halt /\ UNCHANGED <<hist, plan, fate>>
    BY <1>1, <1>2 DEF DiscardBlocked
  <2> QED BY <1>1, <1>2, <2>1, AsItWas, Halted
<1>3. CASE ~(recovering \/ fate[cur] = "committed")
  <2>1. Settle
    BY <1>3 DEF DiscardBlocked
  <2>2. Settled(cur)
    BY <1>1, <1>3 DEF Ledger, Progress, Settled
  <2> QED BY <1>1, <2>1, <2>2, Unmoved, SettledOn
<1> QED BY <1>2, <1>3

-----------------------------------------------------------------------------
(* The environment                                                         *)

\* The power goes: what is for good stays, and nothing is there that could not be.
LEMMA PowerLost ==
  ASSUME TypeOK, Ledger, PowerLoss
  PROVE  Ledger'
<1> USE DEF Ledger, Goto, Exit, Rest, book
<1>1. /\ pc' = "idle" /\ cur' = 0 /\ recovering' = FALSE /\ scan' = {} /\ blocked' = FALSE
      /\ UNCHANGED <<plan, fate, told>>
  BY DEF PowerLoss
<1>2. PICK tt \in Choices(Txn, LAMBDA t : txn[t].may), hh \in hist.may :
        /\ txn' = [t \in Txn |-> Durable(IF tt[t].dir THEN tt[t] ELSE Gone)]
        /\ hist' = Durable([hh EXCEPT !.staged = {t \in @ : tt[t].dir}])
  BY DEF PowerLoss
<1>3. \A t \in Txn : tt[t] \in txn[t].may
  BY <1>2 DEF Choices
<1>4. \A t \in Txn : Wanes(txn[t], txn'[t]) /\ Lasts(txn[t], txn'[t])
  <2> SUFFICES ASSUME NEW t \in Txn PROVE Wanes(txn[t], txn'[t]) /\ Lasts(txn[t], txn'[t])
    OBVIOUS
  <2> DEFINE m == IF tt[t].dir THEN tt[t] ELSE Gone
  <2>1. txn'[t].now = m /\ txn'[t].may = {m} /\ tt[t] \in txn[t].may
    BY <1>2, <1>3 DEF Durable
  <2>2. \/ m = tt[t]
        \/ m = Gone /\ ~tt[t].dir
    OBVIOUS
  <2> HIDE DEF m
  <2>3. ~Gone.dir /\ Gone.journal = "none" /\ Gone.dir = FALSE
    BY DEF Gone
  <2> QED BY <2>1, <2>2, <2>3 DEF Wanes, Lasts, Lives, Journals, Dirs, Committing
<1>5. HeadsOf(hist, hist')
  <2> DEFINE h == [hh EXCEPT !.staged = {t \in @ : tt[t].dir}]
  <2>1. h.heads = hh.heads
    BY DEF TypeOK, FolderType, Cells, Hist
  <2>2. hist'.now = h /\ hist'.may = {h}
    BY <1>2 DEF Durable
  <2> HIDE DEF h
  <2> QED BY <2>1, <2>2 DEF HeadsOf
<1>6. InTurn' /\ Stages' /\ Progress' /\ Cleared' /\ Publishing'
  BY <1>1, <1>4 DEF InTurn, Stages, Progress, Cleared, Publishing, Unwritten, Wanes,
     Making, Early, Window, Applying, Removing
<1>7. HeadsDecided'
  BY <1>1, <1>5 DEF HeadsDecided, HeadsOf, Retired
<1>8. \A t \in Txn : Decided(t)' => Decided(t)
  BY <1>1 DEF Decided, Txn
<1>9. Promised'
  BY <1>1, <1>4, <1>5, <1>8 DEF Promised, Safe, Published, HeadsOf, Superseded, Lasts, Removing
<1>10. Withdrawn' /\ OneJournal'
  BY <1>1, <1>4, <1>8 DEF Withdrawn, Unwritten, OneJournal, MayBeLive, Wanes
<1> QED BY <1>6, <1>7, <1>9, <1>10

\* A step that touches none of it.
LEMMA Stands ==
  ASSUME Ledger, UNCHANGED <<txn, hist, plan, fate, told, pc, recovering, scan, blocked, cur,
                             touched>>
  PROVE  Ledger'
<1> USE DEF Ledger
<1>1. InTurn' /\ Stages' /\ Progress'
  BY DEF InTurn, Stages, Progress, Unwritten
<1>9. Cleared' /\ Publishing'
  BY DEF Cleared, Publishing, Settled, Unwritten, Published
<1>2. HeadsDecided' /\ Promised'
  BY DEF HeadsDecided, Retired, Promised, Decided, Safe, Published, Superseded
<1>3. Withdrawn' /\ OneJournal'
  BY DEF Withdrawn, Unwritten, OneJournal, MayBeLive, Decided
<1> QED BY <1>1, <1>9, <1>2, <1>3

-----------------------------------------------------------------------------
(* Every step                                                              *)

LEMMA LedgerInit == Init => Ledger
<1> SUFFICES ASSUME Init PROVE Ledger
  OBVIOUS
<1> USE DEF Init
<1>1. \A t \in Txn : /\ fate[t] = "new" /\ told[t] = "none"
                     /\ txn[t].now = Gone /\ txn[t].may = {Gone}
  BY DEF Durable
<1>2. ~Gone.dir /\ Gone.dir = FALSE /\ Gone.journal = "none"
  BY DEF Gone
<1>3. ASSUME NEW t \in Txn PROVE Unwritten(t) /\ TRUE \notin Dirs(txn[t])
  <2>1. \A m \in txn[t].may \cup {txn[t].now} : m.journal = "none" /\ m.dir = FALSE
    BY <1>1, <1>2
  <2>2. Unwritten(t)
    BY <2>1 DEF Unwritten, Journals
  <2>3. ASSUME TRUE \in Dirs(txn[t]) PROVE FALSE
    <3>1. \E m \in txn[t].may \cup {txn[t].now} : TRUE = m.dir
      BY <2>3 DEF Dirs
    <3> QED BY <2>1, <3>1
  <2> QED BY <2>2, <2>3
<1>7. InTurn /\ Withdrawn
  BY <1>1, <1>3 DEF InTurn, Withdrawn, Making, Early, Window
<1>4. Stages /\ Progress /\ Cleared /\ Publishing
  BY DEF Stages, Progress, Cleared, Publishing, Making, Early, Window, Applying, Removing
<1>5. HeadsDecided
  BY <1>1 DEF HeadsDecided, Durable
<1>6. Promised /\ OneJournal
  BY <1>1 DEF Promised, OneJournal, Decided
<1> QED BY <1>7, <1>4, <1>5, <1>6 DEF Ledger

LEMMA LedgerStep ==
  ASSUME TypeOK, Ledger, [Next]_vars
  PROVE  Ledger'
<1> USE DEF Goto, Applying
<1>0. /\ pc \notin {"idle", "scan", "ready"} => cur \in Txn
      /\ pc \in Applying => cur \in Txn /\ fate[cur] = "committed"
      /\ \A t \in Txn : txn[t] \in Cells(TxnDir)
      /\ DOMAIN txn = Txn
  BY DEF TypeOK, FolderType, ProcessType, Ledger, Stages
<1>1. CASE Recovery
  BY <1>1, Opened, TakenUp, TakenAway, Ended DEF Recovery
<1>2. CASE Commit
  BY <1>2, Declined, Staged, StagedSynced, JournalCreated, JournalWritten, JournalFileSynced,
     JournalDirSynced, JournalAboveSynced, Retracted, RetractionSynced DEF Commit
<1>3. CASE Finish
  BY <1>3, JournalRemoved, Unlinked, DirRemoved, RemovalSynced DEF Finish
<1>4. CASE Plan
  BY <1>4, PlanOpened
<1>5. CASE Close
  BY <1>5, AsItWas, Leaves DEF Close, folder, book
<1>6. CASE SyncAncestors \/ SyncPlaced
  <2>1. /\ pc \in {"ancestors", "sync"} /\ pc' \in {"ancestors", "sync", "apply", "publish", "mark"}
        /\ UNCHANGED <<txn, plan, fate, told, recovering, scan, blocked, cur>>
    BY <1>6 DEF SyncAncestors, SyncPlaced, SyncTouched, SyncFails, book, sweep
  <2>2. UNCHANGED hist \/ \E x : SyncDir(x)
    BY <1>6 DEF SyncAncestors, SyncPlaced, SyncTouched
  <2>3. hist'.now = hist.now /\ hist'.may \subseteq hist.may
    BY <2>2 DEF SyncDir, Sync, TypeOK, FolderType, Cells
  <2> QED BY <2>1, <2>3, GoesOn
<1>7. CASE SyncParent
  <2>1. /\ pc = "parent" /\ pc' \in {"place", "mark"}
        /\ UNCHANGED <<txn, plan, fate, told, recovering, scan, blocked, cur>>
    BY <1>7 DEF SyncParent, SyncFails, book, sweep
  <2>2. UNCHANGED hist \/ SyncDir(Root)
    BY <1>7 DEF SyncParent
  <2>3. hist'.now = hist.now /\ hist'.may \subseteq hist.may
    BY <2>2 DEF SyncDir, Sync, TypeOK, FolderType, Cells
  <2> QED BY <2>1, <2>3, GoesOn
<1>8. CASE Look
  <2>1. /\ pc = "apply" /\ pc' \in {"rewrite", "place", "apply"}
        /\ UNCHANGED <<txn, hist, plan, fate, told, recovering, scan, blocked, cur>>
    BY <1>8 DEF Look, LookAt, folder, book, sweep
  <2> QED BY <2>1, GoesOn
<1>9. CASE Rewrite \/ RewriteFails \/ PlaceFile \/ RemoveFile \/ MakeParent \/ Prune
  <2>1. /\ pc \in {"rewrite", "place", "apply"} /\ pc' \in {"apply", "mark", "parent", "sync"}
        /\ UNCHANGED <<txn, hist, plan, fate, told, recovering, scan, blocked, cur>>
    BY <1>9 DEF Rewrite, RewriteFails, PlaceFile, RemoveFile, MakeParent, Prune, Placed,
       folder, book, sweep, work
  <2> QED BY <2>1, GoesOn
<1>10. CASE Publish \/ Retire \/ RetireDone \/ SyncPublished
  BY <1>10, HeadPublished, HeadRetired, RetirementDone, HeadSynced
<1>11. CASE Mark
  <2>1. /\ pc \in Applying /\ Suspend /\ UNCHANGED <<hist, plan, fate>>
        /\ \/ UNCHANGED txn
           \/ txn' = [txn EXCEPT ![cur] = WithMarker(@, TRUE)]
    BY <1>11 DEF Mark, SetMarker
  <2>2. Wanes(txn[cur], WithMarker(txn[cur], TRUE)) /\ Lasts(txn[cur], WithMarker(txn[cur], TRUE))
    BY <1>0, <2>1, Marked
  <2>3. \A t \in Txn : Wanes(txn[t], txn'[t]) /\ Lasts(txn[t], txn'[t])
    BY <1>0, <2>1, <2>2, Unmoved
  <2> QED BY <2>1, <2>3, Suspended
<1>12. CASE RewriteLost \/ PlaceLost \/ FinishBlocked
  <2>1. pc \in Applying /\ Halt /\ UNCHANGED <<txn, hist, plan, fate>>
    BY <1>12 DEF RewriteLost, PlaceLost, FinishBlocked, folder
  <2> QED BY <1>0, <2>1, AsItWas, Halted
<1>13. CASE PublishLost \/ PlaceBlocked
  <2>1. pc \in Applying /\ Suspend /\ UNCHANGED <<txn, hist, plan, fate>>
    BY <1>13 DEF PublishLost, PlaceBlocked, folder
  <2> QED BY <2>1, AsItWas, Suspended
<1>14. CASE DiscardBlocked
  BY <1>14, RemovalBlocked
<1>15. CASE Kill
  BY <1>15, AsItWas, Leaves DEF Kill, folder, book
<1>16. CASE PowerLoss
  BY <1>16, PowerLost
<1>17. CASE \E p \in Target : Edit(p)
  BY <1>17, Stands DEF Edit, book, sweep, work
<1>18. CASE UNCHANGED vars
  BY <1>18, Stands DEF vars, folder, book, sweep, work
<1> QED
  BY <1>1, <1>2, <1>3, <1>4, <1>5, <1>6, <1>7, <1>8, <1>9, <1>10, <1>11, <1>12, <1>13,
     <1>14, <1>15, <1>16, <1>17, <1>18 DEF Next, Step, Apply, Lost, Refused

\* The books and the disk agree whatever fails, for any number of changes.
LEMMA Kept == Spec => [](TypeOK /\ Ledger)
<1>1. TypeOK /\ Ledger /\ [Next]_vars => Ledger'
  BY LedgerStep
<1> QED BY <1>1, LedgerInit, Typed, PTL DEF Spec

\* Whatever fails, and however often: a change whose caller was told that nothing
\* was written is never brought back by a journal of it.
THEOREM RefusalKept == Spec => []RefusedForGood
<1>1. Ledger => RefusedForGood
  BY DEF Ledger, Withdrawn, RefusedForGood, MayBeLive, Unwritten, Journals, Committing
<1> QED BY <1>1, Kept, PTL

\* Whatever fails: a change whose caller was told that it is made, or made and
\* still to be finished, has its journal or its head on every disk, or a later
\* change has followed it.
THEOREM AcknowledgementKept == Spec => []AckedForGood
<1>1. TypeOK /\ Ledger => AckedForGood
  <2> SUFFICES ASSUME TypeOK, Ledger, NEW t \in Txn, told[t] \in {"committed", "pending"}
               PROVE  /\ fate[t] = "committed"
                      /\ \/ MustBeLive(t)
                         \/ t \in hist.now.heads /\ \A h \in hist.may : t \in h.heads
                         \/ \E u \in Txn : u > t /\ fate[u] = "committed"
    BY DEF AckedForGood
  <2>1. fate[t] = "committed" /\ Safe(t)
    BY DEF Ledger, Promised, Decided
  <2>2. Superseded(t) => \E u \in Txn : u > t /\ fate[u] = "committed"
    BY NAssumption DEF Superseded, Txn
  <2> QED BY <2>1, <2>2 DEF Safe, Lives, Published, MustBeLive
<1> QED BY <1>1, Kept, PTL

\* Whatever fails: once a change's writer has decided it, no disk holds the
\* journal of an older one.
THEOREM NoOlderJournal == Spec => []OneJournal
<1>1. Ledger => OneJournal
  BY DEF Ledger
<1> QED BY <1>1, Kept, PTL

-----------------------------------------------------------------------------
(* The heads of history                                                    *)

\* What history may be, in the cache and on the disk.
Histories == hist.may \cup {hist.now}

\* t's head is there, and no other, on every disk.
Alone(t) == \A x \in Histories : x.heads = {t}

\* t is the last change made.
Newest(t) ==
  /\ t # Base => fate[t] = "committed"
  /\ \A u \in Txn : fate[u] = "committed" => u <= t

\* The heads are its own and the one it retires.
Chain(t) ==
  t # Base => \E s \in Revision : Retired(t) = {s} /\ \A x \in Histories : x.heads \subseteq {s, t}

\* It is published for good, or there to be finished.
Held(t) == Alone(t) \/ (t # Base /\ Lives(txn[t]))

\* A head is staged or in place; of the changes made only the last is still staged.
Apart(t) ==
  \A x \in Histories : \A u \in x.staged :
    u \notin x.heads /\ (u \in Txn /\ fate[u] = "committed" => u = t)

\* A change that is not decided has a journal some disk holds whole.
Loose(u) == fate[u] \in {"planned", "refused"} /\ ~Unwritten(u)

\* u was planned when t was the last change made, and will retire it.
Awaits(u, t) == u > t /\ Retired(u) = {t} /\ Alone(t)

\* Nothing depends on u's journal.
Spent(u, t) == ~Loose(u) /\ (u = t => Alone(t))

\* What is not decided waits for t, and there is no more than one of it.
Waiting(t) ==
  /\ \A u \in Txn : Loose(u) => /\ fate[u] = "planned" /\ Awaits(u, t)
                                /\ Lives(txn[u]) \/ (cur = u /\ pc \in Window)
  /\ \A u, v \in Txn : Loose(u) /\ Loose(v) => u = v
  /\ pc \in Making => Awaits(cur, t)
  /\ pc \in Removing => Spent(cur, t)

\* Before a journal is removed the heads its change retires are gone for good.
Closing ==
  /\ pc \in {"published", "finish"} => Retired(cur) \cap hist.now.heads = {}
  /\ pc = "published" =>
       HistDir \in touched \/ \A x \in Histories : x.heads = hist.now.heads
  /\ pc = "finish" => \A x \in Histories : x.heads = hist.now.heads

Headed(t) == Newest(t) /\ Chain(t) /\ Held(t) /\ Apart(t) /\ Waiting(t)

\* The invariant.
HeadsKept == Closing /\ \E t \in Revision : Headed(t)

-----------------------------------------------------------------------------
(* Steps alike                                                             *)

\* No history has become possible but by dropping staged heads.
Quiet ==
  \A x \in Histories' : \E y \in Histories : x.heads = y.heads /\ x.staged \subseteq y.staged

LEMMA HistoryTyped ==
  ASSUME TypeOK
  PROVE  \A x \in Histories : x \in Hist
BY DEF TypeOK, FolderType, Cells, Histories

LEMMA QuietSame ==
  ASSUME UNCHANGED hist
  PROVE  Quiet
BY DEF Quiet, Histories

LEMMA QuietSync ==
  ASSUME hist'.now = hist.now, hist'.may \subseteq hist.may
  PROVE  Quiet
BY DEF Quiet, Histories

LEMMA QuietAlone ==
  ASSUME Quiet, NEW t, Alone(t)
  PROVE  Alone(t)'
BY DEF Quiet, Alone

LEMMA QuietShape ==
  ASSUME TypeOK, Quiet, NEW t \in Revision, Newest(t), Chain(t), Apart(t), Newest(t)',
         \A u \in Txn : fate[u] # "new" => Retired(u)' = Retired(u),
         \A u \in Txn : fate'[u] = "committed" => fate[u] = "committed"
  PROVE  Chain(t)' /\ Apart(t)'
<1>1. t # Base => t \in Txn /\ fate[t] = "committed"
  BY DEF Newest, Revision
<1>2. Chain(t)'
  BY <1>1 DEF Chain, Quiet
<1>3. Apart(t)'
  BY DEF Apart, Quiet
<1> QED BY <1>2, <1>3

\* A step that decides nothing and moves no head.
LEMMA Carries ==
  ASSUME TypeOK, NEW t \in Revision, Headed(t), Quiet,
         \A u \in Txn : Wanes(txn[u], txn'[u]),
         \A u \in Txn : Lasts(txn[u], txn'[u]) \/ Spent(u, t),
         \A u \in Txn : \/ fate'[u] = fate[u]
                        \/ fate[u] # "committed" /\ fate'[u] # "committed" /\ Unwritten(u),
         \A u \in Txn : fate[u] # "new" => Retired(u)' = Retired(u),
         pc \in Window => pc' \in Window /\ cur' = cur,
         pc' \in Making => \/ pc \in Making /\ cur' = cur /\ cur \in Txn /\ fate[cur] # "new"
                           \/ Awaits(cur, t)',
         pc' \in Removing => cur' \in Txn /\ (Spent(cur', t) \/ (pc \in Removing /\ cur' = cur))
  PROVE  Headed(t)'
<1> USE DEF Headed
<1>1. Newest(t)'
  BY DEF Newest, Revision
<1>2. Chain(t)' /\ Apart(t)'
  BY <1>1, QuietShape
<1>3. Alone(t) => Alone(t)'
  BY QuietAlone
<1>4. t # Base => t \in Txn
  BY DEF Revision
<1>5. Held(t)'
  BY <1>3, <1>4 DEF Held, Lasts, Spent
<1>6. \A u \in Txn : Loose(u)' => Loose(u) /\ fate'[u] = fate[u] /\ Lasts(txn[u], txn'[u])
  BY DEF Loose, Unwritten, Wanes, Spent
<1>7. \A u \in Txn : fate[u] # "new" /\ Awaits(u, t) => Awaits(u, t)'
  BY <1>3 DEF Awaits
<1>8. \A u \in Txn : Spent(u, t) => Spent(u, t)'
  BY <1>3, <1>6 DEF Spent
<1>9. \A u \in Txn : Loose(u)' => /\ fate'[u] = "planned" /\ Awaits(u, t)'
                                  /\ Lives(txn'[u]) \/ (cur' = u /\ pc' \in Window)
  BY <1>6, <1>7 DEF Waiting, Lasts
<1>10. \A u, v \in Txn : Loose(u)' /\ Loose(v)' => u = v
  BY <1>6 DEF Waiting
<1>11. pc' \in Making => Awaits(cur, t)'
  BY <1>7 DEF Waiting
<1>12. pc' \in Removing => Spent(cur, t)'
  BY <1>8 DEF Waiting
<1>13. Waiting(t)'
  BY <1>9, <1>10, <1>11, <1>12 DEF Waiting
<1> QED BY <1>1, <1>2, <1>5, <1>13

\* The step that decides u, the one change that is not decided.
LEMMA Decides ==
  ASSUME TypeOK, Ledger, NEW t \in Revision, Headed(t), NEW u \in Txn, Awaits(u, t),
         UNCHANGED <<hist, plan>>, fate' = [fate EXCEPT ![u] = "committed"],
         Lives(txn'[u]),
         \A v \in Txn : Loose(v) => v = u,
         \A v \in Txn : Wanes(txn[v], txn'[v]),
         pc' \notin Making \cup Removing
  PROVE  Headed(u)'
<1> USE DEF Headed
<1>1. /\ u # Base /\ u \in Revision /\ t # u
      /\ \A v \in Txn : fate'[v] = IF v = u THEN "committed" ELSE fate[v]
      /\ Histories' = Histories
  BY NAssumption DEF Revision, Base, Txn, Awaits, TypeOK, BookType, Histories
<1>2. Newest(u)'
  <2>1. \A v \in Txn : fate[v] = "committed" => v <= t
    BY DEF Newest
  <2> QED BY <1>1, <2>1, NAssumption DEF Newest, Awaits, Txn, Revision, Base
<1>3. Chain(u)'
  BY <1>1 DEF Chain, Awaits, Alone, Retired
<1>4. Held(u)'
  BY <1>1 DEF Held
<1>5. Apart(u)'
  <2> SUFFICES ASSUME NEW x \in Histories, NEW v \in x.staged
               PROVE  v \notin x.heads /\ (v \in Txn /\ fate'[v] = "committed" => v = u)
    BY <1>1 DEF Apart
  <2>1. v \notin x.heads /\ (v \in Txn /\ fate[v] = "committed" => v = t) /\ x.heads = {t}
    BY DEF Apart, Awaits, Alone
  <2> QED BY <1>1, <2>1
<1>6. \A v \in Txn : ~Loose(v)'
  <2> SUFFICES ASSUME NEW v \in Txn, Loose(v)' PROVE FALSE
    OBVIOUS
  <2>1. v # u /\ fate'[v] = fate[v]
    BY <1>1 DEF Loose
  <2>2. Loose(v)
    BY <2>1 DEF Loose, Unwritten, Wanes
  <2> QED BY <2>1, <2>2
<1>7. Waiting(u)'
  BY <1>6 DEF Waiting
<1> QED BY <1>2, <1>3, <1>4, <1>5, <1>7

\* While a change is being written nothing else is undecided.
LEMMA NoneElse ==
  ASSUME TypeOK, Ledger, NEW t \in Revision, Headed(t), pc \in Making, ~recovering,
         NEW u \in Txn, u # cur
  PROVE  ~Loose(u)
<1>1. ~blocked /\ scan = {} /\ pc # "idle"
  BY DEF Ledger, Stages, Making, Early, Window
<1>2. Settled(u)
  BY <1>1 DEF Ledger, Cleared
<1> QED BY <1>2 DEF Headed, Waiting, Loose, Settled, Lives, Committing

\* A step that writes the transaction of a change not decided yet.
LEMMA Written ==
  ASSUME TypeOK, Ledger, NEW t \in Revision, Headed(t),
         pc \in Early \cup Window, pc' \in Early \cup Window,
         UNCHANGED <<plan, fate, cur>>,
         \A x \in Histories' : \E y \in Histories :
           x.heads = y.heads /\ x.staged \subseteq y.staged \cup {cur},
         \A u \in Txn : u # cur => Wanes(txn[u], txn'[u]) /\ Lasts(txn[u], txn'[u]),
         Unwritten(cur)' \/ pc' \in Window
  PROVE  Headed(t)'
<1> USE DEF Headed
<1>1. /\ cur \in Txn /\ fate[cur] = "planned" /\ Awaits(cur, t) /\ ~recovering
  BY DEF TypeOK, ProcessType, Ledger, Stages, Making, Early, Window, Waiting
<1>2. t # cur /\ Alone(t)
  BY <1>1, NAssumption DEF Awaits, Txn, Revision, Base
<1>3. Alone(t)' /\ Awaits(cur, t)'
  BY <1>1, <1>2 DEF Alone, Awaits, Retired
<1>4. Newest(t)' /\ Held(t)'
  BY <1>3 DEF Newest, Held
<1>5. Chain(t)'
  BY <1>2, <1>3 DEF Chain, Alone, Retired
<1>6. Apart(t)'
  <2> SUFFICES ASSUME NEW x \in Histories', NEW u \in x.staged
               PROVE  u \notin x.heads /\ (u \in Txn /\ fate[u] = "committed" => u = t)
    BY DEF Apart
  <2>1. PICK y \in Histories : x.heads = y.heads /\ x.staged \subseteq y.staged \cup {cur}
    OBVIOUS
  <2>2. y.heads = {t}
    BY <1>2 DEF Alone
  <2> QED BY <1>1, <1>2, <2>1, <2>2 DEF Apart
<1>7. \A u \in Txn : Loose(u)' => u = cur
  <2> SUFFICES ASSUME NEW u \in Txn, u # cur, Loose(u)' PROVE FALSE
    OBVIOUS
  <2>1. ~Loose(u)
    BY <1>1, NoneElse DEF Making
  <2> QED BY <2>1 DEF Loose, Unwritten, Wanes
<1>8. \A u \in Txn : Loose(u)' => /\ fate'[u] = "planned" /\ Awaits(u, t)'
                                  /\ Lives(txn'[u]) \/ (cur' = u /\ pc' \in Window)
  BY <1>1, <1>3, <1>7 DEF Loose
<1>9. \A u, v \in Txn : Loose(u)' /\ Loose(v)' => u = v
  BY <1>7
<1>10. Waiting(t)'
  BY <1>3, <1>8, <1>9 DEF Waiting, Removing, Early, Window
<1> QED BY <1>4, <1>5, <1>6, <1>10

\* A step that moves the head of the last change, or retires another.
LEMMA Moves ==
  ASSUME TypeOK, Ledger, NEW t \in Revision, Headed(t), t # Base, pc' \in Applying,
         pc \in Applying, UNCHANGED <<txn, plan, fate, cur>>,
         \A x \in Histories' : \E y \in Histories :
           /\ x.heads \subseteq y.heads \cup {t} /\ (t \in y.heads => t \in x.heads)
           /\ x.staged \subseteq y.staged
           /\ \A u \in x.staged : u \in x.heads => u \in y.heads
  PROVE  Headed(t)'
<1> USE DEF Headed
<1>1. t \in Txn
  BY DEF Revision
<1>2. Alone(t) => Alone(t)'
  BY DEF Alone
<1>3. Newest(t)' /\ Held(t)'
  BY <1>2 DEF Newest, Held
<1>4. Chain(t)'
  BY DEF Chain, Retired
<1>5. Apart(t)'
  BY DEF Apart
<1>6. \A u \in Txn : (Loose(u)' => Loose(u)) /\ (Awaits(u, t) => Awaits(u, t)')
  BY <1>2 DEF Loose, Unwritten, Awaits, Retired
<1>7. pc \notin Window /\ pc' \notin Making \cup Removing
  BY DEF Applying, Making, Removing, Early, Window
<1>8. Waiting(t)'
  BY <1>6, <1>7 DEF Waiting
<1> QED BY <1>3, <1>4, <1>5, <1>8

-----------------------------------------------------------------------------
(* The steps                                                               *)

LEMMA StagedHead ==
  ASSUME TypeOK, NEW u, NEW there \in BOOLEAN, StageHead(u, there)
  PROVE  \A x \in Histories' : \E y \in Histories :
           /\ x.heads = y.heads /\ x.staged \subseteq y.staged \cup {u}
           /\ ~there => x.staged \subseteq y.staged
<1> DEFINE New(m) == [m EXCEPT !.staged = IF there THEN @ \cup {u} ELSE @ \ {u}]
<1>1. \A m \in Hist : /\ New(m).heads = m.heads /\ New(m).staged \subseteq m.staged \cup {u}
                      /\ ~there => New(m).staged \subseteq m.staged
  BY DEF Hist
<1>2. hist'.now = New(hist.now) /\ \A m \in hist'.may : m \in hist.may \/ \E n \in hist.may : m = New(n)
  BY DEF StageHead, Issue
<1> HIDE DEF New
<1> QED BY <1>1, <1>2, HistoryTyped DEF Histories

\* Up to the commit point.
LEMMA HeadsWhileWriting ==
  ASSUME JournalSpared, TypeOK, Ledger, Ledger', NEW t \in Revision, Headed(t),
         \/ Stage \/ SyncStaged \/ CreateJournal \/ WriteJournal \/ SyncJournalFile
         \/ SyncJournalDir
  PROVE  Headed(t)'
<1> USE DEF Goto, book, sweep, work, Early, Window
<1>1. /\ pc \in Early \cup Window /\ pc' \in Early \cup Window /\ UNCHANGED <<plan, fate, cur>>
  BY DEF JournalSpared, Strikes, Stage, SyncStaged, CreateJournal, WriteJournal, SyncJournalFile,
     SyncJournalDir
<1>2. cur \in Txn
  BY <1>1 DEF TypeOK, ProcessType
<1>3. Unwritten(cur)' \/ pc' \in Window
  BY <1>1 DEF Ledger, Progress
<1>4. \A x \in Histories' : \E y \in Histories :
        x.heads = y.heads /\ x.staged \subseteq y.staged \cup {cur}
  <2>1. CASE Stage
    BY <2>1, StagedHead DEF Stage
  <2>2. CASE SyncTxn(cur)
    <3>1. hist'.now = hist.now /\ hist'.may \subseteq hist.may
      BY <2>2 DEF SyncTxn, Sync, TypeOK, FolderType, Cells
    <3> QED BY <3>1 DEF Histories
  <2>3. CASE UNCHANGED hist
    BY <2>3 DEF Histories
  <2> QED BY <2>1, <2>2, <2>3 DEF SyncStaged, CreateJournal, WriteJournal, SyncJournalFile,
       SyncJournalDir
<1>5. \A u \in Txn : u # cur => Wanes(txn[u], txn'[u]) /\ Lasts(txn[u], txn'[u])
  <2>1. CASE SyncTxn(cur)
    BY <1>2, <2>1, TxnSynced, Synced
  <2>2. CASE \A u \in Txn : u # cur => txn'[u] = txn[u]
    BY <2>2, Unmoved
  <2>3. CASE Stage \/ CreateJournal \/ WriteJournal \/ SyncJournalFile
    BY <2>2, <2>3 DEF Stage, SetDir, CreateJournal, WriteJournal, SetJournal, SyncJournalFile,
       TypeOK, FolderType
  <2>4. CASE UNCHANGED txn
    BY <2>2, <2>4
  <2> QED BY <2>1, <2>3, <2>4 DEF SyncStaged, SyncJournalDir
<1> QED BY <1>1, <1>3, <1>4, <1>5, Written

\* The commit point.
LEMMA HeadsDecide ==
  ASSUME JournalSpared, TypeOK, Ledger, Ahead', NEW t \in Revision, Headed(t), SyncJournalAbove
  PROVE  \E u \in Revision : Headed(u)'
<1> USE DEF Goto, sweep
<1>1. /\ pc = "jtxns" /\ pc' = "apply" /\ cur \in Txn /\ SyncTransactions
      /\ fate' = [fate EXCEPT ![cur] = "committed"]
      /\ UNCHANGED <<hist, plan, cur>>
  BY DEF SyncJournalAbove, JournalSpared, Strikes, TypeOK, ProcessType
<1>2. \A u \in Txn : txn'[u].now = txn[u].now /\ txn'[u].may \subseteq txn[u].may
  BY <1>1 DEF SyncTransactions, Sync, TypeOK, FolderType, Cells
<1>3. Lives(txn'[cur])
  <2>1. Committing(txn'[cur].now)
    BY <1>1, <1>2 DEF Ledger, Progress, Early, Window, Committing
  <2>2. \A m \in txn'[cur].may : Committing(m)
    BY <1>1, <2>1 DEF Ahead, ShownDurable, Live, MustBeLive, Window
  <2> QED BY <2>1, <2>2 DEF Lives
<1>4. Awaits(cur, t) /\ ~recovering
  BY <1>1 DEF Headed, Waiting, Making, Early, Window, Ledger, Stages
<1>5. \A u \in Txn : Loose(u) => u = cur
  BY <1>1, <1>4, NoneElse DEF Making, Early, Window
<1>6. \A u \in Txn : Wanes(txn[u], txn'[u])
  BY <1>2, Synced
<1>7. ASSUME NEW u \in Txn, u = cur PROVE Headed(u)'
  BY <1>1, <1>3, <1>4, <1>5, <1>6, <1>7, Decides DEF Making, Removing, Early, Window
<1> QED BY <1>1, <1>7 DEF Revision

\* Recovery finishes a change already made, or makes the one that waits.
LEMMA HeadsTakeUp ==
  ASSUME TypeOK, Ledger, NEW t \in Revision, Headed(t), RecoverCommitted
  PROVE  \E u \in Revision : Headed(u)'
<1> USE DEF Goto, folder
<1>1. PICK u \in scan : /\ txn[u].now.journal = "whole"
                        /\ cur' = u /\ fate' = [fate EXCEPT ![u] = "committed"]
  BY FirstIn DEF RecoverCommitted, TakeUp, TypeOK, ProcessType
<1>2. pc = "scan" /\ pc' = "ancestors" /\ UNCHANGED <<txn, hist, plan>>
  BY DEF RecoverCommitted, TakeUp
<1>3. u \in Txn /\ fate[u] \in {"planned", "refused", "committed"}
  BY <1>1 DEF TypeOK, ProcessType, BookType, Ledger, Stages
<1>4. \A v \in Txn : Wanes(txn[v], txn'[v]) /\ Lasts(txn[v], txn'[v])
  BY <1>2, AsItWas
<1>5. pc \notin Window /\ pc' \notin Making \cup Removing
  BY <1>2 DEF Making, Removing, Early, Window
<1>6. CASE fate[u] = "committed"
  <2>1. \A v \in Txn : fate'[v] = fate[v] /\ Retired(v)' = Retired(v)
    BY <1>1, <1>2, <1>3, <1>6 DEF TypeOK, BookType, Retired
  <2> QED BY <1>2, <1>4, <1>5, <2>1, QuietSame, Carries
<1>7. CASE fate[u] # "committed"
  <2>1. Loose(u)
    BY <1>1, <1>3, <1>7 DEF Loose, Unwritten, Journals
  <2>2. Awaits(u, t) /\ Lives(txn[u]) /\ \A v \in Txn : Loose(v) => v = u
    BY <1>3, <1>5, <2>1 DEF Headed, Waiting
  <2>3. Headed(u)'
    BY <1>1, <1>2, <1>3, <1>4, <1>5, <2>2, Decides DEF Lasts
  <2> QED BY <1>3, <2>3 DEF Revision
<1> QED BY <1>6, <1>7

\* A process that is ready to plan has left no change to be finished.
LEMMA ReadyAlone ==
  ASSUME TypeOK, Ledger, pc = "ready", NEW t \in Revision, Headed(t)
  PROVE  Alone(t)
<1>1. ~blocked /\ scan = {} /\ cur = 0
  BY DEF Ledger, Stages
<1>2. \A u \in Txn : Settled(u)
  BY <1>1, NAssumption DEF Ledger, Cleared, Txn
<1>3. \A u \in Txn : ~Lives(txn[u])
  BY <1>2 DEF Settled, Unwritten, Journals, Lives, Committing
<1> QED BY <1>3 DEF Headed, Held, Revision

LEMMA HeadsPlan ==
  ASSUME TypeOK, Ledger, NEW t \in Revision, Headed(t), Plan
  PROVE  Headed(t)'
<1> USE DEF Goto, folder
<1>1. PICK u \in Txn :
        /\ fate[u] = "new" /\ \A v \in 1..(u - 1) : fate[v] # "new"
        /\ cur' = u /\ fate' = [fate EXCEPT ![u] = "planned"]
        /\ \E d, gone : plan' = [plan EXCEPT ![u] =
                          [change |-> d, retire |-> hist.now.heads, prune |-> gone]]
  BY DEF Plan
<1>2. pc = "ready" /\ pc' = "preflight" /\ UNCHANGED <<txn, hist>>
  BY DEF Plan
<1>3. Alone(t)
  BY <1>2, ReadyAlone
<1>4. u > t
  <2>1. CASE t = Base
    BY <2>1, NAssumption DEF Base, Txn
  <2>2. CASE t # Base
    <3>1. t \in Txn /\ fate[t] = "committed"
      BY <2>2 DEF Headed, Newest, Revision
    <3>2. ~(u < t) /\ u # t
      BY <1>1, <3>1 DEF Ledger, InTurn
    <3> QED BY <3>1, <3>2, NAssumption DEF Txn
  <2> QED BY <2>1, <2>2
<1>5. /\ Retired(u)' = hist.now.heads
      /\ \A v \in Txn : v # u => Retired(v)' = Retired(v) /\ fate'[v] = fate[v]
      /\ fate'[u] = "planned"
  BY <1>1 DEF TypeOK, BookType, Retired
<1>6. Awaits(cur, t)'
  BY <1>1, <1>2, <1>3, <1>4, <1>5 DEF Awaits, Alone, Histories
<1>7. \A v \in Txn : \/ fate'[v] = fate[v]
                     \/ fate[v] # "committed" /\ fate'[v] # "committed" /\ Unwritten(v)
  BY <1>1, <1>5 DEF Ledger, InTurn
<1>8. \A v \in Txn : Wanes(txn[v], txn'[v]) /\ Lasts(txn[v], txn'[v])
  BY <1>2, AsItWas
<1>9. pc \notin Window /\ pc' \notin Removing
  BY <1>2 DEF Removing, Window
<1> QED BY <1>1, <1>2, <1>5, <1>6, <1>7, <1>8, <1>9, QuietSame, Carries

\* The change that is refused has no journal anywhere.
LEMMA Refuses ==
  ASSUME TypeOK, Ledger, NEW t \in Revision, Headed(t), NEW u \in Txn, Unwritten(u),
         fate[u] # "committed", fate' = [fate EXCEPT ![u] = "refused"], UNCHANGED <<hist, plan>>,
         \A v \in Txn : Wanes(txn[v], txn'[v]) /\ Lasts(txn[v], txn'[v]),
         pc \notin Window, pc' \notin Making \cup Removing
  PROVE  Headed(t)'
<1>1. \A v \in Txn : /\ fate'[v] = fate[v] \/ (v = u /\ fate'[v] = "refused")
                     /\ Retired(v)' = Retired(v)
  BY DEF TypeOK, BookType, Retired
<1> QED BY <1>1, QuietSame, Carries

LEMMA HeadsPreflight ==
  ASSUME TypeOK, Ledger, NEW t \in Revision, Headed(t), PreflightRefuses
  PROVE  Headed(t)'
<1>1. /\ pc = "preflight" /\ pc' = "ready" /\ cur \in Txn /\ UNCHANGED <<txn, hist, plan>>
      /\ fate' = [fate EXCEPT ![cur] = "refused"]
  BY DEF PreflightRefuses, Goto, folder, TypeOK, ProcessType
<1>2. fate[cur] = "planned" /\ Unwritten(cur)
  BY <1>1 DEF Ledger, Stages, Progress, Making, Early
<1> QED BY <1>1, <1>2, AsItWas, Refuses DEF Making, Removing, Early, Window

LEMMA HeadsPublish ==
  ASSUME TypeOK, Ledger, NEW t \in Revision, Headed(t), Publish
  PROVE  Headed(t)'
<1> USE DEF Goto, book, sweep, work
<1>1. /\ pc = "publish" /\ pc' = "retire" /\ cur \in Txn /\ fate[cur] = "committed"
      /\ UNCHANGED <<txn, plan, fate, cur>>
  BY DEF Publish, TypeOK, ProcessType, Ledger, Stages, Applying
<1>2. CASE UNCHANGED hist
  BY <1>1, <1>2, AsItWas, QuietSame, Carries DEF Making, Removing, Early, Window, Retired
<1>3. CASE MoveHead /\ cur \in hist.now.staged
  <2>1. t = cur /\ t # Base
    BY <1>1, <1>3, NAssumption DEF Headed, Apart, Histories, Base, Txn
  <2> DEFINE New(m) == [heads |-> m.heads \cup {cur}, staged |-> m.staged \ {cur}]
  <2>2. \A m : New(m).heads = m.heads \cup {cur} /\ New(m).staged = m.staged \ {cur}
    OBVIOUS
  <2>3. /\ hist'.now = New(hist.now)
        /\ \A m \in hist'.may : m \in hist.may \/ \E n \in hist.may : m = New(n)
    BY <1>3 DEF MoveHead, Issue
  <2> HIDE DEF New
  <2>4. \A x \in Histories' : \E y \in Histories :
          /\ x.heads \subseteq y.heads \cup {t} /\ (t \in y.heads => t \in x.heads)
          /\ x.staged \subseteq y.staged
          /\ \A u \in x.staged : u \in x.heads => u \in y.heads
    BY <2>1, <2>2, <2>3 DEF Histories
  <2> QED BY <1>1, <2>1, <2>4, Moves DEF Applying
<1> QED BY <1>2, <1>3 DEF Publish

\* Only the last change has a head to retire.
LEMMA HeadsRetire ==
  ASSUME TypeOK, Ledger, NEW t \in Revision, Headed(t), Retire
  PROVE  Headed(t)'
<1> USE DEF Goto, book, sweep, work
<1>1. /\ pc = "retire" /\ pc' = "retire" /\ cur \in Txn /\ fate[cur] = "committed"
      /\ UNCHANGED <<txn, plan, fate, cur>> /\ cur \in hist.now.heads
  BY DEF Retire, TypeOK, ProcessType, Ledger, Stages, Applying, Publishing
<1>2. PICK h \in Retired(cur) \cap hist.now.heads :
        LET Same(m) == (h \in m.heads) = (h \in hist.now.heads)
            New(m) == [m EXCEPT !.heads = @ \ {h}]
        IN  hist' = Issue(hist, Same, New)
  BY DEF Retire
<1>3. h < cur /\ cur <= t
  BY <1>1, <1>2 DEF Ledger, HeadsDecided, Headed, Newest
<1>4. t # Base /\ t \in Txn
  BY <1>1, <1>3, NAssumption DEF Base, Txn, Revision
<1>5. h \in Revision
  BY <1>2 DEF TypeOK, FolderType, Cells, Hist
<1>6. h # t
  BY <1>1, <1>3, <1>4, <1>5, NAssumption DEF Base, Txn, Revision
<1> DEFINE New(m) == [m EXCEPT !.heads = @ \ {h}]
<1>7. \A m \in Hist : New(m).heads = m.heads \ {h} /\ New(m).staged = m.staged
  BY DEF Hist
<1>8. /\ hist'.now = New(hist.now)
      /\ \A m \in hist'.may : m \in hist.may \/ \E n \in hist.may : m = New(n)
  BY <1>2 DEF Issue
<1> HIDE DEF New
<1>9. \A x \in Histories' : \E y \in Histories :
        /\ x.heads \subseteq y.heads \cup {t} /\ (t \in y.heads => t \in x.heads)
        /\ x.staged \subseteq y.staged
        /\ \A u \in x.staged : u \in x.heads => u \in y.heads
  BY <1>6, <1>7, <1>8, HistoryTyped DEF Histories
<1> QED BY <1>1, <1>4, <1>9, Moves DEF Applying

\* A journal is removed, or what has none discarded, once nothing depends on it.
LEMMA HeadsRemove ==
  ASSUME TypeOK, Ledger, Closing, NEW t \in Revision, Headed(t),
         RecoverDiscard \/ RemoveJournal \/ Unlink \/ RemoveTxnDir
  PROVE  Headed(t)'
<1> USE DEF Goto, book, folder, sweep, work
<1>1. /\ pc \in {"scan", "finish", "discard", "rmdir"} /\ pc' \in Removing
      /\ pc \notin Window /\ pc' \notin Making /\ UNCHANGED <<plan, fate>>
  BY DEF RecoverDiscard, RemoveJournal, Unlink, RemoveTxnDir, Removing, Making, Early, Window
<1>2. CASE RecoverDiscard
  <2>1. cur' \in Txn /\ txn[cur'].now.journal # "whole" /\ UNCHANGED <<txn, hist>>
    BY <1>2, FirstIn DEF RecoverDiscard, TypeOK, ProcessType
  <2>2. ~Lives(txn[cur'])
    BY <2>1 DEF Lives, Committing
  <2>3. Spent(cur', t)
    BY <1>1, <2>1, <2>2 DEF Spent, Headed, Held, Waiting
  <2> QED BY <1>1, <2>1, <2>3, QuietSame, AsItWas, Carries DEF Retired
<1>3. CASE RemoveJournal \/ Unlink \/ RemoveTxnDir
  <2>1. /\ cur \in Txn /\ cur' = cur /\ txn[cur] \in Cells(TxnDir)
        /\ \A u \in Txn : u # cur => txn'[u] = txn[u]
    BY <1>1, <1>3 DEF RemoveJournal, SetJournal, Unlink, RemoveTxnDir, SetDir, TypeOK, FolderType,
       ProcessType
  <2>2. Spent(cur, t)
    <3>1. CASE RemoveJournal
      <4>1. /\ fate[cur] = "committed" /\ cur \in hist.now.heads /\ cur <= t
            /\ Retired(cur) \cap hist.now.heads = {}
            /\ \A x \in Histories : x.heads = hist.now.heads
        BY <2>1, <3>1 DEF RemoveJournal, Ledger, Stages, Applying, Publishing, Published, Closing,
           Headed, Newest
      <4>2. t = cur => hist.now.heads = {t}
        BY <2>1, <4>1, NAssumption DEF Headed, Chain, Histories, Base, Txn
      <4> QED BY <4>1, <4>2 DEF Spent, Loose, Alone
    <3>2. CASE Unlink \/ RemoveTxnDir
      BY <3>2 DEF Unlink, RemoveTxnDir, Headed, Waiting, Removing
    <3> QED BY <1>3, <3>1, <3>2
  <2>3. Wanes(txn[cur], txn'[cur])
    <3>1. CASE RemoveJournal
      BY <2>1, <3>1, Journalled DEF RemoveJournal, SetJournal, TypeOK, FolderType
    <3>2. CASE Unlink
      <4> DEFINE half == WithJournal(txn[cur], "none")
      <4>1. /\ txn'[cur] = WithMarker(half, FALSE)
            /\ half \in Cells(TxnDir) /\ Wanes(txn[cur], half)
        BY <2>1, <3>2, WithJournalType, Journalled DEF Unlink, TypeOK, FolderType
      <4> HIDE DEF half
      <4>2. Wanes(half, txn'[cur])
        BY <4>1, Marked
      <4> QED BY <4>1, <4>2 DEF Wanes
    <3>3. CASE RemoveTxnDir
      BY <2>1, <3>3, Housed DEF RemoveTxnDir, SetDir, TypeOK, FolderType
    <3> QED BY <1>3, <3>1, <3>2, <3>3
  <2>4. Quiet
    <3>1. CASE RemoveJournal \/ RemoveTxnDir
      BY <3>1, QuietSame DEF RemoveJournal, RemoveTxnDir
    <3>2. CASE Unlink
      BY <3>2, StagedHead DEF Unlink, Quiet
    <3> QED BY <1>3, <3>1, <3>2
  <2>5. \A u \in Txn : /\ Wanes(txn[u], txn'[u])
                       /\ Lasts(txn[u], txn'[u]) \/ Spent(u, t)
    BY <2>1, <2>2, <2>3, Unmoved
  <2> QED BY <1>1, <2>1, <2>2, <2>4, <2>5, Carries DEF Retired
<1> QED BY <1>2, <1>3

LEMMA HeadsSettle ==
  ASSUME TypeOK, Ledger, NEW t \in Revision, Headed(t), pc \in Removing, Settle,
         UNCHANGED hist, txn' = txn \/ SyncTransactions
  PROVE  Headed(t)'
<1> USE DEF Goto
<1>1. /\ cur \in Txn /\ fate[cur] \in {"planned", "committed", "refused"}
      /\ pc \notin Window /\ pc' \notin Making \cup Removing /\ UNCHANGED plan
  BY DEF TypeOK, BookType, ProcessType, Ledger, Stages, Settle, Making, Removing, Early, Window
<1>2. \A u \in Txn : Wanes(txn[u], txn'[u]) /\ Lasts(txn[u], txn'[u])
  <2>1. \A u \in Txn : txn'[u].now = txn[u].now /\ txn'[u].may \subseteq txn[u].may
    BY DEF SyncTransactions, Sync, TypeOK, FolderType, Cells
  <2> QED BY <2>1, Synced
<1>3. CASE fate[cur] = "committed"
  <2>1. \A u \in Txn : fate'[u] = fate[u]
    BY <1>1, <1>3 DEF Settle, TypeOK, BookType
  <2> QED BY <1>1, <1>2, <2>1, QuietSame, Carries DEF Retired
<1>4. CASE fate[cur] # "committed"
  <2>1. Unwritten(cur)
    BY <1>1, <1>4 DEF Headed, Waiting, Spent, Loose
  <2>2. fate' = [fate EXCEPT ![cur] = "refused"]
    BY <1>4 DEF Settle
  <2> QED BY <1>1, <1>2, <1>4, <2>1, <2>2, Refuses
<1> QED BY <1>3, <1>4

\* The power leaves a journal whole, and for good, or not at all.
LEMMA HeadsLoss ==
  ASSUME TypeOK, Ledger, NEW t \in Revision, Headed(t), PowerLoss
  PROVE  Headed(t)'
<1> USE DEF Goto, Exit, Rest, book
<1>1. pc' = "idle" /\ UNCHANGED <<plan, fate>>
  BY DEF PowerLoss
<1>2. PICK tt \in Choices(Txn, LAMBDA u : txn[u].may), hh \in hist.may :
        /\ txn' = [u \in Txn |-> Durable(IF tt[u].dir THEN tt[u] ELSE Gone)]
        /\ hist' = Durable([hh EXCEPT !.staged = {u \in @ : tt[u].dir}])
  BY DEF PowerLoss
<1>3. \A u \in Txn : tt[u] \in txn[u].may
  BY <1>2 DEF Choices
<1>4. ASSUME NEW u \in Txn
      PROVE  /\ Wanes(txn[u], txn'[u]) /\ Lasts(txn[u], txn'[u])
             /\ Unwritten(u)' \/ Lives(txn'[u])
  <2> DEFINE m == IF tt[u].dir THEN tt[u] ELSE Gone
  <2>1. txn'[u].now = m /\ txn'[u].may = {m} /\ tt[u] \in txn[u].may
    BY <1>2, <1>3 DEF Durable
  <2>2. \/ m = tt[u] /\ tt[u].dir
        \/ m = Gone /\ ~tt[u].dir
    OBVIOUS
  <2> HIDE DEF m
  <2>3. ~Gone.dir /\ Gone.journal = "none" /\ Gone.dir = FALSE
    BY DEF Gone
  <2>4. Wanes(txn[u], txn'[u]) /\ Lasts(txn[u], txn'[u])
    BY <2>1, <2>2, <2>3 DEF Wanes, Lasts, Lives, Journals, Dirs, Committing
  <2>5. Unwritten(u)' \/ Lives(txn'[u])
    BY <2>1, <2>2, <2>3 DEF Unwritten, Journals, Lives, Committing
  <2> QED BY <2>4, <2>5
<1>5. Quiet
  <2> DEFINE h == [hh EXCEPT !.staged = {u \in @ : tt[u].dir}]
  <2>1. h.heads = hh.heads /\ h.staged \subseteq hh.staged
    BY DEF TypeOK, FolderType, Cells, Hist
  <2>2. hist'.now = h /\ hist'.may = {h}
    BY <1>2 DEF Durable
  <2> HIDE DEF h
  <2> QED BY <2>1, <2>2 DEF Quiet, Histories
<1> USE DEF Headed
<1>6. Newest(t)'
  BY <1>1 DEF Newest
<1>7. Chain(t)' /\ Apart(t)'
  BY <1>1, <1>5, <1>6, QuietShape DEF Retired
<1>8. Alone(t) => Alone(t)'
  BY <1>5, QuietAlone
<1>9. Held(t)'
  BY <1>4, <1>8 DEF Held, Lasts, Revision
<1>10. \A u \in Txn : Loose(u)' => Loose(u) /\ Lives(txn'[u]) /\ fate'[u] = fate[u]
  BY <1>1, <1>4 DEF Loose, Unwritten, Wanes
<1>11. \A u \in Txn : Awaits(u, t) => Awaits(u, t)'
  BY <1>1, <1>8 DEF Awaits, Retired
<1>12. Waiting(t)'
  BY <1>1, <1>10, <1>11 DEF Waiting, Making, Removing, Early, Window
<1> QED BY <1>6, <1>7, <1>9, <1>12

-----------------------------------------------------------------------------
(* Every step                                                              *)

\* The steps that leave fates, plans and journals as they are.
LEMMA HeadsElsewhere ==
  ASSUME TypeOK, Ledger, NEW t \in Revision, Headed(t), Quiet, UNCHANGED <<plan, fate>>,
         \A u \in Txn : Wanes(txn[u], txn'[u]) /\ Lasts(txn[u], txn'[u]),
         pc \notin Window, pc' \notin Making,
         pc' \notin Removing
  PROVE  Headed(t)'
BY Carries DEF Retired

LEMMA HeadsStep ==
  ASSUME JournalSpared, TypeOK, Ledger, Ledger', Ahead, Ahead', HeadsKept, [Next]_vars
  PROVE  \E t \in Revision : Headed(t)'
<1> USE DEF Goto, folder, book, sweep, work
<1>0. PICK t \in Revision : Headed(t)
  BY DEF HeadsKept
<1>1. CASE Stage \/ SyncStaged \/ CreateJournal \/ WriteJournal \/ SyncJournalFile \/ SyncJournalDir
  BY <1>0, <1>1, HeadsWhileWriting
<1>2. CASE SyncJournalAbove
  BY <1>0, <1>2, HeadsDecide
<1>3. CASE Retract \/ SyncRetraction
  BY <1>3 DEF Ahead, Retract, SyncRetraction
<1>4. CASE RecoverCommitted \/ Plan \/ PreflightRefuses \/ Publish \/ Retire \/ PowerLoss
  BY <1>0, <1>4, HeadsTakeUp, HeadsPlan, HeadsPreflight, HeadsPublish, HeadsRetire, HeadsLoss
<1>5. CASE RecoverDiscard \/ RemoveJournal \/ Unlink \/ RemoveTxnDir
  BY <1>0, <1>5, HeadsRemove DEF HeadsKept
<1>6. CASE SyncRemoval \/ (DiscardBlocked /\ ~(recovering \/ fate[cur] = "committed"))
  <2>1. pc \in Removing /\ Settle /\ UNCHANGED hist /\ (txn' = txn \/ SyncTransactions)
    BY <1>6 DEF SyncRemoval, DiscardBlocked, Removing
  <2> QED BY <1>0, <2>1, HeadsSettle
<1> DEFINE Idle == /\ UNCHANGED <<txn, hist, plan, fate>>
                   /\ pc \notin Window /\ pc' \notin Making /\ pc' \notin Removing
<1>7. Idle => Headed(t)'
  BY <1>0, QuietSame, AsItWas, HeadsElsewhere
<1>8. CASE Open \/ RecoverEnd \/ Close
  <2>1. Idle
    BY <1>8 DEF Open, RecoverEnd, Close, Exit, Making, Removing, Early, Window
  <2> QED BY <1>7, <2>1
<1>9. CASE DiscardBlocked /\ (recovering \/ fate[cur] = "committed")
  <2>1. Idle
    BY <1>9 DEF DiscardBlocked, Halt, Report, Exit, Making, Removing, Early, Window
  <2> QED BY <1>7, <2>1
<1>10. CASE Kill
  <2>1. pc \notin Window /\ pc' = "idle" /\ UNCHANGED <<txn, hist, plan, fate>>
    BY <1>10 DEF Kill, KindOfKill, Strikes, JournalSpared, JournalWindow, Window, Exit
  <2>2. Idle
    BY <2>1 DEF Making, Removing, Early, Window
  <2> QED BY <1>7, <2>2
<1>11. CASE Look \/ Rewrite \/ RewriteFails \/ PlaceFile \/ RemoveFile \/ MakeParent \/ Prune
            \/ RetireDone
  <2>1. Idle
    BY <1>11 DEF Look, LookAt, Rewrite, RewriteFails, PlaceFile, RemoveFile, Placed, MakeParent,
       Prune, RetireDone, Making, Removing, Early, Window
  <2> QED BY <1>7, <2>1
<1>12. CASE RewriteLost \/ PlaceLost \/ PublishLost \/ PlaceBlocked \/ FinishBlocked
  <2>1. Idle
    BY <1>12 DEF RewriteLost, PlaceLost, PublishLost, PlaceBlocked, FinishBlocked, Suspend, Halt,
       Report, Exit, Making, Removing, Early, Window
  <2> QED BY <1>7, <2>1
<1>13. CASE Mark
  <2>1. /\ UNCHANGED <<hist, plan, fate>>
        /\ pc \notin Window /\ pc' \notin Making /\ pc' \notin Removing
    BY <1>13 DEF Mark, Suspend, Report, Exit, Making, Removing, Early, Window
  <2>2. \A u \in Txn : txn[u] \in Cells(TxnDir)
    BY DEF TypeOK, FolderType
  <2>3. \A u \in Txn : txn'[u] = txn[u] \/ txn'[u] = WithMarker(txn[u], TRUE)
    BY <1>13 DEF Mark, SetMarker, TypeOK, FolderType
  <2>4. \A u \in Txn : Wanes(txn[u], txn'[u]) /\ Lasts(txn[u], txn'[u])
    BY <2>2, <2>3, Unmoved, Marked
  <2> QED BY <1>0, <2>1, <2>4, QuietSame, HeadsElsewhere
<1>14. CASE SyncAncestors \/ SyncPlaced \/ SyncPublished \/ SyncParent
  <2>1. /\ UNCHANGED <<txn, plan, fate>>
        /\ pc \notin Window /\ pc' \notin Making /\ pc' \notin Removing
        /\ UNCHANGED hist \/ \E x : SyncDir(x)
    BY <1>14 DEF SyncAncestors, SyncPlaced, SyncPublished, SyncParent, SyncTouched, SyncFails,
       Making, Removing, Early, Window
  <2>2. hist'.now = hist.now /\ hist'.may \subseteq hist.may
    BY <2>1 DEF SyncDir, Sync, TypeOK, FolderType, Cells
  <2> QED BY <1>0, <2>1, <2>2, AsItWas, QuietSync, HeadsElsewhere
<1>15. CASE UNCHANGED vars \/ \E p \in Target : Edit(p)
  <2>1. UNCHANGED <<txn, hist, plan, fate, pc, cur>>
    BY <1>15 DEF vars, Edit
  <2>2. /\ pc \in Making => cur \in Txn /\ fate[cur] # "new"
        /\ pc \in Removing => cur \in Txn
    BY DEF TypeOK, ProcessType, Ledger, Stages, Making, Removing, Early, Window
  <2> QED BY <1>0, <2>1, <2>2, QuietSame, AsItWas, Carries DEF Retired
<1> HIDE DEF Idle
<1> QED
  BY <1>1, <1>2, <1>3, <1>4, <1>5, <1>6, <1>8, <1>9, <1>10, <1>11, <1>12, <1>13, <1>14, <1>15
     DEF Next, Step, Recovery, Commit, Apply, Finish, Lost, Refused

LEMMA ClosingStep ==
  ASSUME TypeOK, Closing, [Next]_vars
  PROVE  Closing'
<1> SUFFICES ASSUME pc' \in {"published", "finish"} PROVE Closing'
  BY DEF Closing
<1> USE DEF Goto, folder, book, sweep, work
<1>1. CASE RetireDone
  BY <1>1 DEF RetireDone, Closing, Retired
<1>2. CASE SyncPublished
  <2>1. pc = "published" /\ UNCHANGED <<plan, cur>>
    BY <1>2 DEF SyncPublished, SyncTouched
  <2>2. \/ pc' = "finish" /\ touched = {} /\ UNCHANGED <<hist, touched>>
        \/ \E x \in touched : SyncDir(x) /\ touched' = touched \ {x} /\ pc' = "published"
    BY <1>2, <2>1 DEF SyncPublished, SyncTouched, SyncFails
  <2>3. CASE pc' = "finish" /\ touched = {} /\ UNCHANGED <<hist, touched>>
    BY <2>1, <2>3 DEF Closing, Retired, Histories
  <2>4. CASE \E x \in touched : SyncDir(x) /\ touched' = touched \ {x} /\ pc' = "published"
    <3>1. PICK x \in touched : SyncDir(x) /\ touched' = touched \ {x} /\ pc' = "published"
      BY <2>4
    <3>2. hist'.now = hist.now /\ hist'.may \subseteq hist.may
      BY <3>1 DEF SyncDir, Sync, TypeOK, FolderType, Cells
    <3>3. x = HistDir => \A m \in hist'.may : m.heads = hist.now.heads
      BY <3>1 DEF SyncDir, Sync, TypeOK, FolderType, Cells
    <3>4. HistDir \in touched' \/ \A y \in Histories' : y.heads = hist'.now.heads
      BY <2>1, <3>1, <3>2, <3>3 DEF Closing, Histories
    <3> QED BY <2>1, <3>1, <3>2, <3>4 DEF Closing, Retired
  <2> QED BY <2>2, <2>3, <2>4
<1>3. CASE UNCHANGED vars \/ \E p \in Target : Edit(p)
  BY <1>3 DEF vars, Edit, Closing, Retired, Histories
<1>4. CASE Recovery \/ Commit \/ Plan \/ Close \/ Kill \/ PowerLoss
  <2>1. CASE Recovery \/ Plan \/ Close \/ Kill \/ PowerLoss
    BY <2>1 DEF Recovery, Open, RecoverCommitted, RecoverDiscard, RecoverEnd, Plan, Close, Kill,
       PowerLoss, Exit
  <2>2. CASE Commit
    BY <2>2 DEF Commit, PreflightRefuses, Stage, SyncStaged, CreateJournal, WriteJournal,
       SyncJournalFile, SyncJournalDir, SyncJournalAbove, Retract, SyncRetraction, Report, Exit
  <2> QED BY <1>4, <2>1, <2>2
<1>5. CASE Finish \/ Lost \/ Refused
  BY <1>5 DEF Finish, RemoveJournal, Unlink, RemoveTxnDir, SyncRemoval, Settle, Lost,
     RewriteLost, PlaceLost, PublishLost, Refused, PlaceBlocked, FinishBlocked, DiscardBlocked,
     Suspend, Halt, Report, Exit
<1>6. CASE \/ SyncAncestors \/ Look \/ Rewrite \/ RewriteFails \/ PlaceFile \/ RemoveFile
           \/ MakeParent \/ SyncParent \/ Prune \/ SyncPlaced \/ Publish \/ Retire \/ Mark
  BY <1>6 DEF SyncAncestors, SyncPlaced, SyncTouched, SyncFails, Look, LookAt, Rewrite,
     RewriteFails, PlaceFile, RemoveFile, Placed, MakeParent, SyncParent, Prune, Publish, Retire,
     Mark, Suspend, Report, Exit
<1> QED BY <1>1, <1>2, <1>3, <1>4, <1>5, <1>6 DEF Next, Step, Apply

LEMMA HeadsInit == Init => HeadsKept
<1> SUFFICES ASSUME Init PROVE HeadsKept
  OBVIOUS
<1> USE DEF Init
<1>1. /\ \A x \in Histories : x.heads = {Base} /\ x.staged = {}
      /\ \A u \in Txn : fate[u] = "new"
      /\ pc = "idle"
  BY DEF Durable, Histories
<1>2. Alone(Base) /\ Apart(Base) /\ Newest(Base)
  BY <1>1 DEF Alone, Apart, Newest
<1>3. Waiting(Base)
  BY <1>1 DEF Waiting, Loose, Making, Removing, Early, Window
<1>4. Headed(Base)
  BY <1>2, <1>3 DEF Headed, Held, Chain
<1> QED BY <1>1, <1>4 DEF HeadsKept, Closing, Revision

\* The last change made is the greatest.
LEMMA NewestIsLast ==
  ASSUME NEW t \in Revision, Newest(t)
  PROVE  LET made == {u \in Txn : fate[u] = "committed"}
         IN  t = IF made = {} THEN Base ELSE CHOOSE u \in made : \A v \in made : v <= u
<1> DEFINE made == {u \in Txn : fate[u] = "committed"}
<1>1. CASE t = Base
  <2>1. made = {}
    BY <1>1, NAssumption DEF Newest, Base, Txn
  <2> QED BY <1>1, <2>1
<1>2. CASE t # Base
  <2>1. t \in made /\ \A v \in made : v <= t
    BY <1>2 DEF Newest, Revision
  <2>2. \A u \in made : (\A v \in made : v <= u) => u = t
    BY <2>1, NAssumption DEF Txn
  <2>3. (CHOOSE u \in made : \A v \in made : v <= u) = t
    BY <2>1, <2>2
  <2> QED BY <2>1, <2>3
<1> QED BY <1>1, <1>2

\* Whatever fails but the syncing of a journal: a process that is ready to plan
\* finds the head of the last change made, no other, and on every disk.
THEOREM HeadsFollow ==
  ASSUME JournalSpared
  PROVE  Spec => []HeadFollows
<1>1. TypeOK /\ Ledger /\ Ledger' /\ Ahead /\ Ahead' /\ HeadsKept /\ [Next]_vars => HeadsKept'
  BY HeadsStep, ClosingStep DEF HeadsKept
<1>2. TypeOK /\ Ledger /\ HeadsKept => HeadFollows
  <2> SUFFICES ASSUME TypeOK, Ledger, HeadsKept, pc = "ready"
               PROVE  LET made == {u \in Txn : fate[u] = "committed"} IN
                        /\ hist.now.heads =
                             {IF made = {} THEN Base
                              ELSE CHOOSE u \in made : \A v \in made : v <= u}
                        /\ \A h \in hist.may : h.heads = hist.now.heads
    BY DEF HeadFollows
  <2>1. PICK t \in Revision : Headed(t)
    BY DEF HeadsKept
  <2>2. hist.now.heads = {t} /\ \A h \in hist.may : h.heads = {t}
    BY <2>1, ReadyAlone DEF Alone, Histories
  <2>3. LET made == {u \in Txn : fate[u] = "committed"}
        IN  t = IF made = {} THEN Base ELSE CHOOSE u \in made : \A v \in made : v <= u
    BY <2>1, NewestIsLast DEF Headed
  <2> QED BY <2>2, <2>3
<1> QED BY <1>1, <1>2, HeadsInit, Kept, AheadAlways, PTL DEF Spec

=============================================================================
