----------------------------- MODULE Statements -----------------------------
(***************************************************************************)
(* A transaction of several statements: transaction.rs.  Each statement is *)
(* planned against what the ones before it left in the mirror, inside a    *)
(* savepoint; for every path one touched the transaction keeps the row     *)
(* there when it began and the row there now, and commits the difference   *)
(* as one change.                                                          *)
(*                                                                         *)
(* A statement's rows are those of its expansion (Cascade): each leaves a  *)
(* path, lands on one, or both, no two land on one path, and none lands on *)
(* a row that stays.                                                       *)
(***************************************************************************)
EXTENDS Naturals

CONSTANTS
  Places,       \* the paths rows may lie at
  Rows,         \* what rows may hold
  MaxStatements

VARIABLES
  found,        \* the database the transaction began on: path -> row
  mirror,       \* what its statements see
  net,          \* path -> [began, now]
  txn           \* [phase, statements, change]

statementsVars == <<found, mirror, net, txn>>

NoRow == "none"
ASSUME StatementsAssumption == NoRow \notin Rows /\ MaxStatements \in Nat

Databases == UNION {[P -> Rows] : P \in SUBSET Places}
RowAt(db, path) == IF path \in DOMAIN db THEN db[path] ELSE NoRow
Holding(rows) == [path \in {p \in DOMAIN rows : rows[p] # NoRow} |-> rows[path]]

Idle == [phase |-> "none", statements |-> 0, change |-> <<>>]
StatementsIdle == found = <<>> /\ mirror = <<>> /\ net = <<>> /\ txn = Idle
StatementsInit ==
  /\ found \in Databases /\ mirror = found /\ net = <<>>
  /\ txn = [Idle EXCEPT !.phase = "open"]

\* A statement: the rows that leave their paths, and what lands where.
Legal(left, landed) == \A path \in DOMAIN landed : path \in DOMAIN mirror => path \in left
After(left, landed) ==
  Holding([path \in Places |->
    IF path \in DOMAIN landed THEN landed[path]
    ELSE IF path \in left THEN NoRow ELSE RowAt(mirror, path)])

\* Mutant: a row leaves its path after others were placed.
NetOneByOne(left, landed) ==
  [path \in DOMAIN net \union left \union DOMAIN landed |->
     [began |-> IF path \in DOMAIN net THEN net[path].began ELSE RowAt(mirror, path),
      now |-> IF path \in left THEN NoRow
              ELSE IF path \in DOMAIN landed THEN landed[path] ELSE net[path].now]]

\* apply: every row leaves its path before any is placed; a path no statement
\* touched yet holds what it held when the transaction began.
Net(left, landed) ==
  [path \in DOMAIN net \union left \union DOMAIN landed |->
     [began |-> IF path \in DOMAIN net THEN net[path].began ELSE RowAt(mirror, path),
      now |-> IF path \in DOMAIN landed THEN landed[path]
              ELSE IF path \in left THEN NoRow ELSE net[path].now]]

Execute(left, landed) ==
  /\ txn.phase = "open" /\ txn.statements < MaxStatements
  /\ Legal(left, landed)
  /\ net' = Net(left, landed)
  /\ mirror' = After(left, landed)
  /\ txn' = [txn EXCEPT !.statements = @ + 1]
  /\ UNCHANGED found

\* unwind: the mirror and the catalog are what the transaction found.
Rollback ==
  /\ txn.phase = "open"
  /\ mirror' = found /\ txn' = [txn EXCEPT !.phase = "rolled back"]
  /\ UNCHANGED <<found, net>>

\* commit: what each path held and holds, where that is not the same.
ChangeOf ==
  [path \in {p \in DOMAIN net : net[p].began # net[p].now} |->
     [before |-> net[path].began, after |-> net[path].now]]

CommitAll ==
  /\ txn.phase = "open"
  /\ mirror' = found
  /\ txn' = [txn EXCEPT !.phase = "committed", !.change = ChangeOf]
  /\ UNCHANGED <<found, net>>

StatementsNext ==
  \/ \E left \in SUBSET DOMAIN mirror, landed \in Databases : Execute(left, landed)
  \/ Rollback
  \/ CommitAll

StatementsSpec == StatementsInit /\ [][StatementsNext]_statementsVars

-----------------------------------------------------------------------------
(* What a transaction promises                                             *)

\* The one change a transaction would commit takes the database it found to
\* the state its statements saw: rows that trade paths, land where another
\* left, or leave and come back included (transaction.rs:190, :16).
NetIsEffect ==
  txn.phase = "open" =>
    Holding([path \in Places |-> IF path \in DOMAIN ChangeOf THEN ChangeOf[path].after
                                 ELSE RowAt(found, path)]) = mirror

=============================================================================
