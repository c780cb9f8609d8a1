----------------------------- MODULE AtomicStore -----------------------------
(***************************************************************************)
(* What the commit protocol promises, with the files, the journal and the  *)
(* crashes left out: a change happens to every row at once or to none, it  *)
(* is decided once, and a decided change is never undone.                  *)
(*                                                                         *)
(* db[p] is what a reader sees of target p: what the file will hold when   *)
(* the change in progress, if any, is finished.  A change may be visible   *)
(* before it is decided -- its journal is written and not yet durable --   *)
(* and is then withdrawn whole or decided whole.                           *)
(***************************************************************************)
EXTENDS Integers, Functions

CONSTANTS Target,    \* the files a change may write or remove
          Txn,       \* the changes
          Content    \* what a target may hold

VARIABLES db,        \* db[p]: what a reader sees of p
          st,        \* st[t]: how far change t has come
          delta      \* delta[t]: target -> [pre, post], what t replaces by what

vars == <<db, st, delta>>

Change == [pre : Content, post : Content]

\* What d makes of the rows r.  A target that no longer holds what the change
\* replaces was edited outside reldir, and is kept.
Applied(r, d) ==
  [p \in Target |-> IF p \in DOMAIN d /\ r[p] = d[p].pre THEN d[p].post ELSE r[p]]

\* The rows r with d taken back.
Undone(r, d) ==
  [p \in Target |-> IF p \in DOMAIN d /\ r[p] = d[p].post THEN d[p].pre ELSE r[p]]

Init == /\ db \in [Target -> Content]
        /\ st = [t \in Txn |-> "new"]
        /\ delta = [t \in Txn |-> <<>>]

\* A change is planned against what its planner saw.
Propose(t) ==
  /\ st[t] = "new"
  /\ st' = [st EXCEPT ![t] = "planned"]
  /\ \E S \in (SUBSET Target) \ {{}} :
       \E d \in [S -> Change] : delta' = [delta EXCEPT ![t] = d]
  /\ UNCHANGED db

\* Every row of the change appears at once ...
Show(t) ==
  /\ st[t] = "planned"
  /\ st' = [st EXCEPT ![t] = "visible"]
  /\ db' = Applied(db, delta[t])
  /\ UNCHANGED delta

\* ... and, as long as the change is not decided, may go at once.
Withdraw(t) ==
  /\ st[t] = "visible"
  /\ st' = [st EXCEPT ![t] = "planned"]
  /\ db' = Undone(db, delta[t])
  /\ UNCHANGED delta

\* A visible change is decided: from now on it stays.
Commit(t) ==
  /\ st[t] = "visible"
  /\ st' = [st EXCEPT ![t] = "committed"]
  /\ UNCHANGED <<db, delta>>

\* A change no reader sees is given up.
Refuse(t) ==
  /\ st[t] = "planned"
  /\ st' = [st EXCEPT ![t] = "refused"]
  /\ UNCHANGED <<db, delta>>

\* Somebody saves a file.
Edit(p) ==
  /\ \E c \in Content : db' = [db EXCEPT ![p] = c]
  /\ UNCHANGED <<st, delta>>

Next == \/ \E t \in Txn : \/ Propose(t) \/ Show(t) \/ Withdraw(t)
                          \/ Commit(t) \/ Refuse(t)
        \/ \E p \in Target : Edit(p)

Spec == Init /\ [][Next]_vars

=============================================================================
