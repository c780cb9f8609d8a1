------------------------------- MODULE Cascade -------------------------------
(***************************************************************************)
(* Referential actions: referential.rs, with what plan.rs makes of the     *)
(* result.  A statement changes rows; every reference to a key it takes    *)
(* away is resolved by its foreign key's action, whose changes may take    *)
(* away keys in turn.  The code's work list is the state here: a step      *)
(* takes a change of the statement, takes an entry off the list, visits a  *)
(* foreign key, or resolves one referrer.                                  *)
(*                                                                         *)
(* A table has one candidate key, the one its files are named by, and a    *)
(* row is a record of scalars.  Null is a member that is null or absent,   *)
(* so that `remove' and `set_null' are one action here.  Where a row lies  *)
(* in the mirror, and so the order of a statement's changes, is any.       *)
(***************************************************************************)
EXTENDS Naturals, Sequences, SequencesExt

CONSTANTS
  Keys,           \* table -> the columns of its key, in order
  Fks,            \* the foreign keys, in the order visited: [from, cols, to]
  Null,
  Default,        \* what `set_default' writes
  Bases,          \* the databases a statement may find: path -> row
  Rules,          \* what the foreign keys declare: sequences of [del, upd]
  MayRun(_)       \* the statements that may be run on a database

VARIABLES
  base,           \* the database the statement found
  rules,          \* what its foreign keys declare
  plan            \* the expansion under way

cascadeVars == <<base, rules, plan>>

Gone == [t |-> "none", c |-> <<>>]
Nowhere == <<"none", <<>>>>

\* A path is a table and a key.
Values(row, cols) == [i \in DOMAIN cols |-> row.c[cols[i]]]
Path(row) == IF row = Gone THEN Nowhere ELSE <<row.t, Values(row, Keys[row.t])>>

\* mirror::edges, `matching': row names the key of path by the foreign key fk.
Refers(row, fk, path) ==
  /\ row.t = Fks[fk].from /\ Fks[fk].to = path[1]
  /\ Values(row, Fks[fk].cols) = path[2]

\* State::current, for a plan: what a path is to hold.
Planned(after, path) ==
  IF path \in DOMAIN after THEN after[path]
  ELSE IF path \in DOMAIN base THEN base[path] ELSE Gone
Current(path) == Planned(plan.after, path)
Plan(after, path, row) == [p \in DOMAIN after \union {path} |-> IF p = path THEN row ELSE after[p]]
Vacate(after, path, new) == IF path \in {new, Nowhere} THEN after ELSE Plan(after, path, Gone)

\* still_held: some row holds the key once the plan applies.
StillHeld(path) == Current(path) # Gone

\* The row of the base that is to lie at path.
Origin(path) == IF path \in DOMAIN plan.origin THEN plan.origin[path] ELSE path

NoEvent == [holder |-> Nowhere, new |-> Gone]
NoPlan == [phase |-> "none", todo |-> {}, after |-> <<>>, before |-> {}, queue |-> <<>>,
           event |-> NoEvent, fks |-> <<>>, refs |-> {}, deferred |-> {},
           origin |-> <<>>, gone |-> {}]

CascadeIdle == base = <<>> /\ rules = <<>> /\ plan = NoPlan
CascadeInit ==
  /\ base \in Bases /\ rules \in Rules
  /\ \E todo \in MayRun(base) : plan = [NoPlan EXCEPT !.phase = "taking", !.todo = todo]

-----------------------------------------------------------------------------
(* expand: the statement's changes, in the order of their rows.  SQLite    *)
(* moves no row onto one that is still there; one that is replaced is      *)
(* deleted, wherever it lies.                                              *)

Take(change) ==
  /\ plan.phase = "taking"
  /\ LET new == Path(change.after)
         left == Vacate(plan.after, change.before, new)
     IN /\ \A other \in plan.todo \ {change} : other.before = new => other.after = Gone
        /\ plan' = [plan EXCEPT
             !.todo = @ \ {change},
             !.phase = IF plan.todo = {change} THEN "closing" ELSE @,
             !.after = IF new = Nowhere THEN left ELSE Plan(left, new, change.after),
             !.before = @ \union {change.before},
             !.queue = Append(@, <<change.before, new>>),
             !.origin = IF new = Nowhere THEN @ ELSE Plan(@, new, change.before),
             !.gone = IF new = Nowhere THEN @ \union {change.before} ELSE @]

\* expand: the next entry.  A row that keeps its key gives nothing up.
Pop ==
  /\ plan.phase = "closing" /\ plan.queue # <<>>
  /\ LET from == Head(plan.queue)[1]
         row == Current(Head(plan.queue)[2])
         rest == [plan EXCEPT !.queue = Tail(@)]
     IN plan' = IF from \notin DOMAIN base \/ Path(row) = from THEN rest
                ELSE [rest EXCEPT !.phase = "visiting", !.before = @ \union {from},
                                  !.event = [holder |-> from, new |-> row],
                                  !.fks = [i \in DOMAIN Fks |-> i]]

\* Mutant: what the statement itself wrote is not looked at.
ReferrersInMirror(fk) == {p \in DOMAIN base : Refers(base[p], fk, plan.event.holder)}

\* resolve: whoever names the key, in the mirror or in the plan.
Referrers(fk) ==
  LET named == plan.event.holder
  IN {p \in DOMAIN base : Refers(base[p], fk, named)}
       \union {p \in DOMAIN plan.after : Refers(plan.after[p], fk, named)}

Visit ==
  /\ plan.phase = "visiting" /\ plan.refs = {}
  /\ IF plan.fks = <<>>
     THEN plan' = [plan EXCEPT !.phase = "closing", !.event = NoEvent]
     ELSE plan' = [plan EXCEPT
            !.phase = "resolving",
            !.refs = IF StillHeld(plan.event.holder) THEN {} ELSE Referrers(Head(plan.fks))]
Left ==
  /\ plan.phase = "resolving" /\ plan.refs = {}
  /\ plan' = [plan EXCEPT !.phase = "visiting", !.fks = Tail(@)]

-----------------------------------------------------------------------------
(* resolve: one referrer                                                   *)

Action(fk) == IF plan.event.new # Gone THEN rules[fk].upd ELSE rules[fk].del

\* The same row, naming what its foreign key's action says.
Carried(action, i) ==
  CASE action = "cascade" -> Path(plan.event.new)[2][i]
    [] action = "set_null" -> Null
    [] action = "set_default" -> Default
Rewritten(row, fk, action) ==
  LET cols == Fks[fk].cols
      at(col) == CHOOSE i \in DOMAIN cols : cols[i] = col
  IN [row EXCEPT !.c = [col \in DOMAIN @ |->
        IF \E i \in DOMAIN cols : cols[i] = col THEN Carried(action, at(col)) ELSE @[col]]]

Resolve(path) ==
  /\ plan.phase = "resolving"
  /\ LET fk == Head(plan.fks)
         row == Current(path)
         action == Action(fk)
         rest == [plan EXCEPT !.refs = @ \ {path}]
         new == Rewritten(row, fk, action)
         to == Path(new)
     IN \/ /\ ~Refers(row, fk, plan.event.holder)
           /\ plan' = rest
        \/ /\ Refers(row, fk, plan.event.holder)
           /\ \/ /\ action = "restrict"
                 /\ plan' = [rest EXCEPT !.phase = "refused"]
              \/ /\ action = "no_action"
                 /\ plan' = [rest EXCEPT !.deferred = @ \union
                               {[path |-> path, fk |-> fk, holder |-> plan.event.holder]}]
              \/ /\ action = "cascade" /\ plan.event.new = Gone
                 /\ plan' = [rest EXCEPT
                      !.before = @ \union {path}, !.after = Plan(@, path, Gone),
                      !.queue = Append(@, <<path, Nowhere>>),
                      !.gone = IF plan.event.holder \in @ THEN @ \union {Origin(path)} ELSE @]
              \/ /\ action \in {"cascade", "set_null", "set_default"}
                 /\ action = "cascade" => plan.event.new # Gone
                 /\ plan' = IF Null \in Range(to[2]) THEN [rest EXCEPT !.phase = "refused"]
                            ELSE [rest EXCEPT
                              !.before = @ \union {path},
                              !.after = Plan(Vacate(@, path, to), to, new),
                              !.queue = Append(@, <<path, to>>),
                              !.origin = Plan(@, to, Origin(path))]

\* `no_action' is judged once every action has run.
Forbids(check) ==
  Refers(Current(check.path), check.fk, check.holder) /\ ~StillHeld(check.holder)

\* Mutant: a row lands anywhere.
CollidesNever == FALSE

\* render_with: a row may land only where the plan has seen a row before.
Collides ==
  \E path \in DOMAIN plan.after :
    plan.after[path] # Gone /\ path \in DOMAIN base /\ path \notin plan.before

Judge ==
  /\ plan.phase = "closing" /\ plan.queue = <<>>
  /\ plan' = [plan EXCEPT !.phase =
       IF Collides \/ \E check \in plan.deferred : Forbids(check) THEN "refused" ELSE "accepted"]

CascadeNext ==
  /\ \/ \E change \in plan.todo : Take(change)
     \/ Pop
     \/ Visit
     \/ Left
     \/ \E path \in plan.refs : Resolve(path)
     \/ Judge
  /\ UNCHANGED <<base, rules>>

-----------------------------------------------------------------------------
(* What an accepted statement promises                                     *)

Outcome ==
  LET all == {path \in DOMAIN base \union DOMAIN plan.after : Current(path) # Gone}
  IN [path \in all |-> Current(path)]
Accepted == plan.phase = "accepted"

\* The files a statement writes hold every row that neither it deleted nor a
\* delete cascade from such a row (transaction.rs:190, plan.rs:171).
RowsKept ==
  Accepted => \A path \in DOMAIN base \ plan.gone :
                \E now \in DOMAIN Outcome : Origin(now) = path

\* A default names what the schema says.
NothingDangles ==
  \A path \in DOMAIN Outcome, held \in DOMAIN base, fk \in DOMAIN Fks :
    Refers(Outcome[path], fk, held) /\ held[2] # <<Default>> => held \in DOMAIN Outcome

FollowsCascade ==
  \A from, to \in DOMAIN Outcome, fk \in DOMAIN Fks :
    LET was == Origin(from)
        target == Origin(to)
    IN /\ rules[fk].upd = "cascade"
       /\ was \in DOMAIN base /\ target \in DOMAIN base \ DOMAIN Outcome
       /\ Refers(base[was], fk, target)
       => Refers(Outcome[from], fk, to)

\* Every reference to a key the database held is still one, or was resolved,
\* whatever order the changes came in, self-references and cycles included
\* (referential.rs:4, :22); and one by `onUpdate: cascade' to a row that stayed
\* under another key names it by that key, unless another row holds the old one
\* (:13, :298).
ReferencesKept == Accepted => NothingDangles /\ FollowsCascade

\* A statement and its cascades keep the rows they do not delete, and the references
\* to them.
CascadeKeeps == RowsKept /\ ReferencesKept

=============================================================================
