-------------------------------- MODULE Trees --------------------------------
(***************************************************************************)
(* The trees revisions record, store/tree.rs, and what makes and follows   *)
(* them, history.rs: a recording finds how the folder differs from what    *)
(* the mirror says the head holds, and changes the head's tree by that --  *)
(* or, on no head or several, builds the whole -- storing the nodes and    *)
(* files history does not hold; the mirror follows by the same delta, or   *)
(* is brought to a head it is not of by the difference of the trees.  Git  *)
(* moves heads and merges them; the mirror may be lost and made again.     *)
(*                                                                         *)
(* A node is named by its content, so a node is its id here.  The rows of  *)
(* a table are spread over buckets, one level of them.  A row has a hash   *)
(* of its value and a blob, the file's bytes: the same value may be        *)
(* written in several ways.  A schema lies at its pin or in the inferred   *)
(* contracts, and is kept with the tree as a file that is not a row.       *)
(***************************************************************************)
EXTENDS Naturals, FiniteSets

CONSTANTS
  States,      \* the folders there may be: [tables, rows]
  BucketOf,    \* row path -> the bucket of its table it lies in
  TableOf,     \* row path -> its table
  MaxRecords   \* how many revisions are made

\* A folder's rows lie in its tables; a row's path is no place of a schema.
ASSUME TreesAssumption ==
  /\ MaxRecords \in Nat
  /\ \A path \in DOMAIN TableOf : path[1] \notin {"pin", "inferred"}
  /\ \A state \in States :
       /\ DOMAIN state.rows \subseteq DOMAIN TableOf
       /\ \A path \in DOMAIN state.rows : /\ TableOf[path] \in DOMAIN state.tables
                                         /\ state.rows[path].blob[1] = state.rows[path].hash
       /\ \A t \in DOMAIN state.tables : state.tables[t].home \in {"pin", "inferred"}

VARIABLES
  trees,       \* the revisions made: [tree, of], of being the folder recorded
  head,        \* those that are heads: a set of trees
  store,       \* the nodes and blobs packs hold
  recorded,    \* the mirror's copy of the head: key -> hash
  known        \* the tree that copy is of, if any: a set

treesVars == <<trees, head, store, recorded, known>>

Empty == <<>>
Updated(f, g) == [x \in DOMAIN f \union DOMAIN g |-> IF x \in DOMAIN g THEN g[x] ELSE f[x]]
Without(f, S) == [x \in DOMAIN f \ S |-> f[x]]

\* A folder's tables: name -> [home, schema]; its rows: path -> [hash, blob].
Homes(table) == {<<"pin", table>>, <<"inferred", table>>}
HomeOf(table, state) == <<state.tables[table].home, table>>
RowsIn(rows, table) == {path \in DOMAIN rows : TableOf[path] = table}

\* A tree: files that are not rows, and for each table a node of its schema
\* and its leaves: bucket -> path -> [hash, blob].
Leaves(rows, table) ==
  LET mine == RowsIn(rows, table)
  IN [b \in {BucketOf[path] : path \in mine} |->
        [path \in {x \in mine : BucketOf[x] = b} |-> rows[path]]]
RowsOf(tree) ==
  LET leaf(path) == tree.tables[TableOf[path]].leaves[BucketOf[path]]
      holds(path) == /\ TableOf[path] \in DOMAIN tree.tables
                     /\ BucketOf[path] \in DOMAIN tree.tables[TableOf[path]].leaves
                     /\ path \in DOMAIN leaf(path)
  IN [path \in {x \in DOMAIN TableOf : holds(x)} |-> leaf(path)[path]]

\* TreeBuilder::finish
Build(state) ==
  [extras |-> [home \in {HomeOf(t, state) : t \in DOMAIN state.tables} |-> state.tables[home[2]].schema],
   tables |-> [t \in DOMAIN state.tables |->
                 [schema |-> state.tables[t].schema, leaves |-> Leaves(state.rows, t)]]]

\* A root's identity: its parts by their hashes, however the files are written.
Identity(tree) ==
  [tables |-> [t \in DOMAIN tree.tables |-> tree.tables[t].schema],
   rows |-> [path \in DOMAIN RowsOf(tree) |-> RowsOf(tree)[path].hash]]

LeavesOf(table) == {<<"leaf", table.leaves[b]>> : b \in DOMAIN table.leaves}
NodesOf(tree) ==
  {<<"root", tree>>, <<"extras", tree.extras>>}
    \union {<<"table", tree.tables[t]>> : t \in DOMAIN tree.tables}
    \union UNION {LeavesOf(tree.tables[t]) : t \in DOMAIN tree.tables}
BlobsOf(tree) ==
  {<<"blob", RowsOf(tree)[path].blob>> : path \in DOMAIN RowsOf(tree)}
    \union {<<"blob", tree.extras[home]>> : home \in DOMAIN tree.extras}

\* What sync_recorded makes of a tree.
EntriesOf(tree) ==
  Updated([path \in DOMAIN RowsOf(tree) |-> RowsOf(tree)[path].hash],
          [home \in {x \in DOMAIN tree.extras : x[2] \in DOMAIN tree.tables} |->
             tree.tables[home[2]].schema])

TreesIdle ==
  trees = {} /\ head = {} /\ store = {} /\ recorded = Empty /\ known = {}
TreesInit == TreesIdle

-----------------------------------------------------------------------------
(* pending: how the folder differs from what the mirror says is recorded   *)

IsRow(key) == key \in DOMAIN TableOf
RowDelta(state) ==
  LET before == {key \in DOMAIN recorded : IsRow(key)}
      now == DOMAIN state.rows
  IN [removed |-> before \ now, added |-> now \ before,
      modified |-> {path \in before \intersect now : state.rows[path].hash # recorded[path]}]

\* A schema that moved is a change of its table, and so is one that is gone.
TablesChanged(state) ==
  {t \in DOMAIN state.tables :
     LET home == HomeOf(t, state)
     IN home \notin DOMAIN recorded \/ recorded[home] # state.tables[t].schema}
TablesDropped(state) ==
  {t \in {key[2] : key \in {x \in DOMAIN recorded : ~IsRow(x)}} : t \notin DOMAIN state.tables}

Nothing(state) ==
  LET rows == RowDelta(state)
  IN /\ rows.removed \union rows.added \union rows.modified = {}
     /\ TablesChanged(state) \union TablesDropped(state) = {}

-----------------------------------------------------------------------------
(* TreeUpdate, as prepare uses it                                          *)

\* What TreeUpdate refuses: a row added where one is, or changed where none
\* is; a row of no table.
Refused(tree, state) ==
  LET rows == RowDelta(state)
      held == DOMAIN RowsOf(tree)
      live == (DOMAIN tree.tables \ TablesDropped(state)) \union TablesChanged(state)
      gone == {path \in rows.removed : TableOf[path] \in TablesDropped(state)}
      changed == rows.modified \union (rows.removed \ gone)
  IN \/ rows.added \intersect held # {} \/ ~(changed \subseteq held)
     \/ \E path \in rows.added \union changed : TableOf[path] \notin live
     \/ ~(TablesDropped(state) \subseteq DOMAIN tree.tables)

\* A table's schema is one file: wherever it is now, it is at no other place.
ExtrasAfter(tree, state) ==
  LET changed == TablesChanged(state)
  IN Updated(Without(tree.extras, UNION {Homes(t) : t \in changed \union TablesDropped(state)}),
             [home \in {HomeOf(t, state) : t \in changed} |-> state.tables[home[2]].schema])

\* apply_table: the leaves the delta touches are made again, the others kept.
TableAfter(tree, state, t) ==
  LET was == IF t \in DOMAIN tree.tables THEN tree.tables[t] ELSE [schema |-> "none", leaves |-> Empty]
      rows == RowDelta(state)
      touched == {path \in rows.added \union rows.modified \union rows.removed : TableOf[path] = t}
      dirty == {BucketOf[path] : path \in touched}
      kept(b) == IF b \in DOMAIN was.leaves THEN Without(was.leaves[b], rows.removed) ELSE Empty
      put(b) == {path \in touched \ rows.removed : BucketOf[path] = b}
      leaf(b) == Updated(kept(b), [path \in put(b) |-> state.rows[path]])
      full == {b \in DOMAIN was.leaves \union dirty : b \in dirty => DOMAIN leaf(b) # {}}
  IN [schema |-> IF t \in TablesChanged(state) THEN state.tables[t].schema ELSE was.schema,
      leaves |-> [b \in full |-> IF b \in dirty THEN leaf(b) ELSE was.leaves[b]]]

Update(tree, state) ==
  [extras |-> ExtrasAfter(tree, state),
   tables |-> [t \in (DOMAIN tree.tables \ TablesDropped(state)) \union TablesChanged(state) |->
                 TableAfter(tree, state, t)]]

\* Mutant: a bucket that had a leaf has no new one.
NewLeavesOfNewBuckets(was, now) ==
  {<<"leaf", now.leaves[b]>> : b \in DOMAIN now.leaves \ DOMAIN was.leaves}

\* Emit::node: a node is new unless its place held the same before.
NewLeaves(was, now) ==
  {<<"leaf", now.leaves[b]>> : b \in
     {x \in DOMAIN now.leaves : x \in DOMAIN was.leaves => now.leaves[x] # was.leaves[x]}}
NewNodes(was, tree) ==
  {node \in {<<"root", tree>>, <<"extras", tree.extras>>} :
     node \notin {<<"root", was>>, <<"extras", was.extras>>}}
    \union UNION {IF t \notin DOMAIN was.tables
                  THEN {<<"table", tree.tables[t]>>} \union LeavesOf(tree.tables[t])
                  ELSE IF tree.tables[t] = was.tables[t] THEN {}
                  ELSE {<<"table", tree.tables[t]>>} \union NewLeaves(was.tables[t], tree.tables[t])
                  : t \in DOMAIN tree.tables}

-----------------------------------------------------------------------------
(* Recording, and following what others recorded                           *)

\* sync_recorded has run: the mirror's copy is of the head.
Settled == Cardinality(head) = 1 /\ known = head

Publish(tree, state, nodes, blobs) ==
  /\ trees' = trees \union {[tree |-> tree, of |-> state]}
  /\ head' = {tree}
  /\ store' = store \union nodes \union blobs

RowBlobs(state, paths) == {<<"blob", state.rows[path].blob>> : path \in paths}
SchemaBlobs(state, tables) == {<<"blob", state.tables[t].schema>> : t \in tables}

\* Mutant: the schema's old home stays in the mirror's copy.
FollowedInPlace(state) ==
  LET gone == {key \in DOMAIN recorded : IsRow(key) /\ key \notin DOMAIN state.rows}
  IN Updated(Without(recorded, gone), EntriesOf(Build(state)))

\* recorded_changes: the delta, and no schema but where it is now.
Followed(state) ==
  LET rows == RowDelta(state)
      changed == TablesChanged(state)
      written == rows.added \union rows.modified
      gone == UNION {Homes(t) : t \in changed \union TablesDropped(state)}
  IN Updated(Without(recorded, gone \union rows.removed),
             Updated([path \in written |-> state.rows[path].hash],
                     [home \in {HomeOf(t, state) : t \in changed} |-> state.tables[home[2]].schema]))

\* prepare, on one head.
RecordChange(state) ==
  /\ Settled /\ Cardinality(trees) < MaxRecords /\ ~Nothing(state)
  /\ \E was \in head :
       LET rows == RowDelta(state)
           tree == Update(was, state)
       IN /\ ~Refused(was, state)
          /\ Publish(tree, state, NewNodes(was, tree),
               RowBlobs(state, rows.added \union rows.modified) \union SchemaBlobs(state, TablesChanged(state)))
          /\ recorded' = Followed(state) /\ known' = {tree}

\* prepare, on no head or several: the whole, which sync_recorded then brings
\* to the mirror.
RecordWhole(state) ==
  /\ Cardinality(head) # 1 /\ Cardinality(trees) < MaxRecords
  /\ head = {} => known = {}
  /\ LET tree == Build(state)
     IN Publish(tree, state, NodesOf(tree), BlobsOf(tree))
  /\ UNCHANGED <<recorded, known>>

\* git moves the heads to other revisions, whose packs are here, or merges.
Move ==
  /\ head' \in {heads \in SUBSET {r.tree : r \in trees} : Cardinality(heads) <= 2}
  /\ UNCHANGED <<trees, store, recorded, known>>

\* The mirror is lost and made again from nothing.
Lose ==
  /\ recorded' = Empty /\ known' = {}
  /\ UNCHANGED <<trees, head, store>>

\* Rows by the difference of two trees, the files that are not rows whole.
Brought(was, tree) ==
  LET wanted == EntriesOf(tree)
      held(x, path) == IF path \in DOMAIN RowsOf(x) THEN <<RowsOf(x)[path]>> ELSE <<>>
      differ == {path \in DOMAIN TableOf : held(was, path) # held(tree, path)}
      others == {key \in DOMAIN recorded \union DOMAIN wanted : ~IsRow(key)}
  IN Updated(Without(recorded, differ \union others),
             [key \in (differ \union others) \intersect DOMAIN wanted |-> wanted[key]])

\* sync_recorded, which several heads have none of.
Sync ==
  /\ Cardinality(head) <= 1 /\ known # head
  /\ recorded' = IF head = {} THEN Empty
                 ELSE LET tree == CHOOSE x \in head : TRUE
                      IN IF known = {} THEN EntriesOf(tree)
                         ELSE Brought(CHOOSE x \in known : TRUE, tree)
  /\ known' = head
  /\ UNCHANGED <<trees, head, store>>

TreesNext ==
  \/ \E state \in States : RecordChange(state) \/ RecordWhole(state)
  \/ Move
  \/ Lose
  \/ Sync

TreesSpec == TreesInit /\ [][TreesNext]_treesVars

-----------------------------------------------------------------------------
(* What recorded history promises                                          *)

\* A revision's tree is the state it was made of, whatever route of changes,
\* moves and schema homes led there: the tree an update makes has the identity
\* one built from nothing has, names each schema's file once, and holds, for
\* each row, a file of that row's value (tree.rs:2, history.rs:279).
TreeIsState ==
  \A r \in trees :
    /\ Identity(r.tree) = Identity(Build(r.of))
    /\ r.tree.extras = Build(r.of).extras
    /\ \A path \in DOMAIN RowsOf(r.tree) : RowsOf(r.tree)[path].blob[1] = RowsOf(r.tree)[path].hash

\* Everything a revision reaches is in some pack: no node is left out because
\* its place held it before, no file because an earlier revision had the row.
AllHeld == \A r \in trees : NodesOf(r.tree) \union BlobsOf(r.tree) \subseteq store

\* What the mirror says the head holds is what the head's tree holds, after
\* recording, after git moved or merged the heads, and after the mirror was
\* lost: the next change is found against nothing else (history.rs:994).
RecordedIsTree ==
  \A tree \in head : Settled => recorded = EntriesOf(tree)

\* A revision names the state it was made of, history holds all of it, and the
\* mirror knows the head's.
StateHeld == TreeIsState /\ AllHeld /\ RecordedIsTree

=============================================================================
