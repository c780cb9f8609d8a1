----------------------------- MODULE MCCascade -----------------------------
(***************************************************************************)
(* Nodes in a tree, edges named by the node they leave, and notes on       *)
(* edges.  A node's key is an id, an edge's its node and a number.         *)
(***************************************************************************)
EXTENDS Cascade

OwnKeys == [node |-> <<"id">>, edge |-> <<"a", "n">>, note |-> <<"id">>]
OwnFks == <<[from |-> "node", cols |-> <<"up">>, to |-> "node"],
            [from |-> "edge", cols |-> <<"a">>, to |-> "node"],
            [from |-> "note", cols |-> <<"a", "n">>, to |-> "edge"]>>

Node(id, up) == [t |-> "node", c |-> [id |-> id, up |-> up]]
Edge(a, n) == [t |-> "edge", c |-> [a |-> a, n |-> n]]
Note(id, a, n) == [t |-> "note", c |-> [id |-> id, a |-> a, n |-> n]]

Filed(rows) == [path \in {<<row.t, [i \in DOMAIN OwnKeys[row.t] |-> row.c[OwnKeys[row.t][i]]]>> : row \in rows} |->
                  CHOOSE row \in rows :
                    path = <<row.t, [i \in DOMAIN OwnKeys[row.t] |-> row.c[OwnKeys[row.t][i]]]>>]

\* A chain, a node that is its own parent, and two that are each other's.
OwnBases ==
  {Filed({Node(1, Null), Node(2, 1), Node(3, 2), Edge(1, 1), Edge(2, 1), Note(1, 1, 1), Note(2, 2, 1)}),
   Filed({Node(1, 1), Node(2, 1), Edge(1, 1), Edge(1, 2), Note(1, 1, 2)}),
   Filed({Node(1, 2), Node(2, 1), Edge(2, 1), Note(1, 2, 1)})}

Pairs == {[del |-> "cascade", upd |-> "cascade"], [del |-> "set_null", upd |-> "cascade"],
          [del |-> "restrict", upd |-> "no_action"], [del |-> "no_action", upd |-> "restrict"],
          [del |-> "set_default", upd |-> "set_null"]}
Keeping == {pair \in Pairs : pair.del # "set_default"}
OwnRules == {<<up, a, edge>> : up \in Pairs, a \in Keeping, edge \in Keeping}

Paths(db, t) == {path \in DOMAIN db : path[1] = t}
Delete(path) == [before |-> path, after |-> Gone]
Rekey(db, path, id) == [before |-> path, after |-> [db[path] EXCEPT !.c.id = id]]

\* Any nodes or any edges deleted; any nodes renamed so that no two meet.
Deletions(db) ==
  {{Delete(path) : path \in paths} :
     paths \in (SUBSET Paths(db, "node") \union SUBSET Paths(db, "edge")) \ {{}}}
Renamings(db) ==
  LET ids == {path[2][1] : path \in Paths(db, "node")}
      injective(to) == \A x, y \in ids : to[x] = to[y] => x = y
      changes(to) == {Rekey(db, <<"node", <<id>>>>, to[id]) : id \in {x \in ids : to[x] # x}}
  IN {changes(to) : to \in {f \in [ids -> 1..4] : injective(f)}} \ {{}}
OwnStatements(db) == Deletions(db) \union Renamings(db)

\* UPDATE OR REPLACE node SET id = 1 WHERE id = 2.
OneOverAnother(db) == {{Rekey(db, <<"node", <<2>>>>, 1), Delete(<<"node", <<1>>>>)}}

CascadeSpec == CascadeInit /\ [][CascadeNext]_cascadeVars
=============================================================================
