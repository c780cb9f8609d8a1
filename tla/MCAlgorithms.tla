--------------------------- MODULE MCAlgorithms ---------------------------
(***************************************************************************)
(* The algorithms that one process runs alone, each over small inputs.  A  *)
(* behaviour is about one of them, its subject; the others' variables stay *)
(* as they are.                                                            *)
(***************************************************************************)
EXTENDS MCCascade, Revisions, Trees, RowMerge, Statements, Verdicts, SimFs, Naming, Contract,
        Upgrade

VARIABLE subject

vars == <<subject, cascadeVars, revisionsVars, treesVars, mergeVars, statementsVars,
          verdictsVars, simVars, namingVars, contractVars, upgradeVars>>

\* Rows a and b of the table t, in one leaf; a may be any of several files.
a == <<"row", "a">>
b == <<"row", "b">>
OwnTableOf == [row \in {a, b} |-> "t"]
OwnBucketOf == [row \in {a, b} |-> 0]
File(value, style) == [hash |-> value, blob |-> <<value, style>>]
Files == {File("x", 1), File("x", 2), File("y", 1)}

\* No table, t with one of two schemas, each in a place of its own, or t with
\* an empty table beside it.
Kept(home, s) == [home |-> home, schema |-> <<"schema", s>>]
OwnTables ==
  {<<>>} \union [{"t"} -> {Kept("pin", 1), Kept("inferred", 2)}]
    \union [{"t", "u"} -> {Kept("pin", 1)}]
OwnStates ==
  {[tables |-> <<>>, rows |-> <<>>]} \union
  {[tables |-> tables, rows |-> leaf] :
     tables \in OwnTables \ {<<>>},
     leaf \in {<<>>} \union [{a} -> Files] \union [{a, b} -> {File("x", 1)}]}

\* Rows of scalars, and rows of which a member is an object.
OwnNames == <<"a", "b", "c">>
Two == {Scalar(1), Scalar(2)}
Objects(names, values) == {Object(of) : of \in UNION {[N -> values] : N \in SUBSET names}}
Flat == Objects({"a", "b", "c"}, Two)
Nested == Objects({"a", "c"}, Two) \union Objects({"a"}, Objects({"a", "b"}, Two))
OwnTriples ==
  [base : Flat \union {Absent}, ours : Flat, theirs : Flat]
    \union [base : Nested \union {Absent}, ours : Nested, theirs : Nested]

\* An owner, two items that changes write, and two that are there already: a
\* row, and one whose name folds to the same, in a file too large to read.
Held(key, to, parent) == [key |-> key, to |-> to, parent |-> parent, large |-> FALSE]
Owner == <<"owners", 1>>
Item(n) == <<"items", n>>
OwnPaths == {Owner} \union {Item(n) : n \in 2..5}
OwnWritable == {Owner, Item(2), Item(3)}
OwnFold == [p \in OwnPaths |-> IF p = Item(5) THEN 4 ELSE p[2]]
Items ==
  {Missing, Garbage} \union
  {Held("k", NoKey, "l"), Held("l", "k", NoKey), Held("l", "l", "k")}
OwnFolders ==
  {[p \in OwnPaths |-> CASE p = Owner -> owner [] p = Item(2) -> one [] p = Item(3) -> other
                         [] p = Item(4) -> row [] p = Item(5) -> large] :
     owner \in {Missing, Garbage, Held("k", NoKey, NoKey), Held("l", NoKey, NoKey)},
     one \in Items, other \in Items, row \in {Missing, Held("k", "l", NoKey)},
     large \in {Missing, [Held("k", NoKey, NoKey) EXCEPT !.large = TRUE]}}

\* Names that differ in case only, and trees with a file, alone or in a directory.
OwnCase == [n \in FileName |-> "a"]
OwnSeeds ==
  {NoTree, [data |-> (2 :> "x"), dirs |-> {1}, names |-> {<<1, "a", 2>>}],
   [data |-> (2 :> "x"), dirs |-> {1, 3}, names |-> {<<1, "a", 3>>, <<3, "a", 2>>}]}

\* Texts of one or two characters, or three with a comma or a space among them,
\* as values and as the names of files.
Str(t) == [is |-> "string", text |-> t]
Num(t) == [is |-> "int", text |-> t]
OwnTexts ==
  {<<>>, <<"a">>, <<"c", "on">>, <<"1">>, <<"a", ",", "a">>, <<".", "a">>, <<"a", ".">>,
   <<"%", "61">>, <<"a", " ">>}
OwnSpellings == {Str(t) : t \in OwnTexts \ {<<"1">>, <<".", "a">>, <<"a", " ">>}} \union {Num(<<"1">>)}
OwnValues == {Str(t) : t \in OwnTexts} \union {Num(<<"1">>), NoValue}
OwnStems ==
  {<<"a">>, <<"c", "on">>, <<"1">>, <<"a", ",", "a">>, <<"%", "63", "on">>, <<"%", "61">>,
   <<"a", "%", "2E">>, <<"%", "25", "61">>, <<"a", "1">>, <<"a", "%", "63", "on">>,
   <<"a", " ">>, <<"a", "a", " ">>}
OwnPairs ==
  {{<<"a">>, <<"c", "on">>}, {<<"a">>, <<"1">>}, {<<"a">>, <<"%", "63", "on">>},
   {<<"a", " ">>, <<"a", "a", " ">>}, {<<"a", "a", " ">>, <<"a", "%", "63", "on">>},
   {<<"1">>, <<"a", "1">>}}
OneBody ==
  {("n" :> v) : v \in OwnValues}
    \union {("n" :> Str(<<"a">>)) @@ (c :> Str(t)) : c \in {"id", "t_id"}, t \in {<<"a">>, <<"c", "on">>}}
EachBody == {("n" :> v) : v \in {Str(<<"a">>), Str(<<"c", "on">>), Str(<<"a", " ">>)}}
OwnFileTables ==
  {<<>>} \union UNION {[{stem} -> OneBody] : stem \in OwnStems}
    \union UNION {[stems -> EachBody] : stems \in OwnPairs}
OwnColumns == <<"n", "t_id", "id">>
OwnAsked == {<<>>, <<"n">>, <<"n", "id">>}
OwnStrays == {<<stem, "n" :> Str(<<"1">>)>> : stem \in {<<"1">>, <<"a", "%", "25">>}}

\* Values of every kind, alone and in twos, under the member n of one or two
\* rows; rows that differ in their members; and a member named definitions.
Of(is) == Leaf(is, 1)
NullValue == Leaf("null", 0)
OneOf(m, v) == ObjectOf(m :> v)
Sightings ==
  {<<Of("int")>>, <<Of("text")>>, <<Of("int"), Of("text")>>,
   <<Of("big"), Of("int")>>, <<Of("int"), Of("frac")>>, <<Of("whole"), NullValue>>,
   <<Of("boolean"), Of("date")>>, <<Of("lower"), Of("upper")>>, <<Of("ulid")>>,
   <<ArrayOf(<<Of("int")>>), ArrayOf(<<>>)>>, <<ArrayOf(<<OneOf("a", Of("int"))>>), Of("text")>>,
   <<OneOf("a", Of("int")), OneOf("b", Of("int"))>>,
   <<OneOf("a", Of("int")), ObjectOf("a" :> Of("int") @@ "b" :> Of("text"))>>,
   <<ArrayOf(<<OneOf("a", Of("int")), OneOf("b", Of("text"))>>)>>}
RowName == <<"1", "2">>
OwnRowTables ==
  {[r \in {RowName[i] : i \in DOMAIN s} |-> OneOf("n", s[CHOOSE i \in DOMAIN s : RowName[i] = r])] :
     s \in Sightings}
    \union {"1" :> OneOf("n", Of("int")) @@ "2" :> OneOf("m", Of("text")),
            "1" :> ObjectOf("n" :> Of("int") @@ "definitions" :> Of("int"))}
OwnOutside ==
  {OneOf("n", v) : v \in {Of("text"), OneOf("a", Of("text")),
                         ArrayOf(<<OneOf("a", Of("text")), Of("text")>>)}}
    \union {OneOf("m", Of("text")), ObjectOf("n" :> Of("int") @@ "definitions" :> Of("text"))}
OwnInside == {<<"n", v>> : v \in {Leaf("text", 2), NullValue}}
OwnImports == {ObjectOf("n" :> Of("int") @@ "m" :> Leaf("text", 2))}

Subjects ==
  {"cascade", "revisions", "trees", "merge", "statements", "verdicts", "simfs", "naming", "contract",
   "upgrade"}

AlgorithmsInit ==
  /\ subject \in Subjects
  /\ IF subject = "cascade" THEN CascadeInit ELSE CascadeIdle
  /\ IF subject = "revisions" THEN RevisionsInit ELSE RevisionsIdle
  /\ IF subject = "trees" THEN TreesInit ELSE TreesIdle
  /\ IF subject = "merge" THEN MergeInit ELSE MergeIdle
  /\ IF subject = "statements" THEN StatementsInit ELSE StatementsIdle
  /\ IF subject = "verdicts" THEN VerdictsInit ELSE VerdictsIdle
  /\ IF subject = "simfs" THEN SimInit ELSE SimIdle
  /\ IF subject = "naming" THEN NamingInit ELSE NamingIdle
  /\ IF subject = "contract" THEN ContractInit ELSE ContractIdle
  /\ IF subject = "upgrade" THEN UpgradeInit ELSE UpgradeIdle

AlgorithmsNext ==
  /\ UNCHANGED subject
  /\ IF subject = "cascade" THEN CascadeNext ELSE UNCHANGED cascadeVars
  /\ IF subject = "revisions" THEN RevisionsNext ELSE UNCHANGED revisionsVars
  /\ IF subject = "trees" THEN TreesNext ELSE UNCHANGED treesVars
  /\ IF subject = "merge" THEN MergeNext ELSE UNCHANGED mergeVars
  /\ IF subject = "statements" THEN StatementsNext ELSE UNCHANGED statementsVars
  /\ IF subject = "verdicts" THEN VerdictsNext ELSE UNCHANGED verdictsVars
  /\ IF subject = "simfs" THEN SimNext ELSE UNCHANGED simVars
  /\ IF subject = "naming" THEN NamingNext ELSE UNCHANGED namingVars
  /\ IF subject = "contract" THEN ContractNext ELSE UNCHANGED contractVars
  /\ IF subject = "upgrade" THEN UpgradeNext ELSE UNCHANGED upgradeVars

AlgorithmsSpec == AlgorithmsInit /\ [][AlgorithmsNext]_vars
=============================================================================
