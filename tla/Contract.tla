------------------------------ MODULE Contract ------------------------------
(***************************************************************************)
(* What a table's files may hold: shape.rs, which infers a schema from     *)
(* them, schema/row.rs and schema/keywords.rs, which say what of a row a   *)
(* schema refuses, schema/widen.rs, which edits a schema so that it admits *)
(* more, and contract.rs with Database::transact, which keep reldir from   *)
(* writing what the schema does not admit.                                 *)
(*                                                                         *)
(* A value is a scalar of some spelling, an array, or an object.  A schema *)
(* is a record of its keywords; one that is not stated is empty or "none". *)
(* Bounds and enumerations, which only a person states, are left out, and  *)
(* so are $ref and the combinations other than anyOf.                      *)
(***************************************************************************)
EXTENDS Integers, Sequences, FiniteSets, Functions, FiniteSetsExt, SequencesExt, TLC

CONSTANTS
  RowTables,    \* what a folder may hold when it is adopted: names to rows
  RowNames,     \* the names of row files
  Outside,      \* rows other programs may write
  Inside,       \* members, with values, that a statement may set
  Imports,      \* rows that an import may read
  MapMinNames,  \* an object of more names than this may be a map
  Rounds,       \* the rounds of edits a widening may take
  MaxOutside, MaxInside  \* how many writes there are of each

VARIABLES
  rows,      \* rows[r]: the object in the file r
  schema,    \* the table's contract: none before it is adopted, or one
  theirs,    \* theirs[r]: what other programs last wrote as the row in r, or NoBody
  over,      \* over[r]: the members reldir wrote over theirs, not declared then
  admitted,  \* rows the contract admitted, adopted or written
  outside, inside

contractVars == <<rows, schema, theirs, over, admitted, outside, inside>>

-----------------------------------------------------------------------------
(* Values                                                                  *)

Leaf(is, n) == [is |-> is, n |-> n]
ArrayOf(items) == [is |-> "array", items |-> items]
ObjectOf(members) == [is |-> "object", members |-> members]
NoBody == [is |-> "gone"]

\* How numbers and strings are written: integers within 64 bits or beyond,
\* 3.0, 3.5; text, dates, uuids of lower and upper case, ulids.
Integer == {"int", "big"}
Fraction == {"whole", "frac"}
Uuid == {"lower", "upper"}
Textual == {"text", "date", "ulid"} \union Uuid

\* type_name
TypeName(v) ==
  CASE v.is \in Integer -> "integer" [] v.is \in Fraction -> "number"
    [] v.is \in Textual -> "string" [] OTHER -> v.is

Elements(values) ==
  FlattenSeq([i \in DOMAIN values |-> IF values[i].is = "array" THEN values[i].items ELSE <<>>])
ObjectsIn(values) == SelectSeq(values, LAMBDA v : v.is = "object")
MemberNames(objects) == UNION {DOMAIN objects[i].members : i \in DOMAIN objects}
Having(objects, name) == SelectSeq(objects, LAMBDA v : name \in DOMAIN v.members)
ValuesOf(objects, name) ==
  LET having == Having(objects, name) IN [i \in DOMAIN having |-> having[i].members[name]]

-----------------------------------------------------------------------------
(* The contract of some values                                             *)

\* The schema that states nothing, and the schema false.
Anything == [never |-> FALSE, types |-> {}, tag |-> "none", form |-> "none", items |-> <<>>,
             members |-> <<>>, required |-> {}, others |-> <<>>, anyOf |-> <<>>]
Never == [Anything EXCEPT !.never = TRUE]
OfType(type) == [Anything EXCEPT !.types = {type}]

\* NumberClass::join and fragment
NumberSchema(seen) ==
  CASE seen = {"int"} -> [OfType("integer") EXCEPT !.tag = "int"]
    [] seen # {"int"} /\ seen \subseteq Integer -> OfType("integer")
    [] seen \subseteq Fraction -> [OfType("number") EXCEPT !.tag = "float"]
    [] OTHER -> OfType("number")

\* StringForm::join, fragment and names_subschema
FormOf(seen) ==
  IF Cardinality(seen) = 1 THEN CHOOSE form \in seen : TRUE
  ELSE IF seen \subseteq Uuid THEN "mixed" ELSE "text"
StringSchema(seen) ==
  [OfType("string") EXCEPT !.form = IF FormOf(seen) = "text" THEN "none" ELSE FormOf(seen),
                           !.tag = IF FormOf(seen) = "ulid" THEN "ulid" ELSE "none"]

\* ObjectTally::map_like: keyed by data, as far as can be told.
MapLike(objects) ==
  /\ Cardinality(MemberNames(objects)) > MapMinNames
  /\ \A name \in MemberNames(objects) : 2 * Len(Having(objects, name)) <= Len(objects)

\* Tally::shape and Shape::to_subschema: the schema of the values seen at a
\* place, and whether it and those below may be judged maps.  Several types are
\* one list if no more than one of them says more than its type, and none is
\* tagged.
RECURSIVE SchemaOf(_, _, _)
ObjectSchema(objects, here, below) ==
  LET names == SetToSeq(MemberNames(objects))
      all == FlattenSeq([i \in DOMAIN names |-> ValuesOf(objects, names[i])])
  IN IF here /\ MapLike(objects)
     THEN [OfType("object") EXCEPT !.others = <<SchemaOf(all, below, below)>>]
     ELSE [OfType("object") EXCEPT
             !.members = [m \in MemberNames(objects) |-> SchemaOf(ValuesOf(objects, m), below, below)],
             !.required = {m \in MemberNames(objects) : Len(Having(objects, m)) = Len(objects)},
             !.others = <<Never>>]
Fragments(values, here, below) ==
  LET seen == {values[i].is : i \in DOMAIN values}
      numbers == seen \intersect (Integer \union Fraction)
      strings == seen \intersect Textual
      If(held, Fragment(_)) == IF held = {} THEN <<>> ELSE <<Fragment(held)>>
  IN If(seen \intersect {"boolean"}, LAMBDA held : OfType("boolean"))
       \o If(numbers, NumberSchema)
       \o If(strings, StringSchema)
       \o If(seen \intersect {"array"}, LAMBDA held :
             [OfType("array") EXCEPT !.items = <<SchemaOf(Elements(values), below, below)>>])
       \o If(seen \intersect {"object"}, LAMBDA held : ObjectSchema(ObjectsIn(values), here, below))
Plain(fragment) == fragment = [Anything EXCEPT !.types = fragment.types]
Listed(fragments) ==
  \/ Len(fragments) <= 1
  \/ /\ \A i \in DOMAIN fragments :
          fragments[i].tag = "none" /\ fragments[i].others = <<>> /\ fragments[i].items = <<>>
     /\ Cardinality({i \in DOMAIN fragments : ~Plain(fragments[i])}) <= 1
OneList(fragments, null) ==
  LET rich == SelectSeq(fragments, LAMBDA f : ~Plain(f))
      types == UNION {fragments[i].types : i \in DOMAIN fragments}
  IN [(IF rich = <<>> THEN Anything ELSE rich[1]) EXCEPT !.types = types \union null]
SchemaOf(values, here, below) ==
  LET fragments == Fragments(values, here, below)
      null == {values[i].is : i \in DOMAIN values} \intersect {"null"}
  IN IF values = <<>> THEN Never
     ELSE IF Listed(fragments) THEN OneList(fragments, null)
     ELSE [Anything EXCEPT !.anyOf = fragments \o (IF null = {} THEN <<>> ELSE <<OfType("null")>>)]

\* Mutant: a row may be a map.
OfRowsJudged(bodies) == ObjectSchema(bodies, TRUE, TRUE)

\* TableShape::from_rows: a row is never a map.  Shape::observe: nothing is.
OfRows(bodies) == ObjectSchema(bodies, FALSE, TRUE)
ObservedOne(value) == SchemaOf(<<value>>, FALSE, FALSE)

-----------------------------------------------------------------------------
(* What of a value a schema refuses                                        *)

\* type: JSON Schema's integer accepts 3.0, and its number accepts 3.
TypeFits(types, v) ==
  \/ TypeName(v) \in types
  \/ /\ v.is \in Integer /\ "number" \in types
  \/ /\ v.is = "whole" /\ "integer" \in types
\* Tag::refusal
TagFits(tag, v) ==
  /\ tag = "int" => v.is \notin {"big"} \union Fraction
  /\ tag = "float" => v.is \notin Integer
  /\ tag = "ulid" => v.is \notin Textual \ {"ulid"}
\* format and pattern: a uuid is lower case where the format is uuid's.
FormFits(form, v) ==
  v.is \in Textual /\ form # "none" => v.is = form \/ (form = "mixed" /\ v.is \in Uuid)

\* RowValidator::failures: the node of the schema, as a path from its root, and
\* its keyword and the types it wants; the place of the value, the value, and
\* the members it is about.
Failure(node, keyword, wants, at, value, names) ==
  [node |-> node, keyword |-> keyword, wants |-> wants, at |-> at, value |-> value, names |-> names]
RECURSIVE Failures(_, _, _, _)
Failures(contract, v, node, at) ==
  LET One(broken, keyword, names) ==
        IF broken THEN <<Failure(node, keyword, contract.types, at, v, names)>> ELSE <<>>
      unknown == IF v.is = "object" THEN DOMAIN v.members \ DOMAIN contract.members ELSE {}
      Each(names, Of(_)) ==
        LET order == SetToSeq(names) IN FlattenSeq([i \in DOMAIN order |-> Of(order[i])])
      beyond ==
        IF contract.others = <<>> THEN <<>>
        ELSE IF contract.others[1].never THEN One(unknown # {}, "additionalProperties", unknown)
        ELSE Each(unknown, LAMBDA m : Failures(contract.others[1], v.members[m],
                                               node \o <<"additionalProperties">>, at \o <<m>>))
      within ==
        IF v.is # "object" THEN <<>>
        ELSE Each(DOMAIN v.members \intersect DOMAIN contract.members,
                  LAMBDA m : Failures(contract.members[m], v.members[m],
                                      node \o <<"properties", m>>, at \o <<m>>))
      elements ==
        IF contract.items = <<>> \/ v.is # "array" THEN <<>>
        ELSE FlattenSeq([i \in DOMAIN v.items |->
               Failures(contract.items[1], v.items[i], node \o <<"items">>, at \o <<ToString(i)>>)])
      missing == IF v.is = "object" THEN contract.required \ DOMAIN v.members ELSE {}
  IN IF contract.never THEN One(TRUE, "false", {})
     ELSE beyond
       \o One(/\ contract.anyOf # <<>>
              /\ \A i \in DOMAIN contract.anyOf : Failures(contract.anyOf[i], v, <<>>, <<>>) # <<>>,
              "anyOf", {})
       \o One(~FormFits(contract.form, v), "form", {})
       \o elements \o within
       \o Each(missing, LAMBDA m : One(TRUE, "required", {m}))
       \o One(contract.types # {} /\ ~TypeFits(contract.types, v), "type", {})
       \o One(~TagFits(contract.tag, v), "tag", {})
Refusals(contract, body) == Failures(contract, body, <<>>, <<>>)
Accepts(contract, body) == Refusals(contract, body) = <<>>

-----------------------------------------------------------------------------
(* Widening                                                                *)

\* What is a number may be an integer.
Covers(types, type) == type \in types \/ (type = "integer" /\ "number" \in types)

\* edit, at the node that refuses.
Loosened(node, f) ==
  CASE f.keyword = "false" -> IF node.never THEN ObservedOne(f.value) ELSE node
    [] f.keyword = "required" -> [node EXCEPT !.required = @ \ f.names]
    [] f.keyword = "additionalProperties" ->
         [node EXCEPT !.members = @ @@ [m \in f.names |-> ObservedOne(f.value.members[m])]]
    [] f.keyword = "form" -> [node EXCEPT !.form = "none"]
    [] f.keyword = "tag" -> [node EXCEPT !.tag = "none"]
    [] f.keyword = "type" ->
         IF Covers(node.types, TypeName(f.value)) THEN node
         ELSE [node EXCEPT !.types = @ \union {TypeName(f.value)},
                           !.tag = IF f.value.is = "null" THEN @ ELSE "none"]
RECURSIVE Edited(_, _, _)
Edited(node, path, f) ==
  CASE path = <<>> -> Loosened(node, f)
    [] path # <<>> /\ path[1] = "items" -> [node EXCEPT !.items = <<Edited(@[1], Tail(path), f)>>]
    [] path # <<>> /\ path[1] = "additionalProperties" ->
         [node EXCEPT !.others = <<Edited(@[1], Tail(path), f)>>]
    [] OTHER -> [node EXCEPT !.members[path[2]] = Edited(@, SubSeq(path, 3, Len(path)), f)]

\* admit: the contract widened, in rounds, until it accepts the bodies, if it
\* can be; what is refused as a whole, or under a name taken for shared
\* definitions, cannot.
ByRule(f) == f.keyword # "anyOf" /\ ~Contains(f.node, "definitions")
RECURSIVE Widened(_, _, _)
Widened(contract, bodies, rounds) ==
  LET failures == FlattenSeq([i \in DOMAIN bodies |-> Refusals(contract, bodies[i])])
      next == FoldLeft(LAMBDA c, f : Edited(c, f.node, f), contract, failures)
  IN IF rounds = 0 THEN <<>>
     ELSE IF failures = <<>> THEN <<contract>>
     ELSE IF (\E i \in DOMAIN failures : ~ByRule(failures[i])) \/ next = contract THEN <<>>
     ELSE Widened(next, bodies, rounds - 1)
Admit(contract, bodies) == Widened(contract, SetToSeq(bodies), Rounds)

-----------------------------------------------------------------------------
(* Faults                                                                  *)

\* describe and identity: a fault is the place, the rule, what is refused, and
\* the rest of its message, which lists the types the rule wants.  Of a row's
\* own members, only the name of the one missing or unknown counts, and of a
\* null in one, only that it is.
FaultsOf(f) ==
  LET Fault(at, value, names, types) ==
        [at |-> at, node |-> f.node, keyword |-> f.keyword,
         value |-> value, names |-> names, types |-> types]
  IN IF f.at = <<>> /\ f.keyword \in {"required", "additionalProperties"}
     THEN {Fault(<<m>>, NoBody, {}, {}) : m \in f.names}
     ELSE IF f.keyword = "type" /\ f.value.is = "null" /\ Len(f.at) = 1
     THEN {Fault(f.at, NoBody, {}, {})}
     ELSE {Fault(f.at, f.value, f.names, IF f.keyword = "type" THEN f.wants ELSE {})}
Faults(contract, body) ==
  LET failures == Refusals(contract, body) IN UNION {FaultsOf(failures[i]) : i \in DOMAIN failures}

-----------------------------------------------------------------------------
(* The contract kept                                                       *)

ContractIdle ==
  /\ rows = <<>> /\ schema = <<>> /\ theirs = <<>> /\ over = <<>> /\ admitted = {}
  /\ outside = 0 /\ inside = 0
ContractInit ==
  /\ rows \in RowTables /\ schema = <<>> /\ theirs = rows /\ admitted = {}
  /\ over = [r \in DOMAIN rows |-> <<>>]
  /\ outside = 0 /\ inside = 0

Admitting(held) == admitted' = admitted \union
  {held[r] : r \in {q \in DOMAIN held : schema' # <<>> /\ Accepts(schema'[1], held[q])}}

\* infer::contract
AdoptContract ==
  /\ schema = <<>>
  /\ schema' = <<OfRows([i \in DOMAIN SetToSeq(DOMAIN rows) |-> rows[SetToSeq(DOMAIN rows)[i]]])>>
  /\ admitted' = Range(rows)
  /\ UNCHANGED <<rows, theirs, over, outside, inside>>

\* Another program saves a file, or removes it.
Save(held) ==
  /\ schema # <<>> /\ outside < MaxOutside /\ outside' = outside + 1
  /\ UNCHANGED <<schema, inside>>
  /\ rows' = held /\ Admitting(held)
SaveRow(r, body) ==
  Save((r :> body) @@ rows) /\ theirs' = (r :> body) @@ theirs /\ over' = (r :> <<>>) @@ over
RemoveRow(r) ==
  /\ r \in DOMAIN rows
  /\ Save(Restrict(rows, DOMAIN rows \ {r}))
  /\ theirs' = Restrict(theirs, DOMAIN rows \ {r}) /\ over' = Restrict(over, DOMAIN rows \ {r})

\* Mutant: a row that broke the contract before may break it anyhow.
IntroducedIfValid(contract, after, written, from) ==
  {r \in written : /\ Faults(contract, after[r]) # {}
                   /\ from[r] \in DOMAIN rows => Faults(schema[1], rows[from[r]]) = {}}

\* introduced: the rows a change writes that have faults the same rows, where
\* they stood before, had not.
Introduced(contract, after, written, from) ==
  {r \in written : ~(Faults(contract, after[r]) \subseteq
                     IF from[r] \in DOMAIN rows THEN Faults(schema[1], rows[from[r]]) ELSE {})}

\* Members not declared that get another value.
PutOver(before, after) ==
  LET known == (DOMAIN before.members \intersect DOMAIN after.members) \ DOMAIN schema[1].members
  IN [m \in {n \in known : before.members[n] # after.members[n]} |-> after.members[m]]

\* transact: a change that introduces faults is refused, or, where widening was
\* asked for, the contract is widened to admit the rows that have them, in the
\* same change, and judged again.
Transact(after, written, from) ==
  LET refused == Introduced(schema[1], after, written, from)
      wide == Admit(schema[1], {after[r] : r \in refused})
  IN /\ schema # <<>> /\ inside < MaxInside /\ inside' = inside + 1
     /\ \/ refused = {} /\ schema' = schema
        \/ /\ refused # {} /\ wide # <<>> /\ schema' = wide
           /\ Introduced(wide[1], after, written, from) = {}
     /\ rows' = after /\ Admitting(after)
     /\ theirs' = [r \in DOMAIN after |->
                     IF r \notin written THEN theirs[r]
                     ELSE IF from[r] \in DOMAIN rows THEN theirs[from[r]] ELSE NoBody]
     /\ over' = [r \in DOMAIN after |->
                   IF r \notin written THEN over[r]
                   ELSE IF from[r] \in DOMAIN rows
                   THEN PutOver(rows[from[r]], after[r]) @@ over[from[r]] ELSE <<>>]
     /\ UNCHANGED outside

\* UPDATE: some rows get a value for a member, or new names, or both.
UpdateRows(of, to, set) ==
  LET at == AntiFunction(to)
      after == [r \in (DOMAIN rows \ of) \union Range(to) |->
                  IF r \notin Range(to) THEN rows[r]
                  ELSE IF set = <<>> THEN rows[at[r]]
                  ELSE ObjectOf((set[1] :> set[2]) @@ rows[at[r]].members)]
  IN /\ of \subseteq DOMAIN rows /\ Range(to) \intersect (DOMAIN rows \ of) = {}
     /\ Transact(after, Range(to), at)
InsertInto(r, body) ==
  r \notin DOMAIN rows /\ Transact((r :> body) @@ rows, {r}, (r :> r))

\* rows::import of one row: its members over those the row of its key has, or all
\* it has; a replace leaves no other row.  Nothing asks whether a member is declared.
Import(mode, r, body) ==
  LET row == IF mode = "upsert" /\ r \in DOMAIN rows THEN ObjectOf(body.members @@ rows[r].members)
             ELSE body
      after == (r :> row) @@ (IF mode = "upsert" THEN rows ELSE <<>>)
      written == {q \in {r} : q \notin DOMAIN rows \/ rows[q] # row}
  IN after # rows /\ Transact(after, written, (r :> r))

\* schema widen and FIX_WIDEN_CONTRACT: the contract admits what the files hold.
WidenToFiles ==
  LET wide == Admit(schema[1], {rows[r] : r \in {q \in DOMAIN rows : ~Accepts(schema[1], rows[q])}})
  IN /\ schema # <<>> /\ inside < MaxInside /\ inside' = inside + 1
     /\ wide \notin {<<>>, schema} /\ schema' = wide
     /\ Admitting(rows) /\ UNCHANGED <<rows, theirs, over, outside>>

\* stated: one member widened as a person says.
Stated(node, how) ==
  IF how = "any" THEN Anything
  ELSE IF Covers(node.types, how) THEN node
  ELSE [node EXCEPT !.types = @ \union {how}, !.tag = IF how = "null" THEN @ ELSE "none"]
WidenMember(member, how) ==
  /\ schema # <<>> /\ inside < MaxInside /\ inside' = inside + 1
  /\ member \in DOMAIN schema[1].members
  /\ how \in {"any", "optional"} \/ schema[1].members[member].types # {}
  /\ schema' = <<IF how = "optional" THEN [schema[1] EXCEPT !.required = @ \ {member}]
                 ELSE [schema[1] EXCEPT !.members[member] = Stated(@, how)]>>
  /\ Admitting(rows) /\ UNCHANGED <<rows, theirs, over, outside>>

ContractNext ==
  \/ AdoptContract
  \/ \E r \in RowNames, body \in Outside : SaveRow(r, body)
  \/ \E r \in RowNames : RemoveRow(r)
  \/ \E of \in (SUBSET DOMAIN rows) \ {{}}, set \in {<<>>} \union Inside :
       \E to \in {f \in [of -> RowNames] : IsInjective(f)} : UpdateRows(of, to, set)
  \/ \E r \in RowNames, set \in Inside : InsertInto(r, ObjectOf(set[1] :> set[2]))
  \/ \E mode \in {"upsert", "replace"}, r \in RowNames, body \in Imports : Import(mode, r, body)
  \/ WidenToFiles
  \/ \E m \in {"n", "m"}, how \in {"null", "integer", "optional", "any"} : WidenMember(m, how)

-----------------------------------------------------------------------------
(* Properties                                                              *)

\* The declared meaning of a contract (shape.rs:1-27), read off the values seen
\* at a place: nothing of a type, a spelling, or a member never seen, and every
\* member all of them had, unless they are keyed by data.
RECURSIVE Alike(_, _, _)
Alike(v, seen, judge) ==
  LET forms == {seen[i].is : i \in DOMAIN seen}
      objects == ObjectsIn(seen)
      names == MemberNames(objects)
      every == FlattenSeq([i \in DOMAIN SetToSeq(names) |-> ValuesOf(objects, SetToSeq(names)[i])])
      Seen(kinds) == forms \intersect kinds # {}
  IN CASE v.is \in {"null", "boolean"} -> v.is \in forms
       [] v.is = "int" -> Seen(Integer)
       [] v.is = "big" -> Seen({"big"}) \/ (Seen(Integer) /\ Seen(Fraction))
       [] v.is = "frac" -> Seen(Fraction)
       [] v.is = "whole" -> Seen(Fraction) \/ Seen({"big"})
       [] v.is \in Textual -> LET all == forms \intersect Textual IN
            /\ all # {} /\ (all = Uuid => v.is \in Uuid)
            /\ Cardinality(all) = 1 => all \subseteq {v.is, "text"}
       [] v.is = "array" ->
            "array" \in forms /\ \A i \in DOMAIN v.items : Alike(v.items[i], Elements(seen), TRUE)
       [] v.is = "object" ->
            /\ objects # <<>>
            /\ IF judge /\ MapLike(objects)
               THEN \A m \in DOMAIN v.members : Alike(v.members[m], every, TRUE)
               ELSE /\ \A m \in DOMAIN v.members :
                         m \in names /\ Alike(v.members[m], ValuesOf(objects, m), TRUE)
                    /\ \A m \in names : Len(Having(objects, m)) = Len(objects) => m \in DOMAIN v.members

\* The contract a folder is given when it is adopted admits exactly what is
\* like its rows, whatever types, maps and spellings meet at a place.
AdmitsTheLike ==
  schema = <<>> /\ rows # <<>> =>
    LET seen == [i \in DOMAIN SetToSeq(DOMAIN rows) |-> rows[SetToSeq(DOMAIN rows)[i]]]
    IN \A body \in Outside \union UNION {Range(table) : table \in RowTables} :
         Accepts(OfRows(seen), body) <=> Alike(body, seen, FALSE)

\* What is refused of a row: the value at a place, or that nothing is there.
Blamed(f) ==
  CASE f.keyword = "required" -> {<<Append(f.at, m), NoBody>> : m \in f.names}
    [] f.keyword = "additionalProperties" -> {<<Append(f.at, m), f.value.members[m]>> : m \in f.names}
    [] OTHER -> {<<f.at, f.value>>}
RECURSIVE ValueAt(_, _)
ValueAt(v, at) ==
  CASE at = <<>> -> v
    [] at # <<>> /\ v.is = "object" /\ at[1] \in DOMAIN v.members -> ValueAt(v.members[at[1]], Tail(at))
    [] at # <<>> /\ v.is = "array" /\ \E i \in DOMAIN v.items : ToString(i) = at[1] ->
         ValueAt(v.items[CHOOSE i \in DOMAIN v.items : ToString(i) = at[1]], Tail(at))
    [] OTHER -> NoBody

\* What a contract refuses of the file r: places, each with what is there.
RefusedOf(r) ==
  LET failures == Refusals(schema[1], rows[r])
  IN UNION {Blamed(failures[i]) : i \in DOMAIN failures}

\* reldir brings no value outside the contract into a row: whatever a contract
\* refuses of a file is as another program wrote it in that row, through any
\* renaming, importing, editing beside it, and widening; or, of a member that the
\* contract did not declare, what an import put over that program's value, as such a
\* fault is told by the member's name alone.  And a contract only widens: what it
\* once admitted it admits for good (contract.rs:1-27).
ContractKept ==
  schema # <<>> =>
    /\ \A r \in DOMAIN rows : \A blamed \in RefusedOf(r) :
         /\ theirs[r] # NoBody
         /\ blamed[2] = ValueAt(ObjectOf(over[r] @@ theirs[r].members), blamed[1])
    /\ \A body \in admitted : Accepts(schema[1], body)

\* "A fault is *new* when the change writes the file it is in and the same fault -- the
\* same rule refusing the same value at the same place -- was not there before"
\* (contract.rs:20): what a contract refuses of a file is what another program wrote.
RefusedIsTheirs ==
  schema # <<>> =>
    \A r \in DOMAIN rows : \A blamed \in RefusedOf(r) :
      theirs[r] # NoBody /\ blamed[2] = ValueAt(theirs[r], blamed[1])
=============================================================================
