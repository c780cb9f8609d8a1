------------------------------ MODULE RowMerge ------------------------------
(***************************************************************************)
(* The merge of one row file, merge.rs: three values merged member by      *)
(* member, each conflict resolved as ours, then marked in the text with    *)
(* every side's section, of which a person keeps one.                      *)
(*                                                                         *)
(* A value is a scalar -- or an array, which is merged like one -- or an   *)
(* object, a function from names.  A pointer is a sequence of names.  Of   *)
(* the text of an object only its members and commas are modelled, in the  *)
(* order of Names: ours' order, and theirs after, may be any.              *)
(***************************************************************************)
EXTENDS Naturals, Sequences, SequencesExt, FiniteSets

CONSTANTS
  Names,      \* the names of members, in their order in a file: a sequence
  Triples     \* what may be merged: [base, ours, theirs]

VARIABLES
  input,      \* the three sides
  marks,      \* the conflicts marked in the text
  kept        \* the side kept of each

mergeVars == <<input, marks, kept>>

Scalar(x) == [kind |-> "scalar", is |-> x, of |-> <<>>]
Object(members) == [kind |-> "object", is |-> 0, of |-> members]
Absent == [kind |-> "absent", is |-> 0, of |-> <<>>]
Member(value, name) ==
  IF value.kind = "object" /\ name \in DOMAIN value.of THEN value.of[name] ELSE Absent
With(members, name, value) ==
  [n \in (DOMAIN members \union {name}) \ (IF value = Absent THEN {name} ELSE {}) |->
     IF n = name THEN value ELSE members[n]]

RECURSIVE At(_, _), Put(_, _, _), Merged(_, _, _), Conflicts(_, _, _, _), Lifted(_, _, _)

At(value, pointer) ==
  IF pointer = <<>> THEN value ELSE At(Member(value, Head(pointer)), Tail(pointer))

\* set: puts a value at a pointer, or takes the member away.
Put(root, pointer, value) ==
  IF pointer = <<>> THEN IF value = Absent THEN root ELSE value
  ELSE IF root.kind # "object" THEN root
  ELSE IF Len(pointer) = 1 THEN Object(With(root.of, Head(pointer), value))
  ELSE IF Head(pointer) \notin DOMAIN root.of THEN root
  ELSE Object(With(root.of, Head(pointer), Put(root.of[Head(pointer)], Tail(pointer), value)))

-----------------------------------------------------------------------------
(* merge_value, merge_members                                              *)

ByMembers(ours, theirs) == ours.kind = "object" /\ theirs.kind = "object"

Merged(base, ours, theirs) ==
  IF ours = theirs \/ base = theirs THEN ours
  ELSE IF base = ours THEN theirs
  ELSE IF ~ByMembers(ours, theirs) THEN ours
  ELSE LET of == [name \in DOMAIN ours.of \union DOMAIN theirs.of |->
                    Merged(Member(base, name), Member(ours, name), Member(theirs, name))]
       IN Object([name \in {n \in DOMAIN of : of[n] # Absent} |-> of[name]])

Conflict(at, base, ours, theirs) == [at |-> at, base |-> base, ours |-> ours, theirs |-> theirs]
Conflicts(at, base, ours, theirs) ==
  IF ours = theirs \/ base = theirs \/ base = ours THEN {}
  ELSE IF ~ByMembers(ours, theirs) THEN {Conflict(at, base, ours, theirs)}
  ELSE UNION {Conflicts(Append(at, name), Member(base, name), Member(ours, name), Member(theirs, name)) :
                name \in DOMAIN ours.of \union DOMAIN theirs.of}

\* merge_documents: the merge had every conflict gone their way.
TheirWay(merged, conflicts) ==
  LET put(root, conflict) == Put(root, conflict.at, conflict.theirs)
  IN FoldLeft(put, merged, SetToSeq(conflicts))

-----------------------------------------------------------------------------
(* mark                                                                    *)

Parent(conflict) == Front(conflict.at)
Group(conflicts, parent) == {c \in conflicts : c.at # <<>> /\ Parent(c) = parent}
NamesIn(group) == {Last(c.at) : c \in group}

\* Mutant: an object of which every member conflicts is marked where it is.
UnanchoredNever(merged, conflicts) == {}

\* Objects below the root of which every member conflicts.
Unanchored(merged, conflicts) ==
  {p \in {Parent(c) : c \in {x \in conflicts : x.at # <<>>}} :
     /\ p # <<>>
     /\ DOMAIN At(merged, p).of \subseteq NamesIn(Group(conflicts, p))}

\* Such an object becomes one conflict of the member that holds it.
Lifted(merged, theirs, conflicts) ==
  IF Unanchored(merged, conflicts) = {} THEN conflicts
  ELSE LET p == CHOOSE p \in Unanchored(merged, conflicts) : TRUE
       IN Lifted(merged, theirs,
            (conflicts \ Group(conflicts, p))
              \union {Conflict(p, At(input.base, p), At(merged, p), At(theirs, p))})

\* What is written: where an object has no member to carry the commas it is
\* replaced whole, and each side's section is a value; elsewhere a section is
\* a member and the comma beside it.
Whole(merged, parent, group) == DOMAIN At(merged, parent).of \subseteq NamesIn(group)
Marked(merged, theirs, conflicts) ==
  LET lifted == Lifted(merged, theirs, conflicts)
      whole == {p \in {Parent(c) : c \in {x \in lifted : x.at # <<>>}} :
                  Whole(merged, p, Group(lifted, p))}
  IN {[conflict |-> Conflict(p, At(input.base, p), At(merged, p), At(theirs, p)), value |-> TRUE] : p \in whole}
       \union {[conflict |-> c, value |-> c.at = <<>>] : c \in {x \in lifted : x.at # <<>> => Parent(x) \notin whole}}

Sides == {"ours", "base", "theirs"}

Start(triple) == input = triple /\ marks = {} /\ kept = <<>>
MergeIdle == Start([base |-> Absent, ours |-> Absent, theirs |-> Absent])
MergeInit == \E triple \in Triples : Start(triple)

Mark ==
  /\ marks = {} /\ input.ours # Absent
  /\ LET merged == Merged(input.base, input.ours, input.theirs)
         conflicts == Conflicts(<<>>, input.base, input.ours, input.theirs)
     IN marks' = Marked(merged, TheirWay(merged, conflicts), conflicts)
  /\ UNCHANGED <<input, kept>>

Keep ==
  /\ marks # {} /\ kept = <<>>
  /\ kept' \in [{m.conflict.at : m \in marks} -> Sides]
  /\ UNCHANGED <<input, marks>>

MergeNext == Mark \/ Keep

-----------------------------------------------------------------------------
(* The text that is left                                                   *)

Section(mark) == mark.conflict[kept[mark.conflict.at]]

\* The members and commas of the object at p: those before the first member
\* that does not conflict carry the comma after them, the others before.
Text(merged, p) ==
  LET group == {m \in marks : ~m.value /\ Front(m.conflict.at) = p}
      names == {Last(m.conflict.at) : m \in group}
      of(name) == CHOOSE m \in group : Last(m.conflict.at) = name
      here == SelectSeq(Names, LAMBDA n : n \in DOMAIN At(merged, p).of)
      gone == SelectSeq(Names, LAMBDA n : n \in names \ DOMAIN At(merged, p).of)
      anchor == CHOOSE i \in DOMAIN here :
                  here[i] \notin names /\ \A j \in 1..(i - 1) : here[j] \in names
      written(name) == name \notin names \/ Section(of(name)) # Absent
      before == FlattenSeq([i \in 1..(anchor - 1) |-> IF written(here[i]) THEN <<here[i], ",">> ELSE <<>>])
      after == SubSeq(here, anchor + 1, Len(here)) \o gone
  IN before \o <<here[anchor]>>
       \o FlattenSeq([i \in DOMAIN after |-> IF written(after[i]) THEN <<",", after[i]>> ELSE <<>>])

IsObjectText(text) ==
  \A i \in DOMAIN text : (text[i] = ",") = (i % 2 = 0) /\ (i = Len(text) => text[i] # ",")

\* Keeping any side of any conflict leaves valid JSON: no section that must be
\* a value is empty, unless it is the whole file's, and no comma is missing or
\* left over (merge.rs:13-16, :243).
KeepsValid ==
  kept # <<>> =>
    LET merged == Merged(input.base, input.ours, input.theirs)
    IN /\ \A m \in marks : m.value /\ m.conflict.at # <<>> => Section(m) # Absent
       /\ \A m \in marks : ~m.value => IsObjectText(Text(merged, Front(m.conflict.at)))

=============================================================================
