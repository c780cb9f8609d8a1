------------------------------- MODULE Upgrade -------------------------------
(***************************************************************************)
(* `reldir upgrade` (upgrade.rs): a format 2 database made format 3.       *)
(*                                                                         *)
(* The new metadata is built in a workspace, whose marker READY says that  *)
(* it is whole; then format 2's metadata is set aside, the new one is put  *)
(* in place one name at a time, and .db/format is written last.  None of   *)
(* it goes through the journal: an upgrade that is interrupted is run      *)
(* again, and finds out how far it came from what is where.                *)
(*                                                                         *)
(* The cell of a part tells what is at its place, what is set aside of it  *)
(* in .db/format-2 and what is built of it in .db/upgrade: nothing ("no"), *)
(* format 2's ("two"), format 3's ("three"; "tracking" for a .gitignore    *)
(* that lets history be versioned), or a name of format 3's whose contents *)
(* a power loss cut short ("torn").                                        *)
(***************************************************************************)
EXTENDS Integers, Sequences

Disk == INSTANCE Folder

CONSTANTS
  Lacking,        \* what a format 2 database may be without: sets of parts
  Tracking,       \* whether its .gitignore may let its history be versioned
  UpgradeFaults,  \* what may strike: "kill", "power"; either before READY is
                  \* durable, and "kill" before a pin's original is: "unmarked",
                  \* "unsaved"
  MaxStrikes      \* how often

\* "old" is any name that only format 2 has: provenance, snapshots, the mirror;
\* "pin" is a pin in schema/, the other parts are names in .db.
Aside == {"old", "objects", "schema", "config", "transactions", "gitignore"}
Pieces == {"objects", "history", "schema", "config", "pin"}
Part == Aside \union Pieces \union {"format", "READY"}

ASSUME LackingAssumption == Lacking \subseteq SUBSET Aside /\ Tracking \subseteq BOOLEAN
ASSUME StrikeAssumption ==
  UpgradeFaults \subseteq {"kill", "power", "unmarked", "unsaved"} /\ MaxStrikes \in Nat

VARIABLES
  cell,      \* cell[i]: cell of part i: [place, aside, built]
  lacks,     \* the parts that format 2 was without
  tracking,  \* whether format 2's .gitignore let its history be versioned
  phase,     \* what the process does: "idle", "built", "marked", "swap", "sync", "stuck"
  at,        \* the step of the swap it is at
  tracked,   \* what it read in .gitignore
  strikes

upgradeVars == <<cell, lacks, tracking, phase, at, tracked, strikes>>

-----------------------------------------------------------------------------
(* Files                                                                   *)

\* A file's name may be durable before its contents are.
NameOf(v) == IF v = "torn" THEN "three" ELSE v
Agrees(m, w, where) == \A d \in where : NameOf(m[d]) = NameOf(w[d])

\* A rename.  The contents go along as they are.
RenamePart(c, from, to) ==
  LET Same(m) == Agrees(m, c.now, {from, to})
      New(m) == [m EXCEPT ![to] = m[from], ![from] = "no"]
  IN  Disk!Issue(c, Same, New)

\* A name appears with contents that are durable, or goes.
SetPart(c, d, v) ==
  LET Same(m) == Agrees(m, c.now, {d})
      New(m) == [m EXCEPT ![d] = v]
  IN  Disk!Issue(c, Same, New)

\* A file is written and not synced.
WritePart(c) ==
  LET set == SetPart(c, "built", "three")
  IN  [set EXCEPT !.may = @ \union {[m EXCEPT !.built = "torn"] : m \in set.may}]

\* The directory that holds part i's name where it is at d.
DirOf(i, d) ==
  CASE d = "place" -> IF i = "pin" THEN "schema" ELSE ".db"
    [] d = "aside" -> IF i = "pin" THEN "format-2/pins" ELSE "format-2"
    [] d = "built" -> CASE i = "pin" -> "upgrade/pins"
                        [] i \in {"objects", "history"} -> "upgrade/root/.db"
                        [] OTHER -> "upgrade"

\* Directories are synced; or a tree whole, with the contents of its files.
SyncDirs(dirs) ==
  cell' = [i \in Part |->
             LET Same(m) == Agrees(m, cell[i].now, {d \in DOMAIN m : DirOf(i, d) \in dirs})
             IN  Disk!Sync(cell[i], Same)]
SyncContents(c) == LET Same(m) == m.built = c.now.built IN Disk!Sync(c, Same)

Shown(i) == cell[i].now

\* What format 2 has of part i.
AtFirst(i) == IF i \in lacks \union {"history", "READY"} THEN "no" ELSE "two"

\* The workspace goes: in no order, and without a sync.
WithoutWorkspace(cs) ==
  [i \in Part |-> IF cs[i].now.built = "no" THEN cs[i] ELSE SetPart(cs[i], "built", "no")]

-----------------------------------------------------------------------------
(* Beginning, and building                                                 *)

Turn(p, k) == phase' = p /\ at' = k

\* swap begins, or begins again, by looking at .gitignore.
Enter ==
  /\ Turn("swap", 1)
  /\ tracked' = (tracking /\ Shown("gitignore").place = "two")

\* Format 3 already: what is left of a workspace goes, and nothing is upgraded.
Tidy ==
  /\ phase = "idle" /\ Shown("format").place = "three"
  /\ \E i \in Part : Shown(i).built # "no"
  /\ cell' = WithoutWorkspace(cell)
  /\ UNCHANGED <<lacks, tracking, phase, at, tracked, strikes>>

\* An upgrade was under way: it goes on from where it came to.  A marker that does
\* not read back is an error.
Resume ==
  /\ phase = "idle" /\ Shown("format").place = "two" /\ Shown("READY").built # "no"
  /\ IF Shown("READY").built = "torn" THEN Turn("stuck", 0) /\ UNCHANGED tracked ELSE Enter
  /\ UNCHANGED <<cell, lacks, tracking, strikes>>

\* No upgrade was under way, or its workspace was not finished: it is built anew...
BuildWorkspace ==
  /\ phase = "idle" /\ Shown("format").place = "two" /\ Shown("READY").built = "no"
  /\ LET cleared == WithoutWorkspace(cell)
     IN  cell' = [i \in Part |-> IF i \in Pieces THEN WritePart(cleared[i]) ELSE cleared[i]]
  /\ Turn("built", 0)
  /\ UNCHANGED <<lacks, tracking, tracked, strikes>>

\* ... or a history that does not verify is refused, and nothing is left of it.
BuildRefused ==
  /\ phase = "idle" /\ Shown("format").place = "two" /\ Shown("READY").built = "no"
  /\ \E i \in Part : Shown(i).built # "no"
  /\ cell' = WithoutWorkspace(cell)
  /\ UNCHANGED <<lacks, tracking, phase, at, tracked, strikes>>

MarkReady ==
  /\ phase = "built"
  /\ cell' = [cell EXCEPT !["READY"] = WritePart(@)]
  /\ Turn("marked", 0)
  /\ UNCHANGED <<lacks, tracking, tracked, strikes>>

SyncTree ==
  /\ phase = "marked"
  /\ cell' = [i \in Part |-> IF i \in Pieces \union {"READY"} THEN SyncContents(cell[i]) ELSE cell[i]]
  /\ Enter
  /\ UNCHANGED <<lacks, tracking, strikes>>

-----------------------------------------------------------------------------
(* Putting it in place                                                     *)

\* Mutant: the format is written before what was built is put in place.
StepsFormatEarly ==
  <<<<"aside", "old">>, <<"aside", "objects">>, <<"aside", "schema">>, <<"aside", "config">>,
    <<"aside", "transactions">>, <<"aside", "gitignore">>,
    <<"save", "pin">>, <<"rewrite", "pin">>, <<"drop", "pin">>, <<"write", "format">>,
    <<"move", "objects">>, <<"move", "history">>, <<"move", "schema">>, <<"move", "config">>,
    <<"create", "transactions">>, <<"write", "gitignore">>>>

Steps ==
  <<<<"aside", "old">>, <<"aside", "objects">>, <<"aside", "schema">>, <<"aside", "config">>,
    <<"aside", "transactions">>, <<"aside", "gitignore">>,
    <<"save", "pin">>, <<"rewrite", "pin">>, <<"drop", "pin">>,
    <<"move", "objects">>, <<"move", "history">>, <<"move", "schema">>, <<"move", "config">>,
    <<"create", "transactions">>, <<"write", "gitignore">>, <<"write", "format">>>>

Is(task, i) == phase = "swap" /\ at <= Len(Steps) /\ Steps[at] = <<task, i>>

\* Nothing is to be done; or something is, and the directories it is in are synced.
Onward == Turn("swap", at + 1) /\ UNCHANGED cell
Changed(i, c) == Turn("sync", at) /\ cell' = [cell EXCEPT ![i] = c]

\* A move that an interrupted run already made is not made again; two of a kind
\* cannot be told apart.
MoveOnce(i, from, to) ==
  CASE Shown(i)[from] = "no"                        -> Onward
    [] Shown(i)[from] # "no" /\ Shown(i)[to] # "no" -> Turn("stuck", 0) /\ UNCHANGED cell
    [] OTHER                                       -> Changed(i, RenamePart(cell[i], from, to))

\* Where format 3 has the name too, one that was set aside says that what is in
\* its place is format 3's.  transactions is not among those the code looks for.
SetAside(i) ==
  /\ Is("aside", i)
  /\ IF i \in {"objects", "schema", "config", "gitignore"} /\ Shown(i).aside # "no"
     THEN Onward ELSE MoveOnce(i, "place", "aside")

SavePin ==
  /\ Is("save", "pin")
  /\ IF Shown("pin").aside # "no" THEN Onward
     ELSE Changed("pin", SetPart(cell["pin"], "aside", Shown("pin").place))

RewritePin ==
  /\ Is("rewrite", "pin")
  /\ IF Shown("pin").built = "no" THEN Onward
     ELSE Changed("pin", SetPart(cell["pin"], "place", Shown("pin").built))

\* The converted pin is removed, without a sync.
DropConverted ==
  /\ Is("drop", "pin")
  /\ cell' = [cell EXCEPT !["pin"] = SetPart(@, "built", "no")]
  /\ Turn("swap", at + 1)

PutInPlace(i) == Is("move", i) /\ MoveOnce(i, "built", "place")

CreateTransactions ==
  /\ Is("create", "transactions")
  /\ IF Shown("transactions").place # "no" THEN Onward
     ELSE Changed("transactions", SetPart(cell["transactions"], "place", "three"))

WriteGitignore ==
  /\ Is("write", "gitignore")
  /\ Changed("gitignore", SetPart(cell["gitignore"], "place", IF tracked THEN "tracking" ELSE "three"))

WriteFormat ==
  /\ Is("write", "format")
  /\ Changed("format", SetPart(cell["format"], "place", "three"))

Swap ==
  /\ \/ \E i \in Aside : SetAside(i)
     \/ SavePin \/ RewritePin \/ DropConverted
     \/ \E i \in Pieces : PutInPlace(i)
     \/ CreateTransactions \/ WriteGitignore \/ WriteFormat
  /\ UNCHANGED <<lacks, tracking, tracked, strikes>>

SyncStep ==
  /\ phase = "sync"
  /\ LET task == Steps[at][1]  i == Steps[at][2] IN
       SyncDirs({DirOf(i, d) : d \in CASE task = "aside" -> {"place", "aside"}
                                       [] task = "move" -> {"built", "place"}
                                       [] task = "save" -> {"aside"}
                                       [] OTHER -> {"place"}})
  /\ Turn("swap", at + 1)
  /\ UNCHANGED <<lacks, tracking, tracked, strikes>>

RemoveWorkspace ==
  /\ phase = "swap" /\ at > Len(Steps)
  /\ cell' = WithoutWorkspace(cell)
  /\ Turn("idle", 0)
  /\ UNCHANGED <<lacks, tracking, tracked, strikes>>

-----------------------------------------------------------------------------
(* The environment                                                         *)

StrikeBy(f) == f \in UpgradeFaults /\ strikes < MaxStrikes /\ strikes' = strikes + 1
Stopped == Turn("idle", 0) /\ tracked' = FALSE

KillUpgrade ==
  /\ phase \notin {"idle", "stuck"} /\ Stopped
  /\ StrikeBy(CASE phase = "marked" -> "unmarked"
                [] phase = "sync" /\ Steps[at][1] = "save" -> "unsaved"
                [] OTHER -> "kill")
  /\ UNCHANGED <<cell, lacks, tracking>>

\* What a power loss may leave of the parts.
LeftByPower ==
  LET open == {i \in Part : cell[i].may # {cell[i].now}} IN
  {[i \in Part |-> IF i \in open THEN f[i] ELSE cell[i].now] :
     f \in {g \in [open -> UNION {cell[i].may : i \in open}] : \A i \in open : g[i] \in cell[i].may}}

LosePower ==
  /\ phase # "stuck" /\ Stopped
  /\ StrikeBy(IF phase = "marked" THEN "unmarked" ELSE "power")
  /\ \E found \in LeftByPower : cell' = [i \in Part |-> Disk!Durable(found[i])]
  /\ UNCHANGED <<lacks, tracking>>

Begun ==
  /\ cell = [i \in Part |-> Disk!Durable([place |-> AtFirst(i), aside |-> "no", built |-> "no"])]
  /\ phase = "idle" /\ at = 0 /\ tracked = FALSE /\ strikes = 0

UpgradeInit ==
  /\ lacks \in Lacking /\ tracking \in Tracking /\ (tracking => "gitignore" \notin lacks)
  /\ Begun

UpgradeIdle == lacks = {} /\ tracking = FALSE /\ Begun

UpgradeNext ==
  \/ Tidy \/ Resume \/ BuildWorkspace \/ BuildRefused \/ MarkReady \/ SyncTree
  \/ Swap \/ SyncStep \/ RemoveWorkspace
  \/ KillUpgrade \/ LosePower

UpgradeSpec == UpgradeInit /\ [][UpgradeNext]_upgradeVars

-----------------------------------------------------------------------------
(* Properties                                                              *)

\* What is at part i's place once the database is format 3.
AtLast(i) == CASE i \in {"old", "READY"} -> "no"
               [] i = "gitignore" /\ tracking -> "tracking"
               [] OTHER -> "three"

\* On every disk that an interruption may leave, at any step and while going on
\* from another: what format 2 kept is in its place or set aside; and where the
\* marker says format 3, all of format 3 is in place, whole, and all that format 2
\* kept is set aside as it was (upgrade.rs:22, docs/format.md:304).
UpgradeKept ==
  /\ \A i \in (Aside \union {"pin"}) \ lacks : \A m \in cell[i].may : "two" \in {m.place, m.aside}
  /\ (\E m \in cell["format"].may : m.place = "three") =>
       \A i \in Part \ {"format"} : \A m \in cell[i].may :
         /\ m.place = AtLast(i)
         /\ m.aside = IF i \in Aside \union {"pin"} THEN AtFirst(i) ELSE "no"

\* "Until then the database is format 2, and `reldir upgrade` run again resumes"
\* (docs/format.md:306): no interruption leaves an upgrade that cannot go on.
Resumed == phase # "stuck"

=============================================================================
