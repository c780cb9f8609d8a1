--------------------------- MODULE AlgorithmsProof ---------------------------
(***************************************************************************)
(* What the algorithms that one process runs alone compute, for every      *)
(* database, folder, change, history and limit they may be given: that a   *)
(* transaction commits its effect, that a check which reads only what a    *)
(* change may disturb misses nothing, that the trees recorded of a history *)
(* hold the states they were recorded of, that revisions are numbered      *)
(* ancestors first, and that an upgrade of the format, interrupted and     *)
(* resumed, leaves one format or the other whole.                          *)
(***************************************************************************)
EXTENDS Statements, Verdicts, Trees, Revisions, Upgrade, FiniteSetTheorems,
        WellFoundedInduction, TLAPS

-----------------------------------------------------------------------------
(* The change a transaction commits                                        *)

\* What the transaction keeps of a path is what it found there and what its
\* statements see there; a path it keeps nothing of is as it was found.
Netted ==
  /\ found \in Databases /\ mirror \in Databases
  /\ {"phase", "statements", "change"} \subseteq DOMAIN txn
  /\ txn.phase = "open" =>
       /\ \A path \in DOMAIN net : net[path].began = RowAt(found, path) /\ net[path].now = RowAt(mirror, path)
       /\ \A path \in Places \ DOMAIN net : RowAt(mirror, path) = RowAt(found, path)

\* What lies at every path tells a database.
LEMMA HoldingAll ==
  ASSUME NEW db \in Databases
  PROVE  Holding([path \in Places |-> RowAt(db, path)]) = db
<1>1. DOMAIN db \subseteq Places /\ db = [path \in DOMAIN db |-> db[path]]
  BY DEF Databases
<1>2. \A path \in DOMAIN db : db[path] \in Rows
  BY DEF Databases
<1> DEFINE all == [path \in Places |-> RowAt(db, path)]
<1>3. {path \in DOMAIN all : all[path] # NoRow} = DOMAIN db
  BY <1>1, <1>2, StatementsAssumption DEF RowAt
<1>4. \A path \in DOMAIN db : all[path] = db[path]
  BY <1>1 DEF RowAt
<1> QED BY <1>1, <1>3, <1>4, Zenon DEF Holding

\* And whatever lies there makes one.
LEMMA HoldingTells ==
  ASSUME NEW rows, DOMAIN rows = Places, \A path \in Places : rows[path] \in Rows \cup {NoRow}
  PROVE  /\ Holding(rows) \in Databases
         /\ \A path \in Places : RowAt(Holding(rows), path) = rows[path]
<1>1. /\ DOMAIN Holding(rows) = {path \in Places : rows[path] # NoRow}
      /\ Holding(rows) \in [DOMAIN Holding(rows) -> Rows]
      /\ \A path \in DOMAIN Holding(rows) : Holding(rows)[path] = rows[path]
  BY DEF Holding
<1>2. DOMAIN Holding(rows) \in SUBSET Places
  BY <1>1
<1> QED BY <1>1, <1>2 DEF Databases, RowAt

\* A statement nets what it leaves and lands.
LEMMA ExecuteNets ==
  ASSUME Netted, NEW left \in SUBSET DOMAIN mirror, NEW landed \in Databases, Execute(left, landed)
  PROVE  Netted'
<1> DEFINE rows == [path \in Places |->
              IF path \in DOMAIN landed THEN landed[path]
              ELSE IF path \in left THEN NoRow ELSE RowAt(mirror, path)]
<1>1. /\ txn.phase = "open" /\ net' = Net(left, landed) /\ found' = found
      /\ mirror' = Holding(rows)
  BY DEF Execute, After
<1>2. /\ DOMAIN landed \subseteq Places /\ left \subseteq Places
      /\ \A path \in DOMAIN landed : landed[path] \in Rows
      /\ \A path \in Places : RowAt(mirror, path) \in Rows \cup {NoRow}
  BY DEF Netted, Databases, RowAt
<1>3. \A path \in Places : rows[path] \in Rows \cup {NoRow}
  BY <1>2
<1>4. mirror' \in Databases /\ \A path \in Places : RowAt(mirror', path) = rows[path]
  BY <1>1, <1>3, HoldingTells
<1>5. txn' = [txn EXCEPT !.statements = @ + 1]
  BY DEF Execute
<1>6. {"phase", "statements", "change"} \subseteq DOMAIN txn'
  BY <1>5 DEF Netted
<1>7. ASSUME NEW path \in DOMAIN net'
      PROVE  net'[path].began = RowAt(found, path) /\ net'[path].now = RowAt(mirror', path)
  <2>1. path \in DOMAIN net \cup left \cup DOMAIN landed
    BY <1>1, <1>7 DEF Net
  <2>2. /\ net'[path].began = IF path \in DOMAIN net THEN net[path].began ELSE RowAt(mirror, path)
        /\ net'[path].now = IF path \in DOMAIN landed THEN landed[path]
                            ELSE IF path \in left THEN NoRow ELSE net[path].now
    BY <1>1, <2>1 DEF Net
  <2>3. path \in DOMAIN net => net[path].began = RowAt(found, path) /\ net[path].now = RowAt(mirror, path)
    BY <1>1 DEF Netted
  <2>4. path \in Places \ DOMAIN net => RowAt(mirror, path) = RowAt(found, path)
    BY <1>1 DEF Netted
  <2>5. CASE path \in Places
    BY <1>2, <1>4, <2>1, <2>2, <2>3, <2>4, <2>5
  <2>6. CASE path \notin Places
    <3>1. path \notin DOMAIN mirror /\ path \notin DOMAIN mirror'
      BY <1>4, <2>6 DEF Netted, Databases
    <3> QED BY <1>2, <2>1, <2>2, <2>3, <2>6, <3>1 DEF RowAt
  <2> QED BY <2>5, <2>6
<1>8. ASSUME NEW path \in Places \ DOMAIN net' PROVE RowAt(mirror', path) = RowAt(found, path)
  <2>1. path \notin DOMAIN net \cup left \cup DOMAIN landed
    BY <1>1, <1>8 DEF Net
  <2> QED BY <1>1, <1>4, <2>1 DEF Netted
<1> QED BY <1>1, <1>4, <1>6, <1>7, <1>8 DEF Netted

\* The one change a transaction commits takes the database it found to the state
\* its statements saw, for any number of paths, rows and statements
\* (transaction.rs, apply, commit).
THEOREM CommitsItsEffect == StatementsSpec => []NetIsEffect
<1>1. StatementsInit => Netted
  BY DEF StatementsInit, Netted, Idle
<1>2. Netted /\ [StatementsNext]_statementsVars => Netted'
  <2> SUFFICES ASSUME Netted, [StatementsNext]_statementsVars PROVE Netted'
    OBVIOUS
  <2>1. CASE \E left \in SUBSET DOMAIN mirror, landed \in Databases : Execute(left, landed)
    BY <2>1, ExecuteNets
  <2>2. CASE Rollback \/ CommitAll
    BY <2>2 DEF Netted, Rollback, CommitAll
  <2>3. CASE UNCHANGED statementsVars
    BY <2>3 DEF Netted, statementsVars
  <2> QED BY <2>1, <2>2, <2>3 DEF StatementsNext
<1>3. Netted => NetIsEffect
  <2> SUFFICES ASSUME Netted, txn.phase = "open"
               PROVE  Holding([path \in Places |-> IF path \in DOMAIN ChangeOf THEN ChangeOf[path].after
                                                   ELSE RowAt(found, path)]) = mirror
    BY DEF NetIsEffect
  <2>1. ASSUME NEW path \in Places
        PROVE  (IF path \in DOMAIN ChangeOf THEN ChangeOf[path].after ELSE RowAt(found, path))
                 = RowAt(mirror, path)
    BY DEF Netted, ChangeOf
  <2>2. [path \in Places |-> IF path \in DOMAIN ChangeOf THEN ChangeOf[path].after ELSE RowAt(found, path)]
          = [path \in Places |-> RowAt(mirror, path)]
    BY <2>1, Zenon
  <2> QED BY <2>2, HoldingAll DEF Netted
<1> QED BY <1>1, <1>2, <1>3, PTL DEF StatementsSpec

-----------------------------------------------------------------------------
(* The verdict of a change judged by its scope                             *)

\* What a change writes an observation reads, and by its name it is one file on
\* every filesystem.
WritesAreRead ==
  \A p \in Writable : p \notin Ignored /\ \A f \in Folders : HoldsRow(f[p]) => ~f[p].large
WritesApart ==
  \A p \in Writable, q \in RowPaths : p[1] = q[1] /\ FoldOf[p] = FoldOf[q] => p = q

\* What was judged describes the folder, and what a prospect says the folder it
\* would make.
Judged ==
  /\ folder \in Folders
  /\ entries = Seen(folder) /\ faults = Structural(folder) /\ verdict = WholeVerdict(folder)
  /\ \A p \in prospect :
       /\ p.folder \in Folders /\ p.agreed
       /\ p.entries = Seen(p.folder) /\ p.faults = Structural(p.folder) /\ p.verdict = WholeVerdict(p.folder)

\* m and other differ at the scope's paths only, and the keys they hold there are
\* the scope's.
Covers(scope, m, other) ==
  /\ \A p \in RowPaths \ scope.paths : m[p] = other[p]
  /\ \A p \in scope.paths : p[1] \in scope.tables
  /\ \A p \in scope.paths \cap RowPaths : HoldsRow(m[p]) => m[p].key \in scope.keys
  /\ \A p \in scope.paths \cap RowPaths : HoldsRow(other[p]) => other[p].key \in scope.keys

\* A key that is not the scope's is held by the same files in both.
LEMMA SameHolders ==
  ASSUME NEW scope, NEW m, NEW other, Covers(scope, m, other)
  PROVE  /\ \A tables, key : key \notin scope.keys => Holders(m, tables, key) = Holders(other, tables, key)
         /\ \A p \in RowFiles(m) : m[p].key \notin scope.keys => p \in RowFiles(other) /\ m[p] = other[p]
         /\ \A p \in RowFiles(m) : p \notin scope.paths => p \in RowFiles(other) /\ m[p] = other[p]
         /\ \A table : table \notin scope.tables =>
              {p \in RowFiles(m) : p[1] = table} = {p \in RowFiles(other) : p[1] = table}
<1>1. \A p \in RowFiles(m) : (m[p].key \notin scope.keys \/ p \notin scope.paths) => p \in RowFiles(other) /\ m[p] = other[p]
  BY DEF Covers, RowFiles
<1>2. \A p \in RowFiles(other) : (other[p].key \notin scope.keys \/ p \notin scope.paths) => p \in RowFiles(m) /\ m[p] = other[p]
  BY DEF Covers, RowFiles
<1>3. ASSUME NEW tables, NEW key, key \notin scope.keys
      PROVE  Holders(m, tables, key) = Holders(other, tables, key)
  BY <1>1, <1>2, <1>3 DEF Holders
<1>4. ASSUME NEW table, table \notin scope.tables
      PROVE  {p \in RowFiles(m) : p[1] = table} = {p \in RowFiles(other) : p[1] = table}
  <2>1. \A p \in RowPaths : p[1] = table => p \notin scope.paths
    BY <1>4 DEF Covers
  <2> QED BY <1>1, <1>2, <2>1 DEF RowFiles
<1> QED BY <1>1, <1>3, <1>4

LEMMA CyclesOfTable ==
  ASSUME NEW m, NEW table, NEW x \in Cycles(m, table)
  PROVE  x[1] = "cycle" /\ x[2] = table
<1> DEFINE nodes == KeysOf(m, table)
           above == Ancestry(nodes, ParentsOf(m, table))
           Loop(k) == {y \in nodes : {<<k, y>>, <<y, k>>} \subseteq above}
           on == {k \in nodes : <<k, k>> \in above}
<1>1. Cycles(m, table) = {<<"cycle", table, Loop(k)>> : k \in on}
  BY Zenon DEF Cycles
<1> HIDE DEF Loop, on
<1> QED BY <1>1

\* A finding the scope does not find is there before and after.
LEMMA NotFound ==
  ASSUME NEW scope, NEW m, NEW other, Covers(scope, m, other), NEW x \in RowFindings(m), ~Finds(scope, x)
  PROVE  x \in RowFindings(other)
<1>1. CASE x \in {<<"row", p>> : p \in {p \in RowPaths : m[p] = Garbage}}
  <2>1. PICK p \in RowPaths : m[p] = Garbage /\ x = <<"row", p>>
    BY <1>1
  <2>2. p \notin scope.paths
    BY <2>1 DEF Finds
  <2> QED BY <2>1, <2>2 DEF Covers, RowFindings
<1>2. CASE x \in Duplicates(m)
  <2>1. PICK p \in RowFiles(m) : p # FirstHolder(m, {p[1]}, p) /\ x = <<"unique", m[p].key, FirstHolder(m, {p[1]}, p), p>>
    BY <1>2 DEF Duplicates
  <2>2. m[p].key \notin scope.keys
    BY <2>1 DEF Finds
  <2>3. p \in RowFiles(other) /\ m[p] = other[p] /\ FirstHolder(m, {p[1]}, p) = FirstHolder(other, {p[1]}, p)
    BY <2>2, SameHolders DEF FirstHolder
  <2>4. x \in Duplicates(other)
    BY <2>1, <2>3 DEF Duplicates
  <2> QED BY <2>4 DEF RowFindings
<1>3. CASE x \in Overlaps(m)
  <2>1. PICK p \in RowFiles(m) : p[1] # FirstHolder(m, Tables, p)[1] /\ x = <<"domain", m[p].key, FirstHolder(m, Tables, p), p>>
    BY <1>3 DEF Overlaps
  <2>2. m[p].key \notin scope.keys
    BY <2>1 DEF Finds
  <2>3. p \in RowFiles(other) /\ m[p] = other[p] /\ FirstHolder(m, Tables, p) = FirstHolder(other, Tables, p)
    BY <2>2, SameHolders DEF FirstHolder
  <2>4. x \in Overlaps(other)
    BY <2>1, <2>3 DEF Overlaps
  <2> QED BY <2>4 DEF RowFindings
<1>4. CASE x \in Dangling(m)
  <2>1. PICK p \in RowFiles(m) : m[p].to # NoKey /\ Holders(m, {"owners"}, m[p].to) = {} /\ x = <<"dangling", m[p].to, p>>
    BY <1>4 DEF Dangling
  <2>2. m[p].to \notin scope.keys /\ p \notin scope.paths
    BY <2>1 DEF Finds
  <2>3. p \in RowFiles(other) /\ m[p] = other[p] /\ Holders(other, {"owners"}, m[p].to) = {}
    BY <2>1, <2>2, SameHolders
  <2>4. x \in Dangling(other)
    BY <2>1, <2>3 DEF Dangling
  <2> QED BY <2>4 DEF RowFindings
<1>5. CASE x \in UNION {Cycles(m, table) : table \in Tables}
  <2>1. PICK table \in Tables : x \in Cycles(m, table)
    BY <1>5
  <2>2. x[1] = "cycle" /\ x[2] = table
    BY <2>1, CyclesOfTable
  <2>3. table \notin scope.tables
    BY <2>2 DEF Finds
  <2> DEFINE mine == {p \in RowFiles(m) : p[1] = table}
  <2>4. mine = {p \in RowFiles(other) : p[1] = table}
    BY <2>3, SameHolders
  <2>5. \A p \in mine : m[p] = other[p]
    BY <2>3 DEF Covers, RowFiles
  <2>6. KeysOf(m, table) = KeysOf(other, table) /\ ParentsOf(m, table) = ParentsOf(other, table)
    <3>1. {m[p].key : p \in mine} = {other[p].key : p \in mine}
      BY <2>5
    <3>2. {<<m[p].key, m[p].parent>> : p \in mine} = {<<other[p].key, other[p].parent>> : p \in mine}
      BY <2>5
    <3> HIDE DEF mine
    <3>3. KeysOf(other, table) = {other[p].key : p \in mine} /\ ParentsOf(other, table) = {<<other[p].key, other[p].parent>> : p \in mine}
      BY <2>4 DEF KeysOf, ParentsOf
    <3>4. KeysOf(m, table) = {m[p].key : p \in mine} /\ ParentsOf(m, table) = {<<m[p].key, m[p].parent>> : p \in mine}
      BY DEF KeysOf, ParentsOf, mine
    <3> QED BY <3>1, <3>2, <3>3, <3>4
  <2>7. x \in Cycles(other, table)
    BY <2>1, <2>6 DEF Cycles
  <2> QED BY <2>1, <2>7 DEF RowFindings
<1> QED BY <1>1, <1>2, <1>3, <1>4, <1>5 DEF RowFindings

\* A finding about a file itself is none about rows.
LEMMA FaultsApart ==
  ASSUME NEW f, NEW m
  PROVE  Structural(f) \cap RowFindings(m) = {}
<1>1. \A x \in Structural(f) : x[1] \in {"collision", "large"}
  BY DEF Structural
<1>2. \A table : \A x \in Cycles(m, table) : x[1] = "cycle"
  BY CyclesOfTable
<1>3. \A x \in RowFindings(m) : x[1] \in {"row", "unique", "domain", "dangling", "cycle"}
  <2>1. ASSUME NEW x \in Duplicates(m) PROVE x[1] = "unique"
    <3>1. PICK p \in RowFiles(m) : x = <<"unique", m[p].key, FirstHolder(m, {p[1]}, p), p>>
      BY DEF Duplicates
    <3> QED BY <3>1
  <2>2. \A x \in Overlaps(m) : x[1] = "domain"
    BY DEF Overlaps
  <2>3. \A x \in Dangling(m) : x[1] = "dangling"
    BY DEF Dangling
  <2> QED BY <1>2, <2>1, <2>2, <2>3 DEF RowFindings
<1> QED BY <1>1, <1>3

\* The mirror takes in what an observation of the planned folder would read ...
LEMMA IngestedIsSeen ==
  ASSUME WritesAreRead, Judged, NEW plan \in Folders, \A p \in RowPaths \ Writable : plan[p] = folder[p]
  PROVE  Ingested(plan) = Seen(plan)
<1>1. ASSUME NEW p \in RowPaths
      PROVE  (IF p \in Touched(plan) THEN plan[p] ELSE entries[p])
               = IF p \in Ignored \/ (HoldsRow(plan[p]) /\ plan[p].large) THEN Missing ELSE plan[p]
  <2>1. CASE p \in Touched(plan)
    BY <2>1 DEF Touched, WritesAreRead
  <2>2. CASE p \notin Touched(plan)
    <3>1. plan[p] = folder[p]
      BY <2>2 DEF Touched
    <3> QED BY <2>2, <3>1 DEF Judged, Seen
  <2> QED BY <2>1, <2>2
<1> QED BY <1>1, Zenon DEF Ingested, Seen

\* ... and reports of its files what that would report.
LEMMA FaultsFollow ==
  ASSUME WritesAreRead, WritesApart, Judged, NEW plan \in Folders,
         \A p \in RowPaths \ Writable : plan[p] = folder[p]
  PROVE  FaultsAfter(plan) = Structural(plan)
<1> DEFINE touched == Touched(plan)
           Alike(p, q) == Before(p, q) /\ FoldOf[p] = FoldOf[q]
           Collided(f) == {q \in RowPaths \ Ignored : /\ f[q] # Missing
                             /\ \E p \in RowPaths \ Ignored : f[p] # Missing /\ Alike(p, q)}
           Large(f) == {p \in RowPaths \ Ignored : f[p] # Missing /\ HoldsRow(f[p]) /\ f[p].large}
<1>1. \A f : Structural(f) = {<<"collision", q>> : q \in Collided(f)} \cup {<<"large", p>> : p \in Large(f)}
  BY DEF Structural
<1>2. /\ touched \subseteq Writable /\ Writable \subseteq RowPaths
      /\ \A p \in RowPaths \ touched : plan[p] = folder[p]
  BY VerdictsAssumption DEF Touched
<1>3. ASSUME NEW p \in RowPaths, NEW q \in RowPaths, Alike(p, q)
      PROVE  p \notin Writable /\ q \notin Writable
  <2>1. p[1] = q[1] /\ FoldOf[p] = FoldOf[q] /\ p # q
    BY <1>3, VerdictsAssumption DEF Before
  <2> QED BY <2>1 DEF WritesApart
<1>4. Collided(plan) = Collided(folder)
  BY <1>2, <1>3
<1>5. Large(plan) = Large(folder) /\ Large(folder) \cap Writable = {}
  BY <1>2 DEF WritesAreRead, Judged
<1>6. Collided(folder) \cap Writable = {}
  BY <1>3
<1>7. {p \in touched : /\ entries[p] = Missing /\ plan[p] # Missing
                       /\ \E q \in RowPaths \ touched : /\ q[1] = p[1] /\ FoldOf[q] = FoldOf[p]
                                                        /\ entries[q] # Missing} = {}
  BY <1>2 DEF WritesApart
<1>8. {x \in faults : x[2] \notin touched} = faults
  <2>1. faults = {<<"collision", q>> : q \in Collided(folder)} \cup {<<"large", p>> : p \in Large(folder)}
    BY <1>1 DEF Judged
  <2> HIDE DEF Collided, Large, touched
  <2> QED BY <1>2, <1>5, <1>6, <2>1
<1>9. FaultsAfter(plan) = faults
  BY <1>7, <1>8 DEF FaultsAfter
<1>10. Structural(plan) = Structural(folder)
  <2> HIDE DEF Collided, Large
  <2> QED BY <1>1, <1>4, <1>5
<1> QED BY <1>9, <1>10 DEF Judged

\* The scope of a change covers what it changes.
LEMMA ScopeCovers ==
  ASSUME Judged, NEW plan \in Folders
  PROVE  /\ Covers(Scope(plan), entries, Ingested(plan))
         /\ Covers(Scope(plan), Ingested(plan), entries)
<1>1. \A p \in RowPaths \ Touched(plan) : entries[p] = Ingested(plan)[p]
  BY DEF Ingested
<1>2. \A p \in Touched(plan) : p \in RowPaths /\ Ingested(plan)[p] = plan[p]
  BY VerdictsAssumption DEF Ingested, Touched
<1> QED BY <1>1, <1>2 DEF Covers, Scope, RowFiles

\* A change is judged as the folder it makes.
LEMMA JudgesWhole ==
  ASSUME WritesAreRead, WritesApart, Judged, NEW plan \in Folders,
         \A p \in RowPaths \ Writable : plan[p] = folder[p], JudgeChange(plan)
  PROVE  Judged'
<1> DEFINE scope == Scope(plan)
           before == faults \cup Scoped(entries, scope)
           after == FaultsAfter(plan) \cup Scoped(Ingested(plan), scope)
<1>1. /\ Ingested(plan) = Seen(plan) /\ FaultsAfter(plan) = Structural(plan)
      /\ verdict = faults \cup RowFindings(entries) /\ faults = Structural(folder)
      /\ WholeVerdict(plan) = FaultsAfter(plan) \cup RowFindings(Ingested(plan))
  BY IngestedIsSeen, FaultsFollow DEF Judged, WholeVerdict
<1>2. before \subseteq verdict
  BY <1>1 DEF Scoped
<1>3. \A x \in RowFindings(entries) : ~Finds(scope, x) => x \in RowFindings(Ingested(plan))
  BY NotFound, ScopeCovers
<1>4. \A x \in RowFindings(Ingested(plan)) : ~Finds(scope, x) => x \in RowFindings(entries)
  BY NotFound, ScopeCovers
<1>5. \A x \in RowFindings(Ingested(plan)) : x \notin faults
  BY <1>1, FaultsApart
<1>6. Revalidated(before, after) = WholeVerdict(plan)
  <2> HIDE DEF scope
  <2> QED BY <1>1, <1>3, <1>4, <1>5 DEF Revalidated, Scoped
<1>7. \A p \in prospect' :
        /\ p.folder = plan /\ p.entries = Ingested(plan) /\ p.faults = FaultsAfter(plan)
        /\ p.verdict = WholeVerdict(plan) /\ p.agreed
  <2> DEFINE whole == FaultsAfter(plan) \cup RowFindings(Ingested(plan))
             scoped == Cardinality(scope.paths) <= Limit
             agreed == scoped => before \subseteq verdict
             made == IF scoped /\ before \subseteq verdict THEN Revalidated(before, after) ELSE whole
  <2>1. prospect' = {[folder |-> plan, entries |-> Ingested(plan), faults |-> FaultsAfter(plan),
                      verdict |-> made, agreed |-> agreed]}
    BY DEF JudgeChange
  <2>2. made = WholeVerdict(plan)
    BY <1>1, <1>6
  <2>3. agreed = TRUE
    BY <1>2
  <2> HIDE DEF made, agreed
  <2>4. prospect' = {[folder |-> plan, entries |-> Ingested(plan), faults |-> FaultsAfter(plan),
                      verdict |-> WholeVerdict(plan), agreed |-> TRUE]}
    BY <2>1, <2>2, <2>3, Zenon
  <2> QED BY <2>4
<1>8. UNCHANGED <<folder, entries, faults, verdict>>
  BY DEF JudgeChange
<1> QED BY <1>1, <1>7, <1>8 DEF Judged

\* A change judged by its scope is judged as an observation of the folder it makes
\* would judge it, and the verdict before had all the scope then had, for any number of
\* paths, rows, changes and any limit (catalog.rs, prospect_rows; integrity.rs, judge).
THEOREM ScopeSuffices ==
  ASSUME WritesAreRead, WritesApart
  PROVE  VerdictsSpec => []JudgedAsWhole
<1>1. VerdictsInit => Judged
  BY DEF VerdictsInit, Observed, Judged
<1>2. Judged /\ [VerdictsNext]_verdictsVars => Judged'
  <2> SUFFICES ASSUME Judged, [VerdictsNext]_verdictsVars PROVE Judged'
    OBVIOUS
  <2>1. CASE \E plan \in Folders : (\A p \in RowPaths \ Writable : plan[p] = folder[p]) /\ JudgeChange(plan)
    BY <2>1, JudgesWhole
  <2>2. CASE KeepChange
    BY <2>2 DEF KeepChange, Judged
  <2>3. CASE AbandonChange
    BY <2>3 DEF AbandonChange, Judged
  <2>4. CASE UNCHANGED verdictsVars
    BY <2>4 DEF verdictsVars, Judged
  <2> QED BY <2>1, <2>2, <2>3, <2>4 DEF VerdictsNext
<1>3. Judged => JudgedAsWhole
  BY DEF Judged, JudgedAsWhole
<1> QED BY <1>1, <1>2, <1>3, PTL DEF VerdictsSpec

-----------------------------------------------------------------------------
(* What recorded history holds                                             *)

\* Where a tree has a row.
RowHeld(tree, path) ==
  /\ TableOf[path] \in DOMAIN tree.tables
  /\ BucketOf[path] \in DOMAIN tree.tables[TableOf[path]].leaves
  /\ path \in DOMAIN tree.tables[TableOf[path]].leaves[BucketOf[path]]
RowIn(tree, path) == tree.tables[TableOf[path]].leaves[BucketOf[path]][path]

\* A tree of a state: its tables, their schemas each at its place, its rows by
\* their values.
HomesOf(state) == {HomeOf(t, state) : t \in DOMAIN state.tables}
Fits(tree, state) ==
  /\ DOMAIN tree.tables = DOMAIN state.tables
  /\ \A t \in DOMAIN state.tables : tree.tables[t].schema = state.tables[t].schema
  /\ tree.extras = [home \in HomesOf(state) |-> state.tables[home[2]].schema]
  /\ DOMAIN RowsOf(tree) = DOMAIN state.rows
  /\ \A path \in DOMAIN state.rows : /\ RowsOf(tree)[path].hash = state.rows[path].hash
                                     /\ RowsOf(tree)[path].blob[1] = state.rows[path].hash

\* What the mirror says of a recorded state.
Entries(state) ==
  [key \in DOMAIN state.rows \cup HomesOf(state) |->
     IF key \in DOMAIN state.rows THEN state.rows[key].hash ELSE state.tables[key[2]].schema]

\* Every revision's tree is one of its state and is held; the mirror's copy is of
\* the tree it is said to be of.
MadeTrees == {r.tree : r \in trees}
HoldsAll(tree) == NodesOf(tree) \cup BlobsOf(tree) \subseteq store
Archived ==
  /\ IsFiniteSet(MadeTrees) /\ head \subseteq MadeTrees /\ known \subseteq MadeTrees
  /\ \A r \in trees : r.of \in States /\ Fits(r.tree, r.of) /\ HoldsAll(r.tree)
  /\ \A tree \in known : known = {tree} /\ recorded = EntriesOf(tree)

LEMMA RowsOfTree ==
  ASSUME NEW tree
  PROVE  /\ DOMAIN RowsOf(tree) = {path \in DOMAIN TableOf : RowHeld(tree, path)}
         /\ \A path \in DOMAIN RowsOf(tree) : RowsOf(tree)[path] = RowIn(tree, path)
BY Zenon DEF RowsOf, RowHeld, RowIn

LEMMA HomesApart ==
  ASSUME NEW state \in States
  PROVE  /\ HomesOf(state) \cap DOMAIN TableOf = {} /\ DOMAIN state.rows \subseteq DOMAIN TableOf
         /\ \A t \in DOMAIN state.tables : HomeOf(t, state)[2] = t /\ HomeOf(t, state) \in Homes(t)
<1>1. \A t \in DOMAIN state.tables : /\ HomeOf(t, state) = <<state.tables[t].home, t>>
                                     /\ state.tables[t].home \in {"pin", "inferred"}
  BY TreesAssumption DEF HomeOf
<1>2. HomesOf(state) \cap DOMAIN TableOf = {}
  BY <1>1, TreesAssumption DEF HomesOf
<1> QED BY <1>1, <1>2, TreesAssumption DEF Homes

\* Whichever tree of a state it is, the mirror's copy of it is the same.
LEMMA EntriesFit ==
  ASSUME NEW state \in States, NEW tree, Fits(tree, state)
  PROVE  EntriesOf(tree) = Entries(state)
<1> DEFINE rows == [path \in DOMAIN RowsOf(tree) |-> RowsOf(tree)[path].hash]
           places == {x \in DOMAIN tree.extras : x[2] \in DOMAIN tree.tables}
           homes == [home \in places |-> tree.tables[home[2]].schema]
<1>1. EntriesOf(tree) = [x \in DOMAIN rows \union DOMAIN homes |-> IF x \in DOMAIN homes THEN homes[x] ELSE rows[x]]
  BY Zenon DEF EntriesOf, Updated
<1>2. DOMAIN rows = DOMAIN state.rows /\ \A path \in DOMAIN rows : rows[path] = state.rows[path].hash
  BY DEF Fits
<1>3. \A home \in HomesOf(state) : home[2] \in DOMAIN state.tables
  BY HomesApart DEF HomesOf
<1>4. places = HomesOf(state)
  BY <1>3 DEF Fits
<1>5. DOMAIN homes = HomesOf(state) /\ \A home \in DOMAIN homes : homes[home] = state.tables[home[2]].schema
  BY <1>3, <1>4 DEF Fits
<1>6. HomesOf(state) \cap DOMAIN state.rows = {}
  BY HomesApart
<1> HIDE DEF rows, homes
<1>7. ASSUME NEW x \in DOMAIN state.rows \cup HomesOf(state)
      PROVE  (IF x \in DOMAIN homes THEN homes[x] ELSE rows[x])
               = IF x \in DOMAIN state.rows THEN state.rows[x].hash ELSE state.tables[x[2]].schema
  BY <1>2, <1>5, <1>6
<1> QED BY <1>1, <1>2, <1>5, <1>7, Zenon DEF Entries

\* Such a tree is its state.
LEMMA FitsTells ==
  ASSUME NEW state \in States, NEW tree, Fits(tree, state), Fits(Build(state), state)
  PROVE  /\ Identity(tree) = Identity(Build(state))
         /\ tree.extras = Build(state).extras
         /\ \A path \in DOMAIN RowsOf(tree) : RowsOf(tree)[path].blob[1] = RowsOf(tree)[path].hash
<1>1. \A x : Fits(x, state) =>
        /\ [t \in DOMAIN x.tables |-> x.tables[t].schema] = [t \in DOMAIN state.tables |-> state.tables[t].schema]
        /\ [path \in DOMAIN RowsOf(x) |-> RowsOf(x)[path].hash] = [path \in DOMAIN state.rows |-> state.rows[path].hash]
  BY DEF Fits
<1>2. Identity(tree) = Identity(Build(state))
  BY <1>1, Zenon DEF Identity
<1>3. tree.extras = Build(state).extras
  BY Zenon DEF Fits
<1> QED BY <1>2, <1>3 DEF Fits

\* The tree built of the whole.
LEMMA BuildRows ==
  ASSUME NEW state \in States
  PROVE  /\ Fits(Build(state), state)
         /\ \A path \in DOMAIN state.rows : RowsOf(Build(state))[path] = state.rows[path]
<1> DEFINE tree == Build(state)
<1>1. /\ DOMAIN tree.tables = DOMAIN state.tables
      /\ \A t \in DOMAIN state.tables : /\ tree.tables[t].schema = state.tables[t].schema
                                        /\ tree.tables[t].leaves = Leaves(state.rows, t)
      /\ tree.extras = [home \in HomesOf(state) |-> state.tables[home[2]].schema]
  BY DEF Build, HomesOf
<1>2. \A t, b : /\ b \in DOMAIN Leaves(state.rows, t) <=>
                     \E path \in DOMAIN state.rows : TableOf[path] = t /\ BucketOf[path] = b
                /\ b \in DOMAIN Leaves(state.rows, t) =>
                     /\ DOMAIN Leaves(state.rows, t)[b] =
                          {path \in DOMAIN state.rows : TableOf[path] = t /\ BucketOf[path] = b}
                     /\ \A path \in DOMAIN Leaves(state.rows, t)[b] : Leaves(state.rows, t)[b][path] = state.rows[path]
  BY DEF Leaves, RowsIn
<1>3. \A path \in DOMAIN TableOf : RowHeld(tree, path) <=> path \in DOMAIN state.rows
  <2> HIDE DEF tree
  <2> QED BY <1>1, <1>2, TreesAssumption DEF RowHeld
<1>4. \A path \in DOMAIN state.rows : RowIn(tree, path) = state.rows[path]
  <2> HIDE DEF tree
  <2> QED BY <1>1, <1>2, TreesAssumption DEF RowIn
<1>5. /\ DOMAIN RowsOf(tree) = DOMAIN state.rows
      /\ \A path \in DOMAIN state.rows : RowsOf(tree)[path] = state.rows[path]
  <2>1. DOMAIN state.rows \subseteq DOMAIN TableOf
    BY HomesApart
  <2> HIDE DEF tree
  <2>2. DOMAIN RowsOf(tree) = DOMAIN state.rows
    BY <1>3, <2>1, RowsOfTree
  <2> QED BY <1>4, <2>2, RowsOfTree
<1> HIDE DEF tree
<1>6. Fits(tree, state)
  BY <1>1, <1>5, TreesAssumption DEF Fits
<1> QED BY <1>5, <1>6 DEF tree

\* How a state differs from the one the mirror has recorded.
Written(of, state) ==
  {path \in DOMAIN state.rows : path \in DOMAIN of.rows => state.rows[path].hash # of.rows[path].hash}
Altered(of, state) ==
  {t \in DOMAIN state.tables :
     t \in DOMAIN of.tables => HomeOf(t, of) # HomeOf(t, state) \/ of.tables[t].schema # state.tables[t].schema}

LEMMA DeltaTells ==
  ASSUME NEW of \in States, NEW state \in States, recorded = Entries(of)
  PROVE  /\ RowDelta(state).added \cup RowDelta(state).modified = Written(of, state)
         /\ RowDelta(state).removed = DOMAIN of.rows \ DOMAIN state.rows
         /\ TablesChanged(state) = Altered(of, state)
         /\ TablesDropped(state) = DOMAIN of.tables \ DOMAIN state.tables
<1>1. /\ DOMAIN recorded = DOMAIN of.rows \cup HomesOf(of)
      /\ \A path \in DOMAIN of.rows : path \in DOMAIN TableOf /\ recorded[path] = of.rows[path].hash
      /\ \A home \in HomesOf(of) : home \notin DOMAIN TableOf /\ recorded[home] = of.tables[home[2]].schema
  BY HomesApart DEF Entries
<1>2. {key \in DOMAIN recorded : IsRow(key)} = DOMAIN of.rows
  BY <1>1 DEF IsRow
<1> DEFINE before == {key \in DOMAIN recorded : IsRow(key)}
           now == DOMAIN state.rows
<1>3. /\ RowDelta(state).removed = before \ now /\ RowDelta(state).added = now \ before
      /\ RowDelta(state).modified = {path \in before \intersect now : state.rows[path].hash # recorded[path]}
  BY DEF RowDelta
<1>4. /\ RowDelta(state).added \cup RowDelta(state).modified = Written(of, state)
      /\ RowDelta(state).removed = DOMAIN of.rows \ DOMAIN state.rows
  <2> HIDE DEF before
  <2> QED BY <1>1, <1>2, <1>3 DEF Written, before
<1>5. \A t \in DOMAIN of.tables : HomeOf(t, of) \in HomesOf(of) /\ HomeOf(t, of)[2] = t
  BY HomesApart DEF HomesOf
<1>6. \A t \in DOMAIN state.tables : HomeOf(t, state)[2] = t /\ HomeOf(t, state) \notin DOMAIN TableOf
  BY HomesApart DEF HomesOf
<1>7. \A home \in HomesOf(of) : home[2] \in DOMAIN of.tables /\ home = HomeOf(home[2], of)
  BY <1>5 DEF HomesOf
<1>8. TablesChanged(state) = Altered(of, state)
  <2>1. ASSUME NEW t \in DOMAIN state.tables
        PROVE  (HomeOf(t, state) \notin DOMAIN recorded \/ recorded[HomeOf(t, state)] # state.tables[t].schema)
                 <=> (t \in DOMAIN of.tables => HomeOf(t, of) # HomeOf(t, state) \/ of.tables[t].schema # state.tables[t].schema)
    BY <1>1, <1>5, <1>6, <1>7
  <2> QED BY <2>1 DEF TablesChanged, Altered
<1>9. TablesDropped(state) = DOMAIN of.tables \ DOMAIN state.tables
  <2>1. {x \in DOMAIN recorded : ~IsRow(x)} = HomesOf(of)
    BY <1>1 DEF IsRow
  <2>2. {key[2] : key \in HomesOf(of)} = DOMAIN of.tables
    BY <1>5, <1>7
  <2>3. TablesDropped(state) = {t \in {key[2] : key \in HomesOf(of)} : t \notin DOMAIN state.tables}
    BY <2>1 DEF TablesDropped
  <2> QED BY <2>2, <2>3
<1> QED BY <1>4, <1>8, <1>9

\* A table's leaves after a change: what is removed is gone, what is written there, the
\* rest as it was.
InLeaves(leaves, path) == BucketOf[path] \in DOMAIN leaves /\ path \in DOMAIN leaves[BucketOf[path]]
LeavesWere(tree, t) == IF t \in DOMAIN tree.tables THEN tree.tables[t].leaves ELSE Empty

LEMMA TableChanges ==
  ASSUME NEW tree, NEW state, NEW t, NEW path, TableOf[path] = t,
         path \in RowDelta(state).added \cup RowDelta(state).modified => path \notin RowDelta(state).removed
  PROVE  LET leaves == TableAfter(tree, state, t).leaves
             rows == RowDelta(state)
         IN  /\ InLeaves(leaves, path) <=> \/ path \in rows.added \cup rows.modified
                                           \/ InLeaves(LeavesWere(tree, t), path) /\ path \notin rows.removed
             /\ InLeaves(leaves, path) =>
                  leaves[BucketOf[path]][path] = IF path \in rows.added \cup rows.modified THEN state.rows[path]
                                                 ELSE LeavesWere(tree, t)[BucketOf[path]][path]
<1> DEFINE was == IF t \in DOMAIN tree.tables THEN tree.tables[t] ELSE [schema |-> "none", leaves |-> Empty]
           old == LeavesWere(tree, t)
           rows == RowDelta(state)
           touched == {x \in rows.added \union rows.modified \union rows.removed : TableOf[x] = t}
           dirty == {BucketOf[x] : x \in touched}
           kept(b) == IF b \in DOMAIN old THEN Without(old[b], rows.removed) ELSE Empty
           put(b) == {x \in touched \ rows.removed : BucketOf[x] = b}
           leaf(b) == Updated(kept(b), [x \in put(b) |-> state.rows[x]])
           full == {b \in DOMAIN old \union dirty : b \in dirty => DOMAIN leaf(b) # {}}
           leaves == TableAfter(tree, state, t).leaves
           here == BucketOf[path]
<1>1. was.leaves = old
  BY DEF LeavesWere
<1>2. leaves = [b \in full |-> IF b \in dirty THEN leaf(b) ELSE old[b]]
  BY <1>1 DEF TableAfter
<1>3. \A b : /\ DOMAIN kept(b) = IF b \in DOMAIN old THEN DOMAIN old[b] \ rows.removed ELSE {}
             /\ \A x \in DOMAIN kept(b) : b \in DOMAIN old => kept(b)[x] = old[b][x]
  BY DEF Without, Empty
<1>4. \A b : /\ DOMAIN leaf(b) = DOMAIN kept(b) \cup put(b)
             /\ \A x \in DOMAIN leaf(b) : leaf(b)[x] = IF x \in put(b) THEN state.rows[x] ELSE kept(b)[x]
  <2> HIDE DEF kept, put
  <2> QED BY DEF Updated
<1>5. path \in put(here) <=> path \in rows.added \cup rows.modified
  OBVIOUS
<1>6. path \in rows.added \cup rows.modified \cup rows.removed <=> path \in touched
  OBVIOUS
<1>7. path \in touched => here \in dirty
  OBVIOUS
<1> HIDE DEF kept, leaf, put, touched, dirty, leaves, old
<1>8. CASE here \in dirty
  <2>1. here \in DOMAIN leaves <=> DOMAIN leaf(here) # {}
    BY <1>2, <1>8
  <2>2. here \in DOMAIN leaves => leaves[here] = leaf(here)
    BY <1>2, <1>8
  <2>3. InLeaves(leaves, path) <=> path \in DOMAIN leaf(here)
    BY <2>1, <2>2 DEF InLeaves
  <2> DEFINE written == rows.added \cup rows.modified
  <2>4. path \in DOMAIN leaf(here) <=> path \in put(here) \/ path \in DOMAIN kept(here)
    BY <1>4
  <2>5. path \in DOMAIN kept(here) <=> InLeaves(old, path) /\ path \notin rows.removed
    BY <1>3 DEF InLeaves
  <2>6. path \in put(here) <=> path \in written
    BY <1>5
  <2>7. path \in DOMAIN leaf(here) =>
          leaf(here)[path] = IF path \in written THEN state.rows[path] ELSE old[here][path]
    BY <1>3, <1>4, <2>4, <2>5, <2>6 DEF InLeaves
  <2>8. InLeaves(leaves, path) => leaves[here][path] = leaf(here)[path]
    BY <2>2 DEF InLeaves
  <2> QED BY <2>3, <2>4, <2>5, <2>6, <2>7, <2>8 DEF old, leaves
<1>9. CASE here \notin dirty
  <2>1. here \in DOMAIN leaves <=> here \in DOMAIN old
    BY <1>2, <1>9
  <2>2. here \in DOMAIN leaves => leaves[here] = old[here]
    BY <1>2, <1>9
  <2>3. path \notin rows.added \cup rows.modified \cup rows.removed
    BY <1>6, <1>7, <1>9
  <2> QED BY <2>1, <2>2, <2>3 DEF InLeaves, old, leaves
<1> QED BY <1>8, <1>9

\* The tree an update makes is the state's, and what it has of a row that was not
\* written it had before.
LEMMA UpdateFits ==
  ASSUME NEW of \in States, NEW state \in States, NEW was, Fits(was, of), recorded = Entries(of)
  PROVE  /\ Fits(Update(was, state), state)
         /\ \A path \in Written(of, state) : RowsOf(Update(was, state))[path] = state.rows[path]
         /\ \A path \in DOMAIN state.rows \ Written(of, state) :
              path \in DOMAIN RowsOf(was) /\ RowsOf(Update(was, state))[path] = RowsOf(was)[path]
<1> DEFINE tree == Update(was, state)
           written == Written(of, state)
           changed == Altered(of, state)
           dropped == DOMAIN of.tables \ DOMAIN state.tables
<1>1. /\ RowDelta(state).added \cup RowDelta(state).modified = written
      /\ RowDelta(state).removed = DOMAIN of.rows \ DOMAIN state.rows
      /\ TablesChanged(state) = changed /\ TablesDropped(state) = dropped
  BY DeltaTells
<1>2. /\ DOMAIN was.tables = DOMAIN of.tables
      /\ \A t \in DOMAIN of.tables : was.tables[t].schema = of.tables[t].schema
      /\ was.extras = [home \in HomesOf(of) |-> of.tables[home[2]].schema]
      /\ DOMAIN RowsOf(was) = DOMAIN of.rows
      /\ \A path \in DOMAIN of.rows : /\ RowsOf(was)[path].hash = of.rows[path].hash
                                      /\ RowsOf(was)[path].blob[1] = of.rows[path].hash
  BY DEF Fits
<1>3. /\ DOMAIN tree.tables = DOMAIN state.tables
      /\ \A t \in DOMAIN state.tables : tree.tables[t] = TableAfter(was, state, t)
      /\ tree.extras = ExtrasAfter(was, state)
  <2>1. (DOMAIN was.tables \ TablesDropped(state)) \union TablesChanged(state) = DOMAIN state.tables
    BY <1>1, <1>2 DEF Altered
  <2> QED BY <2>1 DEF Update
<1>4. \A t \in DOMAIN state.tables : tree.tables[t].schema = state.tables[t].schema
  <2>1. ASSUME NEW t \in DOMAIN state.tables PROVE TableAfter(was, state, t).schema = state.tables[t].schema
    <3>1. CASE t \in changed
      BY <1>1, <3>1 DEF TableAfter
    <3>2. CASE t \notin changed
      <4>1. t \in DOMAIN of.tables /\ of.tables[t].schema = state.tables[t].schema
        BY <3>2 DEF Altered
      <4> QED BY <1>1, <1>2, <3>2, <4>1 DEF TableAfter
    <3> QED BY <3>1, <3>2
  <2> QED BY <1>3, <2>1
<1>5. tree.extras = [home \in HomesOf(state) |-> state.tables[home[2]].schema]
  <2> DEFINE gone == UNION {Homes(t) : t \in changed \cup dropped}
             new == {HomeOf(t, state) : t \in changed}
             base == Without(was.extras, gone)
             put == [home \in new |-> state.tables[home[2]].schema]
  <2>1. tree.extras = [home \in DOMAIN base \cup DOMAIN put |-> IF home \in DOMAIN put THEN put[home] ELSE base[home]]
    BY <1>1, <1>3 DEF ExtrasAfter, Updated
  <2>2. /\ \A t \in DOMAIN of.tables : HomeOf(t, of)[2] = t /\ HomeOf(t, of) \in Homes(t)
        /\ \A t \in DOMAIN state.tables : HomeOf(t, state)[2] = t /\ HomeOf(t, state) \in Homes(t)
        /\ \A t : \A home \in Homes(t) : home[2] = t
    BY HomesApart DEF Homes
  <2>3. /\ DOMAIN base = {home \in HomesOf(of) : home[2] \notin changed \cup dropped}
        /\ \A home \in DOMAIN base : base[home] = of.tables[home[2]].schema
    <3>1. \A home \in HomesOf(of) : home \in gone <=> home[2] \in changed \cup dropped
      BY <2>2 DEF HomesOf
    <3> QED BY <1>2, <3>1 DEF Without
  <2>4. \A home : home \in DOMAIN base <=> home \in HomesOf(state) /\ home[2] \notin changed
    <3>1. \A t \in DOMAIN state.tables : t \notin changed => t \in DOMAIN of.tables /\ HomeOf(t, of) = HomeOf(t, state)
      BY DEF Altered
    <3> QED BY <2>2, <2>3, <3>1 DEF HomesOf
  <2>5. \A home : home \in new <=> home \in HomesOf(state) /\ home[2] \in changed
    BY <2>2 DEF HomesOf, Altered
  <2>6. \A home \in DOMAIN base : base[home] = state.tables[home[2]].schema
    <3>1. \A t \in DOMAIN state.tables : t \notin changed => of.tables[t].schema = state.tables[t].schema
      BY DEF Altered
    <3>2. \A home \in HomesOf(state) : home[2] \in DOMAIN state.tables
      BY <2>2 DEF HomesOf
    <3> QED BY <2>3, <2>4, <3>1, <3>2
  <2>7. DOMAIN put = new /\ \A home \in new : put[home] = state.tables[home[2]].schema
    OBVIOUS
  <2> HIDE DEF base, put, new
  <2>8. DOMAIN base \cup DOMAIN put = HomesOf(state)
    BY <2>4, <2>5, <2>7
  <2>9. \A home \in HomesOf(state) : (IF home \in DOMAIN put THEN put[home] ELSE base[home]) = state.tables[home[2]].schema
    BY <2>4, <2>5, <2>6, <2>7
  <2> QED BY <2>1, <2>8, <2>9, Zenon
<1>6. /\ \A path \in DOMAIN TableOf : RowHeld(tree, path) <=> path \in DOMAIN state.rows
      /\ \A path \in DOMAIN state.rows :
           RowIn(tree, path) = IF path \in written THEN state.rows[path] ELSE RowsOf(was)[path]
  <2> SUFFICES ASSUME NEW path \in DOMAIN TableOf
               PROVE  /\ RowHeld(tree, path) <=> path \in DOMAIN state.rows
                      /\ path \in DOMAIN state.rows =>
                           RowIn(tree, path) = IF path \in written THEN state.rows[path] ELSE RowsOf(was)[path]
    BY HomesApart
  <2>1. path \in DOMAIN state.rows => TableOf[path] \in DOMAIN state.tables
    BY TreesAssumption
  <2>2. path \in DOMAIN of.rows <=> RowHeld(was, path)
    BY <1>2, RowsOfTree
  <2>3. path \in DOMAIN of.rows => RowsOf(was)[path] = RowIn(was, path)
    BY <1>2, RowsOfTree
  <2>4. CASE TableOf[path] \notin DOMAIN state.tables
    BY <1>3, <2>1, <2>4 DEF RowHeld
  <2>5. CASE TableOf[path] \in DOMAIN state.tables
    <3> DEFINE leaves == TableAfter(was, state, TableOf[path]).leaves
               old == LeavesWere(was, TableOf[path])
    <3>1. path \in written => path \notin RowDelta(state).removed
      BY <1>1 DEF Written
    <3>2. /\ InLeaves(leaves, path) <=> \/ path \in written
                                        \/ InLeaves(old, path) /\ path \notin DOMAIN of.rows \ DOMAIN state.rows
          /\ InLeaves(leaves, path) =>
               leaves[BucketOf[path]][path] = IF path \in written THEN state.rows[path] ELSE old[BucketOf[path]][path]
      <4> DEFINE t == TableOf[path]
                 rows == RowDelta(state)
      <4>1. TableOf[path] = t /\ (path \in rows.added \cup rows.modified => path \notin rows.removed)
        BY <1>1, <3>1
      <4> HIDE DEF t
      <4>2. LET after == TableAfter(was, state, t).leaves
            IN  /\ InLeaves(after, path) <=> \/ path \in rows.added \cup rows.modified
                                             \/ InLeaves(LeavesWere(was, t), path) /\ path \notin rows.removed
                /\ InLeaves(after, path) =>
                     after[BucketOf[path]][path] = IF path \in rows.added \cup rows.modified THEN state.rows[path]
                                                   ELSE LeavesWere(was, t)[BucketOf[path]][path]
        BY <4>1, TableChanges
      <4> QED BY <1>1, <4>2 DEF t
    <3>3. RowHeld(tree, path) <=> InLeaves(leaves, path)
      BY <1>3, <2>5 DEF RowHeld, InLeaves
    <3>4. RowIn(tree, path) = leaves[BucketOf[path]][path]
      BY <1>3, <2>5 DEF RowIn
    <3>5. RowHeld(was, path) <=> InLeaves(old, path)
      <4>1. DOMAIN Empty = {}
        BY DEF Empty
      <4> QED BY <4>1 DEF RowHeld, InLeaves, LeavesWere
    <3>6. RowHeld(was, path) => RowIn(was, path) = old[BucketOf[path]][path]
      BY DEF RowHeld, RowIn, LeavesWere
    <3>7. path \in written => path \in DOMAIN state.rows
      BY DEF Written
    <3>8. path \in DOMAIN state.rows /\ path \notin written => path \in DOMAIN of.rows
      BY DEF Written
    <3> HIDE DEF leaves, old, written, tree
    <3> QED BY <2>2, <2>3, <3>2, <3>3, <3>4, <3>5, <3>6, <3>7, <3>8
  <2> QED BY <2>4, <2>5
<1>7. /\ DOMAIN RowsOf(tree) = DOMAIN state.rows
      /\ \A path \in DOMAIN state.rows :
           RowsOf(tree)[path] = IF path \in written THEN state.rows[path] ELSE RowsOf(was)[path]
  <2>1. DOMAIN state.rows \subseteq DOMAIN TableOf
    BY HomesApart
  <2> HIDE DEF tree, written
  <2>2. DOMAIN RowsOf(tree) = DOMAIN state.rows
    BY <1>6, <2>1, RowsOfTree
  <2> QED BY <1>6, <2>2, RowsOfTree
<1>8. \A path \in DOMAIN state.rows \ written : path \in DOMAIN of.rows /\ state.rows[path].hash = of.rows[path].hash
  BY DEF Written
<1>9. \A path \in DOMAIN state.rows : /\ RowsOf(tree)[path].hash = state.rows[path].hash
                                      /\ RowsOf(tree)[path].blob[1] = state.rows[path].hash
  <2> SUFFICES ASSUME NEW path \in DOMAIN state.rows
               PROVE  /\ RowsOf(tree)[path].hash = state.rows[path].hash
                      /\ RowsOf(tree)[path].blob[1] = state.rows[path].hash
    OBVIOUS
  <2>1. CASE path \in written
    <3>1. RowsOf(tree)[path] = state.rows[path]
      BY <1>7, <2>1
    <3> HIDE DEF tree
    <3> QED BY <3>1, TreesAssumption
  <2>2. CASE path \notin written
    <3>1. RowsOf(tree)[path] = RowsOf(was)[path]
      BY <1>7, <2>2
    <3> HIDE DEF tree, written
    <3> QED BY <1>2, <1>8, <2>2, <3>1
  <2> QED BY <2>1, <2>2
<1>10. written \subseteq DOMAIN state.rows
  BY DEF Written
<1> HIDE DEF tree, written
<1>11. Fits(tree, state)
  BY <1>3, <1>4, <1>5, <1>7, <1>9 DEF Fits
<1>12. \A path \in written : RowsOf(tree)[path] = state.rows[path]
  BY <1>7, <1>10
<1>13. \A path \in DOMAIN state.rows \ written : path \in DOMAIN RowsOf(was) /\ RowsOf(tree)[path] = RowsOf(was)[path]
  BY <1>2, <1>7, <1>8
<1> QED BY <1>11, <1>12, <1>13 DEF tree, written

\* A node not new is one the tree before had at the same place.
LEMMA NodesOldOrNew ==
  ASSUME NEW was, NEW tree
  PROVE  NodesOf(tree) \subseteq NodesOf(was) \cup NewNodes(was, tree)
<1> DEFINE Nodes(t) == {<<"table", tree.tables[t]>>} \cup LeavesOf(tree.tables[t])
           New(t) == IF t \notin DOMAIN was.tables
                     THEN {<<"table", tree.tables[t]>>} \union LeavesOf(tree.tables[t])
                     ELSE IF tree.tables[t] = was.tables[t] THEN {}
                     ELSE {<<"table", tree.tables[t]>>} \union NewLeaves(was.tables[t], tree.tables[t])
<1>1. ASSUME NEW t \in DOMAIN tree.tables, NEW node \in Nodes(t)
      PROVE  node \in New(t) \/ (t \in DOMAIN was.tables /\ node \in {<<"table", was.tables[t]>>} \cup LeavesOf(was.tables[t]))
  <2>1. CASE t \notin DOMAIN was.tables \/ tree.tables[t] = was.tables[t]
    BY <2>1
  <2>2. CASE t \in DOMAIN was.tables /\ tree.tables[t] # was.tables[t]
    <3>1. \A now : \A x \in LeavesOf(now) : x \in NewLeaves(was.tables[t], now) \/ x \in LeavesOf(was.tables[t])
      <4> SUFFICES ASSUME NEW now, NEW b \in DOMAIN now.leaves
                   PROVE  \/ <<"leaf", now.leaves[b]>> \in NewLeaves(was.tables[t], now)
                          \/ <<"leaf", now.leaves[b]>> \in LeavesOf(was.tables[t])
        BY DEF LeavesOf
      <4>1. CASE b \in DOMAIN was.tables[t].leaves /\ now.leaves[b] = was.tables[t].leaves[b]
        BY <4>1 DEF LeavesOf
      <4>2. CASE ~(b \in DOMAIN was.tables[t].leaves /\ now.leaves[b] = was.tables[t].leaves[b])
        BY <4>2 DEF NewLeaves
      <4> QED BY <4>1, <4>2
    <3> QED BY <2>2, <3>1
  <2> QED BY <2>1, <2>2
<1>2. ASSUME NEW node \in {<<"root", tree>>, <<"extras", tree.extras>>}
      PROVE  node \in NodesOf(was) \cup NewNodes(was, tree)
  BY DEF NodesOf, NewNodes
<1>3. NodesOf(tree) = {<<"root", tree>>, <<"extras", tree.extras>>} \cup UNION {Nodes(t) : t \in DOMAIN tree.tables}
  BY DEF NodesOf
<1>4. UNION {New(t) : t \in DOMAIN tree.tables} \subseteq NewNodes(was, tree)
  BY DEF NewNodes
<1>5. \A t \in DOMAIN was.tables : {<<"table", was.tables[t]>>} \cup LeavesOf(was.tables[t]) \subseteq NodesOf(was)
  BY DEF NodesOf
<1> HIDE DEF Nodes, New
<1> QED BY <1>1, <1>2, <1>3, <1>4, <1>5

\* A recording stores what of the new tree is not held yet.
LEMMA AllStored ==
  ASSUME NEW of \in States, NEW state \in States, NEW was, Fits(was, of), recorded = Entries(of), HoldsAll(was)
  PROVE  LET tree == Update(was, state)
         IN  NodesOf(tree) \cup BlobsOf(tree) \subseteq
               store \cup NewNodes(was, tree)
                 \cup (RowBlobs(state, RowDelta(state).added \cup RowDelta(state).modified)
                         \cup SchemaBlobs(state, TablesChanged(state)))
<1> DEFINE tree == Update(was, state)
           blobs == RowBlobs(state, RowDelta(state).added \cup RowDelta(state).modified)
                      \cup SchemaBlobs(state, TablesChanged(state))
<1>1. /\ RowDelta(state).added \cup RowDelta(state).modified = Written(of, state)
      /\ TablesChanged(state) = Altered(of, state)
  BY DeltaTells
<1>2. /\ Fits(tree, state)
      /\ \A path \in Written(of, state) : RowsOf(tree)[path] = state.rows[path]
      /\ \A path \in DOMAIN state.rows \ Written(of, state) :
           path \in DOMAIN RowsOf(was) /\ RowsOf(tree)[path] = RowsOf(was)[path]
  BY UpdateFits
<1>3. NodesOf(tree) \subseteq store \cup NewNodes(was, tree)
  BY NodesOldOrNew DEF HoldsAll
<1> HIDE DEF tree
<1>4. ASSUME NEW path \in DOMAIN RowsOf(tree) PROVE <<"blob", RowsOf(tree)[path].blob>> \in store \cup blobs
  <2>1. path \in DOMAIN state.rows
    BY <1>2 DEF Fits
  <2>2. CASE path \in Written(of, state)
    BY <1>1, <1>2, <2>2 DEF RowBlobs
  <2>3. CASE path \notin Written(of, state)
    <3>1. <<"blob", RowsOf(was)[path].blob>> \in BlobsOf(was)
      BY <1>2, <2>1, <2>3 DEF BlobsOf
    <3> QED BY <1>2, <2>1, <2>3, <3>1 DEF HoldsAll
  <2> QED BY <2>2, <2>3
<1>5. ASSUME NEW home \in DOMAIN tree.extras PROVE <<"blob", tree.extras[home]>> \in store \cup blobs
  <2>1. PICK t \in DOMAIN state.tables : home = HomeOf(t, state) /\ home[2] = t
    BY <1>2, HomesApart DEF Fits, HomesOf
  <2>2. tree.extras[home] = state.tables[t].schema
    BY <1>2, <2>1 DEF Fits
  <2>3. CASE t \in Altered(of, state)
    BY <1>1, <2>2, <2>3 DEF SchemaBlobs
  <2>4. CASE t \notin Altered(of, state)
    <3>1. t \in DOMAIN of.tables /\ HomeOf(t, of) = home /\ of.tables[t].schema = state.tables[t].schema
      BY <2>1, <2>4 DEF Altered
    <3>2. home \in DOMAIN was.extras /\ was.extras[home] = of.tables[t].schema
      BY <2>1, <3>1 DEF Fits, HomesOf
    <3> QED BY <2>2, <3>1, <3>2 DEF HoldsAll, BlobsOf
  <2> QED BY <2>3, <2>4
<1>6. BlobsOf(tree) \subseteq store \cup blobs
  BY <1>4, <1>5 DEF BlobsOf
<1> QED BY <1>3, <1>6 DEF tree

\* What the mirror follows a recording with is what the new tree says.
LEMMA FollowedTells ==
  ASSUME NEW of \in States, NEW state \in States, recorded = Entries(of)
  PROVE  Followed(state) = Entries(state)
<1> DEFINE delta == RowDelta(state)
           written == delta.added \union delta.modified
           changed == TablesChanged(state)
           dropped == TablesDropped(state)
           places == UNION {Homes(t) : t \in changed \union dropped}
           gone == places \union delta.removed
           new == {HomeOf(t, state) : t \in changed}
           base == Without(recorded, gone)
           rows == [path \in written |-> state.rows[path].hash]
           homes == [home \in new |-> state.tables[home[2]].schema]
           both == Updated(rows, homes)
<1>1. Followed(state) = Updated(base, both)
  BY DEF Followed
<1>0. /\ written = Written(of, state) /\ delta.removed = DOMAIN of.rows \ DOMAIN state.rows
      /\ changed = Altered(of, state) /\ dropped = DOMAIN of.tables \ DOMAIN state.tables
  BY DeltaTells
<1> HIDE DEF delta, written, changed, dropped
<1>2. /\ \A t \in DOMAIN of.tables : HomeOf(t, of)[2] = t /\ HomeOf(t, of) \in Homes(t)
      /\ \A t \in DOMAIN state.tables : HomeOf(t, state)[2] = t /\ HomeOf(t, state) \in Homes(t)
      /\ \A t : \A home \in Homes(t) : home[2] = t /\ home \notin DOMAIN TableOf
  BY HomesApart, TreesAssumption DEF Homes
<1>3. /\ DOMAIN of.rows \cup DOMAIN state.rows \subseteq DOMAIN TableOf
      /\ HomesOf(state) \cap DOMAIN TableOf = {} /\ HomesOf(of) \cap DOMAIN TableOf = {}
  BY HomesApart
<1>4. /\ \A t \in DOMAIN state.tables : t \notin changed =>
           t \in DOMAIN of.tables /\ HomeOf(t, of) = HomeOf(t, state) /\ of.tables[t].schema = state.tables[t].schema
      /\ changed \subseteq DOMAIN state.tables
      /\ \A path \in DOMAIN state.rows : path \notin written =>
           path \in DOMAIN of.rows /\ of.rows[path].hash = state.rows[path].hash
      /\ written \subseteq DOMAIN state.rows
  BY <1>0 DEF Written, Altered
<1>5. /\ DOMAIN base = (DOMAIN of.rows \cup HomesOf(of)) \ gone
      /\ \A key \in DOMAIN base : base[key] = IF key \in DOMAIN of.rows THEN of.rows[key].hash
                                              ELSE of.tables[key[2]].schema
  BY DEF Entries, Without
<1>6. /\ DOMAIN both = written \cup new
      /\ \A key \in written : key \notin new => both[key] = state.rows[key].hash
      /\ \A key \in new : both[key] = state.tables[key[2]].schema
  BY DEF Updated
<1>7. /\ \A key \in DOMAIN TableOf : key \in gone <=> key \in DOMAIN of.rows \ DOMAIN state.rows
      /\ \A key \in HomesOf(of) : key \in gone <=> key[2] \in changed \cup dropped
  <2>1. \A key : key \in places => key[2] \in changed \cup dropped /\ key \notin DOMAIN TableOf
    BY <1>2
  <2>2. \A key \in HomesOf(of) : key \in Homes(key[2])
    BY <1>2 DEF HomesOf
  <2>3. \A key \in HomesOf(of) : key[2] \in changed \cup dropped => key \in places
    BY <2>2
  <2>4. \A key : key \in gone <=> key \in places \/ key \in DOMAIN of.rows \ DOMAIN state.rows
    BY <1>0
  <2> HIDE DEF places, gone
  <2> QED BY <1>3, <2>1, <2>3, <2>4
<1>8. /\ \A key \in HomesOf(of) : key \notin gone => key \in HomesOf(state) /\ key[2] \notin changed
      /\ \A key \in HomesOf(state) : key \notin new => /\ key \in HomesOf(of) /\ key \notin gone
                                                       /\ of.tables[key[2]].schema = state.tables[key[2]].schema
      /\ new \subseteq HomesOf(state)
  <2>1. \A key \in HomesOf(state) : key[2] \in DOMAIN state.tables /\ key = HomeOf(key[2], state)
    BY <1>2 DEF HomesOf
  <2>2. \A key \in HomesOf(of) : key[2] \in DOMAIN of.tables /\ key = HomeOf(key[2], of)
    BY <1>2 DEF HomesOf
  <2>3. \A key \in HomesOf(of) : key \notin gone => key \in HomesOf(state) /\ key[2] \notin changed
    BY <1>0, <1>4, <1>7, <2>2 DEF HomesOf
  <2>4. ASSUME NEW key \in HomesOf(state), key \notin new
        PROVE  /\ key \in HomesOf(of) /\ key \notin gone
               /\ of.tables[key[2]].schema = state.tables[key[2]].schema
    <3>1. key[2] \notin changed
      BY <2>1, <2>4
    <3>2. key \in HomesOf(of)
      BY <1>4, <2>1, <3>1 DEF HomesOf
    <3> QED BY <1>0, <1>4, <1>7, <2>1, <3>1, <3>2
  <2> QED BY <1>4, <2>3, <2>4 DEF HomesOf
<1>9. Updated(base, both) = [key \in DOMAIN base \cup DOMAIN both |-> IF key \in DOMAIN both THEN both[key] ELSE base[key]]
  BY Zenon DEF Updated
<1> HIDE DEF base, both, rows, homes, gone, new, written, changed, dropped
<1>10. DOMAIN base \cup DOMAIN both = DOMAIN state.rows \cup HomesOf(state)
  BY <1>3, <1>4, <1>5, <1>6, <1>7, <1>8
<1>11. ASSUME NEW key \in DOMAIN state.rows \cup HomesOf(state)
       PROVE  (IF key \in DOMAIN both THEN both[key] ELSE base[key])
                = IF key \in DOMAIN state.rows THEN state.rows[key].hash ELSE state.tables[key[2]].schema
  <2>1. CASE key \in DOMAIN state.rows
    BY <1>3, <1>4, <1>5, <1>6, <1>7, <1>8, <2>1
  <2>2. CASE key \in HomesOf(state)
    BY <1>3, <1>4, <1>5, <1>6, <1>8, <2>2
  <2> QED BY <2>1, <2>2
<1> QED BY <1>1, <1>9, <1>10, <1>11, Zenon DEF Entries

\* The difference of two trees brings a copy of the one to the other.
LEMMA BroughtTells ==
  ASSUME NEW of \in States, NEW state \in States, NEW was, NEW tree, Fits(was, of), Fits(tree, state),
         recorded = EntriesOf(was)
  PROVE  Brought(was, tree) = EntriesOf(tree)
<1> DEFINE wanted == EntriesOf(tree)
           held(x, path) == IF path \in DOMAIN RowsOf(x) THEN <<RowsOf(x)[path]>> ELSE <<>>
           differ == {path \in DOMAIN TableOf : held(was, path) # held(tree, path)}
           others == {key \in DOMAIN recorded \union DOMAIN wanted : ~IsRow(key)}
           base == Without(recorded, differ \union others)
           put == [key \in (differ \union others) \intersect DOMAIN wanted |-> wanted[key]]
<1>1. Brought(was, tree) = Updated(base, put)
  BY DEF Brought
<1>2. wanted = Entries(state) /\ recorded = Entries(of)
  BY EntriesFit
<1>3. /\ DOMAIN wanted = DOMAIN state.rows \cup HomesOf(state) /\ DOMAIN recorded = DOMAIN of.rows \cup HomesOf(of)
      /\ \A path \in DOMAIN state.rows : wanted[path] = state.rows[path].hash
      /\ \A path \in DOMAIN of.rows : recorded[path] = of.rows[path].hash
      /\ wanted = [key \in DOMAIN wanted |-> wanted[key]]
  <2> HIDE DEF wanted
  <2> QED BY <1>2 DEF Entries
<1>4. /\ DOMAIN of.rows \cup DOMAIN state.rows \subseteq DOMAIN TableOf
      /\ HomesOf(state) \cap DOMAIN TableOf = {} /\ HomesOf(of) \cap DOMAIN TableOf = {}
  BY HomesApart
<1>5. ASSUME NEW path \in DOMAIN TableOf, path \notin differ
      PROVE  /\ path \in DOMAIN of.rows <=> path \in DOMAIN state.rows
             /\ path \in DOMAIN of.rows => of.rows[path].hash = state.rows[path].hash
  <2>1. held(was, path) = held(tree, path)
    BY <1>5
  <2>2. DOMAIN RowsOf(was) = DOMAIN of.rows /\ DOMAIN RowsOf(tree) = DOMAIN state.rows
    BY DEF Fits
  <2>3. path \in DOMAIN of.rows => RowsOf(was)[path].hash = of.rows[path].hash
    BY DEF Fits
  <2>4. path \in DOMAIN state.rows => RowsOf(tree)[path].hash = state.rows[path].hash
    BY DEF Fits
  <2>5. \A x : <<x>> # <<>>
    OBVIOUS
  <2>6. \A x, y : <<x>> = <<y>> => x = y
    OBVIOUS
  <2>7. path \in DOMAIN of.rows <=> path \in DOMAIN state.rows
    BY <2>1, <2>2, <2>5
  <2>8. path \in DOMAIN of.rows => RowsOf(was)[path] = RowsOf(tree)[path]
    BY <2>1, <2>2, <2>6, <2>7
  <2> QED BY <2>3, <2>4, <2>7, <2>8
<1>6. differ \subseteq DOMAIN TableOf
  OBVIOUS
<1> HIDE DEF wanted, differ
<1>7. \A key : key \in others <=> key \in HomesOf(of) \cup HomesOf(state)
  BY <1>3, <1>4 DEF IsRow
<1>8. /\ DOMAIN base = (DOMAIN of.rows \cup HomesOf(of)) \ (differ \cup others)
      /\ \A key \in DOMAIN base : base[key] = recorded[key]
  <2> HIDE DEF others
  <2> QED BY <1>3 DEF Without
<1>9. /\ DOMAIN put = (differ \cup others) \cap DOMAIN wanted
      /\ \A key \in DOMAIN put : put[key] = wanted[key]
  <2> HIDE DEF others
  <2> QED OBVIOUS
<1>10. Updated(base, put) = [key \in DOMAIN base \cup DOMAIN put |-> IF key \in DOMAIN put THEN put[key] ELSE base[key]]
  BY Zenon DEF Updated
<1> HIDE DEF others, base, put
<1>11. DOMAIN base \cup DOMAIN put = DOMAIN wanted
  BY <1>3, <1>4, <1>5, <1>6, <1>7, <1>8, <1>9
<1>12. ASSUME NEW key \in DOMAIN wanted
       PROVE  (IF key \in DOMAIN put THEN put[key] ELSE base[key]) = wanted[key]
  BY <1>3, <1>4, <1>5, <1>6, <1>7, <1>8, <1>9, <1>11
<1>13. Updated(base, put) = [key \in DOMAIN wanted |-> wanted[key]]
  BY <1>10, <1>11, <1>12, Zenon
<1> QED BY <1>1, <1>3, <1>13 DEF wanted

\* One head is one tree.
LEMMA OneHead ==
  ASSUME Archived
  PROVE  /\ IsFiniteSet(head)
         /\ Cardinality(head) = 1 => \E tree \in MadeTrees : head = {tree}
         /\ Cardinality(head) <= 1 => head = {} \/ \E tree \in MadeTrees : head = {tree}
<1>1. IsFiniteSet(head)
  BY FS_Subset DEF Archived
<1>2. Cardinality(head) \in Nat /\ (Cardinality(head) = 0 <=> head = {}) /\ (Cardinality(head) = 1 <=> \E x : head = {x})
  BY <1>1, FS_CardinalityType, FS_EmptySet, FS_Singleton
<1> QED BY <1>1, <1>2 DEF Archived

\* A revision more, of its state and held.
LEMMA PublishAdds ==
  ASSUME Archived, NEW state \in States, NEW tree, NEW nodes, NEW blobs, Publish(tree, state, nodes, blobs),
         Fits(tree, state), NodesOf(tree) \cup BlobsOf(tree) \subseteq store \cup nodes \cup blobs
  PROVE  /\ IsFiniteSet(MadeTrees') /\ MadeTrees' = MadeTrees \cup {tree} /\ head' = {tree}
         /\ \A r \in trees' : r.of \in States /\ Fits(r.tree, r.of) /\ HoldsAll(r.tree)'
<1>1. /\ trees' = trees \cup {[tree |-> tree, of |-> state]} /\ head' = {tree}
      /\ store' = store \cup nodes \cup blobs
  BY DEF Publish
<1>2. MadeTrees' = MadeTrees \cup {tree}
  <2> DEFINE revision == [tree |-> tree, of |-> state]
  <2>1. revision.tree = tree
    OBVIOUS
  <2> HIDE DEF revision
  <2>2. {r.tree : r \in trees \cup {revision}} = {r.tree : r \in trees} \cup {tree}
    BY <2>1
  <2> QED BY <1>1, <2>2, Zenon DEF MadeTrees, revision
<1>3. IsFiniteSet(MadeTrees')
  BY <1>2, FS_AddElement DEF Archived
<1>4. \A x : HoldsAll(x) => HoldsAll(x)'
  BY <1>1 DEF HoldsAll
<1>5. HoldsAll(tree)'
  BY <1>1 DEF HoldsAll
<1> QED BY <1>1, <1>2, <1>3, <1>4, <1>5 DEF Archived

LEMMA RecordArchives ==
  ASSUME Archived, NEW state \in States, RecordChange(state)
  PROVE  Archived'
<1>1. PICK was \in head : LET rows == RowDelta(state)
                              tree == Update(was, state)
                          IN /\ ~Refused(was, state)
                             /\ Publish(tree, state, NewNodes(was, tree),
                                  RowBlobs(state, rows.added \union rows.modified)
                                    \union SchemaBlobs(state, TablesChanged(state)))
                             /\ recorded' = Followed(state) /\ known' = {tree}
  BY DEF RecordChange
<1> DEFINE tree == Update(was, state)
           nodes == NewNodes(was, tree)
           blobs == RowBlobs(state, RowDelta(state).added \union RowDelta(state).modified)
                      \union SchemaBlobs(state, TablesChanged(state))
<1>2. Publish(tree, state, nodes, blobs) /\ recorded' = Followed(state) /\ known' = {tree}
  BY <1>1
<1>3. PICK of \in States : Fits(was, of) /\ HoldsAll(was)
  BY DEF Archived, MadeTrees
<1>4. recorded = Entries(of)
  <2>1. was \in known
    BY DEF RecordChange, Settled
  <2> QED BY <1>3, <2>1, EntriesFit DEF Archived
<1>5. Fits(tree, state)
  BY <1>3, <1>4, UpdateFits
<1>6. NodesOf(tree) \cup BlobsOf(tree) \subseteq store \cup nodes \cup blobs
  BY <1>3, <1>4, AllStored
<1>7. recorded' = Entries(state)
  BY <1>2, <1>4, FollowedTells
<1> HIDE DEF tree, nodes, blobs
<1>8. /\ IsFiniteSet(MadeTrees') /\ MadeTrees' = MadeTrees \cup {tree} /\ head' = {tree}
      /\ \A r \in trees' : r.of \in States /\ Fits(r.tree, r.of) /\ HoldsAll(r.tree)'
  BY <1>2, <1>5, <1>6, PublishAdds
<1>9. recorded' = EntriesOf(tree)
  BY <1>5, <1>7, EntriesFit
<1> QED BY <1>2, <1>8, <1>9 DEF Archived

LEMMA SyncArchives ==
  ASSUME Archived, Sync
  PROVE  Archived'
<1>1. /\ Cardinality(head) <= 1 /\ known # head /\ known' = head
      /\ UNCHANGED <<trees, head, store>>
  BY DEF Sync
<1>2. CASE head = {}
  BY <1>1, <1>2 DEF Archived, MadeTrees, HoldsAll
<1>3. ASSUME NEW tree \in MadeTrees, head = {tree} PROVE Archived'
  <2>1. (CHOOSE x \in head : TRUE) = tree
    BY <1>3
  <2>2. recorded' = IF known = {} THEN EntriesOf(tree) ELSE Brought(CHOOSE x \in known : TRUE, tree)
    BY <1>3, <2>1 DEF Sync
  <2>3. recorded' = EntriesOf(tree)
    <3>1. CASE known = {}
      BY <2>2, <3>1
    <3>2. ASSUME NEW was \in known PROVE recorded' = EntriesOf(tree)
      <4>1. known = {was} /\ recorded = EntriesOf(was)
        BY DEF Archived
      <4>2. (CHOOSE x \in known : TRUE) = was
        BY <4>1
      <4>3. PICK of \in States : Fits(was, of)
        BY DEF Archived, MadeTrees
      <4>4. PICK state \in States : Fits(tree, state)
        BY DEF Archived, MadeTrees
      <4>5. Brought(was, tree) = EntriesOf(tree)
        BY <4>1, <4>3, <4>4, BroughtTells
      <4> QED BY <2>2, <4>1, <4>2, <4>5
    <3> QED BY <3>1, <3>2
  <2> QED BY <1>1, <1>3, <2>3 DEF Archived, MadeTrees, HoldsAll
<1> QED BY <1>1, <1>2, <1>3, OneHead

LEMMA TreesArchive ==
  ASSUME Archived, [TreesNext]_treesVars
  PROVE  Archived'
<1>1. ASSUME NEW state \in States, RecordWhole(state) PROVE Archived'
  <2> DEFINE tree == Build(state)
  <2>1. Publish(tree, state, NodesOf(tree), BlobsOf(tree)) /\ UNCHANGED <<recorded, known>>
    BY <1>1 DEF RecordWhole
  <2>2. Fits(tree, state)
    BY BuildRows
  <2> HIDE DEF tree
  <2>3. /\ IsFiniteSet(MadeTrees') /\ MadeTrees' = MadeTrees \cup {tree} /\ head' = {tree}
        /\ \A r \in trees' : r.of \in States /\ Fits(r.tree, r.of) /\ HoldsAll(r.tree)'
    BY <2>1, <2>2, PublishAdds
  <2> QED BY <2>1, <2>3 DEF Archived
<1>2. CASE Move
  BY <1>2 DEF Move, Archived, MadeTrees, HoldsAll
<1>3. CASE Lose
  BY <1>3 DEF Lose, Archived, MadeTrees, HoldsAll
<1>4. CASE UNCHANGED treesVars
  BY <1>4 DEF treesVars, Archived, MadeTrees, HoldsAll
<1> QED BY <1>1, <1>2, <1>3, <1>4, RecordArchives, SyncArchives DEF TreesNext

\* Every revision is a tree of the state it was made of and is held, and the mirror
\* has the head's, for any folders, rows and tables, however often they are recorded,
\* moved between, merged and lost (store/tree.rs; history.rs, prepare, sync_recorded).
THEOREM StatesAreHeld == TreesSpec => []StateHeld
<1>1. TreesInit => Archived
  BY FS_EmptySet DEF TreesInit, TreesIdle, Archived, MadeTrees
<1>2. Archived /\ [TreesNext]_treesVars => Archived'
  BY TreesArchive
<1>3. Archived => StateHeld
  <2> SUFFICES ASSUME Archived PROVE StateHeld
    OBVIOUS
  <2>1. TreeIsState
    BY FitsTells, BuildRows DEF Archived, TreeIsState
  <2>2. AllHeld
    BY DEF Archived, AllHeld, HoldsAll
  <2>3. RecordedIsTree
    BY DEF Archived, RecordedIsTree, Settled
  <2> QED BY <2>1, <2>2, <2>3 DEF StateHeld
<1> QED BY <1>1, <1>2, <1>3, PTL DEF TreesSpec


-----------------------------------------------------------------------------
(* The numbers of revisions                                                *)

\* Revisions are older than those made of them; a numbered one has its
\* ancestors numbered before it, with the numbers from 1 on; and one that an
\* INSERT is to come for has every ancestor numbered or numbered by the same
\* command.
Counted ==
  /\ revs \in Seq([parents : SUBSET Nat, time : Nat])
  /\ \A id \in DOMAIN revs : \A parent \in revs[id].parents :
       parent \in 1..(id - 1) /\ revs[parent].time < revs[id].time
  /\ heads \in [Clones -> SUBSET DOMAIN revs] /\ synced \subseteq DOMAIN revs
  /\ DOMAIN numbers \subseteq DOMAIN revs /\ Numbered
  /\ \E last \in Nat : {numbers[id] : id \in DOMAIN numbers} = 1..last
  /\ numbering \subseteq DOMAIN revs \ DOMAIN numbers
  /\ \A id \in numbering : revs[id].parents \subseteq DOMAIN numbers \cup numbering

LEMMA LeastOf ==
  ASSUME NEW S \in SUBSET Nat, S # {}
  PROVE  \E m \in S : \A q \in S : m <= q
<1>1. PICK n \in S : \A m \in S : <<m, n>> \notin OpToRel(<, Nat)
  BY NatLessThanWellFounded, WFMin
<1>2. ASSUME NEW m \in S, m < n PROVE FALSE
  <2>1. <<m, n>> \in Nat \X Nat /\ <<m, n>>[1] < <<m, n>>[2]
    BY <1>2
  <2> QED BY <1>1, <2>1 DEF OpToRel
<1>3. \A m \in S : n <= m
  BY <1>2
<1> QED BY <1>3

\* What the walk back from the heads says of a revision when it is said of
\* the newer ones.
Meets(met, id) ==
  /\ id \notin DOMAIN numbers
  /\ \/ id \in heads["mine"]
     \/ \E child \in (id + 1)..Len(revs) : id \in revs[child].parents /\ met[child]

\* The walk says it of all.
LEMMA WalkExists ==
  ASSUME Counted
  PROVE  \E met : met = [id \in DOMAIN revs |-> Meets(met, id)]
<1> DEFINE N == Len(revs)
           From(k, met) == /\ DOMAIN met = 1..N
                           /\ \A id \in 1..N : id > N - k => met[id] = Meets(met, id)
           Bad == {k \in 0..N : \A met : ~From(k, met)}
<1>1. N \in Nat /\ DOMAIN revs = 1..N
  BY DEF Counted
<1> HIDE DEF N
<1>2. ASSUME NEW k \in Bad PROVE FALSE
  <2>1. Bad \in SUBSET Nat /\ Bad # {}
    <3>1. \A q \in 0..N : q \in Nat
      BY <1>1
    <3> QED BY <1>2, <3>1, Zenon
  <2> HIDE DEF Bad
  <2>2. PICK m \in Bad : \A q \in Bad : m <= q
    BY <2>1, LeastOf
  <2> USE DEF Bad
  <2>3. m # 0
    <3> DEFINE none == [id \in 1..N |-> FALSE]
    <3>1. DOMAIN none = 1..N /\ \A id \in 1..N : ~(id > N - 0)
      BY <1>1
    <3> HIDE DEF none
    <3>2. From(0, none)
      BY <3>1
    <3> HIDE DEF From
    <3> QED BY <2>2, <3>2
  <2>4. m - 1 \in 0..N /\ m - 1 \notin Bad /\ m \in 1..N
    BY <1>1, <2>2, <2>3
  <2>5. PICK met : From(m - 1, met)
    BY <2>4
  <2> DEFINE next == N - (m - 1)
             more == [id \in 1..N |-> IF id = next THEN Meets(met, id) ELSE met[id]]
  <2>6. next \in 1..N /\ \A id \in 1..N : id > N - m <=> (id = next \/ id > N - (m - 1))
    BY <1>1, <2>4
  <2>7. ASSUME NEW id \in 1..N, id >= next PROVE Meets(more, id) = Meets(met, id)
    <3>1. ASSUME NEW child \in (id + 1)..N PROVE more[child] = met[child]
      BY <1>1, <2>6, <2>7, <3>1
    <3> HIDE DEF more
    <3>2. (\E child \in (id + 1)..N : id \in revs[child].parents /\ more[child])
            <=> (\E child \in (id + 1)..N : id \in revs[child].parents /\ met[child])
      BY <3>1
    <3> QED BY <3>2 DEF Meets, N
  <2>8. ASSUME NEW id \in 1..N, id > N - m PROVE more[id] = Meets(more, id)
    <3>1. id >= next
      BY <1>1, <2>6, <2>8
    <3>2. Meets(more, id) = Meets(met, id)
      BY <2>7, <3>1
    <3>3. CASE id = next
      BY <3>2, <3>3
    <3>4. CASE id # next
      BY <2>5, <2>6, <2>8, <3>2, <3>4
    <3> QED BY <3>3, <3>4
  <2>9. From(m, more)
    BY <2>8
  <2> QED BY <2>2, <2>9
<1>3. PICK met : From(N, met)
  BY <1>1, <1>2
<1>4. \A id \in 1..N : met[id] = Meets(met, id)
  BY <1>1, <1>3
<1> DEFINE all == [id \in 1..N |-> met[id]]
<1>5. ASSUME NEW id \in 1..N PROVE Meets(all, id) = Meets(met, id)
  <2>1. ASSUME NEW child \in (id + 1)..N PROVE all[child] = met[child]
    BY <1>1, <2>1
  <2> HIDE DEF all
  <2>2. (\E child \in (id + 1)..N : id \in revs[child].parents /\ all[child])
          <=> (\E child \in (id + 1)..N : id \in revs[child].parents /\ met[child])
    BY <2>1
  <2> QED BY <2>2 DEF Meets, N
<1>6. all = [id \in 1..N |-> Meets(all, id)]
  BY <1>4, <1>5
<1> HIDE DEF all
<1> QED BY <1>1, <1>6

\* It meets what has no number, and with a revision its parents, unless they
\* have one.
LEMMA WalkMeets ==
  ASSUME Counted
  PROVE  /\ Unnumbered \subseteq DOMAIN revs \ DOMAIN numbers
         /\ \A id \in Unnumbered : revs[id].parents \subseteq DOMAIN numbers \cup Unnumbered
<1> DEFINE met == CHOOSE f : f = [id \in DOMAIN revs |-> Meets(f, id)]
<1>1. met = [id \in DOMAIN revs |-> Meets(met, id)]
  BY WalkExists
<1>2. Unnumbered = {id \in DOMAIN revs : met[id]}
  BY Zenon DEF Unnumbered, Meets
<1> HIDE DEF met
<1>3. \A id \in DOMAIN revs : met[id] = Meets(met, id)
  BY <1>1
<1>4. ASSUME NEW id \in Unnumbered, NEW parent \in revs[id].parents, parent \notin DOMAIN numbers
      PROVE  parent \in Unnumbered
  <2>1. id \in DOMAIN revs /\ met[id]
    BY <1>2
  <2>2. parent \in DOMAIN revs /\ id \in (parent + 1)..Len(revs)
    BY <2>1 DEF Counted
  <2>3. Meets(met, parent)
    BY <1>4, <2>1, <2>2 DEF Meets
  <2> QED BY <1>2, <1>3, <2>2, <2>3
<1>5. Unnumbered \cap DOMAIN numbers = {}
  BY <1>2, <1>3 DEF Meets
<1> QED BY <1>2, <1>4, <1>5

LEMMA Timed ==
  ASSUME Counted
  PROVE  \A id \in DOMAIN revs : /\ revs[id].time \in Nat
                                  /\ \A parent \in revs[id].parents : parent \in DOMAIN revs
<1>1. Len(revs) \in Nat /\ DOMAIN revs = 1..Len(revs)
  BY DEF Counted
<1>2. ASSUME NEW id \in DOMAIN revs PROVE revs[id] \in [parents : SUBSET Nat, time : Nat]
  <2> DEFINE Made == [parents : SUBSET Nat, time : Nat]
  <2>1. id \in 1..Len(revs) /\ revs \in Seq(Made)
    BY <1>1 DEF Counted
  <2> HIDE DEF Made
  <2>2. revs[id] \in Made
    BY <2>1
  <2> QED BY <2>2 DEF Made
<1>3. \A id \in DOMAIN revs : \A parent \in revs[id].parents : parent \in 1..(id - 1)
  BY DEF Counted
<1> QED BY <1>1, <1>2, <1>3

\* The INSERT of the oldest comes after those of its ancestors.
LEMMA InsertCounts ==
  ASSUME Counted, Insert
  PROVE  Counted'
<1>1. PICK id \in numbering : (\A other \in numbering \ {id} : Older(id, other)) /\ Give(id)
  BY DEF Insert
<1>2. PICK last \in Nat : {numbers[each] : each \in DOMAIN numbers} = 1..last
  BY DEF Counted
<1>3. Greatest = last
  <2> DEFINE given == {numbers[each] : each \in DOMAIN numbers}
             Top(x) == x \in {0} \cup given /\ \A number \in given : number <= x
  <2>1. Top(last) /\ \A x : Top(x) => x = last
    BY <1>2
  <2>2. Greatest = CHOOSE x \in {0} \cup given : \A number \in given : number <= x
    BY Zenon DEF Greatest
  <2> HIDE DEF given
  <2> QED BY <2>1, <2>2
<1>4. /\ DOMAIN numbers' = DOMAIN numbers \cup {id} /\ numbers'[id] = last + 1
      /\ \A each \in DOMAIN numbers : numbers'[each] = numbers[each] /\ each # id
      /\ numbering' = numbering \ {id} /\ revs' = revs /\ heads' = heads /\ synced' = synced
  BY <1>1, <1>3 DEF Give, Counted
<1>5. \A each \in DOMAIN numbers : numbers[each] \in 1..last
  BY <1>2
<1>6. revs[id].parents \subseteq DOMAIN numbers
  <2> SUFFICES ASSUME NEW parent \in revs[id].parents, parent \in numbering PROVE FALSE
    BY DEF Counted
  <2>1. id \in DOMAIN revs /\ parent \in 1..(id - 1) /\ revs[parent].time < revs[id].time
    BY DEF Counted
  <2>2. Newer(parent, id)
    <3>1. DOMAIN revs = 1..Len(revs) /\ Len(revs) \in Nat
      BY DEF Counted
    <3>2. parent \in numbering \ {id}
      BY <2>1, <3>1
    <3> QED BY <1>1, <3>2 DEF Older
  <2>3. revs[id].time \in Nat /\ revs[parent].time \in Nat
    BY <2>1, Timed
  <2> QED BY <2>1, <2>2, <2>3 DEF Newer
<1>7. Numbered'
  BY <1>4, <1>5, <1>6 DEF Counted, Numbered
<1>8. {numbers'[each] : each \in DOMAIN numbers'} = 1..(last + 1)
  <2>1. {numbers'[each] : each \in DOMAIN numbers'} = 1..last \cup {last + 1}
    BY <1>2, <1>4
  <2> QED BY <2>1
<1>9. \E most \in Nat : {numbers'[each] : each \in DOMAIN numbers'} = 1..most
  BY <1>8
<1>10. (DOMAIN numbers \subseteq DOMAIN revs)' /\ (numbering \subseteq DOMAIN revs \ DOMAIN numbers)'
  BY <1>4 DEF Counted
<1>11. \A each \in numbering' : revs'[each].parents \subseteq DOMAIN numbers' \cup numbering'
  BY <1>4 DEF Counted
<1> QED BY <1>4, <1>7, <1>9, <1>10, <1>11 DEF Counted

\* A revision is recorded on the heads, which are older.
LEMMA RecordCounts ==
  ASSUME Counted, ~Skewed, numbering = {}, NEW clone \in Clones, NEW time \in 1..LastTime, Record(clone, time)
  PROVE  Counted'
<1> DEFINE N == Len(revs)
           new == [parents |-> heads[clone], time |-> time]
<1>1. N \in Nat /\ DOMAIN revs = 1..N /\ heads[clone] \in SUBSET (1..N)
  BY DEF Counted
<1>2. time \in Nat
  BY RevisionsAssumption
<1>3. new \in [parents : SUBSET Nat, time : Nat] /\ new.parents = heads[clone] /\ new.time = time
  BY <1>1, <1>2
<1>4. revs' = Append(revs, new) /\ heads' = [heads EXCEPT ![clone] = {N + 1}]
      /\ synced' = synced /\ numbers' = numbers /\ numbering' = numbering
  BY DEF Record
<1> HIDE DEF new
<1>5. /\ revs' \in Seq([parents : SUBSET Nat, time : Nat]) /\ DOMAIN revs' = 1..(N + 1)
      /\ revs'[N + 1] = new /\ \A id \in 1..N : revs'[id] = revs[id]
  BY <1>1, <1>3, <1>4 DEF Counted
<1>6. \A parent \in heads[clone] : parent \in 1..N /\ revs[parent].time < time
  <2>1. ASSUME NEW parent \in heads[clone] PROVE parent \in 1..N /\ revs[parent].time < time
    <3>1. parent \in 1..N /\ time > revs[parent].time
      BY <1>1 DEF Record
    <3>2. revs[parent].time \in Nat
      BY <1>1, <3>1, Timed
    <3> QED BY <1>2, <3>1, <3>2
  <2> QED BY <2>1
<1>7. ASSUME NEW id \in DOMAIN revs', NEW parent \in revs'[id].parents
      PROVE  parent \in 1..(id - 1) /\ revs'[parent].time < revs'[id].time
  <2>1. CASE id = N + 1
    <3>1. parent \in heads[clone]
      BY <1>3, <1>5, <1>7, <2>1
    <3> QED BY <1>1, <1>3, <1>5, <1>6, <2>1, <3>1
  <2>2. CASE id # N + 1
    <3>1. id \in DOMAIN revs /\ id \in 1..N /\ revs'[id] = revs[id]
      BY <1>1, <1>5, <1>7, <2>2
    <3>2. parent \in 1..(id - 1) /\ revs[parent].time < revs[id].time
      BY <1>7, <3>1 DEF Counted
    <3>3. parent \in 1..N
      BY <1>1, <3>1, <3>2
    <3> QED BY <1>5, <3>1, <3>2, <3>3
  <2> QED BY <2>1, <2>2
<1>8. heads' \in [Clones -> SUBSET DOMAIN revs'] /\ synced' \subseteq DOMAIN revs'
  BY <1>1, <1>4, <1>5 DEF Counted
<1>9. Numbered'
  BY <1>1, <1>4, <1>5 DEF Counted, Numbered
<1>10. numbering' = {} /\ DOMAIN numbers' \subseteq DOMAIN revs'
  BY <1>1, <1>4, <1>5 DEF Counted
<1>11. \E last \in Nat : {numbers'[id] : id \in DOMAIN numbers'} = 1..last
  BY <1>4 DEF Counted
<1> QED BY <1>5, <1>7, <1>8, <1>9, <1>10, <1>11 DEF Counted

LEMMA PullCounts ==
  ASSUME Counted, NEW clone \in Clones, NEW from \in Clones, Pull(clone, from)
  PROVE  Counted'
<1>1. heads' \in [Clones -> SUBSET DOMAIN revs] /\ synced' \subseteq DOMAIN revs
  BY DEF Counted, Pull
<1>2. revs' = revs /\ numbers' = numbers /\ numbering' = numbering
  BY DEF Pull
<1> QED BY <1>1, <1>2 DEF Counted, Numbered

LEMMA OtherwiseCounts ==
  ASSUME Counted, revs' = revs, heads' = heads, synced' = synced, numbers' = numbers,
         numbering' \subseteq DOMAIN revs \ DOMAIN numbers,
         \A id \in numbering' : revs[id].parents \subseteq DOMAIN numbers \cup numbering'
  PROVE  Counted'
<1>1. Numbered'
  BY DEF Counted, Numbered
<1>2. \E last \in Nat : {numbers'[id] : id \in DOMAIN numbers'} = 1..last
  BY DEF Counted
<1>3. \A id \in numbering' : revs'[id].parents \subseteq DOMAIN numbers' \cup numbering'
  OBVIOUS
<1>4. numbering' \subseteq DOMAIN revs' \ DOMAIN numbers'
  OBVIOUS
<1>5. /\ revs' \in Seq([parents : SUBSET Nat, time : Nat])
      /\ heads' \in [Clones -> SUBSET DOMAIN revs'] /\ synced' \subseteq DOMAIN revs'
      /\ DOMAIN numbers' \subseteq DOMAIN revs'
  BY DEF Counted
<1>6. \A id \in DOMAIN revs' : \A parent \in revs'[id].parents :
        parent \in 1..(id - 1) /\ revs'[parent].time < revs'[id].time
  BY DEF Counted
<1> HIDE DEF Numbered
<1> QED BY <1>1, <1>2, <1>3, <1>4, <1>5, <1>6 DEF Counted

\* Where no clone's clock lies behind a revision it pulled, numbers are handed out
\* once each and to ancestors first, whenever the command that hands them out is killed.
THEOREM AncestorsFirst == ASSUME ~Skewed PROVE RevisionsSpec => []Numbered
<1>1. RevisionsInit => Counted
  <2> SUFFICES ASSUME RevisionsInit PROVE Counted
    OBVIOUS
  <2>1. revs = <<>> /\ DOMAIN revs = {} /\ DOMAIN numbers = {} /\ numbering = {} /\ synced = {}
        /\ heads = [c \in Clones |-> {}]
    BY DEF RevisionsInit, RevisionsIdle
  <2>2. {numbers[id] : id \in DOMAIN numbers} = 1..0
    BY <2>1
  <2>3. \E last \in Nat : {numbers[id] : id \in DOMAIN numbers} = 1..last
    BY <2>2
  <2>4. revs \in Seq([parents : SUBSET Nat, time : Nat])
    BY <2>1
  <2> QED BY <2>1, <2>3, <2>4 DEF Counted, Numbered
<1>2. Counted /\ [RevisionsNext]_revisionsVars => Counted'
  <2> SUFFICES ASSUME Counted, [RevisionsNext]_revisionsVars PROVE Counted'
    OBVIOUS
  <2>1. ASSUME numbering = {}, NEW clone \in Clones, NEW time \in 1..LastTime, Record(clone, time)
        PROVE  Counted'
    BY <2>1, RecordCounts
  <2>2. ASSUME NEW clone \in Clones, NEW from \in Clones, Pull(clone, from) PROVE Counted'
    BY <2>2, PullCounts
  <2>3. CASE Number
    <3>1. /\ revs' = revs /\ heads' = heads /\ synced' = synced /\ numbers' = numbers
          /\ numbering' = Unnumbered
      BY <2>3 DEF Number
    <3>2. /\ numbering' \subseteq DOMAIN revs \ DOMAIN numbers
          /\ \A id \in numbering' : revs[id].parents \subseteq DOMAIN numbers \cup numbering'
      BY <3>1, WalkMeets
    <3> QED BY <3>1, <3>2, OtherwiseCounts
  <2>4. CASE Insert
    BY <2>4, InsertCounts
  <2>5. CASE KillNumbering
    <3>1. /\ revs' = revs /\ heads' = heads /\ synced' = synced /\ numbers' = numbers
          /\ numbering' = {}
      BY <2>5 DEF KillNumbering
    <3> QED BY <3>1, OtherwiseCounts
  <2>6. CASE UNCHANGED revisionsVars
    BY <2>6 DEF revisionsVars, Counted, Numbered
  <2> QED BY <2>1, <2>2, <2>3, <2>4, <2>5, <2>6 DEF RevisionsNext
<1>3. Counted => Numbered
  BY DEF Counted
<1> QED BY <1>1, <1>2, <1>3, PTL DEF RevisionsSpec


-----------------------------------------------------------------------------
(* The upgrade                                                             *)

Disks == {"place", "aside", "built"}
Values == {"no", "two", "three", "tracking", "torn"}

OfDisk(p, a, b) == [place |-> p, aside |-> a, built |-> b]

\* What is built of i once the marker says so.
Built(i) == IF i \in Pieces \cup {"READY"} THEN "three" ELSE "no"

\* What a disk may show of i while what was built is put in place.
Shapes(i) ==
  CASE i \in {"READY", "format"} -> {OfDisk(AtFirst(i), "no", Built(i))}
    [] i = "old" -> {OfDisk(AtFirst(i), "no", "no"), OfDisk("no", AtFirst(i), "no")}
    [] i \in {"transactions", "gitignore"} ->
         {OfDisk(AtFirst(i), "no", "no"), OfDisk("no", AtFirst(i), "no"),
          OfDisk("three", AtFirst(i), "no")}
    [] i \in {"objects", "schema", "config"} ->
         {OfDisk("two", "no", "three"), OfDisk("no", "two", "three"), OfDisk("three", "two", "no")}
    [] i = "history" -> {OfDisk("no", "no", "three"), OfDisk("three", "no", "no")}
    [] OTHER -> {OfDisk("two", "no", "three"), OfDisk("two", "two", "three"),
                 OfDisk("three", "two", "three"), OfDisk("three", "two", "no")}

\* The assumptions: what a format 2 database may be without, and what strikes.
Complete == \A missing \in Lacking : missing \subseteq {"old", "gitignore"}
Untracked == Tracking = {FALSE}
Unfaulted == UpgradeFaults \subseteq {"kill", "power"}

Told ==
  /\ tracking = FALSE /\ tracked = FALSE /\ lacks \subseteq {"old", "gitignore"}
  /\ DOMAIN cell = Part
  /\ \A i \in Part : /\ cell[i] = [now |-> cell[i].now, may |-> cell[i].may]
                     /\ cell[i].now \in cell[i].may /\ cell[i].may \subseteq [Disks -> Values]

\* No marker is durable: format 2 is as it was, beside a workspace.
Unmarked ==
  /\ phase \in {"idle", "built", "marked"}
  /\ \A i \in Part : \A m \in cell[i].may :
       /\ m.place = AtFirst(i) /\ m.aside = "no"
       /\ i \notin Pieces \cup {"READY"} => m.built = "no"
  /\ phase # "idle" => \A i \in Pieces : Shown(i).built = "three"
  /\ phase # "marked" => \A m \in cell["READY"].may : m.built = "no"
  /\ phase = "marked" => Shown("READY").built = "three"

\* Step k was made or was found made, as far as the cache shows.
Past(k) == phase \in {"swap", "sync"} /\ (k < at \/ (phase = "sync" /\ k = at))

Turned == phase \in {"idle", "swap", "sync", "stuck"} /\ (phase \in {"swap", "sync"} => at \in 1..15)
Shaped == \A i \in Part : cell[i].may \subseteq Shapes(i)
AsideDone == \A k \in 1..6 : Past(k) => Shown(Steps[k][2]).place # "two"
PlacedDone == \A k \in 10..15 : Past(k) => Shown(Steps[k][2]).place = "three"

\* A pin is rewritten once its original is saved on every disk, and what was
\* built of it goes once it is rewritten on every disk.
Saved == \A m \in cell["pin"].may : m.aside = "two"
Original == \A m \in cell["pin"].may : m = OfDisk("two", "no", "three")
Rewritten == \A m \in cell["pin"].may : m.place = "three"
PinKept ==
  /\ Saved \/ Original \/ (phase = "sync" /\ at = 7)
  /\ phase \in {"swap", "sync"} /\ at > 7 => Saved
  /\ phase = "sync" /\ at = 7 => Shown("pin").aside = "two"
  /\ Shown("pin").built = "no" => Rewritten
  /\ phase = "sync" /\ at = 8 => Shown("pin").place = "three"
  /\ phase \in {"swap", "sync"} /\ at > 8 => Rewritten

\* An upgrade that finds format 3's transactions in place goes no further than
\* to where it would set them aside: no other .gitignore is written again.
Made == \A m \in cell["transactions"].may : m.place = "three"
Halts ==
  /\ Shown("transactions").place = "three" =>
       \/ phase \in {"idle", "stuck"}
       \/ phase = "swap" /\ at \in 1..5 \cup {15}
       \/ phase = "sync" /\ at \in 1..4 \cup {14, 15}
  /\ phase \in {"swap", "sync"} /\ at = 15 => Made
  /\ (\E m \in cell["gitignore"].may : m.place = "three") => Made

\* The marker is durable, the format is format 2's.
Underway == Turned /\ Shaped /\ AsideDone /\ PlacedDone /\ PinKept /\ Halts

\* All is in place, and set aside, but for the format.
Ends(i, m) ==
  /\ m.place = AtLast(i)
  /\ m.aside = IF i \in Aside \cup {"pin"} THEN AtFirst(i) ELSE "no"
Ended ==
  /\ \/ phase \in {"idle", "built", "marked", "stuck"}
     \/ phase = "swap" /\ at \in 1..5 \cup {16, 17}
     \/ phase = "sync" /\ at = 16
  /\ \A i \in Part \ {"format"} : \A m \in cell[i].may : Ends(i, m)

Upgrading == Told /\ (Unmarked \/ Underway \/ Ended)

\* What the steps do to a cell.
LEMMA SetTells ==
  ASSUME NEW c, c.now \in c.may, c.may \subseteq [Disks -> Values], NEW d \in Disks, NEW v \in Values
  PROVE  LET s == SetPart(c, d, v) IN
         /\ s.now = [c.now EXCEPT ![d] = v] /\ s.now \in s.may /\ s.may \subseteq [Disks -> Values]
         /\ \A m \in s.may : m \in c.may \/
              \E n \in c.may : NameOf(n[d]) = NameOf(c.now[d]) /\ m = [n EXCEPT ![d] = v]
<1> DEFINE s == SetPart(c, d, v)
           agree == {n \in c.may : Agrees(n, c.now, {d})}
<1>1. s = [now |-> [c.now EXCEPT ![d] = v], may |-> c.may \cup {[n EXCEPT ![d] = v] : n \in agree}]
  BY Zenon DEF SetPart, Disk!Issue
<1>2. agree = {n \in c.may : NameOf(n[d]) = NameOf(c.now[d])}
  BY DEF Agrees
<1> HIDE DEF agree, s
<1>3. /\ s.now = [c.now EXCEPT ![d] = v]
      /\ s.may = c.may \cup {[n EXCEPT ![d] = v] : n \in agree}
  BY <1>1
<1>4. \A n \in c.may : [n EXCEPT ![d] = v] \in [Disks -> Values]
  OBVIOUS
<1>5. c.now \in agree
  BY <1>2
<1>6. \A m \in s.may : m \in c.may \/ \E n \in agree : m = [n EXCEPT ![d] = v]
  BY <1>3
<1>7. s.now \in s.may
  BY <1>3, <1>5
<1>8. s.may \subseteq [Disks -> Values]
  BY <1>2, <1>4, <1>6
<1> QED BY <1>2, <1>3, <1>6, <1>7, <1>8 DEF s

LEMMA RenameTells ==
  ASSUME NEW c, c.now \in c.may, c.may \subseteq [Disks -> Values], NEW from \in Disks, NEW to \in Disks
  PROVE  LET s == RenamePart(c, from, to) IN
         /\ s.now = [c.now EXCEPT ![to] = c.now[from], ![from] = "no"]
         /\ s.now \in s.may /\ s.may \subseteq [Disks -> Values]
         /\ \A m \in s.may : m \in c.may \/
              \E n \in c.may : /\ NameOf(n[from]) = NameOf(c.now[from]) /\ NameOf(n[to]) = NameOf(c.now[to])
                               /\ m = [n EXCEPT ![to] = n[from], ![from] = "no"]
<1> DEFINE s == RenamePart(c, from, to)
           agree == {n \in c.may : Agrees(n, c.now, {from, to})}
<1>1. s = [now |-> [c.now EXCEPT ![to] = c.now[from], ![from] = "no"],
           may |-> c.may \cup {[n EXCEPT ![to] = n[from], ![from] = "no"] : n \in agree}]
  BY Zenon DEF RenamePart, Disk!Issue
<1>2. agree = {n \in c.may : NameOf(n[from]) = NameOf(c.now[from]) /\ NameOf(n[to]) = NameOf(c.now[to])}
  BY DEF Agrees
<1> HIDE DEF agree, s
<1>3. /\ s.now = [c.now EXCEPT ![to] = c.now[from], ![from] = "no"]
      /\ s.may = c.may \cup {[n EXCEPT ![to] = n[from], ![from] = "no"] : n \in agree}
  BY <1>1
<1>4. \A n \in c.may : [n EXCEPT ![to] = n[from], ![from] = "no"] \in [Disks -> Values]
  BY DEF Values
<1>5. c.now \in agree
  BY <1>2
<1>6. \A m \in s.may : m \in c.may \/ \E n \in agree : m = [n EXCEPT ![to] = n[from], ![from] = "no"]
  BY <1>3
<1>7. s.now \in s.may
  BY <1>3, <1>5
<1>8. s.may \subseteq [Disks -> Values]
  <2> DEFINE Moved(n) == [n EXCEPT ![to] = n[from], ![from] = "no"]
  <2>1. \A n \in c.may : Moved(n) \in [Disks -> Values]
    BY <1>4
  <2>2. \A m \in s.may : m \in c.may \/ \E n \in c.may : m = Moved(n)
    BY <1>2, <1>6
  <2> HIDE DEF Moved
  <2> QED BY <2>1, <2>2
<1> QED BY <1>2, <1>3, <1>6, <1>7, <1>8 DEF s

LEMMA WriteTells ==
  ASSUME NEW c, c.now \in c.may, c.may \subseteq [Disks -> Values]
  PROVE  LET s == WritePart(c) IN
         /\ s.now = [c.now EXCEPT !.built = "three"] /\ s.now \in s.may /\ s.may \subseteq [Disks -> Values]
         /\ s = [now |-> s.now, may |-> s.may]
         /\ \A m \in s.may : \E n \in c.may : m.place = n.place /\ m.aside = n.aside
<1> DEFINE s == WritePart(c)
           set == SetPart(c, "built", "three")
<1>1. /\ set.now = [c.now EXCEPT !["built"] = "three"]
      /\ set.now \in set.may /\ set.may \subseteq [Disks -> Values]
      /\ \A m \in set.may : m \in c.may \/ \E n \in c.may : m = [n EXCEPT !["built"] = "three"]
  <2>1. "built" \in Disks /\ "three" \in Values
    BY DEF Disks, Values
  <2> QED BY <2>1, SetTells
<1>2. set = [now |-> set.now, may |-> set.may]
  BY DEF SetPart, Disk!Issue
<1>3. s = [set EXCEPT !.may = @ \cup {[m EXCEPT !.built = "torn"] : m \in set.may}]
  BY Zenon DEF WritePart
<1> HIDE DEF set, s
<1> DEFINE Put(n, v) == [n EXCEPT !.built = v]
<1>4. s.now = set.now /\ s.may = set.may \cup {Put(m, "torn") : m \in set.may}
  BY <1>2, <1>3
<1>5. \A n \in [Disks -> Values] : \A v \in {"three", "torn"} :
        Put(n, v) \in [Disks -> Values] /\ Put(n, v).place = n.place /\ Put(n, v).aside = n.aside
  BY DEF Disks, Values
<1>9. \A m \in set.may : m \in c.may \/ \E n \in c.may : m = Put(n, "three")
  BY <1>1
<1> HIDE DEF Put
<1>6. \A m \in set.may : \E n \in c.may : m.place = n.place /\ m.aside = n.aside
  BY <1>5, <1>9
<1>7. \A m \in s.may : m \in set.may \/ \E n \in set.may : m = Put(n, "torn")
  BY <1>4
<1>8. \A m \in s.may : m \in [Disks -> Values] /\ \E n \in c.may : m.place = n.place /\ m.aside = n.aside
  BY <1>1, <1>5, <1>6, <1>7
<1>10. s = [now |-> s.now, may |-> s.may]
  <2> DEFINE more == set.may \cup {Put(m, "torn") : m \in set.may}
  <2>1. s = [set EXCEPT !.may = more]
    BY <1>3 DEF Put
  <2> HIDE DEF more
  <2> QED BY <1>2, <2>1
<1> QED BY <1>1, <1>4, <1>8, <1>10 DEF s

\* What the cache shows stays on a disk that a sync leaves.
LEMMA SyncTells ==
  ASSUME Told, NEW dirs, SyncDirs(dirs)
  PROVE  /\ tracking' = tracking /\ tracked' = FALSE /\ lacks' = lacks => Told'
         /\ \A i \in Part : /\ cell'[i].now = cell[i].now /\ cell'[i].may \subseteq cell[i].may
                            /\ \A d \in Disks : DirOf(i, d) \in dirs =>
                                 \A m \in cell'[i].may : NameOf(m[d]) = NameOf(cell[i].now[d])
<1> SUFFICES ASSUME NEW i \in Part
             PROVE  /\ cell'[i].now = cell[i].now /\ cell'[i].may \subseteq cell[i].may
                    /\ cell'[i].now \in cell'[i].may
                    /\ cell'[i] = [now |-> cell'[i].now, may |-> cell'[i].may]
                    /\ \A d \in Disks : DirOf(i, d) \in dirs =>
                         \A m \in cell'[i].may : NameOf(m[d]) = NameOf(cell[i].now[d])
  <2>1. \A i \in Part : cell'[i].may \subseteq [Disks -> Values]
    BY DEF Told
  <2>2. DOMAIN cell' = Part
    BY Zenon DEF SyncDirs
  <2> QED BY <2>1, <2>2 DEF Told
<1> DEFINE left == {m \in cell[i].may : Agrees(m, cell[i].now, {d \in DOMAIN m : DirOf(i, d) \in dirs})}
<1>1. cell'[i] = [cell[i] EXCEPT !.may = left]
  BY Zenon DEF SyncDirs, Disk!Sync
<1>2. cell[i] = [now |-> cell[i].now, may |-> cell[i].may] /\ cell[i].now \in cell[i].may
      /\ cell[i].may \subseteq [Disks -> Values]
  BY DEF Told
<1>3. /\ \A m \in left : m \in cell[i].may
      /\ \A m \in left : \A d \in Disks : DirOf(i, d) \in dirs => NameOf(m[d]) = NameOf(cell[i].now[d])
      /\ cell[i].now \in left
  BY <1>2 DEF Agrees
<1> HIDE DEF left
<1>4. cell'[i] = [now |-> cell[i].now, may |-> left]
  BY <1>1, <1>2
<1> QED BY <1>1, <1>3, <1>4

\* A cell as Told tells it.
Celled(c) == c = [now |-> c.now, may |-> c.may] /\ c.now \in c.may /\ c.may \subseteq [Disks -> Values]

LEMMA ToldCells ==
  ASSUME tracking' = FALSE, tracked' = FALSE, lacks' \subseteq {"old", "gitignore"},
         DOMAIN cell' = Part, \A i \in Part : Celled(cell'[i])
  PROVE  Told'
BY DEF Told, Celled

\* A step that touches only what is built, or marks.
Rebuilt(cs) ==
  /\ DOMAIN cs = Part
  /\ \A i \in Part : /\ Celled(cs[i])
                     /\ \A m \in cs[i].may : \E n \in cell[i].may : m.place = n.place /\ m.aside = n.aside

LEMMA ClearTells ==
  ASSUME Told
  PROVE  /\ Rebuilt(WithoutWorkspace(cell))
         /\ \A i \in Part : LET c == WithoutWorkspace(cell)[i] IN
              /\ c.now.built = "no" /\ \A m \in c.may : m.built = "no" \/ m \in cell[i].may
              /\ cell[i].now.built = "no" => c = cell[i]
<1> DEFINE cs == WithoutWorkspace(cell)
<1>1. DOMAIN cs = Part
  BY Zenon DEF WithoutWorkspace
<1>2. ASSUME NEW i \in Part
      PROVE  /\ Celled(cs[i]) /\ cs[i].now.built = "no"
             /\ \A m \in cs[i].may : \E n \in cell[i].may : m.place = n.place /\ m.aside = n.aside
             /\ \A m \in cs[i].may : m.built = "no" \/ m \in cell[i].may
             /\ cell[i].now.built = "no" => cs[i] = cell[i]
  <2>1. cs[i] = IF cell[i].now.built = "no" THEN cell[i] ELSE SetPart(cell[i], "built", "no")
    BY Zenon DEF WithoutWorkspace
  <2>2. Celled(cell[i])
    BY DEF Told, Celled
  <2> HIDE DEF cs
  <2>3. CASE cell[i].now.built = "no"
    BY <2>1, <2>2, <2>3 DEF Celled
  <2>4. CASE cell[i].now.built # "no"
    <3> DEFINE Put(n) == [n EXCEPT !["built"] = "no"]
               s == SetPart(cell[i], "built", "no")
    <3>1. "built" \in Disks /\ "no" \in Values
      BY DEF Disks, Values
    <3>2. /\ s.now = Put(cell[i].now) /\ s.now \in s.may /\ s.may \subseteq [Disks -> Values]
          /\ \A m \in s.may : m \in cell[i].may \/ \E n \in cell[i].may : m = Put(n)
      BY <2>2, <3>1, SetTells DEF Celled
    <3>3. s = [now |-> s.now, may |-> s.may]
      BY DEF SetPart, Disk!Issue
    <3>4. \A n \in [Disks -> Values] :
            Put(n).place = n.place /\ Put(n).aside = n.aside /\ Put(n).built = "no"
      BY DEF Disks
    <3>5. cs[i] = s
      BY <2>1, <2>4
    <3> HIDE DEF s, Put
    <3>6. cell[i].now \in cell[i].may /\ cell[i].may \subseteq [Disks -> Values]
      BY <2>2 DEF Celled
    <3> QED BY <2>4, <3>2, <3>3, <3>4, <3>5, <3>6 DEF Celled
  <2> QED BY <2>3, <2>4
<1> HIDE DEF cs
<1> QED BY <1>1, <1>2 DEF Rebuilt, cs

\* Building tells nothing else either.
LEMMA BuildTells ==
  ASSUME Told, NEW S \in SUBSET Part
  PROVE  LET cleared == WithoutWorkspace(cell)
             cs == [i \in Part |-> IF i \in S THEN WritePart(cleared[i]) ELSE cleared[i]]
         IN  Rebuilt(cs) /\ \A i \in S : cs[i].now.built = "three"
<1> DEFINE cleared == WithoutWorkspace(cell)
           cs == [i \in Part |-> IF i \in S THEN WritePart(cleared[i]) ELSE cleared[i]]
<1>1. Rebuilt(cleared)
  BY ClearTells
<1> HIDE DEF cleared
<1>2. ASSUME NEW i \in S
      PROVE  /\ Celled(WritePart(cleared[i])) /\ WritePart(cleared[i]).now.built = "three"
             /\ \A m \in WritePart(cleared[i]).may :
                  \E n \in cleared[i].may : m.place = n.place /\ m.aside = n.aside
  <2>1. Celled(cleared[i])
    BY <1>1 DEF Rebuilt
  <2> DEFINE c == cleared[i]
             s == WritePart(c)
  <2>2. /\ s.now = [c.now EXCEPT !.built = "three"] /\ s.now \in s.may /\ s.may \subseteq [Disks -> Values]
        /\ \A m \in s.may : \E n \in c.may : m.place = n.place /\ m.aside = n.aside
    BY <2>1, WriteTells DEF Celled
  <2>3. s = [now |-> s.now, may |-> s.may]
    BY <2>1, WriteTells DEF Celled
  <2>4. c.now \in [Disks -> Values]
    BY <2>1 DEF Celled
  <2> HIDE DEF c, s
  <2>5. s.now.built = "three"
    BY <2>2, <2>4 DEF Disks
  <2> QED BY <2>2, <2>3, <2>5 DEF Celled, c, s
<1>3. DOMAIN cs = Part /\ \A i \in Part : cs[i] = IF i \in S THEN WritePart(cleared[i]) ELSE cleared[i]
  OBVIOUS
<1> HIDE DEF cs
<1>4. ASSUME NEW i \in Part
      PROVE  /\ Celled(cs[i])
             /\ \A m \in cs[i].may : \E n \in cell[i].may : m.place = n.place /\ m.aside = n.aside
  <2>1. \A n \in cleared[i].may : \E l \in cell[i].may : n.place = l.place /\ n.aside = l.aside
    BY <1>1 DEF Rebuilt
  <2>2. CASE i \in S
    <3>1. Celled(cs[i]) /\ \A m \in cs[i].may :
            \E n \in cleared[i].may : m.place = n.place /\ m.aside = n.aside
      BY <1>2, <1>3, <2>2
    <3> QED BY <2>1, <3>1
  <2>3. CASE i \notin S
    <3>1. cs[i] = cleared[i] /\ Celled(cleared[i])
      BY <1>1, <1>3, <2>3 DEF Rebuilt
    <3> QED BY <2>1, <3>1
  <2> QED BY <2>2, <2>3
<1>5. \A i \in S : cs[i].now.built = "three"
  BY <1>2, <1>3
<1> QED BY <1>3, <1>4, <1>5 DEF Rebuilt, cs, cleared

LEMMA RebuiltTold ==
  ASSUME Told, Rebuilt(cell'), tracking' = FALSE, tracked' = FALSE, lacks' = lacks
  PROVE  Told'
BY ToldCells DEF Told, Rebuilt

\* Whatever the phase.
EndedEverywhere == \A i \in Part \ {"format"} : \A m \in cell[i].may : Ends(i, m)
FirstEverywhere == \A i \in Part : \A m \in cell[i].may : m.place = AtFirst(i) /\ m.aside = "no"

LEMMA RebuiltStays ==
  ASSUME Rebuilt(cell'), lacks' = lacks, tracking' = tracking
  PROVE  /\ EndedEverywhere => EndedEverywhere'
         /\ FirstEverywhere => FirstEverywhere'
<1>1. \A i : AtFirst(i)' = AtFirst(i) /\ AtLast(i)' = AtLast(i)
  BY DEF AtFirst, AtLast
<1>2. ASSUME EndedEverywhere, NEW i \in Part \ {"format"}, NEW m \in cell'[i].may
      PROVE  Ends(i, m)'
  <2>1. PICK n \in cell[i].may : m.place = n.place /\ m.aside = n.aside
    BY DEF Rebuilt
  <2>2. Ends(i, n)
    BY <1>2 DEF EndedEverywhere
  <2> QED BY <1>1, <2>1, <2>2 DEF Ends
<1>3. ASSUME FirstEverywhere, NEW i \in Part, NEW m \in cell'[i].may
      PROVE  m.place = AtFirst(i)' /\ m.aside = "no"
  <2>1. PICK n \in cell[i].may : m.place = n.place /\ m.aside = n.aside
    BY DEF Rebuilt
  <2> QED BY <1>1, <1>3, <2>1 DEF FirstEverywhere
<1> QED BY <1>2, <1>3 DEF EndedEverywhere, FirstEverywhere

LEMMA Beginnings ==
  ASSUME Told
  PROVE  /\ \A i \in Part : i \notin {"old", "gitignore", "history", "READY"} => AtFirst(i) = "two"
         /\ AtFirst("history") = "no" /\ AtFirst("READY") = "no"
         /\ \A i \in Part : AtFirst(i) \in {"no", "two"}
         /\ \A i \in Part : AtLast(i) = IF i \in {"old", "READY"} THEN "no" ELSE "three"
BY DEF Told, AtFirst, AtLast, Part, Aside, Pieces

LEMMA FormatTells ==
  ASSUME Told
  PROVE  /\ Unmarked \/ Underway => \A m \in cell["format"].may : m.place = "two"
         /\ Unmarked => FirstEverywhere
         /\ Underway => \A m \in cell["READY"].may : m = OfDisk("no", "no", "three")
<1>1. "format" \in Part /\ "READY" \in Part /\ "READY" \notin {"format"} /\ "format" \notin Pieces \cup {"READY"}
  BY DEF Part, Pieces
<1>2. AtFirst("format") = "two" /\ AtFirst("READY") = "no"
  BY <1>1, Beginnings
<1>3. Unmarked => FirstEverywhere
  BY DEF Unmarked, FirstEverywhere
<1>4. ASSUME Underway
      PROVE  /\ \A m \in cell["format"].may : m.place = "two"
             /\ \A m \in cell["READY"].may : m = OfDisk("no", "no", "three")
  <2>1. Shapes("format") = {OfDisk("two", "no", Built("format"))} /\ Shapes("READY") = {OfDisk("no", "no", "three")}
    BY <1>2 DEF Shapes, Built
  <2>2. \A a, b, c : OfDisk(a, b, c).place = a
    BY DEF OfDisk
  <2>3. \A i \in Part : \A m \in cell[i].may : m \in Shapes(i)
    BY <1>4 DEF Underway, Shaped
  <2> QED BY <1>1, <2>1, <2>2, <2>3
<1> QED BY <1>1, <1>2, <1>3, <1>4 DEF FirstEverywhere

LEMMA TidyKeeps ==
  ASSUME Upgrading, Tidy
  PROVE  Upgrading'
<1>1. Told /\ "format" \in Part /\ Shown("format") \in cell["format"].may /\ Shown("format").place = "three"
  BY DEF Upgrading, Told, Tidy, Part, Shown
<1>2. Ended
  BY <1>1, FormatTells DEF Upgrading
<1>3. cell' = WithoutWorkspace(cell) /\ UNCHANGED <<lacks, tracking, phase, at, tracked>>
  BY DEF Tidy
<1>4. Rebuilt(cell')
  BY <1>1, <1>3, ClearTells
<1>5. EndedEverywhere'
  BY <1>2, <1>3, <1>4, RebuiltStays DEF Ended, EndedEverywhere
<1>6. Told'
  BY <1>1, <1>3, <1>4, RebuiltTold DEF Told
<1> QED BY <1>2, <1>3, <1>5, <1>6 DEF Upgrading, Ended, EndedEverywhere

LEMMA ResumeKeeps ==
  ASSUME Upgrading, Resume
  PROVE  Upgrading'
<1>1. Told /\ "READY" \in Part /\ Shown("READY") \in cell["READY"].may /\ Shown("READY").built # "no" /\ phase = "idle"
  BY DEF Upgrading, Told, Resume, Part, Shown
<1>2. Underway \/ Ended
  BY <1>1 DEF Upgrading, Unmarked
<1>3. UNCHANGED <<cell, lacks, tracking>>
  BY DEF Resume
<1>4. Told' /\ (phase' = "stuck" \/ (phase' = "swap" /\ at' = 1)) /\ (Shown("READY").built # "torn" => phase' = "swap")
  BY <1>1 DEF Resume, Enter, Turn, Told
<1>5. CASE Ended
  BY <1>3, <1>4, <1>5 DEF Upgrading, Ended, Ends, AtFirst, AtLast
<1>6. CASE Underway
  <2>1. Shown("READY").built = "three"
    BY <1>1, <1>6, FormatTells DEF OfDisk
  <2>2. phase' = "swap" /\ at' = 1
    BY <1>4, <2>1
  <2>3. Shaped'
    BY <1>3, <1>6 DEF Underway, Shaped, Shapes, AtFirst
  <2>4. ~Past(1)' /\ \A k \in 1..6 \cup 10..15 : ~Past(k)'
    BY <2>2 DEF Past
  <2>5. PinKept'
    BY <1>1, <1>3, <1>6, <2>2 DEF Underway, PinKept, Saved, Original, Rewritten, Shown
  <2>6. Halts'
    BY <1>1, <1>3, <1>6, <2>2 DEF Underway, Halts, Made, Shown
  <2> QED BY <1>4, <2>2, <2>3, <2>4, <2>5, <2>6
          DEF Upgrading, Underway, Turned, AsideDone, PlacedDone
<1> QED BY <1>2, <1>5, <1>6

\* A workspace is built beside format 2, or beside what is all in place.
LEMMA BuildKeeps ==
  ASSUME Upgrading, BuildWorkspace \/ BuildRefused
  PROVE  Upgrading'
<1>1. Told /\ "READY" \in Part /\ Shown("READY") \in cell["READY"].may /\ Shown("READY").built = "no"
      /\ phase = "idle" /\ UNCHANGED <<lacks, tracking, tracked>> /\ phase' \in {"idle", "built"}
  BY DEF Upgrading, Told, BuildWorkspace, BuildRefused, Part, Shown, Turn
<1>2. Unmarked \/ Ended
  BY <1>1, FormatTells DEF Upgrading, OfDisk
<1> DEFINE cleared == WithoutWorkspace(cell)
           S == IF phase' = "built" THEN Pieces ELSE {}
<1>3. cell' = [i \in Part |-> IF i \in S THEN WritePart(cleared[i]) ELSE cleared[i]]
  <2>1. CASE BuildWorkspace
    <3>1. phase' = "built"
      BY <2>1 DEF BuildWorkspace, Turn
    <3>2. cell' = [i \in Part |-> IF i \in Pieces THEN WritePart(cleared[i]) ELSE cleared[i]]
      BY <2>1, Zenon DEF BuildWorkspace
    <3> QED BY <3>1, <3>2
  <2>2. CASE BuildRefused
    <3>1. phase' = "idle" /\ cell' = cleared
      BY <2>2, <1>1 DEF BuildRefused
    <3>2. DOMAIN cleared = Part /\ cleared = [i \in Part |-> cleared[i]]
      BY DEF WithoutWorkspace
    <3> HIDE DEF cleared
    <3>3. S = {}
      BY <3>1
    <3> QED BY <3>1, <3>2, <3>3
  <2> QED BY <2>1, <2>2
<1>4. S \in SUBSET Part /\ S \subseteq Pieces
  BY DEF Part
<1>5. Rebuilt(cell') /\ \A i \in S : cell'[i].now.built = "three"
  <2> HIDE DEF S
  <2> QED BY <1>1, <1>3, <1>4, BuildTells
<1>6. Told'
  BY <1>1, <1>5, RebuiltTold DEF Told
<1>7. CASE Ended
  <2>1. EndedEverywhere'
    BY <1>1, <1>5, <1>7, RebuiltStays DEF Ended, EndedEverywhere
  <2> QED BY <1>1, <1>6, <2>1 DEF Upgrading, Ended, EndedEverywhere
<1>8. CASE Unmarked
  <2>1. FirstEverywhere'
    BY <1>1, <1>5, <1>8, FormatTells, RebuiltStays
  <2>2. \A i \in Part \ S : cell'[i] = cleared[i]
    BY <1>3
  <2>3. ASSUME NEW i \in Part, i \notin Pieces \cup {"READY"}, NEW m \in cell'[i].may PROVE m.built = "no"
    <3>1. m \in cleared[i].may
      BY <1>4, <2>2, <2>3
    <3>2. m.built = "no" \/ m \in cell[i].may
      BY <1>1, <3>1, ClearTells
    <3> QED BY <1>8, <2>3, <3>2 DEF Unmarked
  <2>4. cell'["READY"] = cell["READY"]
    <3>1. "READY" \notin S
      BY <1>4 DEF Pieces
    <3> QED BY <1>1, <2>2, <3>1, ClearTells DEF Shown
  <2>5. \A m \in cell'["READY"].may : m.built = "no"
    BY <1>1, <1>8, <2>4 DEF Unmarked
  <2>6. phase' # "idle" => \A i \in Pieces : cell'[i].now.built = "three"
    BY <1>1, <1>5
  <2>7. \A i \in Part : \A m \in cell'[i].may : m.place = AtFirst(i)' /\ m.aside = "no"
    BY <2>1 DEF FirstEverywhere
  <2> HIDE DEF cleared, S
  <2>8. Unmarked'
    BY <1>1, <2>3, <2>5, <2>6, <2>7 DEF Unmarked, Shown
  <2> QED BY <1>6, <2>8 DEF Upgrading
<1> QED BY <1>2, <1>7, <1>8

LEMMA MarkKeeps ==
  ASSUME Upgrading, MarkReady
  PROVE  Upgrading'
<1>1. Told /\ "READY" \in Part /\ phase = "built" /\ phase' = "marked"
      /\ UNCHANGED <<lacks, tracking, tracked>> /\ (Unmarked \/ Ended)
  BY DEF Upgrading, MarkReady, Turn, Part, Underway, Turned
<1> DEFINE s == WritePart(cell["READY"])
<1>2. cell' = [cell EXCEPT !["READY"] = s]
  BY Zenon DEF MarkReady
<1>3. /\ Celled(s) /\ \A m \in s.may : \E n \in cell["READY"].may : m.place = n.place /\ m.aside = n.aside
      /\ s.now = [cell["READY"].now EXCEPT !.built = "three"]
  <2>1. cell["READY"].now \in cell["READY"].may /\ cell["READY"].may \subseteq [Disks -> Values]
    BY <1>1 DEF Told
  <2> QED BY <2>1, WriteTells DEF Celled
<1> HIDE DEF s
<1>4. s.now.built = "three"
  <2>1. cell["READY"].now \in [Disks -> Values]
    BY <1>1 DEF Told
  <2> QED BY <1>3, <2>1 DEF Disks
<1>5. DOMAIN cell' = Part /\ cell'["READY"] = s /\ \A i \in Part : i # "READY" => cell'[i] = cell[i]
  BY <1>1, <1>2 DEF Told
<1>6. Rebuilt(cell')
  <2>1. \A i \in Part : Celled(cell[i])
    BY <1>1 DEF Told, Celled
  <2> QED BY <1>3, <1>5, <2>1 DEF Rebuilt
<1>7. Told'
  BY <1>1, <1>6, RebuiltTold DEF Told
<1>8. CASE Ended
  <2>1. EndedEverywhere'
    BY <1>1, <1>6, <1>8, RebuiltStays DEF Ended, EndedEverywhere
  <2> QED BY <1>1, <1>7, <2>1 DEF Upgrading, Ended, EndedEverywhere
<1>9. CASE Unmarked
  <2>1. FirstEverywhere'
    BY <1>1, <1>6, <1>9, FormatTells, RebuiltStays
  <2>2. \A i \in Part : \A m \in cell'[i].may : m.place = AtFirst(i)' /\ m.aside = "no"
    BY <2>1 DEF FirstEverywhere
  <2>3. Unmarked'
    BY <1>1, <1>4, <1>5, <1>9, <2>2 DEF Unmarked, Shown, Pieces, Part
  <2> QED BY <1>7, <2>3 DEF Upgrading
<1> QED BY <1>1, <1>8, <1>9

\* The marker is durable when all that was built is.
LEMMA SyncTreeKeeps ==
  ASSUME Upgrading, SyncTree
  PROVE  Upgrading'
<1>1. Told /\ phase = "marked" /\ phase' = "swap" /\ at' = 1 /\ tracked' = FALSE
      /\ UNCHANGED <<lacks, tracking>> /\ (Unmarked \/ Ended)
  BY DEF Upgrading, SyncTree, Enter, Turn, Underway, Turned, Told
<1> DEFINE left(i) == {m \in cell[i].may : m.built = cell[i].now.built}
<1>2. \A i \in Part : SyncContents(cell[i]) = [cell[i] EXCEPT !.may = left(i)]
  BY Zenon DEF SyncContents, Disk!Sync
<1>3. /\ DOMAIN cell' = Part
      /\ \A i \in Part : cell'[i] = IF i \in Pieces \cup {"READY"} THEN SyncContents(cell[i]) ELSE cell[i]
  BY Zenon DEF SyncTree
<1>4. ASSUME NEW i \in Part
      PROVE  /\ Celled(cell'[i]) /\ cell'[i].may \subseteq cell[i].may /\ cell'[i].now = cell[i].now
             /\ i \in Pieces \cup {"READY"} => \A m \in cell'[i].may : m.built = cell[i].now.built
  <2>1. Celled(cell[i])
    BY <1>1 DEF Told, Celled
  <2>2. left(i) \subseteq cell[i].may /\ cell[i].now \in left(i) /\ \A m \in left(i) : m.built = cell[i].now.built
    BY <2>1 DEF Celled
  <2> HIDE DEF left
  <2>3. CASE i \in Pieces \cup {"READY"}
    <3>1. cell'[i] = [now |-> cell[i].now, may |-> left(i)]
      BY <1>2, <1>3, <2>1, <2>3 DEF Celled
    <3> QED BY <2>1, <2>2, <3>1 DEF Celled
  <2>4. CASE i \notin Pieces \cup {"READY"}
    BY <1>3, <2>1, <2>4
  <2> QED BY <2>3, <2>4
<1>5. Rebuilt(cell')
  BY <1>3, <1>4 DEF Rebuilt
<1>6. Told'
  BY <1>1, <1>5, RebuiltTold DEF Told
<1>7. CASE Ended
  <2>1. EndedEverywhere'
    BY <1>1, <1>5, <1>7, RebuiltStays DEF Ended, EndedEverywhere
  <2> QED BY <1>1, <1>6, <2>1 DEF Upgrading, Ended, EndedEverywhere
<1>8. CASE Unmarked
  <2>1. ASSUME NEW i \in Part, NEW m \in cell'[i].may
        PROVE  m = OfDisk(AtFirst(i), "no", Built(i))
    <3>1. m \in cell[i].may /\ m \in [Disks -> Values]
      BY <1>1, <1>4 DEF Told
    <3>2. m.place = AtFirst(i) /\ m.aside = "no"
      BY <1>8, <3>1 DEF Unmarked
    <3>3. m.built = Built(i)
      <4>1. CASE i \in Pieces \cup {"READY"}
        <5>1. cell[i].now.built = "three"
          BY <1>1, <1>8, <4>1 DEF Unmarked, Shown
        <5> QED BY <1>4, <4>1, <5>1, <2>1 DEF Built
      <4>2. CASE i \notin Pieces \cup {"READY"}
        BY <1>8, <3>1, <4>2 DEF Unmarked, Built
      <4> QED BY <4>1, <4>2
    <3> QED BY <3>1, <3>2, <3>3 DEF Disks, OfDisk
  <2>2. \A i \in Part : OfDisk(AtFirst(i), "no", Built(i)) \in Shapes(i)
    <3>1. \A i \in Part : i \notin {"old", "gitignore", "history", "READY"} => AtFirst(i) = "two"
      BY <1>1, Beginnings
    <3>2. AtFirst("history") = "no" /\ AtFirst("READY") = "no"
      BY <1>1, Beginnings
    <3> QED BY <3>1, <3>2 DEF Shapes, Built, Part, Aside, Pieces
  <2>3. \A i : Shapes(i)' = Shapes(i)
    BY <1>1 DEF Shapes, AtFirst, Built
  <2>4. Shaped'
    BY <2>1, <2>2, <2>3 DEF Shaped
  <2>5. \A k \in 1..6 \cup 10..15 : ~Past(k)'
    BY <1>1 DEF Past
  <2>6. \A m \in cell'["pin"].may : m = OfDisk("two", "no", "three")
    <3>1. "pin" \in Part /\ AtFirst("pin") = "two" /\ Built("pin") = "three"
      BY <1>1, Beginnings DEF Part, Pieces, Built
    <3> QED BY <2>1, <3>1
  <2>7. PinKept'
    <3>1. \A p, a, b : OfDisk(p, a, b).built = b
      BY DEF OfDisk
    <3>2. cell'["pin"].now.built = "three"
      <4>1. cell'["pin"].now \in cell'["pin"].may
        BY <1>4 DEF Celled, Part, Pieces
      <4> QED BY <2>6, <3>1, <4>1
    <3> QED BY <1>1, <2>6, <3>2 DEF PinKept, Original, Shown
  <2>8. Halts'
    <3>1. \A i \in {"transactions", "gitignore"} : \A m \in cell'[i].may : m.place # "three"
      <4>1. \A i \in {"transactions", "gitignore"} : i \in Part /\ AtFirst(i) # "three"
        BY <1>1, Beginnings DEF Part, Aside
      <4>2. \A p, a, b : OfDisk(p, a, b).place = p
        BY DEF OfDisk
      <4> QED BY <2>1, <4>1, <4>2
    <3>2. cell'["transactions"].now.place # "three"
      BY <1>4, <3>1 DEF Celled, Part, Aside
    <3> QED BY <1>1, <3>1, <3>2 DEF Halts, Shown
  <2> QED BY <1>1, <1>6, <2>4, <2>5, <2>7, <2>8 DEF Upgrading, Underway, Turned, AsideDone, PlacedDone
<1> QED BY <1>1, <1>7, <1>8

LEMMA RemoveKeeps ==
  ASSUME Upgrading, RemoveWorkspace
  PROVE  Upgrading'
<1>1. Len(Steps) = 16
  BY DEF Steps
<1>2. Told /\ phase = "swap" /\ at > 16 /\ phase' = "idle" /\ cell' = WithoutWorkspace(cell)
      /\ UNCHANGED <<lacks, tracking, tracked>>
  BY <1>1 DEF Upgrading, RemoveWorkspace, Turn
<1>3. Ended
  BY <1>2 DEF Upgrading, Unmarked, Underway, Turned
<1>4. Rebuilt(cell')
  BY <1>2, ClearTells
<1>5. EndedEverywhere'
  BY <1>2, <1>3, <1>4, RebuiltStays DEF Ended, EndedEverywhere
<1>6. Told'
  BY <1>2, <1>4, RebuiltTold DEF Told
<1> QED BY <1>2, <1>5, <1>6 DEF Upgrading, Ended, EndedEverywhere

LEMMA KillKeeps ==
  ASSUME Upgrading, Unfaulted, KillUpgrade
  PROVE  Upgrading'
<1>1. Told /\ phase' = "idle" /\ tracked' = FALSE /\ UNCHANGED <<cell, lacks, tracking>>
  BY DEF Upgrading, KillUpgrade, Stopped, Turn
<1>2. phase # "marked" /\ ~(phase = "sync" /\ Steps[at][1] = "save")
  BY DEF KillUpgrade, StrikeBy, Unfaulted
<1>3. Steps[7][1] = "save"
  BY DEF Steps
<1>4. ~(phase = "sync" /\ at = 7)
  BY <1>2, <1>3
<1>5. Told'
  BY <1>1 DEF Told
<1>6. CASE Unmarked
  BY <1>1, <1>2, <1>5, <1>6 DEF Upgrading, Unmarked, AtFirst, Shown
<1>7. CASE Underway
  <2>1. \A k : ~Past(k)'
    BY <1>1 DEF Past
  <2>2. Shaped'
    BY <1>1, <1>7 DEF Underway, Shaped, Shapes, AtFirst
  <2>3. PinKept'
    BY <1>1, <1>4, <1>7 DEF Underway, PinKept, Saved, Original, Rewritten, Shown
  <2>4. Halts'
    BY <1>1, <1>7 DEF Underway, Halts, Made, Shown
  <2> QED BY <1>1, <1>5, <2>1, <2>2, <2>3, <2>4 DEF Upgrading, Underway, Turned, AsideDone, PlacedDone
<1>8. CASE Ended
  BY <1>1, <1>5, <1>8 DEF Upgrading, Ended, Ends, AtFirst, AtLast
<1> QED BY <1>6, <1>7, <1>8 DEF Upgrading

\* A power loss leaves one of the disks there may be.
LEMMA PowerKeeps ==
  ASSUME Upgrading, Unfaulted, LosePower
  PROVE  Upgrading'
<1>1. Told /\ phase' = "idle" /\ tracked' = FALSE /\ UNCHANGED <<lacks, tracking>> /\ phase # "marked"
  BY DEF Upgrading, LosePower, Stopped, Turn, StrikeBy, Unfaulted
<1>2. PICK shown \in LeftByPower : cell' = [i \in Part |-> Disk!Durable(shown[i])]
  BY DEF LosePower
<1>3. \A i \in Part : shown[i] \in cell[i].may
  <2> DEFINE open == {i \in Part : cell[i].may # {cell[i].now}}
             Chosen == {g \in [open -> UNION {cell[i].may : i \in open}] : \A i \in open : g[i] \in cell[i].may}
  <2>1. LeftByPower = {[i \in Part |-> IF i \in open THEN f[i] ELSE cell[i].now] : f \in Chosen}
    BY Zenon DEF LeftByPower
  <2>2. \A f \in Chosen : \A i \in open : f[i] \in cell[i].may
    OBVIOUS
  <2> HIDE DEF open, Chosen
  <2>3. PICK f \in Chosen : shown = [i \in Part |-> IF i \in open THEN f[i] ELSE cell[i].now]
    BY <2>1
  <2>4. \A i \in Part : cell[i].now \in cell[i].may
    BY <1>1 DEF Told
  <2> QED BY <2>2, <2>3, <2>4
<1>4. /\ DOMAIN cell' = Part
      /\ \A i \in Part : cell'[i].now = shown[i] /\ cell'[i].may = {shown[i]} /\ Celled(cell'[i])
  <2>1. \A i \in Part : cell'[i] = [now |-> shown[i], may |-> {shown[i]}]
    BY <1>2, Zenon DEF Disk!Durable
  <2>2. \A i \in Part : shown[i] \in [Disks -> Values]
    BY <1>1, <1>3 DEF Told
  <2>3. DOMAIN cell' = Part
    BY <1>2
  <2> QED BY <2>1, <2>2, <2>3 DEF Celled
<1>5. Rebuilt(cell')
  BY <1>3, <1>4 DEF Rebuilt
<1>6. Told'
  BY <1>1, <1>5, RebuiltTold DEF Told
<1>7. CASE Ended
  <2>1. EndedEverywhere'
    BY <1>1, <1>5, <1>7, RebuiltStays DEF Ended, EndedEverywhere
  <2> QED BY <1>1, <1>6, <2>1 DEF Upgrading, Ended, EndedEverywhere
<1>8. CASE Unmarked
  <2>1. \A i : AtFirst(i)' = AtFirst(i)
    BY <1>1 DEF AtFirst
  <2>2. "READY" \in Part
    BY DEF Part
  <2>3. Unmarked'
    BY <1>1, <1>3, <1>4, <1>8, <2>1, <2>2 DEF Unmarked
  <2> QED BY <1>6, <2>3 DEF Upgrading
<1>9. CASE Underway
  <2>1. \A k : ~Past(k)'
    BY <1>1 DEF Past
  <2>2. Shaped'
    <3>1. \A i : Shapes(i)' = Shapes(i)
      BY <1>1 DEF Shapes, AtFirst, Built
    <3> QED BY <1>3, <1>4, <1>9, <3>1 DEF Underway, Shaped
  <2>3. PinKept'
    <3>1. "pin" \in Part /\ Shapes("pin") = {OfDisk("two", "no", "three"), OfDisk("two", "two", "three"),
                                             OfDisk("three", "two", "three"), OfDisk("three", "two", "no")}
      BY DEF Shapes, Part, Pieces
    <3>2. shown["pin"] \in Shapes("pin")
      BY <1>3, <1>9, <3>1 DEF Underway, Shaped
    <3>3. cell'["pin"].now = shown["pin"] /\ cell'["pin"].may = {shown["pin"]}
      BY <1>4, <3>1
    <3> QED BY <1>1, <3>1, <3>2, <3>3 DEF PinKept, Saved, Original, Rewritten, Shown, OfDisk
  <2>4. Halts'
    <3>1. "transactions" \in Part /\ "gitignore" \in Part
      BY DEF Part, Aside
    <3> QED BY <1>1, <1>3, <1>4, <1>9, <3>1 DEF Underway, Halts, Made, Shown
  <2> QED BY <1>1, <1>6, <2>1, <2>2, <2>3, <2>4 DEF Upgrading, Underway, Turned, AsideDone, PlacedDone
<1> QED BY <1>7, <1>8, <1>9 DEF Upgrading

LEMMA StepsAre ==
  /\ Len(Steps) = 16
  /\ Steps[1] = <<"aside", "old">> /\ Steps[2] = <<"aside", "objects">> /\ Steps[3] = <<"aside", "schema">>
  /\ Steps[4] = <<"aside", "config">> /\ Steps[5] = <<"aside", "transactions">>
  /\ Steps[6] = <<"aside", "gitignore">>
  /\ Steps[7] = <<"save", "pin">> /\ Steps[8] = <<"rewrite", "pin">> /\ Steps[9] = <<"drop", "pin">>
  /\ Steps[10] = <<"move", "objects">> /\ Steps[11] = <<"move", "history">>
  /\ Steps[12] = <<"move", "schema">> /\ Steps[13] = <<"move", "config">>
  /\ Steps[14] = <<"create", "transactions">> /\ Steps[15] = <<"write", "gitignore">>
  /\ Steps[16] = <<"write", "format">>
BY DEF Steps

\* With at most the parts of format 2 that may be missing, each part's shapes.
LEMMA ShapesAre ==
  ASSUME Told
  PROVE  /\ \A i \in {"READY", "format"} : Shapes(i) = {OfDisk(AtFirst(i), "no", Built(i))}
         /\ Shapes("old") = {OfDisk(AtFirst("old"), "no", "no"), OfDisk("no", AtFirst("old"), "no")}
         /\ Shapes("transactions") = {OfDisk("two", "no", "no"), OfDisk("no", "two", "no"),
                                      OfDisk("three", "two", "no")}
         /\ Shapes("gitignore") = {OfDisk(AtFirst("gitignore"), "no", "no"),
                                   OfDisk("no", AtFirst("gitignore"), "no"),
                                   OfDisk("three", AtFirst("gitignore"), "no")}
         /\ \A i \in {"objects", "schema", "config"} :
              Shapes(i) = {OfDisk("two", "no", "three"), OfDisk("no", "two", "three"),
                           OfDisk("three", "two", "no")}
         /\ Shapes("history") = {OfDisk("no", "no", "three"), OfDisk("three", "no", "no")}
         /\ Shapes("pin") = {OfDisk("two", "no", "three"), OfDisk("two", "two", "three"),
                             OfDisk("three", "two", "three"), OfDisk("three", "two", "no")}
<1>1. AtFirst("transactions") = "two"
  BY Beginnings DEF Part, Aside
<1> QED BY <1>1 DEF Shapes

LEMMA Fields == \A p, a, b : OfDisk(p, a, b).place = p /\ OfDisk(p, a, b).aside = a /\ OfDisk(p, a, b).built = b
BY DEF OfDisk

LEMMA NamesTell ==
  \A v, w : /\ v \in {"no", "two", "three"} /\ w \in {"no", "two", "three"} => (NameOf(v) = NameOf(w) <=> v = w)
BY DEF NameOf

\* The step's names are on the disk as they are in the cache.
LEMMA StepSynced ==
  ASSUME Told, SyncStep, at \in 1..16
  PROVE  LET d == IF at = 7 THEN "aside" ELSE "place" IN
         /\ \A i \in Part : /\ cell'[i].now = cell[i].now /\ cell'[i].may \subseteq cell[i].may
                            /\ DirOf(i, d) = DirOf(Steps[at][2], d) =>
                                 \A m \in cell'[i].may : NameOf(m[d]) = NameOf(cell[i].now[d])
         /\ tracking' = tracking /\ tracked' = FALSE /\ lacks' = lacks /\ Told'
         /\ phase' = "swap" /\ at' = at + 1
<1> DEFINE task == Steps[at][1]
           own == Steps[at][2]
           where == CASE task = "aside" -> {"place", "aside"}
                      [] task = "move" -> {"built", "place"}
                      [] task = "save" -> {"aside"}
                      [] OTHER -> {"place"}
           dirs == {DirOf(own, d) : d \in where}
           d == IF at = 7 THEN "aside" ELSE "place"
<1>1. SyncDirs(dirs)
  BY Zenon DEF SyncStep
<1>2. tracking' = tracking /\ tracked' = FALSE /\ lacks' = lacks /\ phase' = "swap" /\ at' = at + 1
  BY DEF SyncStep, Told, Turn
<1>3. task = IF at \in 1..6 THEN "aside" ELSE IF at = 7 THEN "save" ELSE IF at = 8 THEN "rewrite"
             ELSE IF at = 9 THEN "drop" ELSE IF at \in 10..13 THEN "move"
             ELSE IF at = 14 THEN "create" ELSE "write"
  BY StepsAre
<1> HIDE DEF task, own
<1>4. d \in where /\ d \in Disks
  BY <1>3 DEF Disks
<1> HIDE DEF where, d
<1>5. DirOf(own, d) \in dirs
  BY <1>4
<1> HIDE DEF dirs
<1>6. \A i \in Part : /\ cell'[i].now = cell[i].now /\ cell'[i].may \subseteq cell[i].may
                      /\ DirOf(i, d) = DirOf(own, d) =>
                           \A m \in cell'[i].may : NameOf(m[d]) = NameOf(cell[i].now[d])
  <2>1. \A i \in Part : /\ cell'[i].now = cell[i].now /\ cell'[i].may \subseteq cell[i].may
                        /\ \A e \in Disks : DirOf(i, e) \in dirs =>
                             \A m \in cell'[i].may : NameOf(m[e]) = NameOf(cell[i].now[e])
    BY <1>1, SyncTells
  <2> QED BY <1>4, <1>5, <2>1, Zenon
<1>7. Told'
  BY <1>1, <1>2, SyncTells DEF Told
<1> QED BY <1>2, <1>6, <1>7 DEF d, own

\* Most of what is told of an upgrade under way outlasts a sync.
LEMMA SyncedStays ==
  ASSUME Told, Underway, phase = "sync", at \in 1..14, SyncStep
  PROVE  Told' /\ Turned' /\ Shaped' /\ AsideDone' /\ PlacedDone'
<1>1. at \in 1..16 /\ at \in Nat
  OBVIOUS
<1>2. /\ \A i \in Part : cell'[i].now = cell[i].now /\ cell'[i].may \subseteq cell[i].may
      /\ lacks' = lacks /\ Told' /\ phase' = "swap" /\ at' = at + 1
  BY <1>1, StepSynced
<1>3. Shaped'
  <2>1. \A i : Shapes(i)' = Shapes(i)
    BY <1>2 DEF Shapes, AtFirst, Built
  <2> QED BY <1>2, <2>1 DEF Underway, Shaped
<1>4. \A k \in 1..16 : Past(k)' = Past(k)
  BY <1>2 DEF Past
<1>5. \A k \in 1..16 : Steps[k][2] \in Part
  BY StepsAre DEF Part, Aside, Pieces
<1>6. AsideDone' /\ PlacedDone'
  <2>1. \A k \in 1..6 \cup 10..15 : Shown(Steps[k][2])' = Shown(Steps[k][2])
    BY <1>2, <1>5 DEF Shown
  <2> QED BY <1>4, <2>1 DEF Underway, AsideDone, PlacedDone
<1> QED BY <1>1, <1>2, <1>3, <1>6 DEF Turned

LEMMA SyncedPin ==
  ASSUME Told, Underway, phase = "sync", at \in 1..14, SyncStep
  PROVE  PinKept'
<1>1. at \in 1..16 /\ at \in Nat /\ "pin" \in Part
  BY DEF Part, Pieces
<1>2. /\ cell'["pin"].now = cell["pin"].now /\ cell'["pin"].may \subseteq cell["pin"].may
      /\ phase' = "swap" /\ at' = at + 1
  BY <1>1, StepSynced
<1>3. \A m \in cell["pin"].may : m \in Shapes("pin")
  BY <1>1 DEF Underway, Shaped
<1>4. cell["pin"].now \in cell["pin"].may
  BY <1>1 DEF Told
<1>5. ASSUME at = 7 PROVE Saved'
  <2>1. Steps[7][2] = "pin"
    BY StepsAre
  <2>2. \A m \in cell'["pin"].may : NameOf(m["aside"]) = NameOf(cell["pin"].now["aside"])
    BY <1>1, <1>5, <2>1, StepSynced
  <2>3. cell["pin"].now.aside = "two"
    BY <1>5 DEF Underway, PinKept, Shown
  <2>4. \A m \in cell'["pin"].may : m.aside \in {"no", "two"}
    BY <1>2, <1>3, ShapesAre, Fields
  <2> QED BY <2>2, <2>3, <2>4, NamesTell DEF Saved
<1>6. ASSUME at = 8 PROVE Rewritten'
  <2>1. Steps[8][2] = "pin"
    BY StepsAre
  <2>2. \A m \in cell'["pin"].may : NameOf(m["place"]) = NameOf(cell["pin"].now["place"])
    BY <1>1, <1>6, <2>1, StepSynced
  <2>3. cell["pin"].now.place = "three"
    BY <1>6 DEF Underway, PinKept, Shown
  <2>4. \A m \in cell'["pin"].may : m.place \in {"three", "two"}
    BY <1>2, <1>3, ShapesAre, Fields
  <2> QED BY <2>2, <2>3, <2>4, NamesTell DEF Rewritten
<1>7. (Saved => Saved') /\ (Original => Original') /\ (Rewritten => Rewritten')
  BY <1>2 DEF Saved, Original, Rewritten
<1>8. at' > 7 => Saved'
  BY <1>1, <1>2, <1>5, <1>7 DEF Underway, PinKept
<1>9. at' > 8 => Rewritten'
  BY <1>1, <1>2, <1>6, <1>7 DEF Underway, PinKept
<1>10. Saved' \/ Original'
  BY <1>5, <1>7 DEF Underway, PinKept
<1>11. Shown("pin")'.built = "no" => Rewritten'
  BY <1>2, <1>7 DEF Underway, PinKept, Shown
<1> QED BY <1>2, <1>8, <1>9, <1>10, <1>11 DEF PinKept

LEMMA SyncedHalts ==
  ASSUME Told, Underway, phase = "sync", at \in 1..14, SyncStep
  PROVE  Halts'
<1>1. at \in 1..16 /\ at \in Nat /\ "transactions" \in Part /\ "gitignore" \in Part
  BY DEF Part, Aside
<1>2. /\ \A i \in {"transactions", "gitignore"} : cell'[i].now = cell[i].now /\ cell'[i].may \subseteq cell[i].may
      /\ phase' = "swap" /\ at' = at + 1
  BY <1>1, StepSynced
<1>3. \A m \in cell["transactions"].may : m \in Shapes("transactions")
  BY <1>1 DEF Underway, Shaped
<1>4. ASSUME at = 14 PROVE Made'
  <2>1. Steps[14][2] = "transactions" /\ Past(14)
    BY <1>4, StepsAre DEF Past
  <2>2. \A m \in cell'["transactions"].may : NameOf(m["place"]) = NameOf(cell["transactions"].now["place"])
    BY <1>1, <1>4, <2>1, StepSynced
  <2>3. cell["transactions"].now.place = "three"
    BY <2>1 DEF Underway, PlacedDone, Shown
  <2>4. \A m \in cell'["transactions"].may : m.place \in {"no", "two", "three"}
    BY <1>2, <1>3, ShapesAre, Fields
  <2> QED BY <2>2, <2>3, <2>4, NamesTell DEF Made
<1>5. Made => Made'
  BY <1>2 DEF Made
<1>6. (\E m \in cell'["gitignore"].may : m.place = "three") => Made'
  BY <1>2, <1>5 DEF Underway, Halts
<1>7. Shown("transactions")'.place = "three" => at' \in 1..5 \cup {15}
  BY <1>1, <1>2 DEF Underway, Halts, Shown
<1> QED BY <1>1, <1>2, <1>4, <1>6, <1>7 DEF Halts

\* The last sync before the format is written finds all in place on the disk.
LEMMA SyncedLast ==
  ASSUME Told, Underway, phase = "sync", at = 15, SyncStep
  PROVE  EndedEverywhere'
<1>1. at \in 1..16 /\ Steps[15][2] = "gitignore"
  BY StepsAre
<1>2. /\ \A i \in Part : cell'[i].now = cell[i].now /\ cell'[i].may \subseteq cell[i].may
      /\ \A i \in Part : DirOf(i, "place") = DirOf("gitignore", "place") =>
            \A m \in cell'[i].may : NameOf(m["place"]) = NameOf(cell[i].now["place"])
      /\ lacks' = lacks /\ tracking' = tracking
  BY <1>1, StepSynced
<1>3. \A i \in Part : \A m \in cell'[i].may : m \in Shapes(i)
  BY <1>2 DEF Underway, Shaped
<1>4. \A i : AtFirst(i)' = AtFirst(i) /\ AtLast(i)' = AtLast(i)
  BY <1>2 DEF AtFirst, AtLast
<1>5. \A i \in Part : i # "pin" => DirOf(i, "place") = DirOf("gitignore", "place")
  BY DEF DirOf
<1>6. \A k \in 1..15 : Past(k)
  BY DEF Past
<1>7. /\ Shown("old").place # "two"
      /\ \A i \in {"objects", "history", "schema", "config", "transactions", "gitignore"} :
           Shown(i).place = "three"
  BY <1>6, StepsAre DEF Underway, AsideDone, PlacedDone
<1>8. \A i \in Part : cell[i].now \in Shapes(i)
  BY DEF Told, Underway, Shaped
<1>9. ASSUME NEW i \in Part \ {"format"}, NEW m \in cell'[i].may PROVE Ends(i, m)
  <2>1. m \in Shapes(i) /\ AtFirst(i) \in {"no", "two"}
        /\ AtLast(i) = IF i \in {"old", "READY"} THEN "no" ELSE "three"
    BY <1>3, Beginnings
  <2>2. CASE i = "pin"
    <3>1. m.aside = "two" /\ m.place = "three"
      BY <1>2, <2>2, <1>9 DEF Underway, PinKept, Saved, Rewritten
    <3>2. AtFirst("pin") = "two"
      BY <2>2, Beginnings
    <3> QED BY <2>1, <2>2, <3>1, <3>2 DEF Ends
  <2>3. CASE i = "READY"
    <3>1. m = OfDisk("no", "no", "three")
      BY <2>1, <2>3, ShapesAre, Beginnings DEF Built
    <3> QED BY <2>1, <2>3, <3>1, Fields DEF Ends, Aside
  <2>4. CASE i = "old"
    <3>1. NameOf(m.place) = NameOf(Shown(i).place) /\ Shown(i).place # "two" /\ Shown(i) \in Shapes(i)
      BY <1>2, <1>5, <1>7, <1>8, <2>4 DEF Shown
    <3>2. m.place = Shown(i).place
      BY <2>1, <2>4, <3>1, ShapesAre, Fields, NamesTell
    <3> QED BY <2>1, <2>4, <3>1, <3>2, ShapesAre, Fields DEF Ends, Aside
  <2>5. CASE i \in {"objects", "schema", "config", "transactions", "gitignore", "history"}
    <3>1. NameOf(m.place) = NameOf("three")
      BY <1>2, <1>5, <1>7, <2>5 DEF Shown
    <3>2. m.place = "three"
      BY <2>1, <2>5, <3>1, ShapesAre, Fields, NamesTell
    <3>3. \A j \in {"objects", "schema", "config", "transactions"} \cap Part : AtFirst(j) = "two"
      BY Beginnings
    <3> QED BY <2>1, <2>5, <3>2, <3>3, ShapesAre, Fields DEF Ends, Aside
  <2> QED BY <2>2, <2>3, <2>4, <2>5 DEF Part, Aside, Pieces
<1> QED BY <1>4, <1>9 DEF EndedEverywhere, Ends

LEMMA SyncStepKeeps ==
  ASSUME Upgrading, SyncStep
  PROVE  Upgrading'
<1>1. Told /\ phase = "sync" /\ (Underway \/ Ended)
  BY DEF Upgrading, SyncStep, Unmarked
<1>2. CASE Ended
  <2>1. at = 16 /\ at \in 1..16
    BY <1>1, <1>2 DEF Ended
  <2>2. /\ \A i \in Part : cell'[i].may \subseteq cell[i].may
        /\ tracking' = tracking /\ lacks' = lacks /\ Told' /\ phase' = "swap" /\ at' = 17
    BY <1>1, <2>1, StepSynced
  <2>3. \A i \in Part \ {"format"} : \A m \in cell'[i].may : Ends(i, m)
    BY <1>2, <2>2 DEF Ended
  <2> QED BY <2>2, <2>3 DEF Upgrading, Ended, Ends, AtFirst, AtLast
<1>3. CASE Underway
  <2>1. at \in 1..14 \/ at = 15
    BY <1>1, <1>3 DEF Underway, Turned
  <2>2. CASE at \in 1..14
    BY <1>1, <1>3, <2>2, SyncedStays, SyncedPin, SyncedHalts DEF Upgrading, Underway
  <2>3. CASE at = 15
    <3>1. at \in 1..16
      BY <2>3
    <3>2. Told' /\ phase' = "swap" /\ at' = 16
      BY <1>1, <2>3, <3>1, StepSynced
    <3>3. EndedEverywhere'
      BY <1>1, <1>3, <2>3, SyncedLast
    <3> QED BY <3>2, <3>3 DEF Upgrading, Ended, EndedEverywhere
  <2> QED BY <2>1, <2>2, <2>3
<1> QED BY <1>1, <1>2, <1>3

\* Which step a task is.
LEMMA StepOf ==
  ASSUME at \in 1..17, NEW task, NEW i, Is(task, i)
  PROVE  /\ phase = "swap" /\ at \in 1..16 /\ i = Steps[at][2]
         /\ task = "aside" => at \in 1..6
         /\ task = "save" => at = 7
         /\ task = "rewrite" => at = 8
         /\ task = "drop" => at = 9
         /\ task = "move" => at \in 10..13
         /\ task = "create" => at = 14
         /\ task = "write" => at \in {15, 16}
<1>1. phase = "swap" /\ at \in 1..16 /\ Steps[at] = <<task, i>>
  BY StepsAre DEF Is
<1>2. Steps[at][1] = task /\ Steps[at][2] = i
  BY <1>1
<1>3. Steps[at][1] = IF at \in 1..6 THEN "aside" ELSE IF at = 7 THEN "save" ELSE IF at = 8 THEN "rewrite"
             ELSE IF at = 9 THEN "drop" ELSE IF at \in 10..13 THEN "move"
             ELSE IF at = 14 THEN "create" ELSE "write"
  BY <1>1, StepsAre
<1> HIDE DEF Is
<1> QED BY <1>1, <1>2, <1>3

LEMMA OnwardKeeps ==
  ASSUME Told, Underway, phase = "swap", at \in 1..13, Onward, UNCHANGED <<lacks, tracking, tracked>>,
         at \in 1..6 => Shown(Steps[at][2]).place # "two",
         at = 5 => Shown("transactions").place # "three",
         at = 7 => Saved, at = 8 => Rewritten, at # 9,
         at \in 10..13 => Shown(Steps[at][2]).place = "three"
  PROVE  Upgrading'
<1>1. phase' = "swap" /\ at' = at + 1 /\ cell' = cell
  BY DEF Onward, Turn
<1>2. Told'
  BY <1>1 DEF Told
<1>3. Shaped' /\ Turned'
  BY <1>1 DEF Underway, Shaped, Shapes, AtFirst, Turned
<1>4. \A k \in 1..16 : Past(k)' => Past(k) \/ k = at
  BY <1>1 DEF Past
<1>5. AsideDone' /\ PlacedDone'
  <2>1. \A k \in 1..16 : Shown(Steps[k][2])' = Shown(Steps[k][2])
    BY <1>1 DEF Shown
  <2>2. AsideDone /\ PlacedDone
    BY DEF Underway
  <2>3. AsideDone'
    BY <1>4, <2>1, <2>2 DEF AsideDone
  <2>4. PlacedDone'
    BY <1>4, <2>1, <2>2 DEF PlacedDone
  <2> QED BY <2>3, <2>4
<1>6. PinKept'
  BY <1>1 DEF Underway, PinKept, Saved, Original, Rewritten, Shown
<1>7. Halts'
  BY <1>1 DEF Underway, Halts, Made, Shown
<1> QED BY <1>2, <1>3, <1>5, <1>6, <1>7 DEF Upgrading, Underway

LEMMA StuckKeeps ==
  ASSUME Upgrading, Turn("stuck", 0), UNCHANGED <<cell, lacks, tracking, tracked>>, phase = "swap"
  PROVE  Upgrading'
<1>1. Told' /\ phase' = "stuck"
  BY DEF Turn, Upgrading, Told
<1>2. CASE Underway
  <2>1. \A k : ~Past(k)'
    BY <1>1 DEF Past
  <2>2. Shaped'
    BY <1>2 DEF Underway, Shaped, Shapes, AtFirst
  <2>3. PinKept'
    BY <1>1, <1>2 DEF Underway, PinKept, Saved, Original, Rewritten, Shown
  <2>4. Halts'
    BY <1>1, <1>2 DEF Underway, Halts, Made, Shown
  <2> QED BY <1>1, <2>1, <2>2, <2>3, <2>4 DEF Upgrading, Underway, Turned, AsideDone, PlacedDone
<1>3. CASE Ended
  BY <1>1, <1>3 DEF Upgrading, Ended, Ends, AtFirst, AtLast
<1> QED BY <1>2, <1>3 DEF Upgrading, Unmarked

LEMMA ChangedTold ==
  ASSUME Told, NEW i \in Part, NEW c, Celled(c), cell' = [cell EXCEPT ![i] = c],
         UNCHANGED <<lacks, tracking, tracked>>
  PROVE  Told' /\ cell'[i] = c /\ \A j \in Part : j # i => cell'[j] = cell[j]
<1>1. DOMAIN cell' = Part /\ cell'[i] = c /\ \A j \in Part : j # i => cell'[j] = cell[j]
  BY DEF Told
<1>2. \A j \in Part : Celled(cell'[j])
  BY <1>1 DEF Told, Celled
<1> QED BY <1>1, <1>2, ToldCells DEF Told

\* A part is changed, and a sync is to come.
LEMMA ChangedKeeps ==
  ASSUME Told, Underway, phase = "swap", at \in 1..6 \cup 10..15, NEW i, i = Steps[at][2], NEW c,
         Changed(i, c), UNCHANGED <<lacks, tracking, tracked>>, Celled(c), c.may \subseteq Shapes(i),
         c.now.place # "two", at \in 10..15 => c.now.place = "three",
         at = 5 => c.now.place # "three",
         i = "transactions" => Shown("transactions").place # "three",
         i = "gitignore" /\ at # 15 => \A m \in c.may : m.place = "three" => m \in cell["gitignore"].may
  PROVE  Upgrading'
<1>1. i \in Aside \cup {"history"} /\ i \in Part /\ i # "pin" /\ (at = 5 => i = "transactions")
      /\ (i = "transactions" => at \in {5, 14}) /\ (at = 15 => i = "gitignore")
  BY StepsAre DEF Part, Aside, Pieces
<1>2. phase' = "sync" /\ at' = at /\ cell' = [cell EXCEPT ![i] = c]
  BY DEF Changed, Turn
<1>3. Told' /\ cell'[i] = c /\ \A j \in Part : j # i => cell'[j] = cell[j]
  BY <1>1, <1>2, ChangedTold
<1>4. Shaped' /\ Turned'
  <2>1. \A j : Shapes(j)' = Shapes(j)
    BY DEF Shapes, AtFirst, Built
  <2>2. \A j \in Part : cell'[j].may \subseteq Shapes(j)
    BY <1>3 DEF Underway, Shaped
  <2> QED BY <1>2, <2>1, <2>2 DEF Shaped, Turned
<1>5. \A k \in 1..16 : Past(k)' => Past(k) \/ k = at
  BY <1>2 DEF Past
<1>6. \A k \in 1..16 : Steps[k][2] \in Part
  BY StepsAre DEF Part, Aside, Pieces
<1>7. \A k \in 1..16 : Steps[k][2] # i => Shown(Steps[k][2])' = Shown(Steps[k][2])
  BY <1>3, <1>6 DEF Shown
<1>8. Shown(i)' = c.now
  BY <1>3 DEF Shown
<1>9. AsideDone'
  <2> SUFFICES ASSUME NEW k \in 1..6, Past(k)' PROVE Shown(Steps[k][2])'.place # "two"
    BY DEF AsideDone
  <2>1. CASE Steps[k][2] = i
    BY <1>8, <2>1
  <2>2. CASE Steps[k][2] # i
    BY <1>5, <1>7, <2>2 DEF Underway, AsideDone
  <2> QED BY <2>1, <2>2
<1>10. PlacedDone'
  <2> SUFFICES ASSUME NEW k \in 10..15, Past(k)' PROVE Shown(Steps[k][2])'.place = "three"
    BY DEF PlacedDone
  <2>1. at \in 10..15
    BY <1>2 DEF Past
  <2>2. CASE Steps[k][2] = i
    BY <1>8, <2>1, <2>2
  <2>3. CASE Steps[k][2] # i
    BY <1>5, <1>7, <2>3 DEF Underway, PlacedDone
  <2> QED BY <2>2, <2>3
<1>11. PinKept'
  <2>1. cell'["pin"] = cell["pin"]
    BY <1>1, <1>3 DEF Part, Pieces
  <2> QED BY <1>1, <1>2, <2>1 DEF Underway, PinKept, Saved, Original, Rewritten, Shown
<1>12. Halts'
  <2>1. "transactions" \in Part /\ "gitignore" \in Part
    BY DEF Part, Aside
  <2>2. CASE i = "transactions"
    <3>1. cell'["gitignore"] = cell["gitignore"]
      BY <1>3, <2>1, <2>2
    <3>2. cell["transactions"].now \in cell["transactions"].may
      BY <2>1 DEF Told
    <3>3. ~Made
      BY <2>2, <3>2 DEF Made, Shown
    <3>4. ~ \E m \in cell'["gitignore"].may : m.place = "three"
      BY <3>1, <3>3 DEF Underway, Halts
    <3>5. at = 14 \/ (at = 5 /\ Shown("transactions")'.place # "three")
      BY <1>1, <1>8, <2>2
    <3> QED BY <1>2, <3>4, <3>5 DEF Halts
  <2>3. CASE i # "transactions"
    <3>1. cell'["transactions"] = cell["transactions"]
      BY <1>3, <2>1, <2>3
    <3>2. Made' = Made /\ Shown("transactions")' = Shown("transactions")
      BY <3>1 DEF Made, Shown
    <3>3. (\E m \in cell'["gitignore"].may : m.place = "three") => Made
      <4>1. CASE i = "gitignore"
        <5>1. CASE at = 15
          BY <5>1 DEF Underway, Halts
        <5>2. CASE at # 15
          BY <1>3, <4>1, <5>2 DEF Underway, Halts
        <5> QED BY <5>1, <5>2
      <4>2. CASE i # "gitignore"
        BY <1>3, <2>1, <4>2 DEF Underway, Halts
      <4> QED BY <4>1, <4>2
    <3>4. at # 5
      BY <1>1, <2>3
    <3> QED BY <1>2, <3>2, <3>3, <3>4 DEF Underway, Halts
  <2> QED BY <2>2, <2>3
<1> QED BY <1>3, <1>4, <1>9, <1>10, <1>11, <1>12 DEF Upgrading, Underway

LEMMA RenameCelled ==
  ASSUME NEW c, Celled(c), NEW from \in Disks, NEW to \in Disks, from # to
  PROVE  LET s == RenamePart(c, from, to) IN
         /\ Celled(s) /\ s.now[to] = c.now[from] /\ s.now[from] = "no"
         /\ \A m \in s.may : m \in c.may \/
              \E n \in c.may : /\ NameOf(n[from]) = NameOf(c.now[from]) /\ NameOf(n[to]) = NameOf(c.now[to])
                               /\ m = [n EXCEPT ![to] = n[from], ![from] = "no"]
<1> DEFINE s == RenamePart(c, from, to)
<1>1. s = [now |-> s.now, may |-> s.may]
  BY DEF RenamePart, Disk!Issue
<1>2. c.now \in c.may /\ c.may \subseteq [Disks -> Values]
  BY DEF Celled
<1>3. /\ s.now = [c.now EXCEPT ![to] = c.now[from], ![from] = "no"]
      /\ s.now \in s.may /\ s.may \subseteq [Disks -> Values]
      /\ \A m \in s.may : m \in c.may \/
              \E n \in c.may : /\ NameOf(n[from]) = NameOf(c.now[from]) /\ NameOf(n[to]) = NameOf(c.now[to])
                               /\ m = [n EXCEPT ![to] = n[from], ![from] = "no"]
  BY <1>2, RenameTells
<1> HIDE DEF s
<1>4. s.now[to] = c.now[from] /\ s.now[from] = "no"
  BY <1>2, <1>3
<1> QED BY <1>1, <1>3, <1>4 DEF Celled, s

LEMMA SetCelled ==
  ASSUME NEW c, Celled(c), NEW d \in Disks, NEW v \in Values
  PROVE  LET s == SetPart(c, d, v) IN
         /\ Celled(s) /\ s.now[d] = v /\ \A e \in Disks : e # d => s.now[e] = c.now[e]
         /\ \A m \in s.may : m \in c.may \/
              \E n \in c.may : NameOf(n[d]) = NameOf(c.now[d]) /\ m = [n EXCEPT ![d] = v]
<1> DEFINE s == SetPart(c, d, v)
<1>1. s = [now |-> s.now, may |-> s.may]
  BY DEF SetPart, Disk!Issue
<1>2. c.now \in c.may /\ c.may \subseteq [Disks -> Values]
  BY DEF Celled
<1>3. /\ s.now = [c.now EXCEPT ![d] = v] /\ s.now \in s.may /\ s.may \subseteq [Disks -> Values]
      /\ \A m \in s.may : m \in c.may \/
           \E n \in c.may : NameOf(n[d]) = NameOf(c.now[d]) /\ m = [n EXCEPT ![d] = v]
  BY <1>2, SetTells
<1> HIDE DEF s
<1>4. s.now[d] = v /\ \A e \in Disks : e # d => s.now[e] = c.now[e]
  BY <1>2, <1>3
<1> QED BY <1>1, <1>3, <1>4 DEF Celled, s

\* What is moved is as it was, elsewhere.
LEMMA Moves ==
  /\ \A p, a, b : [OfDisk(p, a, b) EXCEPT !["aside"] = p, !["place"] = "no"] = OfDisk("no", p, b)
  /\ \A p, a, b : [OfDisk(p, a, b) EXCEPT !["place"] = b, !["built"] = "no"] = OfDisk(b, a, "no")
  /\ \A p, a, b, v : [OfDisk(p, a, b) EXCEPT !["place"] = v] = OfDisk(v, a, b)
  /\ \A p, a, b, v : [OfDisk(p, a, b) EXCEPT !["aside"] = v] = OfDisk(p, v, b)
  /\ \A p, a, b, v : [OfDisk(p, a, b) EXCEPT !["built"] = v] = OfDisk(p, a, v)
BY DEF OfDisk

LEMMA SetAsideKeeps ==
  ASSUME Upgrading, NEW i \in Aside, SetAside(i), UNCHANGED <<lacks, tracking, tracked>>
  PROVE  Upgrading'
<1>1. Told /\ phase = "swap" /\ (Underway \/ Ended)
  BY DEF Upgrading, SetAside, Is, Unmarked
<1>2. at \in 1..17
  BY <1>1 DEF Underway, Turned, Ended
<1>3. at \in 1..6 /\ i = Steps[at][2] /\ i \in Part
  BY <1>2, StepOf DEF SetAside, Part
<1>4. cell[i].now \in cell[i].may /\ Celled(cell[i])
  BY <1>1, <1>3 DEF Told, Celled
<1>5. /\ i = "old" <=> at = 1
      /\ i = "transactions" <=> at = 5
      /\ i = "gitignore" <=> at = 6
      /\ i \in {"objects", "schema", "config"} <=> at \in 2..4
  BY <1>3, StepsAre
<1>6. ASSUME Shown(i).place # "no", Shown(i).aside # "no", MoveOnce(i, "place", "aside") PROVE Upgrading'
  <2>1. Turn("stuck", 0) /\ UNCHANGED cell
    BY <1>6 DEF MoveOnce
  <2> QED BY <1>1, <2>1, StuckKeeps
<1>7. CASE Ended
  <2>1. at \in 1..5 /\ Ends(i, cell[i].now)
    BY <1>1, <1>3, <1>4, <1>7 DEF Ended, Aside
  <2>2. Shown(i).place = AtLast(i) /\ Shown(i).aside = AtFirst(i)
    BY <2>1 DEF Ends, Shown
  <2>3. CASE at = 5
    <3>1. i = "transactions" /\ Shown(i).place # "no" /\ Shown(i).aside # "no"
      BY <1>1, <1>3, <1>5, <2>2, <2>3, Beginnings
    <3>2. MoveOnce(i, "place", "aside")
      BY <3>1 DEF SetAside
    <3> QED BY <1>6, <3>1, <3>2
  <2>4. CASE at \in 1..4
    <3>1. Onward
      <4>1. CASE at = 1
        <5>1. i = "old" /\ Shown(i)["place"] = "no"
          BY <1>1, <1>3, <1>5, <2>2, <4>1, Beginnings
        <5> QED BY <5>1 DEF SetAside, MoveOnce
      <4>2. CASE at \in 2..4
        <5>1. i \in {"objects", "schema", "config"} /\ Shown(i).aside # "no"
          BY <1>1, <1>3, <1>5, <2>2, <4>2, Beginnings
        <5> QED BY <5>1 DEF SetAside
      <4> QED BY <2>4, <4>1, <4>2
    <3>2. cell' = cell /\ phase' = "swap" /\ at' \in 1..5
      BY <2>4, <3>1 DEF Onward, Turn
    <3>3. Told'
      BY <1>1, <3>2 DEF Told
    <3> QED BY <1>7, <3>2, <3>3 DEF Upgrading, Ended, Ends, AtFirst, AtLast
  <2> QED BY <2>1, <2>3, <2>4
<1>8. CASE Underway
  <2>1. \A n \in cell[i].may : n \in Shapes(i)
    BY <1>3, <1>8 DEF Underway, Shaped
  <2>2. at \in 1..13
    BY <1>3
  <2>3. ASSUME Onward, Shown(i).place # "two", at = 5 => Shown(i).place # "three" PROVE Upgrading'
    BY <1>1, <1>3, <1>5, <1>8, <2>2, <2>3, OnwardKeeps
  <2>4. AtFirst(i) \in {"no", "two"}
    BY <1>1, <1>3, Beginnings
  <2>5. CASE i \in {"objects", "schema", "config", "gitignore"} /\ Shown(i).aside # "no"
    <3>1. Onward
      BY <2>5 DEF SetAside
    <3>2. Shown(i).place # "two"
      BY <1>1, <1>4, <2>1, <2>4, <2>5, ShapesAre, Fields DEF Shown
    <3> QED BY <1>5, <2>3, <2>5, <3>1, <3>2
  <2>6. CASE ~(i \in {"objects", "schema", "config", "gitignore"} /\ Shown(i).aside # "no")
    <3>1. MoveOnce(i, "place", "aside")
      BY <2>6 DEF SetAside
    <3>2. CASE Shown(i).place = "no"
      BY <2>3, <3>1, <3>2 DEF MoveOnce
    <3>3. CASE Shown(i).place # "no" /\ Shown(i).aside # "no"
      BY <1>6, <3>1, <3>3
    <3>4. CASE Shown(i).place # "no" /\ Shown(i).aside = "no"
      <4> DEFINE s == RenamePart(cell[i], "place", "aside")
      <4>1. Changed(i, s)
        BY <3>1, <3>4 DEF MoveOnce
      <4>2. Shown(i) \in Shapes(i)
        BY <1>4, <2>1 DEF Shown
      <4>3. Shown(i).place = "two"
        <5>1. i = "gitignore" => Shown(i).place # "three"
          <6> SUFFICES ASSUME i = "gitignore", Shown(i).place = "three" PROVE FALSE
            OBVIOUS
          <6>1. Made
            BY <1>4, <1>8 DEF Underway, Halts, Shown
          <6>2. Shown("transactions").place = "three"
            BY <1>1, <6>1 DEF Told, Made, Shown, Part, Aside
          <6> QED BY <1>1, <1>5, <1>8, <6>2 DEF Underway, Halts
        <5>2. CASE i = "old"
          BY <1>1, <2>4, <3>4, <4>2, <5>2, ShapesAre, Fields
        <5>3. CASE i = "gitignore"
          BY <1>1, <2>4, <3>4, <4>2, <5>1, <5>3, ShapesAre, Fields
        <5>4. CASE i = "transactions"
          BY <1>1, <3>4, <4>2, <5>4, ShapesAre, Fields
        <5>5. CASE i \in {"objects", "schema", "config"}
          BY <1>1, <3>4, <4>2, <5>5, ShapesAre, Fields
        <5> QED BY <5>2, <5>3, <5>4, <5>5 DEF Aside
      <4>4. /\ Celled(s) /\ s.now["place"] = "no"
            /\ \A m \in s.may : m \in cell[i].may \/
                 \E n \in cell[i].may : /\ NameOf(n["place"]) = NameOf(Shown(i)["place"])
                                        /\ NameOf(n["aside"]) = NameOf(Shown(i)["aside"])
                                        /\ m = [n EXCEPT !["aside"] = n["place"], !["place"] = "no"]
        <5>1. "place" \in Disks /\ "aside" \in Disks
          BY DEF Disks
        <5> QED BY <1>4, <5>1, RenameCelled DEF Shown
      <4> HIDE DEF s
      <4>5. ASSUME NEW n \in cell[i].may, NameOf(n["place"]) = NameOf(Shown(i)["place"]),
                   NameOf(n["aside"]) = NameOf(Shown(i)["aside"])
            PROVE  LET m == [n EXCEPT !["aside"] = n["place"], !["place"] = "no"]
                   IN  m \in Shapes(i) /\ m.place = "no"
        <5>1. n \in Shapes(i)
          BY <2>1
        <5>2. PICK p \in {"no", "two", "three"}, x \in {"no", "two"}, b \in {"no", "three"} : n = OfDisk(p, x, b)
          <6>1. CASE i \in {"old", "gitignore"}
            BY <1>1, <2>4, <5>1, <6>1, ShapesAre
          <6>2. CASE i = "transactions"
            BY <1>1, <5>1, <6>2, ShapesAre
          <6>3. CASE i \in {"objects", "schema", "config"}
            BY <1>1, <5>1, <6>3, ShapesAre
          <6> QED BY <6>1, <6>2, <6>3 DEF Aside
        <5>3. p = "two" /\ x = "no"
          BY <3>4, <4>3, <4>5, <5>2, Fields, NamesTell
        <5>4. [n EXCEPT !["aside"] = n["place"], !["place"] = "no"] = OfDisk("no", "two", b)
          BY <5>2, <5>3, Fields, Moves
        <5>5. OfDisk("no", "two", b) \in Shapes(i)
          <6>1. CASE i \in {"old", "gitignore"}
            <7>1. OfDisk("two", "no", b) \in Shapes(i)
              BY <5>1, <5>2, <5>3
            <7>2. AtFirst(i) = "two" /\ b = "no"
              BY <1>1, <2>4, <6>1, <7>1, ShapesAre, Fields
            <7> QED BY <1>1, <6>1, <7>2, ShapesAre
          <6>2. CASE i = "transactions"
            BY <1>1, <5>1, <5>2, <5>3, <6>2, ShapesAre, Fields
          <6>3. CASE i \in {"objects", "schema", "config"}
            BY <1>1, <5>1, <5>2, <5>3, <6>3, ShapesAre, Fields
          <6> QED BY <6>1, <6>2, <6>3 DEF Aside
        <5>6. OfDisk("no", "two", b).place = "no"
          BY Fields
        <5> QED BY <5>4, <5>5, <5>6, Zenon
      <4>6. s.may \subseteq Shapes(i) /\ \A m \in s.may : m.place = "three" => m \in cell[i].may
        BY <2>1, <4>4, <4>5
      <4>7. at \in 1..6 \cup 10..15 /\ ~(at \in 10..15) /\ s.now.place = "no"
        BY <1>3, <4>4
      <4> QED BY <1>1, <1>3, <1>8, <4>1, <4>3, <4>4, <4>6, <4>7, ChangedKeeps
    <3> QED BY <3>2, <3>3, <3>4
  <2> QED BY <2>5, <2>6
<1> QED BY <1>1, <1>7, <1>8

LEMMA PutKeeps ==
  ASSUME Upgrading, NEW i \in Pieces, PutInPlace(i), UNCHANGED <<lacks, tracking, tracked>>
  PROVE  Upgrading'
<1>1. Told /\ phase = "swap" /\ (Underway \/ Ended)
  BY DEF Upgrading, PutInPlace, Is, Unmarked
<1>2. at \in 1..17
  BY <1>1 DEF Underway, Turned, Ended
<1>3. at \in 10..13 /\ i = Steps[at][2] /\ i \in Part
  BY <1>2, StepOf DEF PutInPlace, Part
<1>4. cell[i].now \in cell[i].may /\ Celled(cell[i])
  BY <1>1, <1>3 DEF Told, Celled
<1>5. i \in {"objects", "history", "schema", "config"}
  BY <1>3, StepsAre
<1>6. Underway /\ MoveOnce(i, "built", "place")
  BY <1>1, <1>3 DEF Ended, PutInPlace
<1>7. \A n \in cell[i].may : n \in Shapes(i)
  BY <1>3, <1>6 DEF Underway, Shaped
<1>8. Shown(i) \in Shapes(i)
  BY <1>4, <1>7 DEF Shown
<1>9. PICK t \in {"no", "two"} :
        /\ Shapes(i) \subseteq {OfDisk(q, x, "three") : q \in {"no", "two"}, x \in {"no", "two"}} \cup {OfDisk("three", t, "no")}
        /\ OfDisk("three", t, "no") \in Shapes(i)
        /\ \A x : OfDisk("no", x, "three") \in Shapes(i) => x = t
  <2>1. CASE i = "history"
    <3>1. Shapes(i) = {OfDisk("no", "no", "three"), OfDisk("three", "no", "no")}
      BY <1>1, <2>1, ShapesAre
    <3> QED BY <3>1, Fields
  <2>2. CASE i \in {"objects", "schema", "config"}
    <3>1. Shapes(i) = {OfDisk("two", "no", "three"), OfDisk("no", "two", "three"), OfDisk("three", "two", "no")}
      BY <1>1, <2>2, ShapesAre
    <3> QED BY <3>1, Fields
  <2> QED BY <1>5, <2>1, <2>2
<1>10. CASE Shown(i).built = "no"
  <2>1. Onward
    BY <1>6, <1>10 DEF MoveOnce
  <2>2. Shown(i).place = "three"
    BY <1>8, <1>9, <1>10, Fields
  <2>3. at \in 1..13 /\ ~(at \in 1..6) /\ at # 5 /\ at # 7 /\ at # 8 /\ at # 9
    BY <1>3
  <2> QED BY <1>1, <1>3, <1>6, <2>1, <2>2, <2>3, OnwardKeeps
<1>11. CASE Shown(i).built # "no" /\ Shown(i).place # "no"
  <2>1. Turn("stuck", 0) /\ UNCHANGED cell
    BY <1>6, <1>11 DEF MoveOnce
  <2> QED BY <1>1, <2>1, StuckKeeps
<1>12. CASE Shown(i).built # "no" /\ Shown(i).place = "no"
  <2> DEFINE s == RenamePart(cell[i], "built", "place")
  <2>1. Changed(i, s)
    BY <1>6, <1>12 DEF MoveOnce
  <2>2. Shown(i).built = "three"
    BY <1>8, <1>9, <1>12, Fields
  <2>3. /\ Celled(s) /\ s.now["place"] = "three"
        /\ \A m \in s.may : m \in cell[i].may \/
             \E n \in cell[i].may : /\ NameOf(n["built"]) = NameOf(Shown(i)["built"])
                                    /\ NameOf(n["place"]) = NameOf(Shown(i)["place"])
                                    /\ m = [n EXCEPT !["place"] = n["built"], !["built"] = "no"]
    <3>1. "place" \in Disks /\ "built" \in Disks
      BY DEF Disks
    <3> QED BY <1>4, <2>2, <3>1, RenameCelled DEF Shown
  <2> HIDE DEF s
  <2>4. ASSUME NEW n \in cell[i].may, NameOf(n["built"]) = NameOf(Shown(i)["built"]),
               NameOf(n["place"]) = NameOf(Shown(i)["place"])
        PROVE  [n EXCEPT !["place"] = n["built"], !["built"] = "no"] \in Shapes(i)
    <3>1. n \in Shapes(i)
      BY <1>7
    <3>2. PICK q \in {"no", "two", "three"}, x \in {"no", "two"}, b \in {"no", "three"} : n = OfDisk(q, x, b)
      BY <1>9, <3>1
    <3>3. q = "no" /\ b = "three"
      BY <1>12, <2>2, <2>4, <3>2, Fields, NamesTell
    <3>4. x = t
      BY <1>9, <3>1, <3>2, <3>3
    <3>5. [n EXCEPT !["place"] = n["built"], !["built"] = "no"] = OfDisk("three", t, "no")
      BY <3>2, <3>3, <3>4, Fields, Moves
    <3>6. OfDisk("three", t, "no") \in Shapes(i)
      BY <1>9
    <3> QED BY <3>5, <3>6, Zenon
  <2>5. s.may \subseteq Shapes(i)
    BY <1>7, <2>3, <2>4
  <2>6. at \in 1..6 \cup 10..15 /\ at # 5 /\ i # "transactions" /\ i # "gitignore" /\ s.now.place = "three"
    BY <1>3, <1>5, <2>3
  <2> QED BY <1>1, <1>3, <1>6, <2>1, <2>3, <2>5, <2>6, ChangedKeeps
<1> QED BY <1>10, <1>11, <1>12

\* transactions is not there yet; .gitignore is written anew, after it.
LEMMA CreateKeeps ==
  ASSUME Upgrading, CreateTransactions, UNCHANGED <<lacks, tracking, tracked>>
  PROVE  Upgrading'
<1> DEFINE i == "transactions"
           s == SetPart(cell[i], "place", "three")
<1>1. Told /\ phase = "swap" /\ (Underway \/ Ended)
  BY DEF Upgrading, CreateTransactions, Is, Unmarked
<1>2. at \in 1..17
  BY <1>1 DEF Underway, Turned, Ended
<1>3. at = 14 /\ i = Steps[at][2] /\ i \in Part /\ Underway
  BY <1>1, <1>2, StepOf DEF CreateTransactions, Part, Aside, Ended
<1>4. Celled(cell[i]) /\ cell[i].now \in cell[i].may /\ cell[i].may \subseteq Shapes(i)
  BY <1>1, <1>3 DEF Told, Celled, Underway, Shaped
<1>5. Shown(i).place = "no"
  <2>1. Past(5) /\ Steps[5][2] = i
    BY <1>1, <1>3, StepsAre DEF Past
  <2>2. Shown(i).place # "two"
    BY <1>3, <2>1 DEF Underway, AsideDone
  <2>3. Shown(i).place # "three"
    BY <1>1, <1>3 DEF Underway, Halts
  <2>4. Shown(i).place \in {"no", "two", "three"}
    BY <1>1, <1>4, ShapesAre, Fields DEF Shown
  <2> QED BY <2>2, <2>3, <2>4
<1>6. Changed(i, s)
  BY <1>5 DEF CreateTransactions
<1>7. /\ Celled(s) /\ s.now["place"] = "three"
      /\ \A m \in s.may : m \in cell[i].may \/
           \E n \in cell[i].may : NameOf(n["place"]) = NameOf(Shown(i)["place"]) /\ m = [n EXCEPT !["place"] = "three"]
  <2>1. "place" \in Disks /\ "three" \in Values
    BY DEF Disks, Values
  <2> QED BY <1>4, <2>1, SetCelled DEF Shown
<1> HIDE DEF s, i
<1>8. ASSUME NEW n \in cell[i].may, NameOf(n["place"]) = NameOf(Shown(i)["place"])
      PROVE  [n EXCEPT !["place"] = "three"] \in Shapes(i)
  <2>1. Shapes(i) = {OfDisk("two", "no", "no"), OfDisk("no", "two", "no"), OfDisk("three", "two", "no")}
    BY <1>1, ShapesAre DEF i
  <2>2. n = OfDisk("no", "two", "no")
    BY <1>4, <1>5, <1>8, <2>1, Fields, NamesTell
  <2>3. [n EXCEPT !["place"] = "three"] = OfDisk("three", "two", "no")
    BY <2>2, Moves
  <2>4. OfDisk("three", "two", "no") \in Shapes(i)
    BY <2>1
  <2> QED BY <2>3, <2>4, Zenon
<1>9. s.may \subseteq Shapes(i)
  BY <1>4, <1>7, <1>8
<1>10. at \in 1..6 \cup 10..15 /\ at # 5 /\ i # "gitignore" /\ s.now.place = "three" /\ Shown("transactions").place # "three"
  BY <1>3, <1>5, <1>7 DEF i
<1> QED BY <1>1, <1>3, <1>6, <1>7, <1>9, <1>10, ChangedKeeps

LEMMA GitignoreKeeps ==
  ASSUME Upgrading, WriteGitignore, UNCHANGED <<lacks, tracking, tracked>>
  PROVE  Upgrading'
<1> DEFINE i == "gitignore"
           s == SetPart(cell[i], "place", "three")
<1>1. Told /\ phase = "swap" /\ (Underway \/ Ended) /\ tracked = FALSE
  BY DEF Upgrading, WriteGitignore, Is, Unmarked, Told
<1>2. at \in 1..17
  BY <1>1 DEF Underway, Turned, Ended
<1>3. at \in {15, 16} /\ i = Steps[at][2] /\ i \in Part
  BY <1>1, <1>2, StepOf DEF WriteGitignore, Part, Aside
<1>4. at = 15 /\ Underway
  BY <1>1, <1>3, StepsAre DEF Ended
<1>5. Celled(cell[i]) /\ cell[i].now \in cell[i].may /\ cell[i].may \subseteq Shapes(i)
  BY <1>1, <1>3, <1>4 DEF Told, Celled, Underway, Shaped
<1>6. AtFirst(i) \in {"no", "two"}
  BY <1>1, <1>3, Beginnings
<1>7. Shown(i).place \in {"no", "three"}
  <2>1. Past(6) /\ Steps[6][2] = i
    BY <1>1, <1>4, StepsAre DEF Past
  <2>2. Shown(i).place # "two"
    BY <1>4, <2>1 DEF Underway, AsideDone
  <2>3. Shown(i).place \in {"no", "two", "three"}
    BY <1>1, <1>5, <1>6, ShapesAre, Fields DEF Shown
  <2> QED BY <2>2, <2>3
<1>8. Changed(i, s)
  BY <1>1 DEF WriteGitignore
<1>9. /\ Celled(s) /\ s.now["place"] = "three"
      /\ \A m \in s.may : m \in cell[i].may \/
           \E n \in cell[i].may : NameOf(n["place"]) = NameOf(Shown(i)["place"]) /\ m = [n EXCEPT !["place"] = "three"]
  <2>1. "place" \in Disks /\ "three" \in Values
    BY DEF Disks, Values
  <2> QED BY <1>5, <2>1, SetCelled DEF Shown
<1> HIDE DEF s, i
<1>10. ASSUME NEW n \in cell[i].may, NameOf(n["place"]) = NameOf(Shown(i)["place"])
       PROVE  [n EXCEPT !["place"] = "three"] \in Shapes(i)
  <2>1. Shapes(i) = {OfDisk(AtFirst(i), "no", "no"), OfDisk("no", AtFirst(i), "no"), OfDisk("three", AtFirst(i), "no")}
    BY <1>1, ShapesAre DEF i
  <2>2. n.place = Shown(i).place
    BY <1>5, <1>6, <1>7, <1>10, <2>1, Fields, NamesTell
  <2>3. PICK p \in {"no", "three"} : n = OfDisk(p, AtFirst(i), "no")
    BY <1>5, <1>6, <1>7, <2>1, <2>2, Fields
  <2>4. [n EXCEPT !["place"] = "three"] = OfDisk("three", AtFirst(i), "no")
    BY <2>3, Moves
  <2>5. OfDisk("three", AtFirst(i), "no") \in Shapes(i)
    BY <2>1
  <2> QED BY <2>4, <2>5, Zenon
<1>11. s.may \subseteq Shapes(i)
  BY <1>5, <1>9, <1>10
<1>12. at \in 1..6 \cup 10..15 /\ at # 5 /\ i # "transactions" /\ s.now.place = "three"
  BY <1>4, <1>9 DEF i
<1> QED BY <1>1, <1>3, <1>4, <1>8, <1>9, <1>11, <1>12, ChangedKeeps

LEMMA FormatKeeps ==
  ASSUME Upgrading, WriteFormat, UNCHANGED <<lacks, tracking, tracked>>
  PROVE  Upgrading'
<1> DEFINE s == SetPart(cell["format"], "place", "three")
<1>1. Told /\ phase = "swap" /\ (Underway \/ Ended)
  BY DEF Upgrading, WriteFormat, Is, Unmarked
<1>2. at \in 1..17
  BY <1>1 DEF Underway, Turned, Ended
<1>3. at \in {15, 16} /\ "format" = Steps[at][2] /\ "format" \in Part
  BY <1>1, <1>2, StepOf DEF WriteFormat, Part
<1>4. at = 16 /\ Ended
  BY <1>1, <1>3, StepsAre DEF Underway, Turned
<1>5. Celled(s)
  <2>1. "place" \in Disks /\ "three" \in Values /\ Celled(cell["format"])
    BY <1>1, <1>3 DEF Disks, Values, Told, Celled
  <2> QED BY <2>1, SetCelled
<1>6. cell' = [cell EXCEPT !["format"] = s] /\ phase' = "sync" /\ at' = 16
  BY <1>4, Zenon DEF WriteFormat, Changed, Turn
<1> HIDE DEF s
<1>7. Told' /\ \A j \in Part : j # "format" => cell'[j] = cell[j]
  BY <1>1, <1>3, <1>5, <1>6, ChangedTold
<1>8. \A i \in Part \ {"format"} : \A m \in cell'[i].may : Ends(i, m)
  BY <1>4, <1>7 DEF Ended
<1> QED BY <1>6, <1>7, <1>8 DEF Upgrading, Ended, Ends, AtFirst, AtLast

\* A pin's original is saved before the pin is rewritten, and what was built of it
\* goes after.
LEMMA PinKeeps ==
  ASSUME Upgrading, SavePin \/ RewritePin \/ DropConverted, UNCHANGED <<lacks, tracking, tracked>>
  PROVE  Upgrading'
<1> DEFINE i == "pin"
<1>1. Told /\ phase = "swap" /\ (Underway \/ Ended)
  BY DEF Upgrading, SavePin, RewritePin, DropConverted, Is, Unmarked
<1>2. at \in 1..17
  BY <1>1 DEF Underway, Turned, Ended
<1>3. at \in 7..9 /\ i \in Part /\ (SavePin <=> at = 7) /\ (RewritePin <=> at = 8) /\ (DropConverted <=> at = 9)
  BY <1>2, StepOf DEF SavePin, RewritePin, DropConverted, Part, Pieces
<1>4. Underway
  BY <1>1, <1>3 DEF Ended
<1>5. Celled(cell[i]) /\ cell[i].now \in cell[i].may /\ cell[i].may \subseteq Shapes(i)
  BY <1>1, <1>3, <1>4 DEF Told, Celled, Underway, Shaped
<1>6. Shapes(i) = {OfDisk("two", "no", "three"), OfDisk("two", "two", "three"),
                   OfDisk("three", "two", "three"), OfDisk("three", "two", "no")}
  BY <1>1, ShapesAre
<1>7. "place" \in Disks /\ "aside" \in Disks /\ "built" \in Disks /\ "no" \in Values /\ "two" \in Values /\ "three" \in Values
  BY DEF Disks, Values
<1>8. CASE Onward /\ at # 9
  <2>2. at = 7 => Saved
    <3> SUFFICES ASSUME at = 7 PROVE Saved
      OBVIOUS
    <3>1. Shown(i).aside # "no"
      <4> SUFFICES ASSUME Shown(i).aside = "no" PROVE FALSE
        OBVIOUS
      <4>1. phase' = "sync"
        BY <1>3 DEF SavePin, Changed, Turn
      <4> QED BY <1>8, <4>1 DEF Onward, Turn
    <3>2. ~Original
      BY <1>5, <3>1, Fields DEF Original, Shown
    <3> QED BY <1>1, <1>4, <3>2 DEF Underway, PinKept
  <2>3. at = 8 => Rewritten
    <3> SUFFICES ASSUME at = 8 PROVE Rewritten
      OBVIOUS
    <3>1. Shown(i).built = "no"
      <4> SUFFICES ASSUME Shown(i).built # "no" PROVE FALSE
        OBVIOUS
      <4>1. phase' = "sync"
        BY <1>3 DEF RewritePin, Changed, Turn
      <4> QED BY <1>8, <4>1 DEF Onward, Turn
    <3> QED BY <1>4, <3>1 DEF Underway, PinKept
  <2>4. at \in 1..13 /\ ~(at \in 1..6) /\ at # 5 /\ ~(at \in 10..13)
    BY <1>3
  <2> QED BY <1>1, <1>4, <1>8, <2>2, <2>3, <2>4, OnwardKeeps
<1>9. ASSUME NEW c, Celled(c), c.may \subseteq Shapes(i), cell' = [cell EXCEPT ![i] = c],
             phase' = IF at = 9 THEN "swap" ELSE "sync", at' = IF at = 9 THEN 10 ELSE at,
             at # 7 => \A m \in c.may : m.aside = "two",
             at = 9 => \A m \in c.may : m.place = "three",
             at = 7 => c.now.aside = "two",
             at = 8 => c.now.place = "three",
             at # 9 => c.now.built = "three"
      PROVE  Upgrading'
  <2>1. Told' /\ cell'[i] = c /\ \A j \in Part : j # i => cell'[j] = cell[j]
    BY <1>1, <1>3, <1>9, ChangedTold
  <2>2. Shaped' /\ Turned'
    <3>1. \A j : Shapes(j)' = Shapes(j)
      BY DEF Shapes, AtFirst, Built
    <3>2. \A j \in Part : cell'[j].may \subseteq Shapes(j)
      BY <1>4, <1>9, <2>1 DEF Underway, Shaped
    <3> QED BY <1>3, <1>9, <3>1, <3>2 DEF Shaped, Turned
  <2>3. \A k \in 1..6 \cup 10..15 : Past(k)' = Past(k) /\ (k \in 10..15 => ~Past(k))
    BY <1>1, <1>3, <1>9 DEF Past
  <2>4. \A k \in 1..6 : Shown(Steps[k][2])' = Shown(Steps[k][2])
    <3>1. \A k \in 1..6 : Steps[k][2] \in Part /\ Steps[k][2] # i
      BY StepsAre DEF Part, Aside
    <3> QED BY <2>1, <3>1 DEF Shown
  <2>5. AsideDone' /\ PlacedDone'
    BY <1>4, <2>3, <2>4 DEF Underway, AsideDone, PlacedDone
  <2>6. PinKept'
    <3>1. cell'["pin"] = c
      BY <2>1
    <3> QED BY <1>3, <1>9, <3>1 DEF PinKept, Saved, Rewritten, Shown
  <2>7. Halts'
    <3>1. "transactions" \in Part /\ "gitignore" \in Part /\ "transactions" # i /\ "gitignore" # i
      BY DEF Part, Aside
    <3>2. cell'["transactions"] = cell["transactions"] /\ cell'["gitignore"] = cell["gitignore"]
      BY <2>1, <3>1
    <3> QED BY <1>1, <1>3, <1>4, <1>9, <3>2 DEF Underway, Halts, Made, Shown
  <2> QED BY <2>1, <2>2, <2>5, <2>6, <2>7 DEF Upgrading, Underway
<1>10. CASE ~Onward \/ at = 9
  <2>1. CASE at = 7
    <3> DEFINE s == SetPart(cell[i], "aside", "two")
    <3>1. Shown(i).aside = "no"
      BY <1>3, <1>10, <2>1 DEF SavePin
    <3>2. \A n \in cell[i].may : n = OfDisk("two", "no", "three")
      BY <1>1, <1>4, <1>5, <3>1 DEF Underway, PinKept, Saved, Original, Shown
    <3>3. Shown(i).place = "two" /\ Shown(i).built = "three"
      BY <1>5, <3>2, Fields DEF Shown
    <3>4. Changed(i, s)
      BY <1>3, <2>1, <3>1, <3>3 DEF SavePin
    <3>5. /\ Celled(s) /\ s.now["aside"] = "two" /\ \A e \in Disks : e # "aside" => s.now[e] = cell[i].now[e]
          /\ \A m \in s.may : m \in cell[i].may \/
               \E n \in cell[i].may : NameOf(n["aside"]) = NameOf(cell[i].now["aside"]) /\ m = [n EXCEPT !["aside"] = "two"]
      <4>1. Celled(cell[i]) /\ "aside" \in Disks /\ "two" \in Values
        BY <1>5, <1>7
      <4> QED BY <4>1, SetCelled DEF Shown
    <3>6. cell' = [cell EXCEPT ![i] = s] /\ phase' = "sync" /\ at' = at
      BY <3>4 DEF Changed, Turn
    <3> HIDE DEF s
    <3>7. s.may \subseteq Shapes(i)
      BY <1>6, <3>2, <3>5, Moves
    <3>8. s.now.aside = "two" /\ s.now.built = "three"
      BY <1>7, <3>3, <3>5 DEF Shown
    <3>9. Celled(s)
      BY <3>5
    <3>10. /\ Celled(s) /\ s.may \subseteq Shapes(i) /\ cell' = [cell EXCEPT ![i] = s]
           /\ phase' = (IF at = 9 THEN "swap" ELSE "sync") /\ at' = (IF at = 9 THEN 10 ELSE at)
           /\ at # 7 => \A m \in s.may : m.aside = "two"
           /\ at = 9 => \A m \in s.may : m.place = "three"
           /\ at = 7 => s.now.aside = "two"
           /\ at = 8 => s.now.place = "three"
           /\ at # 9 => s.now.built = "three"
      BY <2>1, <3>6, <3>7, <3>8, <3>9
    <3> QED BY <1>9, <3>10, Zenon
  <2>2. CASE at = 8
    <3> DEFINE s == SetPart(cell[i], "place", "three")
    <3>1. Shown(i).built # "no" /\ Saved
      BY <1>1, <1>3, <1>4, <1>10, <2>2 DEF RewritePin, Underway, PinKept
    <3>2. Shown(i).built = "three"
      BY <1>5, <1>6, <3>1, Fields DEF Shown
    <3>3. Changed(i, s)
      BY <1>3, <2>2, <3>1, <3>2 DEF RewritePin
    <3>4. /\ Celled(s) /\ s.now["place"] = "three" /\ \A e \in Disks : e # "place" => s.now[e] = cell[i].now[e]
          /\ \A m \in s.may : m \in cell[i].may \/
               \E n \in cell[i].may : NameOf(n["place"]) = NameOf(cell[i].now["place"]) /\ m = [n EXCEPT !["place"] = "three"]
      <4>1. Celled(cell[i]) /\ "place" \in Disks /\ "three" \in Values
        BY <1>5, <1>7
      <4> QED BY <4>1, SetCelled DEF Shown
    <3>5. cell' = [cell EXCEPT ![i] = s] /\ phase' = "sync" /\ at' = at
      BY <3>3 DEF Changed, Turn
    <3> HIDE DEF s
    <3>6. \A n \in cell[i].may : /\ n.aside = "two"
                                 /\ [n EXCEPT !["place"] = "three"] \in Shapes(i)
                                 /\ [n EXCEPT !["place"] = "three"].aside = "two"
      <4>1. ASSUME NEW n \in cell[i].may
            PROVE  /\ n.aside = "two" /\ [n EXCEPT !["place"] = "three"] \in Shapes(i)
                   /\ [n EXCEPT !["place"] = "three"].aside = "two"
        <5>1. n.aside = "two" /\ n \in Shapes(i)
          BY <1>5, <3>1 DEF Saved
        <5>2. PICK q \in {"two", "three"}, b \in {"no", "three"} : n = OfDisk(q, "two", b)
          BY <1>6, <5>1, Fields
        <5>3. [n EXCEPT !["place"] = "three"] = OfDisk("three", "two", b)
          BY <5>2, Moves
        <5>4. OfDisk("three", "two", b) \in Shapes(i) /\ OfDisk("three", "two", b).aside = "two"
          BY <1>6, Fields
        <5> QED BY <5>1, <5>3, <5>4, Zenon
      <4> QED BY <4>1
    <3>7. s.may \subseteq Shapes(i) /\ \A m \in s.may : m.aside = "two"
      <4> DEFINE Put(n) == [n EXCEPT !["place"] = "three"]
      <4>1. \A n \in cell[i].may : n \in Shapes(i) /\ n.aside = "two" /\ Put(n) \in Shapes(i) /\ Put(n).aside = "two"
        BY <1>5, <3>6
      <4>2. \A m \in s.may : m \in cell[i].may \/ \E n \in cell[i].may : m = Put(n)
        BY <3>4
      <4> HIDE DEF Put
      <4> QED BY <4>1, <4>2
    <3>8. s.now.place = "three" /\ s.now.built = "three"
      BY <1>7, <3>2, <3>4 DEF Shown
    <3>9. Celled(s)
      BY <3>4
    <3>10. /\ Celled(s) /\ s.may \subseteq Shapes(i) /\ cell' = [cell EXCEPT ![i] = s]
           /\ phase' = (IF at = 9 THEN "swap" ELSE "sync") /\ at' = (IF at = 9 THEN 10 ELSE at)
           /\ at # 7 => \A m \in s.may : m.aside = "two"
           /\ at = 9 => \A m \in s.may : m.place = "three"
           /\ at = 7 => s.now.aside = "two"
           /\ at = 8 => s.now.place = "three"
           /\ at # 9 => s.now.built = "three"
      BY <2>2, <3>5, <3>7, <3>8, <3>9
    <3> QED BY <1>9, <3>10, Zenon
  <2>3. CASE at = 9
    <3> DEFINE s == SetPart(cell[i], "built", "no")
    <3>1. cell' = [cell EXCEPT ![i] = s] /\ phase' = "swap" /\ at' = 10
      <4>1. DropConverted
        BY <1>3, <2>3
      <4>2. cell' = [cell EXCEPT !["pin"] = SetPart(cell["pin"], "built", "no")]
        BY <4>1, Zenon DEF DropConverted
      <4>3. phase' = "swap" /\ at' = 10
        BY <2>3, <4>1 DEF DropConverted, Turn
      <4> QED BY <4>2, <4>3
    <3>2. Saved /\ Rewritten
      BY <1>1, <1>4, <2>3 DEF Underway, PinKept
    <3>3. /\ Celled(s)
          /\ \A m \in s.may : m \in cell[i].may \/
               \E n \in cell[i].may : NameOf(n["built"]) = NameOf(cell[i].now["built"]) /\ m = [n EXCEPT !["built"] = "no"]
      <4>1. Celled(cell[i]) /\ "built" \in Disks /\ "no" \in Values
        BY <1>5, <1>7
      <4> QED BY <4>1, SetCelled DEF Shown
    <3> HIDE DEF s
    <3>4. \A n \in cell[i].may : /\ n.aside = "two" /\ n.place = "three"
                                 /\ [n EXCEPT !["built"] = "no"] = OfDisk("three", "two", "no")
      <4>1. ASSUME NEW n \in cell[i].may
            PROVE  n.aside = "two" /\ n.place = "three" /\ [n EXCEPT !["built"] = "no"] = OfDisk("three", "two", "no")
        <5>1. n.aside = "two" /\ n.place = "three" /\ n \in Shapes(i)
          BY <1>5, <3>2 DEF Saved, Rewritten
        <5>2. PICK b \in {"no", "three"} : n = OfDisk("three", "two", b)
          BY <1>6, <5>1, Fields
        <5> QED BY <5>1, <5>2, Moves
      <4> QED BY <4>1
    <3>5. \A m \in s.may : m \in Shapes(i) /\ m.aside = "two" /\ m.place = "three"
      BY <1>5, <1>6, <3>3, <3>4, Fields
    <3>6. Celled(s) /\ s.may \subseteq Shapes(i)
      BY <3>3, <3>5
    <3>10. /\ Celled(s) /\ s.may \subseteq Shapes(i) /\ cell' = [cell EXCEPT ![i] = s]
           /\ phase' = (IF at = 9 THEN "swap" ELSE "sync") /\ at' = (IF at = 9 THEN 10 ELSE at)
           /\ at # 7 => \A m \in s.may : m.aside = "two"
           /\ at = 9 => \A m \in s.may : m.place = "three"
           /\ at = 7 => s.now.aside = "two"
           /\ at = 8 => s.now.place = "three"
           /\ at # 9 => s.now.built = "three"
      BY <2>3, <3>1, <3>5, <3>6
    <3> QED BY <1>9, <3>10, Zenon
  <2> QED BY <1>3, <2>1, <2>2, <2>3
<1> QED BY <1>8, <1>10

\* No interruption loses what format 2 kept, or leaves half of format 3 under its
\* name, unless it strikes where a kill may find the marker, or a pin's original, not
\* yet on the disk; of a format 2 database in which only names that format 3 has no
\* use for, or .gitignore, may be missing, and whose history was not versioned.
THEOREM UpgradeInOne ==
  ASSUME Complete, Untracked, Unfaulted
  PROVE  UpgradeSpec => []UpgradeKept
<1>1. UpgradeInit => Upgrading
  <2> SUFFICES ASSUME UpgradeInit PROVE Upgrading
    OBVIOUS
  <2>1. tracking = FALSE /\ tracked = FALSE /\ lacks \subseteq {"old", "gitignore"} /\ phase = "idle"
    BY DEF UpgradeInit, Begun, Complete, Untracked
  <2> DEFINE first(i) == OfDisk(AtFirst(i), "no", "no")
  <2>2. DOMAIN cell = Part /\ \A i \in Part : cell[i] = [now |-> first(i), may |-> {first(i)}]
    BY DEF UpgradeInit, Begun, Disk!Durable, OfDisk
  <2>3. \A i \in Part : first(i) \in [Disks -> Values]
    <3>1. \A i \in Part : AtFirst(i) \in {"no", "two"}
      BY DEF AtFirst
    <3> QED BY <3>1 DEF OfDisk, Disks, Values
  <2>4. \A i : first(i).place = AtFirst(i) /\ first(i).aside = "no" /\ first(i).built = "no"
    BY Fields
  <2> HIDE DEF first
  <2>5. \A i \in Part : cell[i].now = first(i) /\ cell[i].may = {first(i)}
    BY <2>2
  <2>6. Told
    BY <2>1, <2>2, <2>3, <2>5 DEF Told
  <2>7. Unmarked
    BY <2>1, <2>4, <2>5 DEF Unmarked, Part
  <2> QED BY <2>6, <2>7 DEF Upgrading
<1>2. Upgrading /\ [UpgradeNext]_upgradeVars => Upgrading'
  <2> SUFFICES ASSUME Upgrading, [UpgradeNext]_upgradeVars PROVE Upgrading'
    OBVIOUS
  <2>1. CASE Swap
    BY <2>1, SetAsideKeeps, PinKeeps, PutKeeps, CreateKeeps, GitignoreKeeps, FormatKeeps DEF Swap
  <2>2. CASE UNCHANGED upgradeVars
    <3>1. \A k : Past(k)' = Past(k)
      BY <2>2 DEF upgradeVars, Past
    <3>2. \A i : Shapes(i)' = Shapes(i) /\ AtFirst(i)' = AtFirst(i) /\ AtLast(i)' = AtLast(i) /\ Shown(i)' = Shown(i)
      BY <2>2 DEF upgradeVars, Shapes, AtFirst, AtLast, Built, Shown
    <3>3. Told => Told'
      BY <2>2 DEF upgradeVars, Told
    <3>4. Unmarked => Unmarked'
      BY <2>2, <3>2 DEF upgradeVars, Unmarked
    <3>5. Underway => Underway'
      BY <2>2, <3>1, <3>2 DEF upgradeVars, Underway, Turned, Shaped, AsideDone, PlacedDone, PinKept, Saved,
                              Original, Rewritten, Halts, Made
    <3>6. Ended => Ended'
      BY <2>2, <3>2 DEF upgradeVars, Ended, Ends
    <3> QED BY <3>3, <3>4, <3>5, <3>6 DEF Upgrading
  <2> QED BY <2>1, <2>2, TidyKeeps, ResumeKeeps, BuildKeeps, MarkKeeps, SyncTreeKeeps, SyncStepKeeps,
             RemoveKeeps, KillKeeps, PowerKeeps DEF UpgradeNext
<1>3. Upgrading => UpgradeKept
  <2> SUFFICES ASSUME Upgrading PROVE UpgradeKept
    OBVIOUS
  <2>1. Told /\ "format" \in Part
    BY DEF Upgrading, Part
  <2>2. CASE Ended
    <3>1. \A i \in (Aside \cup {"pin"}) \ lacks : AtFirst(i) = "two" /\ i \in Part \ {"format"}
      BY DEF AtFirst, Aside, Pieces, Part
    <3> QED BY <2>2, <3>1 DEF UpgradeKept, Ended, Ends
  <2>3. ASSUME Unmarked \/ Underway PROVE UpgradeKept
    <3>1. ~ \E m \in cell["format"].may : m.place = "three"
      BY <2>1, <2>3, FormatTells
    <3>2. ASSUME NEW i \in (Aside \cup {"pin"}) \ lacks, NEW m \in cell[i].may
          PROVE  "two" \in {m.place, m.aside}
      <4>1. i \in Part /\ AtFirst(i) = "two" /\ i \notin {"READY", "format", "history"}
        BY DEF AtFirst, Aside, Pieces, Part
      <4>2. CASE Unmarked
        BY <4>1, <4>2 DEF Unmarked
      <4>3. CASE Underway
        <5>1. m \in Shapes(i)
          BY <4>1, <4>3 DEF Underway, Shaped
        <5>2. CASE i \in {"old", "gitignore"}
          BY <2>1, <4>1, <5>1, <5>2, ShapesAre, Fields
        <5>3. CASE i \in {"transactions", "pin", "objects", "schema", "config"}
          BY <2>1, <5>1, <5>3, ShapesAre, Fields
        <5> QED BY <5>2, <5>3 DEF Aside
      <4> QED BY <2>3, <4>2, <4>3
    <3> QED BY <3>1, <3>2 DEF UpgradeKept
  <2> QED BY <2>2, <2>3 DEF Upgrading
<1> QED BY <1>1, <1>2, <1>3, PTL DEF UpgradeSpec
=============================================================================
