------------------------------ MODULE Verdicts ------------------------------
(***************************************************************************)
(* Judging a planned change by what it can change: catalog.rs              *)
(* (prospect_rows, ingest_rows, scope_of) and integrity.rs (judge,         *)
(* revalidate).  The folder was observed whole; a change to rows is taken  *)
(* into the mirror from its planned bytes, its findings are looked for     *)
(* among its paths and the keys they hold, and replace those the scope had *)
(* in the verdict before.                                                  *)
(*                                                                         *)
(* A path is <<table, n>>, n its place in path order.  What a row file     *)
(* holds is Garbage, which is no row, or a row: its key, the key of an     *)
(* owner it refers to, the key of a row of its own table it has as parent, *)
(* and whether its file is larger than max_json_file_size.  A finding is   *)
(* its rule and where it lies; wording is left out.  Assertions, judged    *)
(* whole either way, and checks, which are findings of one row, are too.   *)
(***************************************************************************)
EXTENDS Naturals, FiniteSets

CONSTANTS
  RowPaths,   \* the paths of row files
  Folders,    \* what a folder may hold: path -> what its file holds
  Writable,   \* the paths changes write and remove
  FoldOf,     \* path -> its name as a case-folding filesystem knows it
  Ignored,    \* paths `ignore' matches
  Missing, Garbage, \* no file; a file that holds no row
  NoKey,      \* of a row that refers to none
  Limit       \* the most paths that are judged by their scope

ASSUME VerdictsAssumption ==
  /\ Writable \subseteq RowPaths /\ Ignored \subseteq RowPaths /\ \A p \in RowPaths : p[2] \in Nat
  /\ Limit \in Nat /\ Missing # Garbage

VARIABLES
  folder,   \* path -> what the file holds
  entries,  \* path -> what the mirror holds for it
  faults,   \* the catalog's diagnostics: findings about files themselves
  verdict,  \* the findings of the state
  prospect  \* the change being judged, if any

verdictsVars == <<folder, entries, faults, verdict, prospect>>

-----------------------------------------------------------------------------
(* What an observation finds                                               *)

HoldsRow(content) == content \notin {Missing, Garbage}
RowFiles(m) == {p \in RowPaths : HoldsRow(m[p])}
Before(p, q) == p[1] = q[1] /\ p[2] < q[2]

\* scan_table: an ignored file is passed over, and a large one not read.
Seen(f) ==
  [p \in RowPaths |-> IF p \in Ignored \/ (HoldsRow(f[p]) /\ f[p].large) THEN Missing ELSE f[p]]

Structural(f) ==
  LET there == {p \in RowPaths \ Ignored : f[p] # Missing}
  IN {<<"collision", q>> : q \in {q \in there : \E p \in there : Before(p, q) /\ FoldOf[p] = FoldOf[q]}}
       \union {<<"large", p>> : p \in {p \in there : HoldsRow(f[p]) /\ f[p].large}}

-----------------------------------------------------------------------------
(* judge                                                                   *)

Tables == {p[1] : p \in RowPaths}
Holders(m, tables, key) == {p \in RowFiles(m) : p[1] \in tables /\ m[p].key = key}
FirstOf(holders) == CHOOSE p \in holders : \A q \in holders : p[2] <= q[2]

\* The first file, in path order, that holds p's key in one of the tables.
FirstHolder(m, tables, p) == FirstOf(Holders(m, tables, m[p].key))

Duplicates(m) ==
  {<<"unique", m[p].key, FirstHolder(m, {p[1]}, p), p>> :
      p \in {p \in RowFiles(m) : p # FirstHolder(m, {p[1]}, p)}}

\* The tables are one identity domain.
Overlaps(m) ==
  {<<"domain", m[p].key, FirstHolder(m, Tables, p), p>> :
      p \in {p \in RowFiles(m) : p[1] # FirstHolder(m, Tables, p)[1]}}

Dangling(m) ==
  {<<"dangling", m[p].to, p>> :
      p \in {p \in RowFiles(m) : m[p].to # NoKey /\ Holders(m, {"owners"}, m[p].to) = {}}}

\* Keys of a table that are each other's ancestors.
KeysOf(m, table) == {m[p].key : p \in {p \in RowFiles(m) : p[1] = table}}
ParentsOf(m, table) == {<<m[p].key, m[p].parent>> : p \in {p \in RowFiles(m) : p[1] = table}}
Ancestry(nodes, parents) ==
  LET edges == parents \intersect (nodes \X nodes)
      reach[n \in Nat] ==
        IF n = 0 THEN edges
        ELSE reach[n - 1] \union
             {e \in nodes \X nodes : \E z \in nodes : <<e[1], z>> \in reach[n - 1] /\ <<z, e[2]>> \in edges}
  IN reach[Cardinality(nodes)]
Cycles(m, table) ==
  LET nodes == KeysOf(m, table)
      above == Ancestry(nodes, ParentsOf(m, table))
  IN {<<"cycle", table, {y \in nodes : {<<x, y>>, <<y, x>>} \subseteq above}>> : x \in {x \in nodes : <<x, x>> \in above}}

RowFindings(m) ==
  {<<"row", p>> : p \in {p \in RowPaths : m[p] = Garbage}}
    \union Duplicates(m) \union Overlaps(m) \union Dangling(m)
    \union UNION {Cycles(m, table) : table \in Tables}

WholeVerdict(f) == Structural(f) \union RowFindings(Seen(f))

\* Whether the queries of a scope find x: by its path, by a key, by its table.
Finds(scope, x) ==
  CASE x[1] = "row" -> x[2] \in scope.paths
    [] x[1] \in {"unique", "domain"} -> x[2] \in scope.keys
    [] x[1] = "dangling" -> x[2] \in scope.keys \/ x[3] \in scope.paths
    [] x[1] = "cycle" -> x[2] \in scope.tables

Scoped(m, scope) == {x \in RowFindings(m) : Finds(scope, x)}

-----------------------------------------------------------------------------
(* prospect_rows                                                           *)

Touched(plan) == {p \in Writable : plan[p] # folder[p]}

\* Mutant: the keys the paths held before are not looked at.
ScopeAfter(plan) ==
  LET paths == Touched(plan)
  IN [paths |-> paths, tables |-> {p[1] : p \in paths},
      keys |-> {plan[p].key : p \in paths \intersect RowFiles(plan)}]

Scope(plan) ==
  LET paths == Touched(plan)
  IN [paths |-> paths, tables |-> {p[1] : p \in paths},
      keys |-> {entries[p].key : p \in paths \intersect RowFiles(entries)}
                 \union {plan[p].key : p \in paths \intersect RowFiles(plan)}]

\* ingest_rows: findings about the files written or removed go, and a file
\* that is created is compared with those the change leaves alone.
Ingested(plan) == [p \in RowPaths |-> IF p \in Touched(plan) THEN plan[p] ELSE entries[p]]
FaultsAfter(plan) ==
  LET touched == Touched(plan)
  IN {x \in faults : x[2] \notin touched} \union
     {<<"collision", p>> :
        p \in {p \in touched : /\ entries[p] = Missing /\ plan[p] # Missing
                               /\ \E q \in RowPaths \ touched : /\ q[1] = p[1] /\ FoldOf[q] = FoldOf[p]
                                                                /\ entries[q] # Missing}}

\* revalidate: what the scope held before is replaced by what it holds after.
Revalidated(before, after) == (verdict \ before) \union after

\* The change is judged whole if it is too large for that, or if the verdict
\* lacks what the scope held.
JudgeChange(plan) ==
  LET scope == Scope(plan)
      before == faults \union Scoped(entries, scope)
      after == FaultsAfter(plan) \union Scoped(Ingested(plan), scope)
      whole == FaultsAfter(plan) \union RowFindings(Ingested(plan))
      scoped == Cardinality(scope.paths) <= Limit
  IN /\ scope.paths # {}
     /\ prospect' = {[folder |-> plan, entries |-> Ingested(plan), faults |-> FaultsAfter(plan),
                      verdict |-> IF scoped /\ before \subseteq verdict THEN Revalidated(before, after)
                                  ELSE whole,
                      agreed |-> scoped => before \subseteq verdict]}
     /\ UNCHANGED <<folder, entries, faults, verdict>>

\* admit: of what a fault is, which other row holds the key is no part.
Fault(x) == IF x[1] \in {"unique", "domain"} THEN <<x[1], x[2], x[4]>> ELSE x
NoNewFaults(p) == {Fault(x) : x \in p.verdict} \subseteq {Fault(x) : x \in verdict}

KeepChange ==
  /\ \E p \in prospect :
       /\ NoNewFaults(p)
       /\ folder' = p.folder /\ entries' = p.entries /\ faults' = p.faults /\ verdict' = p.verdict
  /\ prospect' = {}

AbandonChange ==
  /\ prospect # {} /\ prospect' = {}
  /\ UNCHANGED <<folder, entries, faults, verdict>>

\* The folder is observed whole, whatever it holds.
Observed(f) ==
  folder = f /\ entries = Seen(f) /\ faults = Structural(f) /\ verdict = WholeVerdict(f) /\ prospect = {}
VerdictsInit == \E f \in Folders : Observed(f)
VerdictsIdle == Observed([p \in RowPaths |-> Missing])

VerdictsNext ==
  \/ /\ prospect = {}
     /\ \E plan \in Folders : (\A p \in RowPaths \ Writable : plan[p] = folder[p]) /\ JudgeChange(plan)
  \/ KeepChange \/ AbandonChange

VerdictsSpec == VerdictsInit /\ [][VerdictsNext]_verdictsVars

-----------------------------------------------------------------------------

\* A change judged by its scope is judged as observing the folder it makes
\* would judge it, and what the scope held before was all in the verdict it
\* began from (catalog.rs:354, :398, integrity.rs:69).
JudgedAsWhole ==
  \A p \in prospect : p.agreed /\ p.verdict = WholeVerdict(p.folder)

=============================================================================
