# reldir in TLA+

reldir keeps a relational database in a folder of JSON files: one file per row,
one directory per table, and `.db/` beside them for history, transactions and
derived state.  Several processes (commands, editors, version control) work on
one folder, and any of them may die at any moment.  This directory models the
parts of reldir whose correctness depends on the order of steps -- what a crash,
a failed sync, a second process or an editor may do between two of them -- and
the algorithms whose results every later step trusts.

Source paths below are relative to `src/crates/reldir-core/src/` unless they
start with `src/`.

## 1. The system

| Part | State it keeps | Operations | Interacts with |
|---|---|---|---|
| commit protocol (`engine/journal.rs`) | `.db/transactions/<id>/`: staged files, `journal`, `sync-failed` | `preflight`, `commit`, `apply`, `finish`, `discard`, `recover`, `pending` | every writer calls it under the lock; readers call `pending` without |
| filesystem (`engine/fs/`) | files and directories; what is cached and what is on the disk | create, rename, remove, sync of files and directories | contract fixed by the simulator `engine/fs/sim.rs`; `disk.rs` is the real one, `overlay.rs` a view |
| writer lock (`lock.rs`) | `.db/lock`, `lock.holder` | `acquire` with a budget, `announce` | kernel releases it at exit |
| database (`db.rs`, `plan.rs`) | verdict, history head, unrecorded changes | `open_as`, `transact`, `record`, `adopt`, `recover`, `committed_view`, `collect_garbage` | lock, journal, catalog, history |
| transactions (`transaction.rs`, `api.rs`) | net change per row, savepoint in the mirror | begin, statement, commit, rollback | database, mirror |
| history (`history.rs`, `store/refs.rs`, `store/revision.rs`, `store/dag.rs`) | heads, revisions, lineages, snapshots, idempotency keys | `prepare`, `find_idempotent`, `merge_base`, `verify` | heads are published and retired by the journal |
| object store (`store/objects.rs`, `pack.rs`, `consolidate.rs`) | packs and their indexes | publish, load, refresh, get, repack | packs are published by the journal, and by a repack without one |
| trees (`store/tree.rs`, `node.rs`, `verify.rs`) | none | build, diff, merge | object store |
| catalog and mirror (`catalog.rs`, `state.rs`, `mirror/`) | SQLite copy of rows, file stamps, verdicts, the recorded head | observe, ingest, savepoints, rebuild | database; rebuilt after a recovery |
| file names (`naming.rs`) | none | infer a convention, render, parse | plans of a change; the catalog checks names |
| contracts (`shape.rs`, `schema/`, `contract.rs`) | a table's schema | infer, validate, widen, admit a change | database; `infer.rs`, `schema widen`, `doctor` |
| row logic (`merge.rs`, `referential.rs`, `rows.rs`, `integrity.rs`) | none | three-way merge, cascades, validation | plans of a change |
| serve (`monitor.rs`, `src/crates/reldir/src/serve.rs`) | change log: epoch, base, paths, cookies | push, answer a mark, restart, forget | clients keep marks |
| upgrade (`upgrade.rs`) | `.db/upgrade/` with its marker `READY`, `.db/format-2/`, `.db/format` | build, swap, resume | the lock; not the journal: it puts format 3 in place by itself |
| migrate, doctor | none of their own | plan one change each | commit protocol |
| schemas, values, SQL, JSON editing | none | parse, type, rewrite | pure functions |
| server for agents (`src/crates/reldir/src/mcp/`) | plans by id, subscriptions, the stream of notifications | plan, commit, elicit, subscribe, query in pages | each call runs a command of the database |
| command line, shell, bindings, tools | none | dispatch | database |

What is hard here:

* **Crashes.** A change is many renames and removals; a process may die, or the
  power go, between any two, and again while the change is being finished.
* **Ordering on the disk.** An operation that returned is only in the cache; a
  power loss keeps any subset of what was not synced.
* **Partial failure.** A sync fails and drops what it was storing; a rename is
  refused after the commit point; a retraction fails.
* **Outsiders.** Editors save files without the lock at any moment.
* **Readers without the lock** look at journals, heads, packs and files one
  after the other while a writer moves them.
* **Retries**: a caller told "unknown" or "pending" asks again.
* **Long routes**: trees changed by deltas, rows moved by cascades, transactions
  of many statements, contracts widened step by step must end where the direct
  way would.
* **Limits**: the change log forgets, a wait for the lock runs out, timestamps
  are coarser than saves.

What makes each part correct:

* commit protocol: a change is made wholly or not at all on every disk, and
  what a caller is told stays true; an outside edit is never lost; recovery can
  always proceed; history's head and the files tell the same story.
* lock: one writer; a waiter gets it or is told why within its budget.
* object store: every object reachable from a head is found on every disk and by
  every reader; no index without its pack.
* history: a key names one revision; no revision is lost; numbers grow from
  parent to child; a tree is the state it was made of.
* database: what is committed was valid when judged, against the state it was
  planned on; readers see whole changes and every acknowledged one.
* serve: an answer to a mark contains every path changed since.
* catalog: a cached row is the file's row; the findings of a change are those of
  the state it leads to.
* merge and referential actions: agree with their declarative definition.
* file names: one name per key, read back as that key.
* contracts: a contract admits what is like the rows it was inferred from, and
  reldir brings nothing outside it into a row, but what an import puts over another
  program's undeclared member.
* upgrade: wherever it is interrupted, what format 2 kept is there, and a database
  that says format 3 is wholly so.
* server for agents: a plan makes what it showed, and is committed again only where
  another program brought back the state it is of; pages are of one state; who
  subscribed hears of every change.

## 2. The modules

| Module | What it is | Composed with |
|---|---|---|
| `Folder` | cells: what the cache shows and what a power loss may leave (operators only) | instantiated by `Journal`, `PackStore`, `SimFs`, `Upgrade` |
| `SimFs` | the simulated filesystem, with its list of pending operations, beside `Folder`'s cells | |
| `AtomicStore` | abstract specification: changes that happen at once or not at all | implemented by `Journal` |
| `Journal` | the commit protocol in detail, its environment, its properties | `Folder`, `AtomicStore` |
| `JournalProof`, `JournalFiles` | proofs about `Journal`: types, the journal on the disk, what callers are told and history's heads; outside edits, the files a change leaves, that recovery has all it needs, and that `AtomicStore` is implemented | the second extends the first |
| `PackStore` | the object store: recordings, snapshots, collections, a reader, crashes | `Folder` |
| `PackProof` | proofs about `PackStore`, `Lineages` and `MCPacks`: what crashes leave of the packs, what a reader finds, that a new lineage is whole and a collection forgets nothing | |
| `Lineages` | damaged history: snapshots, quarantine and new lineages, collection past them | |
| `Database` | several commands: lock, recovery, adoption, planning, commit, history's heads, readers | takes `Journal`'s results for granted |
| `DatabaseProof` | proofs about `Database`: order and history's log; what callers are told and answered | |
| `Mcp` | the server for agents: plans and their commits, subscriptions, pages | takes `Database`'s results for granted: a command is one step |
| `McpProof` | proofs about `Mcp`: plans and changes, subscribers | |
| `Mirror` | the catalog's copy of the files, of the recorded head and of what differs | |
| `MirrorProof` | proofs about `Mirror`: what an observation leaves, what a prospect shows, that no difference is missed | |
| `Monitor` | the folder monitor and the processes that ask it | |
| `MonitorProof` | proofs about `Monitor`: what is due, what an asker holds | |
| `Verdicts` | the findings about a state, and those of a change by its scope | |
| `Statements` | the statements of a transaction and the one change they make | |
| `Cascade` | the expansion of a statement by the actions of foreign keys | |
| `RowMerge` | the three-way merge of a row file and its conflict marks | |
| `Trees` | the trees of history, what of them is stored, the mirror's recorded rows | |
| `Revisions` | how the revisions of merged histories are numbered | |
| `Naming` | file names: the convention inferred, names of rows written by it | |
| `Contract` | contracts: inferred, refused, widened, kept by every statement | |
| `Upgrade` | an upgrade from format 2, its crashes and its resumption | `Folder` |
| `AlgorithmsProof` | proofs about `Statements`, `Verdicts`, `Trees`, `Revisions` and `Upgrade` | |
| `MCJournal`, `MCDatabase`, `MCMirror`, `MCObserving`, `MCCascade`, `MCPacks`, `MCServing`, `MCAlgorithms` | values for the constants | |

`MCAlgorithms` puts `Cascade`, `Revisions`, `Trees`, `RowMerge`, `Statements`,
`Verdicts`, `SimFs`, `Naming`, `Contract` and `Upgrade` side by side: a behaviour is
about one of them, its *subject*, and the others' variables stay as they are.
`MCObserving` does the same for `Mirror` and `Monitor`, `MCPacks` for the three kinds
of stores a run of `PackStore` and `Lineages` is about, and `MCServing` for those and
`Mcp`.

Each property of a run has a mutant in `PROJECT.json`: a plausible slip in one
definition with which the property no longer holds.  The mutated form stands
before the definition it replaces, under a comment `Mutant:`.

### Folder: what a crash may leave

The contract is the simulator's (`engine/fs/sim.rs`), which the repository's own
crash tests enforce: an operation takes effect in the cache when it is issued
(`record`), reaches the medium when its directory is synced (`persist_entries`)
or earlier; two operations on one name or one file persist in their order
(`conflicts`, `dependencies`); after a power loss any subset that respects this
order is there (`crash`, `subset`).  A *cell* is a group of names an operation
changes together.  It is a record `[now, may]`: the value in the cache and the
set of values some power loss may leave.  `Issue` adds to `may`, `Sync` removes
from it.  The representation keeps no list of pending operations, so a run of the
protocol of any length has finitely many states.

### Journal: state

| Variable | In the code |
|---|---|
| `row[p]` | file `p` of a table, and its staged copies `transactions/<id>/<n>` |
| `dir[d]` | table directory `d` |
| `txn[t]` | directory of transaction `t`: the directory, `journal` (none, torn, whole), `sync-failed` |
| `hist` | `.db/history/heads` and the heads staged as artifacts |
| `dropped` | files whose dirty entry a failed sync marked clean |
| `plan[t]` | `journal::Plan`: changes with pre- and post-image, heads to retire, directories to prune |
| `fate[t]`, `told[t]` | whether `t` is decided; what `commit` returned to the caller |
| `pc`, `cur`, `todo`, `at`, `touched`, `rewrite` | where the holder of the lock is in `commit` / `apply`, and its locals |
| `recovering`, `scan`, `blocked` | `recover`'s loop |

Contents are identities (an `Image` is a hash): `Absent`, `Base` (there at the
start), `Foreign` (an outside edit), and `t` for what change `t` writes.

### Journal: actions

| Actions | Code in `engine/journal.rs` |
|---|---|
| `Open`, `RecoverCommitted`, `RecoverDiscard`, `RecoverEnd` | `db.rs` `open_as`, `recover`; `journal::recover` |
| `Plan` | `db.rs` `transact` makes the plan; pre-images are read here |
| `PreflightRefuses`, `Stage` | `preflight`'s comparison; `commit` up to `stage_all` |
| `SyncStaged`, `CreateJournal`, `WriteJournal`, `SyncJournalFile`, `SyncJournalDir`, `SyncJournalAbove` | `commit`, to the commit point |
| `Retract`, `SyncRetraction` | the retraction of a journal that could not be made durable |
| `SyncAncestors` | `apply`, when recovering |
| `Look`, `MakeParent`, `SyncParent`, `PlaceFile`, `RemoveFile`, `Rewrite` | `apply`'s loop, `create_parents`, `place_fresh`, `rewrite_in_place` |
| `Prune`, `SyncPlaced`, `Publish`, `Retire`, `RetireDone`, `SyncPublished` | the rest of `apply` |
| `Mark`, `PlaceBlocked`, `PlaceLost`, `RewriteLost`, `PublishLost` | `Failure::Sync`, `Blocked`, `Other`, and what `commit` and `recover` do with each |
| `RemoveJournal`, `Unlink`, `RemoveTxnDir`, `SyncRemoval`, `FinishBlocked`, `DiscardBlocked` | `finish`, `discard` |
| `Kill`, `PowerLoss`, `Edit` | the environment |

The reading of a target and its rename are separate actions (`Look`,
`PlaceFile`), so an editor may come in between.  Changes of one plan are looked
at in any order; the code takes them in the plan's order, which depends on names.
Unlinking what is left in a transaction directory is one action: without a
journal, a directory with some of its files is discarded like one with all.
Syncs of staged files' data are part of `SyncStaged`.

Faults come from a budget (`Faults`, `MaxFaults`):

| Fault | Meaning |
|---|---|
| `power` | power loss at any step |
| `kill`, `killjournal`, `killremoved` | the process dies; the second while the journal is being synced or retracted, the third between the removal of a transaction's directory and its sync |
| `sync`, `syncjournal`, `syncremoved` | a sync fails; the second before the commit point, the third that of a removal, a failure the code ignores (`journal.rs:1117`) |
| `drop` | a directory's failed sync leaves its operations clean and unstored |
| `place` | a rename, removal or mkdir is refused |

Left out: Windows mode, read errors, preflight's checks of names and sizes, the
observer's failures (all callers in `db.rs` pass `Unobserved`), `Blobs` other
than `NoBlobs` (no caller passes one), `.db/transactions` not existing yet,
history packs (published like a head, and never retired by a journal), changes
of a plan that has artifacts only.

### PackStore

| Variable | In the code |
|---|---|
| `pack[n]` | the files of pack `n`: `pack-<ulid>.pack` and `.idx`, in `.db/objects/pack` and in the directory they are staged in |
| `name[n]` | a name of history: a file in `heads` or `refs/snapshots` |
| `holds`, `reaches`, `retires`, `snapshots` | what a pack's index lists; what `dag::reachable` finds from a name; the heads a recording retires; which names are snapshots |
| `jnl` | the recording or snapshot whose artifacts the journal still has to place |
| `pc`, `at`, `removing` | where the holder of the lock is in `apply`, `delete_snapshot` or `rewrite`, and its locals |
| `rpc`, `listing`, `seen`, `toload`, `fresh` | where a reader is in `Store::refresh` and `Store::get`; its `Listing`; the locals of `refresh` |
| `want`, `knew`, `swept` | the object it looks for; two history variables for the property `NoFalseMiss` |

| Actions | Code |
|---|---|
| `Record`, `Snapshot` | `History::prepare`, `snapshot::create`, up to the journal's commit point |
| `Recover`, `PlacePack`, `PlaceIdx`, `PlaceName`, `RetireName`, `SyncPublished`, `Finish` | `journal::recover` and the part of `apply` that places artifacts and retires heads |
| `Delete`, `SyncDelete` | `refs::delete_snapshot` |
| `WriteKept`, `KeepNothing`, `MovePack`, `MoveIdx`, `SyncMoved`, `RemoveIndex`, `RemoveThen`, `SyncRemoved`, `EndCollect` | `Database::collect_garbage`, `consolidate::repack` / `rewrite`, `pack::publish` |
| `Enumerate`, `StatVanished`, `Stat`, `Load`, `Loaded` | `Source::read_dir`, `Store::refresh` |
| `Pick`, `Try`, `TryAgain`, `Ask` | `Store::get`, `Store::try_get` |
| `Kill`, `PowerLoss` | the environment |

From `Journal` it takes two facts: the journal of a publication is on every disk
until it is removed (`WriteAhead`), and what it has to place is there
(`NeverLost`).  So a recording starts at its commit point with its files durably
staged.  Objects are numbers: name `n` brings object `n`, and reaches any set of
objects already stored besides, because a recording leaves out whatever the
store holds, reached or not.  A head's revision is an object of its pack, so
each recording brings one.

The names in a directory are enumerated at one moment; inspecting them comes
later (`disk.rs` collects all names first).  Packs are listed in the order of
their names; which of several packs of an object is tried first is left open.
Left out: `consolidate` (no production code calls it; it ends in the same
`rewrite`), failed operations, and the removal of the staging directory.  Of a
collection that fails there, everything else has been done.  Damaged bytes and
quarantined lineages are `Lineages`'.

### Lineages

| Variable | In the code |
|---|---|
| `files` | two row files, one of which another program may save as no row |
| `revisions`, `tips`, `asides`, `snapshot` | history: revisions, heads, heads in `.db/history/quarantine`, the one snapshot |
| `shelf` | the packs: what each lists, which copies are damaged, whether its index is, and whether it is in use, set aside or gone |
| `stage`, `corrupt`, `ended` | where the process is in `begin_new_lineage`, the packs it found corrupt, how the last command ended |
| `forgotten` | what collections took from a name that reached it (for the property) |

| Actions | Code |
|---|---|
| `AdoptState` | `Database::adopt`, `History::prepare` |
| `TakeSnapshot`, `PutBack`, `DropSnapshot` | `snapshot.rs` `create`, `restore`, `delete` |
| `BeginLineage`, `Quarantine`, `RetireHead`, `Retired`, `MoveAside`, `RecordLineage` | `Database::begin_new_lineage`, `refs::quarantine`, `set_aside_packs` |
| `CollectGarbage` | `Database::collect_garbage`, `dag::reachable` |
| `SaveFile`, `DamageEntry`, `DamageIndex`, `LosePack`, `KillLineage` | the environment |

Here a publication or a collection is one step: `PackStore` takes those apart.  What
is taken apart is the setting aside, which moves heads and packs one after the other.

### SimFs

`live`, `durable` and `pending` are the simulator's trees and its queue of
operations; `windows` and `handles` its Windows mode and the files held open.
Beside them `links` and `contents` are two of `Folder`'s cells, issued and synced
by the same operations.  Actions: `WriteFile`, `SyncFile`, `SyncFails`,
`SyncDir`, `Rename`, `Erase`, `CreateDir`, `Hold`, `Crash` (`Fs for Sim` and
`Sim::crash`).  The module is what entitles `Journal`, `PackStore` and
`Upgrade` to use cells: every crash of the simulator is one the cells foresee.  Left out: devices,
volumes and space, processes and their locks, refused operations.

### Database

| Variable | In the code |
|---|---|
| `files[p]` | a row file: the marks of the changes it holds, `ext` for another program's, `bad` for one the schema refuses |
| `revs`, `heads` | history: every revision with its parents, state and key; the files in `heads` |
| `jnl` | the committed transaction still to finish, and what is left of it |
| `mir` | the mirror: rows, recorded head, kept verdict |
| `lock` | who holds `.db/lock` |
| `s[c]` | the session of command `c`: place, wait, view, heads, token, answer |
| `script[c]` | its kind (`write`, `review`, `repair`, `observe`, `readonly`) and idempotency key |

| Actions | Code |
|---|---|
| `Begin`, `Take`, `Busy`, `Sleep`, `GiveUp` | `lock.rs` `acquire`; any delay up to the step stands for the jitter |
| `Recover`, `Place`, `Block`, `Publish`, `Retire`, `Finish` | `journal.rs` `recover`, `apply`, as `Journal` has shown they may be taken: whole, in order, resumable |
| `Observe`, `Judge`, `AdoptNothing`, `Adopt`, `AdoptMoved`, `Settle` | `Database::open_as`, `adopt` |
| `Replayed`, `DryRun`, `Refuse`, `PlanChange`, `Conflict`, `Preflight`, `Commit`, `Keep`, `KeepVerdict` | `Database::transact`, `commit` |
| `Answer`, `Snapshot`, `List`, `Posts`, `Incomplete`, `Read`, `AnswerRead` | reading commands; `committed_view` and `Pending::post` for `readonly` |
| `Kill`, `Edit`, `Pull` | the environment: a kill, another program, a head brought by another clone |

Left out: establishing a database, time limits inside a session, named
references; lineages are `Lineages`'.

### Mirror

| Variable | In the code |
|---|---|
| `now`, `disk`, `schemas` | the filesystem's clock in ticks, files with modification time and inode, the tables governed |
| `heads` | the recorded trees |
| `mir`, `base` | the SQLite file as the connection sees it, and as committed: files, recorded rows, unsettled paths, governed tables |
| `seen`, `watched`, `listing`, `todo` | an observation under way |
| `plan`, `delta` | the change being judged and what its revision records |
| `held[p]` | what the file has held since the observation began (for the properties) |

Actions: `Save`, `Replace`, `Unlink` (other programs); `Open`, `List`, `Look`,
`Release`, `LoadHead` (`Catalog::open`, `scan`, `History`); `PlanRows`,
`PlanWhole`, `Prospected`, `Abandon`, `Commit`, `Keep`, `Adopt`,
`AfterRecording` (`Catalog::prospect_rows`, `prospect`, `Prospect`,
`Database::commit`, `adopt`); `Kill`.  A file's size is part of its stat (`SizeOf`);
a planned file's stat is its size and zeros (`PlannedStat`).  Left out: an in-place rewrite that puts the
old time back within one tick, change times and devices (without them the model
trusts stamps the code does not, never the reverse), mirrors in memory, other
programs' edits of schemas.

### Monitor

`ver[p]` counts the changes of a file, `queue` is what the system has still to
deliver to the monitor.  Its log is `epoch`, `logbase`, `paths`, `cookies`;
`request` what it is answering.  `mver`, `mark` are the mirror's versions and
stored mark; the asker's `doing`, `cookie`, `changes`, `toread`, `found` its way
through `Catalog::observe`.  Actions: `Change`, `Start`, `Stop`, `Deliver`,
`Reply`, `TimeOut`, `Connect`, `Unwatched`, `Send`, `Broken`, `Examine`,
`ExamineFile`, `Store`, `Close`, `KillAsker` (`serve.rs`, `monitor.rs`, `catalog.rs`).
The HTTP side of `serve` is left out.

### Mcp

| Variable | In the code (`src/crates/reldir/src/mcp/`) |
|---|---|
| `row`, `schema`, `source` | the row files of a table, its contract, the file `import` reads |
| `recorded`, `head`, `order`, `unread` | the newest revision, its number, the order of rowids in the mirror, the files an observation would read |
| `plans`, `serial` | the plans the server keeps, with the state token each was made on |
| `legacy`, `peer`, `listener`, `elicits` | the subscriptions of both protocol versions; whether the client can ask its user |
| `call[a]`, `job[a]`, `touched[a]`, `tells[a]` | where a call that commits is, its plan, whether it changed rows or the schema, the notifications it has still to send |
| `page` | a query read in pages: its cursor and what it got; whether a file was written meanwhile and left the rows as the first page found them (`NotesReturn`) |
| `agreed`, `made`, `owed`, `outsides` | for the properties: who was asked, the plans committed and after how many changes by other programs, who is to be told |

| Actions | Code |
|---|---|
| `Plan`, `NamePlan`, `Return`, `Decline`, `Agree`, `Run` | `mod.rs`: the two calls of a tool that changes the database, and the question to the user between them |
| `AnnounceRows`, `Announce`, `Tell`, `Answered` | the notifications of a commit, before its answer |
| `Subscribe`, `Unsubscribe`, `Listen`, `StopListening` | `resources/subscribe`, `subscriptions/listen` |
| `FirstPage`, `NextPage`, `EndOfPages` | `tools.rs` `query`, `query::page` |
| `Edit`, `Reformat`, `EditSource`, `Reopen` | other programs; the server started again |

Five tools stand for all: one that updates a row, one that deletes, `import`, which
reads a file when it is planned and when it is committed, one that changes a contract,
and `apply_fixes` with two of its repairs, one that mends a row (`FIX_REMOVE_REFERENCE`)
and one that deletes it (`FIX_ORPHAN_DELETE_ROW`).

A revision is recorded of a valid state that differs from the last one's
(`Revisions`; `db.rs:1302`).  So a repair that undoes what another program did leaves
the head as it was (`db.rs:1384`), and with it the state token, and the row it wrote
lies at the end of its table.  Two calls may hold one plan while their users are asked
(`mcp/mod.rs:517`), so a token that comes back is what a second commit needs.

### Upgrade

| Variable | In the code |
|---|---|
| `cell[i]` | part `i` of the metadata (or a pin): what is in its place, what is set aside of it in `.db/format-2`, what is built of it in `.db/upgrade` |
| `lacks`, `tracking` | what the format 2 database was without; whether its `.gitignore` let history be versioned |
| `phase`, `at`, `tracked` | where the process is in `upgrade` and `swap`, and its local `tracked` |
| `strikes` | the interruptions up to now |

| Actions | Code in `upgrade.rs` |
|---|---|
| `Tidy`, `Resume`, `BuildWorkspace`, `BuildRefused`, `MarkReady`, `SyncTree` | `upgrade`, `build`, `sync_tree` |
| `SetAside`, `PutInPlace` | `swap`'s moves, `move_once` |
| `SavePin`, `RewritePin`, `DropConverted` | `swap`'s loop over the pins |
| `CreateTransactions`, `WriteGitignore`, `WriteFormat`, `RemoveWorkspace` | the rest of `swap` |
| `SyncStep` | the syncs that end a move or a replacement |
| `KillUpgrade`, `LosePower` | the environment |

`Steps` is the order of `swap`.  Names that only format 2 has are one part, `old`.
What is built is converted rows of data and left out; that the workspace's files
are whole once `READY` is durable is what `SyncTree` is about.

### The algorithms

| Module | State | Actions and their code |
|---|---|---|
| `Verdicts` | the folder, the mirror's entries, faults, the verdict, a prospect | `JudgeChange`, `KeepChange`, `AbandonChange`: `Catalog::prospect_rows`, `integrity::Scope`, `Mirror`'s savepoint |
| `Statements` | the rows found, the mirror, `net`, the transaction | `Execute`, `Rollback`, `CommitAll`: `Transaction::apply`, `rollback`, `commit` |
| `Cascade` | base, rules, plan | `Take`, `Pop`, `Visit`, `Left`, `Resolve`, `Judge`: `referential::expand` and `plan.rs` `render_with` |
| `RowMerge` | three sides, marks, kept sides | `Mark`, `Keep`: `merge.rs` |
| `Trees` | trees, heads, the store's objects, the mirror's recorded rows | `RecordChange`, `RecordWhole`, `Move`, `Lose`, `Sync`: `History::prepare`, `TreeUpdate`, `Mirror::sync_recorded` |
| `Revisions` | revisions, heads of two clones, numbers, the revisions an `INSERT` is still to come for | `Record`, `Pull`, `Number`, `Insert`, `KillNumbering`: `History::prepare`, git, `History::number` |
| `Naming` | files, the identity, strays | `Adopt`, `InsertRow`, `UpdateRow`, `Add`: `naming.rs`, `infer.rs`, `plan.rs` |
| `Contract` | rows, the schema, what other programs wrote, what reldir wrote over their undeclared members (`over`) | `AdoptContract`, `SaveRow`, `RemoveRow`, `UpdateRows`, `InsertInto`, `Import`, `WidenToFiles`, `WidenMember`: `shape.rs`, `schema/widen.rs`, `contract.rs`, `rows.rs`, `Database::transact` |

Left out: in `Verdicts` and `Statements`, what a row's own schema refuses; in
`Cascade`, references inside arrays and tables with several candidate keys; in
`RowMerge`, the text around members and the import modes; in `Trees`, the second
level of buckets and the search for a recorded tree (`last_known`); in `Naming`,
composite keys of inferred tables, number formats, separators other than the
slash, and the length of names; in `Contract`, bounds, enumerations and `$ref`,
which only a person writes, and the form of a map's names.

## 3. What is checked

### Properties

| Property | Module | Says |
|---|---|---|
| `WriteAhead` | `Journal` | from the commit point until it is removed, the journal is on every disk a power loss can leave |
| `BeforeOrAfter` | | where the journal may be missing, the files are all as before or all as after |
| `NoThirdOutcome` | | what a command that is ready to plan finds is a change wholly made or not made |
| `OneJournal` | | once its writer has decided a change, or told its caller so, no disk brings back an older change's journal |
| `NeverLost` | | recovery has what it needs: staged copies, rewritable files, heads |
| `AckedForGood`, `RefusedForGood` | | what the caller was told stays true on every disk |
| `HeadFollows` | | no disk has a history without a head; head and files tell of the same changes |
| `EditsKept` | | outside edits are not overwritten |
| `Atomic` | | `Journal` implements `AtomicStore`: `db` is what a reader sees of each file (its post-image while a live journal is still to place it), `st` whether the change is visible or decided |
| `Finished` | | a committed change is finished, if reldir is run again |
| `Kept` | `PackStore` | on every disk, a name that is there (or that the journal brings) reaches only objects that are there |
| `IndexHasPack` | | no index is visible without its pack, whoever is killed |
| `CollectsAll` | | a collection that ends leaves what the names reach, once each |
| `NoFalseMiss` | | a reader told that an object of history is missing was overtaken by two collections, or by one before it knew the object's pack |
| `NamesKept` | `MCPacks` | `Kept`, of a store that loses power; `IndexHasPack` and `CollectsAll`, of one that is read |
| `ReadersFind` | | `NoFalseMiss`, of a store that is read |
| `LineageWhole` | `Lineages` | a new lineage reads whole, whatever was damaged |
| `NothingForgotten` | | no collection takes what a name reaches through the packs in use |
| `OncePerKey` | `Database` | one revision per idempotency key, whatever was killed, retried or pulled |
| `NoLostUpdate` | | a change that was acknowledged is in the files or about to be, but for outside edits kept; a reviewed one was made on the state reviewed |
| `HistoryTold` | | every revision is in the log of the heads (`HistoryKept`), and heads and files agree on every change made through reldir (`HistoryAgrees`) |
| `DescribesAlone` | | a change's revision describes that change alone, and no outside edit |
| `AnsweredTruly` | | an answer shows what was acknowledged before its command began, and one that observed the folder or the mirror shows each change whole or not at all |
| `OnceAsPlanned` | `Mcp` | a plan makes what it showed and removes rows only if the user was asked or the agent confirmed; it is committed again only by a call that was asking, after another program changed something (an action property) |
| `PagesContinue` | | the pages of a query are the rows of one state, each once, where the query has an order or no file was written meanwhile that left the rows as the first page found them |
| `SubscribersHear` | | who was subscribed to what a commit touched is told before the commit is answered |
| `ObservedIsHeld` | `Mirror` | an observation leaves, for each file, what it held at some moment since it began |
| `ProspectIsFuture` | | the observation of a planned change is the state the change would leave |
| `DeltaIsWhole` | | every row that differs from the recorded head is unsettled, and the recorded head is the head |
| `HoldsWhatWasAsked` | `Monitor` | an asker ends with every change made before it asked |
| `Accounted` | | a file the mirror holds in an older version will be examined, whatever log and queue lost |
| `CascadeKeeps` | `Cascade` | the rows a statement leaves are those it and its cascades did not delete (`RowsKept`), and no reference to a key the database held is left dangling; one by cascade follows its row (`ReferencesKept`) |
| `Numbered` | `Revisions` | numbers are given once each, and a revision has one only if all its parents have lower ones, also between the INSERTs of a command that numbers and after it was killed there |
| `StateHeld` | `Trees` | the tree a route of changes leads to is the one built from the folder; what a recording stores, with what the store held, is every node and blob of it; and the mirror's recorded rows are those of the tree it names (`RecordedIsTree`) |
| `KeepsValid` | `RowMerge` | whichever sides of a merge's conflicts are kept, the file is JSON with the members of those sides |
| `NetIsEffect` | `Statements` | what a transaction commits is what its statements did |
| `JudgedAsWhole` | `Verdicts` | the verdict of a change, judged by its scope, is that of the folder after it |
| `CrashesForeseen` | `SimFs` | every crash leaves names and bytes the cells hold, each file under one name |
| `NamedByKey` | `Naming` | file names and keys determine each other: read back, unique, and kept by writes |
| `AdmitsTheLike` | `Contract` | an inferred contract admits exactly what is like the rows |
| `ContractKept` | | what a contract refuses of a file is as another program wrote it, or what an import put over its undeclared member; and what was once admitted stays so |
| `UpgradeKept` | `Upgrade` | on every disk, what format 2 kept is in its place or set aside, and a database marked format 3 has all of it |

Defined and checked by no run, because they do not hold (below): `ReadonlySeesWhole`,
`VerdictOfRows`, `LineageBegins`, `CollectsPastAsides`, `AsidesStay`, `CommittedOnce`,
`RefusedIsTheirs`.  The one type invariant is `Journal`'s.

### Runs that pass

| Run | Instance | Checks |
|---|---|---|
| `PowerLoss` | 2 targets in 2 directories, 2 changes, 2 faults of `power` and kills but `killjournal`; 1.1 million states | `TypeOK` `WriteAhead` `NoThirdOutcome` `OneJournal` `HeadFollows` |
| `FaultsAndEdits` | 1 change, 3 faults of all but `killjournal`, `syncjournal`, `drop`, 1 edit not racing | `NeverLost` `AckedForGood` `EditsKept` `Atomic` |
| `UnknownCommit` | 1 change, 3 faults of all but `drop`, 1 racing edit | `RefusedForGood` |
| `RecoveryFinishes` | 1 change writing two files of one directory, 3 faults of `power`, `place`, `sync`, `syncremoved`, `drop`, 1 edit between commands, fairness | `BeforeOrAfter` `Finished` |
| `Serving` | 3 names, 2 collections, 2 faults of `power`, `kill`, a head at the start; or 2 names, 2 collections, a reader; or 3 revisions, 3 packs, 1 damaged, 1 kill; or 2 agents, 2 rows, restarts, 2 plans (1 or 2 kept) and 2 things another program does, together 3 at most (2 beside pages); 1.1 million states | `NamesKept` `ReadersFind` `LineageWhole` `NothingForgotten` `OnceAsPlanned` `PagesContinue` `SubscribersHear` |
| `Commands` | 3 commands on 2 row files, three scripts of them, at most 2 events, or a pulled head alone; 1.3 million states | `OncePerKey` `NoLostUpdate` `HistoryTold` `DescribesAlone` `AnsweredTruly` |
| `Observing` | 2 tables of one file, 3 ticks, 1 edit, 1 planned change, 1 kill where no time passes; a monitor of 2 files, 3 changes, 2 askings, log and queue of length 2, 2 epochs; 2.4 million states | `ObservedIsHeld` `ProspectIsFuture` `DeltaIsWhole` `HoldsWhatWasAsked` `Accounted` |
| `Algorithms` | the instances of `MCAlgorithms`; 0.5 million states | the properties of its ten modules |

Bounds.  Two targets are the fewest of which one can be before and one after;
two directories the fewest whose syncs can be told apart; two changes the fewest
where an older journal can return, or a head be retired by its successor.  Two
faults reach a failure during the recovery from a failure; three reach a failed
sync, a failed or interrupted recovery, and a power loss.  An edit is one, since
each file is compared only with what its plan says.  `NeverLost`, `AckedForGood`
and `Atomic` are checked for one change: with two, `NeverLost` fails at the fourth
fault (`JournalReturns`).

For `Serving`: three names are a head, its successor and a snapshot, so that a
collection keeps one object and drops another and a recording reuses a third; two
collections are what a reader's one second look cannot survive, and what it takes
to interrupt one and finish it by another; two faults are the kill of one and the power
loss that follows.  One damaged pack of three is met by each
of the three: a recording that reuses objects, a restore, a collection past what was
set aside.  Two agents can name one plan at once; two plans are one more than a
server that keeps one.  Two things another program does are an edit and its undoing,
after which the database has the state it had and the file lies elsewhere; or a row
spoiled, and spoiled again after a plan repaired it.  A plan and those two are the
fewest with which a state comes back, so plans and they are three together.

`killjournal`, a kill between the writing of a journal and its sync, and a save that
races `apply`'s rename are in `UnknownCommit` alone: `NoThirdOutcome` and `EditsKept` fail
with them (below).  The theorems `Typed`, `RefusalKept`, `AcknowledgementKept` and
`NoOlderJournal` admit them, and every other fault, in any number.

For `Commands`: two row files are the fewest a reader can see halves of; three
commands are a change, its retry or rival, and a reader; the events of a behaviour
(edit, kill, blocked path) are any two, or a head is pulled.  For `Observing`, a log and a
queue of two overflow with three changes, and two askings are one whose answer is
stored and one that relies on it; three ticks tell a save within
the tick of the last look from one before and one after.  Of the stamps a process took
before it dies its mirror keeps none or all, so that no time need pass there.

For `Algorithms`: `Cascade` has three tables, one with a reference to itself, and
`ON UPDATE`/`ON DELETE` rules of every kind; `Revisions` five revisions, enough for
two diverged branches and a merge; `Trees` three recordings, the third on what two
routes made; `RowMerge` members present and absent on each side in every
combination, one level deep; `Statements` three statements over three paths, so
that two rows trade places through a third; `Verdicts` every folder of an owner, two
items to write and two others; `SimFs` three operations and every crash of them;
`Naming` texts of each class of character, alone and in pairs; `Contract` values of
each kind, alone and in pairs, one write of another program and two of reldir
(statements, imports or widenings); `Upgrade` three interruptions, so
that a resumed swap is itself interrupted, by a kill or a power loss, and resumed.

Fairness.  `FairSpec` of `Journal` is `WF_vars(Step)`: a command that is running
goes on, and somebody runs reldir again after a failure (`Open` is a step of
`Step`; the error's help text asks for exactly this).  Planning, closing, faults
and edits need not happen.  Faults end, since they come from a budget: the
liveness property says that recovery converges once its causes are gone.

Deadlock is checked in the runs of `Journal` and in `Commands`: an idle folder can
always be opened, and a command that cannot go on has ended.  It is not in the
others: when the bounds are used up, nothing is left to do.

### Runs that show a disagreement

Each checks a sentence of a document or a comment, and TLC finds it violated by
what the code does.  `PROJECT.json` quotes the sentences.

| Run | What happens |
|---|---|
| `JournalReturns` | A process is killed after it removed a finished transaction's directory and before it synced the removal; the power goes while the next change's journal is being made durable; recovery finds both journals, and is killed in the same place once more.  After a last power loss the old journal is back, alone, after the newer change: a file the newer change removed matches what the old one found, is to be placed again, and its staged copy is gone.  Recovery fails from then on. |
| `PlanUnseen` | A change that drops one table and writes a row of another is judged by observing everything, through a view of the folder as it will be.  What changed is asked of the monitor, which watches the real folder and knows of none of it: the planned row is not read, and the change is judged, and its rows kept, as if it had not been made. |
| `RowLost` | `UPDATE OR REPLACE` moves a row onto another whose place in the table comes later.  The deletion of the replaced row is planned after the move, on the path the moved row now has: the file that is written is removed again. |
| `UpgradeStuck` | An upgrade is killed after it created `.db/transactions` anew and before it wrote `.gitignore` or `format`.  The next run finds that name both in its place and set aside, and refuses: `transactions` is not among the names it knows format 3 to have too. |

### What does not hold

The passing runs leave out exactly the fault or input that breaks the property
they check, so that they show what holds otherwise.  With it let in, the same
properties fail; the constants to set:

| Property | Constants | What happens |
|---|---|---|
| `NoThirdOutcome` | `Faults = {"power", "killjournal"}` | the process dies after writing the journal and before syncing it; recovery acts on the journal in the cache, and a power loss keeps a rename and not the journal |
| `NoThirdOutcome` | `Faults = {"power", "drop"}`, removals | a removal whose directory's sync failed and dropped it is not redone by recovery, only written files are written afresh |
| `NeverLost` | `Faults = {"power", "syncjournal"}`, `MaxFaults = 3` | the same door, opened by `COMMIT_UNKNOWN`: recovery acts on a journal that could not be synced |
| `NeverLost` | edits that restore old contents after a crash | the file is taken for one still to place, and its staged copy is gone |
| `EditsKept` | `EditWhen = {"racing"}`, `MaxEdits = 1` | a file saved between `apply`'s comparison and its rename is overwritten |
| `Kept` | `Faults = {"power", "killdelete"}`, `MaxFaults = 2` | a deletion killed before its sync, a collection, a power loss: the snapshot is back and its objects are not |
| `Kept` | a history without a head at the start, `NNames = 3` | a recording reuses an object of a pack that a killed collection put in place and did not sync; a power loss takes the pack |
| `IndexHasPack`, `NoFalseMiss` | `Faults = {"power"}` | a power loss during a collection keeps an index and loses its pack |
| `VerdictOfRows` | `KillUnjudged = TRUE` | the verdict is kept in a transaction of its own after the rows; a kill between the two leaves the verdict of other rows, which the next command believes |
| `ReadonlySeesWhole` | two writers beside a `readonly` reader | the reader lists journals, then reads files while the second writer places its own: half a change (`src/docs/transactions.md:8`) |
| `HoldsWhatWasAsked` | `Reuse = TRUE` | a process gets the number of an earlier one, whose cookie was seen after its time was up, or after it was killed: the monitor takes that cookie for the new one's and answers before it has seen what changed (`monitor.rs:95`; `:7`) |
| `ProspectIsFuture` | `MaxPlans = 2`, two planned contents of one length | a row committed on an open handle is kept with the planned file's stat, its size and zeros (`catalog.rs:295`); a second change on the same handle, of a schema and of a row of the same length at the same path, is observed through an overlay that gives the same stat (`overlay.rs:48`), and the stale entry is trusted (`mirror/mod.rs:114`; `overlay.rs:18`).  A command opens the folder for each change it makes, so only a library caller with two changes on one handle gets there |
| `RowsKept` | rows whose key holds two references, both renamed | the row is planned at two paths (`referential.rs:280`) |
| `RowsKept` | `ON DELETE SET DEFAULT` on a member of the key, landing on a row that stays | `plan.rs:175` |
| `JudgedAsWhole` | writable paths that fold alike, a file above `max_json_file_size`, or a path of `Ignored` | the scope judges what is planned, the whole observation reports what it finds (`catalog.rs:305`, `:1148`, `:1089`) |
| `Numbered` | `Skewed = TRUE`, with kills | between the INSERTs a kill leaves an ancestor without a number, and its descendant with one |
| `UpgradeKept` | `Tracking = {TRUE}` | a run resumed after `.gitignore` was set aside takes history for unversioned, and writes a `.gitignore` that says so (`upgrade.rs:1092`) |
| `UpgradeKept` | `Lacking = {{"config"}}`, or `objects`, `schema`, `transactions` | format 2 had no such name; a resumed run sets format 3's aside as if it were format 2's (`upgrade.rs:1112`) |
| `UpgradeKept`, `Resumed` | `UpgradeFaults` with `"unmarked"` | `READY` is written before anything in the workspace is synced: killed between, the next run takes the workspace for durable; after a power loss the marker may be torn (`upgrade.rs:183`) |
| `UpgradeKept` | `UpgradeFaults = {"kill", "power", "unsaved"}` | a pin's original is renamed into place, the process killed before the sync; the next run takes it for saved, rewrites the pin, and a power loss takes the original (`upgrade.rs:1123`) |
| `OnceAsPlanned` | `Outside` with `"source"` | the file an `import` reads is saved again between its plan and its commit: what is committed is not what was shown (`src/crates/reldir/src/mcp/mod.rs:523`; `src/docs/mcp.md:109`) |
| `CommittedOnce` | 2 agents, 1 row, 1 plan, `Outside = {"spoil"}`, `MaxOutside = 2` | two calls name one plan of `apply_fixes`, which deletes a broken row, while their users are asked (`mcp/mod.rs:520`); the first commits, the state is the recorded one, so no revision is made (`db.rs:1302`, `:1384`); the broken row is saved again, the state token is the plan's, and the second call commits it too (`src/docs/mcp.md:115`) |
| `PagesContinue` | without its condition on saves, `MaxOutside = 2` | a query without an order is read in pages; between two of them a file is saved in another layout, or edited and the edit undone, by hand or by a repair that restores what was recorded (`db.rs:1384`): the state token is what it was, and the file's rows have moved to the end (`mirror/files.rs:166`; `src/docs/mcp.md:88`) |
| `LineageBegins` | `Damage` with `"index"` | a damaged index makes `History::open` fail after the heads were moved aside: the new lineage cannot be recorded, then or later (`db.rs:1632`; `src/docs/recover.md:114`) |
| `CollectsPastAsides` | `Damage` with `"entry"` | a blob that only a quarantined lineage names was set aside with its pack and the tree naming it was not: a collection takes it for damage and refuses (`store/dag.rs:165`; `:123`) |
| `AsidesStay` | `Damage` with `"entry"` | what a quarantined head reaches only through a revision that was itself set aside is collected (`store/refs.rs:10`) |
| `RefusedIsTheirs` | none to set: `ContractKept` admits just this | another program saves a row with a member the contract does not declare, and an import gives the member another value: the fault is told by the member's name alone (`schema/row.rs:256`), so it counts as the one that was there, and the value is written (`rows.rs:236`; `contract.rs:8`, `:20`) |
| `NamedByKey` | a stray `01` in a table with integer keys | read as 1, which belongs to `1` (`naming.rs:621`) |

A reader may also reach `rpc = "failed"` with no fault at all: the listing it makes
after a pack vanished under it inspects every entry, and fails when a collection
removes one of them meanwhile.

Seen while reading, and not modelled:

* the identity of a fault includes its message, which lists the types the rule
  wants (`contract.rs:82`): when a change widens a contract for one row, an old
  fault of another row it writes counts as new, and the change ends in
  `INTERNAL_ERROR` (`db.rs:1222`);
* a bound is moved to the last value it refused, not the extreme one
  (`schema/widen.rs:258`), so that many rows in ascending order use up the rounds;
* a column named `definitions` cannot be widened below (`schema/widen.rs:129`);
* the result of creating the `sync-failed` marker is ignored (`journal.rs:724`);
* a collection stages its pack outside the journal and leaves it when killed
  (`db.rs:1699`);
* a process killed between `quarantine` and `set_aside_packs` leaves corrupt packs in
  use, and the next adoption relies on their indexes (`db.rs:1604`);
* `apply_fixes` that leaves the database invalid is committed and not announced
  (`src/crates/reldir/src/mcp/mod.rs:536`); it takes its snapshot before it is
  refused with `PLAN_CHANGED` (`src/crates/reldir/src/command/health.rs:385`); planning it, or a schema tool, when
  there is nothing to do answers `INTERNAL_ERROR` (`src/crates/reldir/src/mcp/mod.rs:257`);
* `merge_base`, `is_ancestor` and `prune_ancestors` have no caller outside tests.

## 4. What is proved

Every theorem holds for all values of the constants the modules' assumptions admit:
any number of changes, targets, directories, faults and edits in `Journal`; any
number of commands, row files, edits, kills, blocked paths and pulled heads in
`Database`; any number of recordings, snapshots, collections, power losses and kills in
`PackStore`; any number of revisions, packs, damages, recordings and kills in `Lineages`; any number of agents, rows, plans kept and restarts in `Mcp`; any number of
files, changes, askings and restarts, and limits of any size, in `Monitor`; any number of
files, contents, tables, saves, plans and kills in `Mirror`; any number of paths, rows and
statements in `Statements`; any folders, changes and limit in `Verdicts`; any folders, recordings
and merges in `Trees`; any number of revisions, pulls and kills in `Revisions`, and of kills and
power losses in `Upgrade`.  Some need
assumptions about the environment beside; they are part of the theorem.

| Theorem | States | Assumes |
|---|---|---|
| `Typed` (`JournalProof`) | `[]TypeOK` | |
| `Journaled` (`JournalProof`) | `[]WriteAhead` | `JournalSpared` |
| `RefusalKept` (`JournalProof`) | `[]RefusedForGood` | |
| `AcknowledgementKept` (`JournalProof`) | `[]AckedForGood` | |
| `NoOlderJournal` (`JournalProof`) | `[]OneJournal` | |
| `EditsAreKept` (`JournalFiles`) | `EditsKept`, an action property | `Unraced` |
| `HeadsFollow` (`JournalProof`) | `[]HeadFollows` | `JournalSpared` |
| `BeforeOrAfterKept` (`JournalFiles`) | `[]BeforeOrAfter` | `JournalSpared`, `RemovalSpared`, `Undropped`, `Unedited` |
| `TwoOutcomes` (`JournalFiles`) | `[]NoThirdOutcome` | the same four |
| `RecoveryHasAll` (`JournalFiles`) | `[]NeverLost` | the same four |
| `OneChange` (`JournalFiles`) | `Atomic`: `Journal` implements `AtomicStore` | the same four |
| `KeepsOrder` (`DatabaseProof`) | `[]Ordered` | |
| `MadeOnce` (`DatabaseProof`) | `[]OncePerKey` | |
| `HistoryStays` (`DatabaseProof`) | `[]HistoryKept` | |
| `NothingLost` (`DatabaseProof`) | `[]NoLostUpdate` | |
| `HistoryTells` (`DatabaseProof`) | `[]HistoryTold` | |
| `AnswersAreTrue` (`DatabaseProof`) | `[]AnsweredTruly` | |
| `PacksKeep` (`PackProof`) | `[]NamesKept` | `DeletionSpared` |
| `ReadersFindAll` (`PackProof`) | `[]ReadersFind` | |
| `NewLineageWhole` (`PackProof`) | `[]LineageWhole` | |
| `CollectionsKeep` (`PackProof`) | `[]NothingForgotten` | |
| `BroughtBack` (`McpProof`) | a plan is committed again only if it removes rows, of a state that is broken, after another program's change (an action property) | |
| `CommitsOnce` (`McpProof`) | `[]CommittedOnce` | `"spoil" \notin Outside` |
| `PlansAreKept` (`McpProof`) | `[]OnceAsPlanned` | `SourceSpared` |
| `AllHear` (`McpProof`) | `[]SubscribersHear` | |
| `ChangesAreDue` (`MonitorProof`) | `[]Accounted` | |
| `AskersHaveAll` (`MonitorProof`) | `[]HoldsWhatWasAsked` | `CookiesUnique` |
| `Typed` (`MirrorProof`) | `[]TypeOK` | |
| `ObservationsHold` (`MirrorProof`) | `[]ObservedIsHeld` | |
| `ObservationsClear` (`MirrorProof`) | an observation leaves no entry with a planned file's stat | |
| `ProspectsForesee` (`MirrorProof`) | `[]ProspectIsFuture` | `"prospect" \notin AskWhen`, `Afresh` |
| `DeltasAreWhole` (`MirrorProof`) | `[]DeltaIsWhole` | |
| `CommitsItsEffect` (`AlgorithmsProof`) | `[]NetIsEffect` | |
| `ScopeSuffices` (`AlgorithmsProof`) | `[]JudgedAsWhole` | `WritesAreRead`, `WritesApart` |
| `StatesAreHeld` (`AlgorithmsProof`) | `[]StateHeld` | |
| `AncestorsFirst` (`AlgorithmsProof`) | `[]Numbered` | `~Skewed` |
| `UpgradeInOne` (`AlgorithmsProof`) | `[]UpgradeKept` | `Complete`, `Untracked`, `Unfaulted` |

`JournalSpared`: no process dies and no sync fails while a journal is being made
durable (`killjournal` and `syncjournal` are not among `Faults`).  `RemovalSpared`: none
dies, and no sync fails, between the removal of a transaction's directory and its sync
(`killremoved`, `syncremoved`).  `Undropped`: no failed sync leaves a directory's
operations clean and unstored (`drop`).  `Unedited`: nobody else writes the files
(`Edits = {}`).  `Unraced`: nobody
saves a file between `apply`'s look at it and its rename (`racing` is not in
`EditWhen`).  `SourceSpared`: nobody saves the file an `import` reads between its plan and
its commit (`source` is not in `Outside`).  `"spoil" \notin Outside`: no
other program saves a row that breaks a rule, so that there is nothing for a repair to
restore.  `CookiesUnique`: no process gets the number of
an earlier one (`Reuse` is `FALSE`); a cookie is named by the process's number and by how
many this process wrote before it (`monitor.rs:95`).  `DeletionSpared`: no process dies
between the removal of a snapshot's name and its sync (`killdelete` is not among
`Faults`).  `"prospect" \notin AskWhen`: the monitor is not asked about a state that is
only planned, which it cannot have seen.  `Afresh`: a change of a schema is planned on
a mirror with no entry that has a planned file's stat; an observation leaves none
(`ObservationsClear`), and a command opens the folder for each change it makes.
`WritesAreRead`: what a change writes lies at a path that observations do not ignore, and is
no larger than they read.  `WritesApart`: no other path of the table folds to the same name.
`~Skewed`: a revision is later than those it is made of, by its clock.  `Complete`: what the
format 2 database may be without is a name that format 3 has no use for, or `.gitignore`.
`Untracked`: its history was not versioned.  `Unfaulted`: no kill is followed by a run that meets
a marker, or a pin's original, that is not yet durable.

Each assumption is what some property fails without: `JournalSpared`, `Undropped`,
`Unedited`, `Unraced`, `SourceSpared`, `"spoil" \notin Outside`, `CookiesUnique`,
`DeletionSpared`, `Afresh`, `WritesAreRead`, `WritesApart`, `~Skewed`, `Complete`, `Untracked` and `Unfaulted` are met under
*What does not hold*, `"prospect" \notin AskWhen` is what `PlanUnseen` does
without, and `RemovalSpared` is what `JournalReturns` does without.  The last is needed for
`NeverLost`; of the other three properties that assume it TLC found no violation without
it (one file, two changes, five faults), but their proofs share one invariant.  Power
losses, kills elsewhere, refused operations and failed syncs may come in any number.

None of these properties is inductive; each theorem rests on an invariant that is.

* `Typed`.  The type invariant carries what makes it inductive: a process at work has a
  change, what it has to do is in that change's plan, and while placing it has a target.

* `Journaled`: `Ahead`.  That `SyncJournalAbove` makes a journal durable needs what the
  two syncs before it made durable.  `Ahead` says what is durable at each place of the
  journal's window (`Underway`), that a whole journal seen outside the window is on
  every disk (`ShownDurable`), that the change at work is not decided before its commit
  point (`Undecided`), and that no change has a journal before it is planned.

* `RefusalKept`, `AcknowledgementKept`, `NoOlderJournal`: `Ledger`.  What was told about
  one change depends on what every other change may have left on the disk.  `Ledger`
  follows the process through a change (`Stages`, `Progress`) and keeps, of each other
  one, that it came before or has not begun (`InTurn`), that nothing of it is left to
  be found when the next one is planned (`Cleared`), and what heads may be published
  (`Publishing`, `HeadsDecided`).  It assumes nothing about faults: where a journal
  could not be made durable and could not be taken back, the caller is told neither.

* `EditsAreKept`: `Watched`.  What a disk holds beside the cache may be an older
  content; `Watched` says that where the cache shows an outside edit every disk does,
  and the directory it is in, until a decided change was planned against it; and that
  between the look and the rename the file is as it was seen.

* `HeadsFollow`: `HeadsKept`.  It names the last change made: until its own head is the
  only one on every disk its journal is there to be finished, and what waits to be
  decided was planned when its head was the only one.

* `BeforeOrAfterKept`, `TwoOutcomes`: `FilesTell`.  It says of the last change made, on
  every disk at once, that its files are in place for good or its journal is there to
  finish them (`Told`, `Handled`); that a change planned since found it done
  (`Planned`); that no older journal is left, in the cache either (`Sole`, `Cached`);
  and that a directory with something in it is in its parent on every disk (`Rooted`).
  A change at work places a file only between a look and a sync that both name it: what
  is neither still to place nor touched is as every disk has it.

* `RecoveryHasAll`: `Stocks`.  On every disk the files of a change that is made, or may
  turn out to be, are staged or in place, and so is its head.  It holds only because the
  journal of a change is gone for good before its successor's is written, so that a file
  taken for still to be placed is one nothing later replaced.

* `OneChange`: two invariants of what the mapping shows -- `Shows`, that a reader sees
  what the last change made left or, while some change has a journal and is not decided,
  all that this change would leave; `Visible`, that just such a change is visible -- and
  a lemma for each kind of step.  `Plan` is the abstract `Propose`; `WriteJournal` is
  `Show`, since recovery would act on a journal in the cache; a `PowerLoss` that takes it
  is `Withdraw`; `SyncJournalAbove` is `Commit`, and so is recovery's finding of an
  undecided journal; `PreflightRefuses`, and the settling of a change without a journal,
  are `Refuse`.  Every other step stutters, among them every placement of a file and
  every kill.

* `KeepsOrder`: `Ordered`, inductive itself: types, parents older than their revision,
  the lock held by one command, a journal just while its holder finishes one, and every
  session going by revisions that exist.

* `MadeOnce`, `HistoryStays`: `Chronicle`.  `Log` is a walk in rounds.  `LogMeaning`
  shows it to be the least set of revisions above the heads that is closed under
  parents -- by a least counterexample, since the prover has no induction over a
  recursive function -- and `Chronicle` speaks of closed sets only: each that holds the
  heads (and the one about to be) holds every revision, and a command about to change
  under a key knows that no revision it did not see has that key.

* `NothingLost`, `HistoryTells`, `AnswersAreTrue`: `Promised`.  A change writes its
  mark into every path, on top of the marks it saw there, and under the lock it saw them
  all.  So what the files will hold when the journal is finished shows every change
  there is a revision of, but where an edit was kept against it, and nothing else
  (`FilesTrue`); the journal's revision does so too, and what it has still to write adds
  its own change to what is in the file (`JournalTrue`); the mirror shows what was
  acknowledged, nothing by half (`MirrorTrue`); a writer's view has the marks the files
  have until it commits (`WriterTrue`); a reader without the lock has files, or a
  journal laid over them, that show all it has to (`ReaderTrue`).

* `PacksKeep`.  `Base` says what every history has: what was never made left no trace
  (`Unmade`), a publication has placed what its step says (`Placed`), and the pack a
  collection makes holds what is reached while it removes all others (`Collecting`).
  Where the power fails, `Surviving` says more than the property: not only what a name
  reaches, but whatever can be read, is in a pack that every power loss leaves -- for a
  recording may reach what no name did -- and, while old packs go, the new one is on
  every disk.  That needs a head that is there on every disk (`HeadStays`): with none, a
  collection that keeps nothing need not sync a pack before it removes the others.

* `ReadersFindAll`: `Sought`.  Where nobody is killed no index is there without its pack
  (`Bare`), and an object of history stays in some pack however often it moves.  `Sought`
  says where a reader stands by how many collections passed it: before the first, what it
  looks for is in a pack it has or will list; after one, in a pack that is still there
  when it looks again; only after two, nowhere it has looked.

* `NewLineageWhole`, `CollectionsKeep`: `LineageInv`.  A revision's records name its
  parents, recorded before it, so names lead to older revisions.  `Along` follows them
  in rounds; `AlongClosed` shows that as many rounds as there are revisions reach
  everything -- the youngest revision reached that names one not reached was reached in
  the last round, and then a chain of as many steps led to it -- and `AlongLeast` that
  what it reaches is the least set closed under names, by a least counterexample.  So
  what a collection keeps is closed, and nothing a head, an old head or a snapshot leads
  to through what can be read lies outside it (`KeepsReached`).  For the lineage
  `LineageInv` says that every head has gone aside before a pack is moved, and that what
  a lineage begins with is the revision recorded after that.

* `BroughtBack`, `PlansAreKept`: `Held`.  A plan may be named by two agents at once, be
  run by one and still be held by the other.  Plans kept and plans in hand are one per
  number (`Numbered`); a plan that removes no row asks nobody, is named by one call and is
  forgotten by it (`Forgotten`); one that removes rows runs only after it was agreed to
  (`Asked`).  `Spent` says when a committed plan's state token may come back: the head has
  passed it, for good; or its state was a broken one which the commit, a repair, put back
  as it was recorded, and is whole until another program has changed something.  `Shown`
  adds that a plan shows what its tool makes of the state it is of, which is what its run
  makes of the same state.

* `CommitsOnce`: `Unspoilt`, which is `Held` where no row breaks a rule: then every commit
  makes a revision, and the head passes the plan's.

* `AllHear`: `Hearing`.  Who is owed a notification of a change not yet announced is
  subscribed still to what it touched; once it is announced, they are among those told.

* `ChangesAreDue`: `Kept`.  A change of a file may be in the queue, in the log, in an
  answer, in what is still to be examined, or in what was examined and not stored.
  `Held(p)` says that it is in one of them, or lost with the marks of an earlier log;
  `Past`, that a mark is of this log or an earlier one, so that it never reaches into a
  log begun after it; `DueSince(m, p)`, that no mark the log still reaches back to is
  followed by a change it does not tell.

* `AskersHaveAll`: `Waiting`, which is `Kept` and, of who asks, `Waits(p)`: until its
  cookie is seen, what the mirror lacks of `p` is told since its mark or is queued before
  the cookie.  `Fresh` says that a cookie on its way or seen was used, so that the one
  seen is its own.

* `ObservationsHold`, `ObservationsClear`, `DeltasAreWhole`: `Inv` of `MirrorProof`.  An
  observation may read a file, trust its stamp, or leave it to the monitor, and what it
  starts from was left by any mixture of scans, kept plans and kills before.  `Stamps`
  says that an entry whose stamp would be trusted against the file on the disk holds what
  the file does; it is inductive because a save within the tick an entry was seen in
  leaves the entry untrusted, and a planned file's inode is no file's.  `Watching` says
  that, from the mark stored with the mirror, the monitor has told of every file that is
  not as the mirror has it or bears a planned file's stat, but for those still to be
  looked at.  `Scanned` says that what was looked at is something the file has held since
  the scan began, and of the rest that the listing's stat, if the entry would be trusted
  against it, vouches for one of those contents.  `Recorded` says that the recorded rows
  are those of a revision, and that a row which differs from them is at a marked path.

* `ProspectsForesee`: `Foreseen` beside it: what is found at a path while a change of a
  schema is planned is what is planned there, or something the file has held since.

* `CommitsItsEffect`: `Netted`.  Of each path a statement touched the transaction keeps
  what was there when it began and what is there now; of the others nothing changed.  A
  statement whose rows trade places leaves paths that others of its rows land on, so the
  step is proved path by path.

* `ScopeSuffices`: `Judged`, that entries, faults and verdict are those of the folder, and a
  prospect's those of the folder its change makes.  A scope covers a change (`Covers`) when
  entries before and after differ at its paths only, and whatever key a row has there, before
  or after, is among its keys.  Then each finding the change makes or unmakes is one the scope
  finds: a duplicate or an overlap by a key, a dangling reference by its row or by the key it
  names, a cycle by its table.  What no query of the scope finds is a finding before just when
  it is one after (`NotFound`).

* `StatesAreHeld`: `Archived`.  A tree fits a state (`Fits`) if it has its tables, their
  schemas at their places, and its rows by their hashes; their blobs may be of other texts.
  A tree built of a state fits it, and one that fits the old state, changed by the delta the
  mirror tells, fits the new one, whichever leaves the delta reaches (`UpdateFits`).  A node
  that is not stored anew is one of the tree that was changed, which the store holds
  (`AllStored`).

* `AncestorsFirst`: `Counted`.  The walk back stops at the first numbered revision, so a
  number is right only if everything behind it has one.  `Counted` says that numbers are
  given from 1 on without a gap, and that each parent of a revision waiting for its
  `INSERT` has a number or waits too -- which time then puts first, since a parent is older
  (`Timed`).  `WalkMeets` shows that the walk meets the unnumbered ancestors, by a least
  counterexample.

* `UpgradeInOne`: `Upgrading`, in three parts.  `Unmarked`: no disk has the marker, and
  format 2 is as it was.  `Underway`: every disk has the marker and all that was built; what
  each part may look like on a disk is one of the stages the swap takes it through
  (`Shapes`), and as far as the swap came the cache shows its steps made (`AsideDone`,
  `PlacedDone`).  A pin is saved on every disk before it is rewritten on one (`PinKept`).
  Since `move_once` refuses where both names are there, a run that finds format 3's
  `transactions` in place goes no further than to the step that would set it aside
  (`Halts`), so that what comes after it in the swap is not made twice.  `Ended`: all of
  format 3 is in place on every disk, but for `format`, which alone is still to be written.

Each inductive invariant was also given to TLC, on the instance of the run whose
property it carries.

Only model-checked:

* liveness (`Finished`), and what rests on `ENABLED`: beyond the prover;
* what the recursive operators of `RowMerge` and `Contract` compute: likewise;
* `NeverLost`, `BeforeOrAfter` and `Atomic` with edits, with failed syncs that drop, or
  with a removal not yet synced when a process dies: the runs `FaultsAndEdits` and
  `RecoveryFinishes`;
* `DescribesAlone`: the verdict kept with the mirror may be one made of other rows
  after a kill, and after a blocked path is one of rows no file holds;
* `PagesContinue`: the order of rows is a sequence the folder rearranges;
* `CascadeKeeps` (the expansion's order is whatever a worklist makes it), `KeepsValid`,
  `AdmitsTheLike`, `ContractKept`, `NamedByKey` and `CrashesForeseen`, which speak of the
  texts, sequences and recursive values that their modules compute.

## 5. Plan

Modelled first was what everything else rests on, the commit protocol and the
object store; then the database's commands, the mirror and the monitor; then the
algorithms.  Next, in this order:

1. Proofs: `PagesContinue` for `Mcp`; `CascadeKeeps` for `Cascade`.
2. Verification of history (`store/verify.rs`) and repairs of it.
3. Migration, a change of the commit protocol; what an upgrade converts.
4. Establishing a database; transfer of rows in and out.
5. `Contract` with bounds and enumerations, and pinning.

## 6. Not modelled

* SQL, schema documents, values, JSON editing, linting, formatting, arguments and
  messages: sequential functions over unbounded text, of which a model would be a
  second implementation.  Tests serve them better.
* SQLite, the kernel's filesystem and its lock are external; the filesystem is
  represented by the simulator's contract, SQLite by atomic commits and
  savepoints.
* Bindings, shell and build tools dispatch to the engine.  Of the server for agents,
  cancelled calls, prompts, resources read once and what is particular to each tool are
  left out.
* `migrate.rs`, `doctor.rs`: each plans one change for the commit protocol, which
  is modelled; what they plan, and what an upgrade converts, is data.

The modules map about a seventh of the implementation's lines.  Most of the rest is
the text handling above, diagnostics and help texts, tests inside source files and
the plumbing between layers.
