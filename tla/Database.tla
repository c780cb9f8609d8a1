------------------------------ MODULE Database ------------------------------
(***************************************************************************)
(* Commands on one folder: db.rs, with lock.rs, and what it asks of        *)
(* history.rs, catalog.rs and mirror/.                                     *)
(*                                                                         *)
(* Every command is a process.  Those that write, and those that read      *)
(* while nobody writes, take the writer lock, finish what a crash left,    *)
(* observe the folder, bring the mirror up to it and record what changed   *)
(* outside; then they make their change, or answer.  A reader that finds   *)
(* the lock taken answers from the mirror's last commit; a read-only one   *)
(* takes no lock and lays what is committed over the files it reads.       *)
(*                                                                         *)
(* A row file holds the set of changes made to it: each change of a        *)
(* command writes its mark into every path, so a lost update, a change     *)
(* half seen and one made twice all show.  The commit protocol is that of  *)
(* module Journal, from its commit point on: no power is lost here, and a  *)
(* process may be killed between any two steps.                            *)
(***************************************************************************)
EXTENDS Integers, Sequences, FiniteSets, FiniteSetsExt

CONSTANTS
  Command,     \* commands, each run once
  Scripts,     \* what the commands may be: functions from Command to kind and key
  Path,        \* the row files
  NoKey, Nobody,
  Budget,      \* how long a command waits for the lock
  FirstDelay, MaxDelay, \* the first and the longest sleep between two tries
  Marks,       \* what outside edits may write: "ext", or "bad", which is invalid
  MaxEdits, MaxKills, MaxBlocks, MaxPulls,  \* how often each may happen,
  MaxEvents,   \* and all of them together
  KillUnjudged \* whether a kill may strike before rows in the mirror are judged

Kinds == {"write", "repair", "review", "observe", "readonly"}

ASSUME CommandAssumption ==
  /\ Nobody \notin Command
  /\ {"ext", "bad", "unread"} \cap Command = {}
  /\ \A t \in Scripts : DOMAIN t = Command /\ \A c \in Command : t[c].kind \in Kinds
ASSUME WaitAssumption == Budget \in Nat /\ FirstDelay \in Nat \ {0} /\ MaxDelay \in Nat
                         /\ MaxDelay >= FirstDelay
ASSUME MarkAssumption == Marks \subseteq {"ext", "bad"}

VARIABLES
  \* on disk
  files,      \* files[p]: the marks in the row file p
  revs,       \* every revision ever committed, numbered in order of commit
  heads,      \* the heads of history
  jnl,        \* the committed transaction that is not finished, or NoTxn
  mir,        \* the mirror: its rows, recorded head, and kept verdict
  lock,       \* who holds .db/lock
  s,          \* s[c]: the session of command c
  script,     \* script[c]: what command c is, chosen at the start
  \* for the properties
  acked,      \* the changes callers were told are made
  known,      \* known[c]: those acknowledged before c began
  kept,       \* <<c, p>>: an outside edit of p was kept against c's change
  base,       \* base[c]: the rows c's change was planned on
  edits, kills, blocks, pulls

disk == <<files, revs, heads, jnl, mir>>
ghosts == <<acked, known, kept, base>>
around == <<edits, kills, blocks, pulls>>
Events == edits + kills + blocks + pulls
vars == <<disk, lock, s, script, ghosts, around>>

Mark == Command \union {"ext", "bad"}
State == [Path -> SUBSET Mark]
Rows == [Path -> SUBSET (Mark \union {"unread"})]
Blank == [p \in Path |-> {}]
KindOf == [c \in Command |-> script[c].kind]
KeyOf == [c \in Command |-> script[c].key]

Unread == {"unread"}
Nothing == [p \in Path |-> Unread]
NoTxn == [writes |-> {}, todo |-> {}, pre |-> Blank, post |-> Blank, rev |-> 0, retire |-> {}]
NoToken == [heads |-> {}, view |-> Blank]
Rev == 1..Len(revs)

Idle == [pc |-> "idle", waited |-> 0, delay |-> FirstDelay, view |-> Nothing, fresh |-> FALSE,
         good |-> FALSE, seen |-> {}, hist |-> {}, token |-> NoToken, task |-> "none",
         posts |-> NoTxn, out |-> "none"]

\* integrity::validate, as far as it matters: an outside edit may be invalid.
Valid(rows) == \A p \in Path : "bad" \notin rows[p]

\* The revisions History::log walks from a set of heads.
Log(hs) ==
  LET above[n \in 0..Len(revs)] ==
        IF n = 0 THEN hs
        ELSE above[n-1] \union UNION {revs[r].parents : r \in above[n-1]}
  IN above[Len(revs)]

\* What the folder holds once the committed transaction is finished.
Current(p) == IF p \in jnl.todo THEN jnl.post[p] ELSE files[p]

-----------------------------------------------------------------------------
(* Taking the lock: lock::acquire                                          *)

At(c, l) == s[c].pc = l
To(c, l) == s' = [s EXCEPT ![c].pc = l]

\* A session ends with the outcome o and the answer rows, and gives back the
\* lock if it has it.
EndAs(c, o, rows) ==
  /\ s' = [s EXCEPT ![c] = [Idle EXCEPT !.pc = "done", !.out = o, !.view = rows,
                                        !.token = s[c].token]]
  /\ lock' = IF lock = c THEN Nobody ELSE lock
End(c, o) == EndAs(c, o, Nothing)

Begin(c) ==
  /\ At(c, "idle")
  /\ To(c, IF KindOf[c] = "readonly" THEN "list" ELSE "try")
  /\ known' = [known EXCEPT ![c] = acked]
  /\ UNCHANGED <<disk, lock, acked, kept, base, script, around>>

Take(c) ==
  /\ At(c, "try")
  /\ lock = Nobody
  /\ lock' = c
  /\ To(c, "recover")
  /\ UNCHANGED <<disk, ghosts, script, around>>

\* A writer waits; a reader does not, and answers from the mirror.
Busy(c) ==
  /\ At(c, "try")
  /\ lock # Nobody
  /\ To(c, IF KindOf[c] = "observe" THEN "snapshot" ELSE "wait")
  /\ UNCHANGED <<disk, lock, ghosts, script, around>>

\* Sleep a jittered delay, never past the deadline, then try once more.
Sleep(c) ==
  /\ At(c, "wait")
  /\ s[c].waited < Budget
  /\ \E d \in 1..Min({s[c].delay, Budget - s[c].waited}) :
       s' = [s EXCEPT ![c] = [s[c] EXCEPT !.pc = "try", !.waited = @ + d,
                                          !.delay = Min({2 * @, MaxDelay})]]
  /\ UNCHANGED <<disk, lock, ghosts, script, around>>

GiveUp(c) ==
  /\ At(c, "wait")
  /\ s[c].waited >= Budget
  /\ End(c, "contended")
  /\ UNCHANGED <<disk, ghosts, script, around>>

-----------------------------------------------------------------------------
(* A transaction from its commit point on                                  *)

\* The moment of commit: the journal, and with it the revision, is durable.
CommitPoint(c, t, j, r) ==
  /\ jnl' = [j EXCEPT !.rev = Len(revs) + 1]
  /\ revs' = Append(revs, r)
  /\ s' = [s EXCEPT ![c].pc = "apply", ![c].task = t]

\* journal::apply on one path: place it, find it placed, or keep an edit.
Place(c) ==
  /\ At(c, "apply")
  /\ \E p \in jnl.todo :
       /\ jnl' = [jnl EXCEPT !.todo = @ \ {p}]
       /\ files' = [files EXCEPT ![p] = IF @ = jnl.pre[p] THEN jnl.post[p] ELSE @]
       /\ kept' = IF files[p] \in {jnl.pre[p], jnl.post[p]} THEN kept
                  ELSE kept \union {<<revs[jnl.rev].by, p>>}
  /\ UNCHANGED <<revs, heads, mir, lock, s, acked, known, base, script, around>>

\* A path that cannot be placed: the change stands, and the session ends --
\* the change's own by keeping its observation, a recovery by refusing.
Block(c) ==
  /\ At(c, "apply")
  /\ blocks < MaxBlocks /\ Events < MaxEvents
  /\ jnl.todo # {}
  /\ blocks' = blocks + 1
  /\ \/ /\ s[c].task = "change"
        /\ acked' = acked \union {c}
        /\ mir' = [mir EXCEPT !.rows = jnl.post]
        /\ End(c, "pending")
     \/ /\ s[c].task = "recovery"
        /\ End(c, "blocked")
        /\ UNCHANGED <<acked, mir>>
  /\ UNCHANGED <<files, revs, heads, jnl, known, kept, base, script, edits, kills, pulls>>

\* Mutant: the head is published before the files are in place.
PublishEarly(c) ==
  /\ At(c, "apply")
  /\ heads' = heads \union {jnl.rev}
  /\ To(c, "retire")
  /\ UNCHANGED <<files, revs, jnl, mir, lock, ghosts, script, around>>

Publish(c) ==
  /\ At(c, "apply")
  /\ jnl.todo = {}
  /\ heads' = heads \union {jnl.rev}
  /\ To(c, "retire")
  /\ UNCHANGED <<files, revs, jnl, mir, lock, ghosts, script, around>>

\* Mutant: whatever heads there are go, not those the change was made on.
RetireAll(c) ==
  /\ At(c, "retire")
  /\ heads' = {jnl.rev}
  /\ To(c, "finish")
  /\ UNCHANGED <<files, revs, jnl, mir, lock, ghosts, script, around>>

Retire(c) ==
  /\ At(c, "retire")
  /\ heads' = heads \ jnl.retire
  /\ To(c, "finish")
  /\ UNCHANGED <<files, revs, jnl, mir, lock, ghosts, script, around>>

\* The journal goes, and the session goes on where it committed.
Finish(c) ==
  /\ At(c, "finish")
  /\ jnl' = NoTxn
  /\ s' = [s EXCEPT ![c].seen = {jnl.rev},
                    ![c].pc = CASE s[c].task = "recovery" -> "observe"
                                [] s[c].task = "adopt" -> "settle"
                                [] s[c].task = "change" -> "keep"]
  /\ UNCHANGED <<files, revs, heads, mir, lock, ghosts, script, around>>

-----------------------------------------------------------------------------
(* Opening: Database::open_as                                              *)

\* Mutant: what a crash left is taken for unfinished, and thrown away.
RecoverDiscards(c) ==
  /\ At(c, "recover")
  /\ To(c, "observe")
  /\ jnl' = NoTxn
  /\ UNCHANGED <<files, revs, heads, mir, lock, ghosts, script, around>>

Recover(c) ==
  /\ At(c, "recover")
  /\ s' = [s EXCEPT ![c].task = "recovery",
                    ![c].pc = IF jnl = NoTxn THEN "observe" ELSE "apply"]
  /\ UNCHANGED <<disk, lock, ghosts, script, around>>

\* Catalog::observe: the rows that changed are read, and are in the mirror
\* from the release of its savepoint on.
Observe(c) ==
  /\ At(c, "observe")
  /\ s' = [s EXCEPT ![c].pc = "judge", ![c].view = files, ![c].fresh = mir.rows # files]
  /\ mir' = [mir EXCEPT !.rows = files]
  /\ UNCHANGED <<files, revs, heads, jnl, lock, ghosts, script, around>>

\* sync_recorded, apply_recorded: the mirror's head, when there is one.
Recorded(hs) == IF Cardinality(hs) = 1 THEN hs ELSE mir.rec

\* The verdict kept with the mirror, when nothing was read afresh, or one
\* made now and kept; then the heads of history.
Judge(c) ==
  /\ At(c, "judge")
  /\ LET good == IF s[c].fresh THEN Valid(s[c].view) ELSE mir.good IN
       /\ s' = [s EXCEPT ![c].pc = "adopt", ![c].good = good, ![c].seen = heads]
       /\ mir' = [mir EXCEPT !.good = good, !.rec = Recorded(heads)]
  /\ UNCHANGED <<files, revs, heads, jnl, lock, ghosts, script, around>>

\* history::pending: whether the rows observed are those of the recorded head.
Settled(c) == \E r \in Rev : s[c].seen = {r} /\ revs[r].state = s[c].view

\* A reader answers now; a writer makes its change on history as it is now.
Opened(c) == s' = [s EXCEPT ![c].pc = IF KindOf[c] = "observe" THEN "answer" ELSE "transact",
                            ![c].hist = heads]

\* Mutant: what was changed outside is not recorded before a change is made.
AdoptSkipped(c) ==
  /\ At(c, "adopt")
  /\ Opened(c)
  /\ UNCHANGED <<disk, lock, ghosts, script, around>>

\* Database::adopt: nothing to record, or nothing that may be.
AdoptNothing(c) ==
  /\ At(c, "adopt")
  /\ Settled(c) \/ ~s[c].good
  /\ Opened(c)
  /\ UNCHANGED <<disk, lock, ghosts, script, around>>

\* read_recorded: what history does not hold yet is read again, and must not
\* have moved since it was observed.
Moved(c) == \E p \in Path : /\ \A r \in Rev : revs[r].state[p] # s[c].view[p]
                           /\ files[p] # s[c].view[p]

\* History::prepare and Database::record: a revision of the observed state on
\* top of every head.
Adopt(c) ==
  /\ At(c, "adopt")
  /\ ~Settled(c) /\ s[c].good
  /\ ~Moved(c)
  /\ CommitPoint(c, "adopt", [NoTxn EXCEPT !.retire = s[c].seen],
       [parents |-> s[c].seen, state |-> s[c].view, key |-> NoKey, by |-> Nobody])
  /\ UNCHANGED <<files, heads, mir, lock, ghosts, script, around>>

AdoptMoved(c) ==
  /\ At(c, "adopt")
  /\ ~Settled(c) /\ s[c].good
  /\ Moved(c)
  /\ End(c, "moved")
  /\ UNCHANGED <<disk, ghosts, script, around>>

\* after_recording: the mirror's head follows.
Settle(c) ==
  /\ At(c, "settle")
  /\ mir' = [mir EXCEPT !.rec = s[c].seen]
  /\ Opened(c)
  /\ UNCHANGED <<files, revs, heads, jnl, lock, ghosts, script, around>>

-----------------------------------------------------------------------------
(* A change: Database::transact                                            *)

\* Mutant: only the heads themselves are asked for the key.
MadeAtHeads(c) == KeyOf[c] # NoKey /\ \E r \in s[c].hist : revs[r].key = KeyOf[c]

\* find_idempotent: some head's history holds a revision with this key.
Made(c) == KeyOf[c] # NoKey /\ \E r \in Log(s[c].hist) : revs[r].key = KeyOf[c]

Replayed(c) ==
  /\ At(c, "transact")
  /\ Made(c)
  /\ End(c, "replayed")
  /\ UNCHANGED <<disk, ghosts, script, around>>

\* state_token: the head and what differs from it.
Token(c) == [heads |-> s[c].seen, view |-> s[c].view]

\* A dry run names the state it planned against, for a second command.
DryRun(c) ==
  /\ At(c, "transact")
  /\ ~Made(c)
  /\ KindOf[c] = "review" /\ s[c].token = NoToken
  /\ s' = [s EXCEPT ![c] = [Idle EXCEPT !.pc = "try", !.token = Token(c)]]
  /\ lock' = Nobody
  /\ UNCHANGED <<disk, ghosts, script, around>>

Planning(c) == At(c, "transact") /\ ~Made(c) /\ (KindOf[c] = "review" => s[c].token # NoToken)

Expected(c) == KindOf[c] = "review" => s[c].token = Token(c)
Fixes(c) == IF KindOf[c] = "repair" THEN {"bad"} ELSE {}
Post(c) == [p \in Path |-> (s[c].view[p] \ Fixes(c)) \union {c}]

\* PLAN_CHANGED, or a change that would leave the state invalid.
Refuse(c) ==
  /\ Planning(c)
  /\ ~Expected(c) \/ ~Valid(Post(c))
  /\ End(c, "refused")
  /\ UNCHANGED <<disk, ghosts, script, around>>

\* The change is planned against what was observed, and judged.
PlanChange(c) ==
  /\ Planning(c)
  /\ Expected(c)
  /\ Valid(Post(c))
  /\ To(c, "preflight")
  /\ UNCHANGED <<disk, lock, ghosts, script, around>>

\* journal::preflight: a target is not as it was planned on.
Conflict(c) ==
  /\ At(c, "preflight")
  /\ files # s[c].view
  /\ End(c, "moved")
  /\ UNCHANGED <<disk, ghosts, script, around>>

Preflight(c) ==
  /\ At(c, "preflight")
  /\ files = s[c].view
  /\ To(c, "commit")
  /\ UNCHANGED <<disk, lock, ghosts, script, around>>

\* Everything is staged: the change is made.
Commit(c) ==
  /\ At(c, "commit")
  /\ CommitPoint(c, "change",
       [writes |-> Path, todo |-> Path, pre |-> s[c].view, post |-> Post(c), rev |-> 0,
        retire |-> s[c].hist],
       [parents |-> s[c].hist, state |-> Post(c), key |-> KeyOf[c], by |-> c])
  /\ base' = [base EXCEPT ![c] = s[c].view]
  /\ UNCHANGED <<files, heads, mir, lock, acked, known, kept, script, around>>

\* Prospect::keep: the mirror moves on to what the change was judged as.
Keep(c) ==
  /\ At(c, "keep")
  /\ mir' = [mir EXCEPT !.rows = Post(c)]
  /\ To(c, "keepverdict")
  /\ UNCHANGED <<files, revs, heads, jnl, lock, ghosts, script, around>>

\* keep_verdict, and after_recording.
KeepVerdict(c) ==
  /\ At(c, "keepverdict")
  /\ mir' = [mir EXCEPT !.good = TRUE, !.rec = s[c].seen]
  /\ acked' = acked \union {c}
  /\ End(c, "ok")
  /\ UNCHANGED <<files, revs, heads, jnl, known, kept, base, script, around>>

-----------------------------------------------------------------------------
(* Readers                                                                 *)

\* A reader that observed releases the lock and answers from what it saw.
Answer(c) ==
  /\ At(c, "answer")
  /\ EndAs(c, "answered", s[c].view)
  /\ UNCHANGED <<disk, ghosts, script, around>>

\* Mutant: the files are read, without the lock.
SnapshotFiles(c) ==
  /\ At(c, "snapshot")
  /\ EndAs(c, "answered", files)
  /\ UNCHANGED <<disk, ghosts, script, around>>

\* Database::open_snapshot: the mirror's last commit.
Snapshot(c) ==
  /\ At(c, "snapshot")
  /\ EndAs(c, "answered", mir.rows)
  /\ UNCHANGED <<disk, ghosts, script, around>>

\* journal::pending: the committed transactions there are now.
List(c) ==
  /\ At(c, "list")
  /\ s' = [s EXCEPT ![c].pc = "posts", ![c].posts = jnl]
  /\ UNCHANGED <<disk, lock, ghosts, script, around>>

\* Pending::post: from the staged copy, or from the file it was renamed to.
Found(c, p) == \/ jnl.rev = s[c].posts.rev /\ p \in jnl.todo
               \/ files[p] = s[c].posts.post[p]

Posts(c) ==
  /\ At(c, "posts")
  /\ \A p \in s[c].posts.writes : Found(c, p)
  /\ To(c, "read")
  /\ UNCHANGED <<disk, lock, ghosts, script, around>>

\* Neither holds what was committed: the reader is refused.
Incomplete(c) ==
  /\ At(c, "posts")
  /\ \E p \in s[c].posts.writes : ~Found(c, p)
  /\ End(c, "incomplete")
  /\ UNCHANGED <<disk, ghosts, script, around>>

\* Mutant: what is committed is not laid over the files.
ReadFiles(c) ==
  /\ At(c, "read")
  /\ \E p \in Path :
       /\ s[c].view[p] = Unread
       /\ s' = [s EXCEPT ![c].view[p] = files[p]]
  /\ UNCHANGED <<disk, lock, ghosts, script, around>>

\* Catalog::observe through the overlay, one file after the other.
Read(c) ==
  /\ At(c, "read")
  /\ \E p \in Path :
       /\ s[c].view[p] = Unread
       /\ s' = [s EXCEPT ![c].view[p] =
                  IF p \in s[c].posts.writes THEN s[c].posts.post[p] ELSE files[p]]
  /\ UNCHANGED <<disk, lock, ghosts, script, around>>

AnswerRead(c) ==
  /\ At(c, "read")
  /\ \A p \in Path : s[c].view[p] # Unread
  /\ EndAs(c, "answered", s[c].view)
  /\ UNCHANGED <<disk, ghosts, script, around>>

-----------------------------------------------------------------------------
(* What happens around the commands                                        *)

\* An editor saves a row file.
Edit ==
  /\ edits < MaxEdits /\ Events < MaxEvents
  /\ edits' = edits + 1
  /\ \E p \in Path, m \in Marks :
       /\ m \notin files[p]
       /\ files' = [files EXCEPT ![p] = @ \union {m}]
  /\ UNCHANGED <<revs, heads, jnl, mir, lock, s, ghosts, script, kills, blocks, pulls>>

\* Version control brings a head recorded in another clone.
Pull ==
  /\ pulls < MaxPulls /\ Events < MaxEvents
  /\ pulls' = pulls + 1
  /\ \E r \in Log(heads) :
       revs' = Append(revs, [parents |-> {r}, state |-> revs[r].state, key |-> NoKey, by |-> Nobody])
  /\ heads' = heads \union {Len(revs) + 1}
  /\ UNCHANGED <<files, jnl, mir, lock, s, ghosts, script, edits, kills, blocks>>

\* A process is killed; the kernel releases its lock.
Kill(c) ==
  /\ kills < MaxKills /\ Events < MaxEvents
  /\ s[c].pc \notin {"idle", "done"}
  /\ s[c].pc \in {"judge", "keepverdict"} => KillUnjudged
  /\ kills' = kills + 1
  /\ End(c, "killed")
  /\ UNCHANGED <<disk, ghosts, script, edits, blocks, pulls>>

Lock(c) == Begin(c) \/ Take(c) \/ Busy(c) \/ Sleep(c) \/ GiveUp(c)
Apply(c) == Place(c) \/ Publish(c) \/ Retire(c) \/ Finish(c)
Open(c) == Recover(c) \/ Observe(c) \/ Judge(c) \/ AdoptNothing(c) \/ Adopt(c) \/ AdoptMoved(c)
           \/ Settle(c)
Transact(c) == Replayed(c) \/ DryRun(c) \/ Refuse(c) \/ PlanChange(c) \/ Conflict(c) \/ Preflight(c)
               \/ Commit(c) \/ Keep(c) \/ KeepVerdict(c)
Reader(c) == Answer(c) \/ Snapshot(c) \/ List(c) \/ Posts(c) \/ Incomplete(c) \/ Read(c)
             \/ AnswerRead(c)
Step(c) == Lock(c) \/ Apply(c) \/ Open(c) \/ Transact(c) \/ Reader(c)

Init ==
  /\ files = Blank
  /\ revs = <<[parents |-> {}, state |-> Blank, key |-> NoKey, by |-> Nobody]>>
  /\ heads = {1}
  /\ jnl = NoTxn
  /\ mir = [rows |-> Blank, rec |-> {1}, good |-> TRUE]
  /\ lock = Nobody
  /\ s = [c \in Command |-> Idle]
  /\ script \in Scripts
  /\ acked = {} /\ known = [c \in Command |-> {}] /\ kept = {}
  /\ base = [c \in Command |-> Nothing]
  /\ edits = 0 /\ kills = 0 /\ blocks = 0 /\ pulls = 0

Ended == \A c \in Command : At(c, "done")

Next ==
  \/ \E c \in Command : Step(c) \/ Block(c) \/ Kill(c)
  \/ Edit \/ Pull
  \/ Ended /\ UNCHANGED vars

Spec == Init /\ [][Next]_vars

-----------------------------------------------------------------------------
(* Properties                                                              *)

Txn == [writes : SUBSET Path, todo : SUBSET Path, pre : State, post : State, rev : 0..Len(revs),
        retire : SUBSET Rev]

\* A change under a key is made once, whatever was killed, retried, blocked or
\* merged in between (History::find_idempotent, Database::replayed).
OncePerKey ==
  \A q, r \in Rev : revs[q].key = revs[r].key /\ revs[q].key # NoKey => q = r

\* A reviewed plan is carried out only on the state it was reviewed at.
AsReviewed ==
  \A c \in Command : KindOf[c] = "review" /\ base[c] # Nothing => base[c] = s[c].token.view

\* What a caller was told is made is in every file the change wrote, or
\* about to be placed there, unless an outside edit was kept in its stead:
\* two processes changing the same rows both take effect, and a change that was
\* reviewed first is made of the rows that were reviewed.
NoLostUpdate ==
  /\ \A c \in acked, p \in Path : c \in Current(p) \/ <<c, p>> \in kept
  /\ AsReviewed

\* The heads, with the one about to be.
Tips == (heads \union {jnl.rev}) \ {0}

\* No revision is lost: each is in the log of the heads, or about to be.
HistoryKept == Log(Tips) = Rev

\* History and the files agree on every change made through reldir: it is in
\* a file when a head's state says so, but for outside edits kept.
HistoryAgrees ==
  \A c \in Command, p \in Path : <<c, p>> \notin kept =>
    (c \in Current(p) <=> \E r \in Tips : c \in revs[r].state[p])

\* History loses nothing, and tells of each change that it was made: through edits, kills,
\* retries, and heads pulled from other clones (db.rs, adopt and transact).
HistoryTold == HistoryKept /\ HistoryAgrees

\* The revision of a change describes it alone -- beside its own mark it holds
\* what the revision before it holds -- and takes no outside edit for the
\* change's own (db.rs, adopt before transact).
DescribesAlone ==
  \A r \in Rev : revs[r].by # Nobody =>
    \/ Cardinality(revs[r].parents) # 1
    \/ KindOf[revs[r].by] = "repair"
    \/ \A q \in revs[r].parents, p \in Path :
         revs[r].state[p] = revs[q].state[p] \union {revs[r].by}

Answered(c) == s[c].out = "answered"

\* An answer shows every change acknowledged before its command began.
SeesAcknowledged ==
  \A c \in Command : Answered(c) =>
    \A d \in known[c], p \in Path : d \in s[c].view[p] \/ <<d, p>> \in kept

\* An answer that observed the folder, or the mirror, shows each change whole
\* or not at all.
SeesWhole ==
  \A c \in Command : Answered(c) /\ KindOf[c] = "observe" =>
    \A d \in Command, p, q \in Path :
      d \in s[c].view[p] => d \in s[c].view[q] \/ <<d, q>> \in kept

\* What a reader is answered was so at one moment since it was asked: no acknowledged
\* change is missing, and none is there by half (db.rs, open_as and open_snapshot).
AnsweredTruly == SeesAcknowledged /\ SeesWhole

\* The same of an answer of a reader that takes no lock.
ReadonlySeesWhole ==
  \A c \in Command : Answered(c) /\ KindOf[c] = "readonly" =>
    \A d \in Command, p, q \in Path :
      d \in s[c].view[p] => d \in s[c].view[q] \/ <<d, q>> \in kept

\* The verdict a session goes by is the verdict of the rows it observed.
VerdictOfRows ==
  \A c \in Command : s[c].pc \in {"adopt", "transact"} => s[c].good = Valid(s[c].view)

=============================================================================
