---------------------------- MODULE DatabaseProof ---------------------------
(***************************************************************************)
(* Commands on one folder, whatever they are, however many, and wherever   *)
(* they are killed: every revision stays in the log of the heads, a change *)
(* under a key is made once, and what callers were told holds -- no        *)
(* acknowledged change is lost, a reviewed one is made of the rows that    *)
(* were reviewed, history and the files agree, and an answer shows what    *)
(* was acknowledged before it was asked for, and nothing by half.          *)
(*                                                                         *)
(* The log is a walk; it is shown first to be the least set of revisions   *)
(* that is closed under parents.  With that, an invariant can say of the   *)
(* heads that every closed set above them holds every revision, and that   *)
(* survives each step that moves a head without following the walk again.  *)
(*                                                                         *)
(* What callers were told rests on one observation: a change writes its    *)
(* mark into every path, on top of the marks it saw there, and under the   *)
(* lock it saw them all.  So the rows that will be when the journal is     *)
(* finished hold every change there is a revision of, but where an edit    *)
(* was kept against it.                                                    *)
(***************************************************************************)
EXTENDS Database, WellFoundedInduction, TLAPS

-----------------------------------------------------------------------------
(* Types                                                                   *)

\* Where a session is while it holds the lock, and while it does not.
Finishing == {"apply", "retire", "finish"}
Holding == Finishing \union
           {"recover", "observe", "judge", "adopt", "settle", "transact", "preflight", "commit",
            "keep", "keepverdict", "answer"}
Sharing == {"idle", "try", "wait", "snapshot", "list", "posts", "read", "done"}

Keys == {NoKey} \union {t[c].key : t \in Scripts, c \in Command}
Revision == [parents : SUBSET Nat, state : State, key : Keys, by : Command \union {Nobody}]
Change == [writes : SUBSET Path, todo : SUBSET Path, pre : State, post : State, rev : Nat,
           retire : SUBSET Nat]
Session ==
  [pc : Holding \union Sharing, waited : 0..Budget, delay : 1..MaxDelay, view : Rows,
   fresh : BOOLEAN, good : BOOLEAN, seen : SUBSET Nat, hist : SUBSET Nat,
   token : [heads : SUBSET Nat, view : Rows],
   task : {"none", "recovery", "adopt", "change"}, posts : Change,
   out : {"none", "contended", "pending", "blocked", "moved", "replayed", "refused", "ok",
          "answered", "incomplete", "killed"}]

\* c has observed the folder and goes by what it saw.
Observing(c) ==
  \/ s[c].pc \in {"judge", "adopt", "settle", "transact", "preflight", "commit", "answer"}
  \/ s[c].pc \in Finishing /\ s[c].task = "adopt"

\* c's change is made, and c has not answered yet.
Changing(c) ==
  \/ s[c].pc \in {"keep", "keepverdict"}
  \/ s[c].pc \in Finishing /\ s[c].task = "change"

HistoryType == /\ revs \in Seq(Revision)
               /\ heads \subseteq Rev
               /\ \A r \in Rev : revs[r].parents \subseteq 1..(r - 1)
DiskType == /\ files \in State
            /\ jnl \in Change
            /\ mir \in [rows : State, rec : SUBSET Nat, good : BOOLEAN]
            /\ lock \in Command \union {Nobody}
SessionType == s \in [Command -> Session]
GhostType == /\ acked \subseteq Command
             /\ known \in [Command -> SUBSET Command]
             /\ kept \subseteq (Command \union {Nobody}) \X Path
             /\ base \in [Command -> Rows]
             /\ edits \in Nat /\ kills \in Nat /\ blocks \in Nat /\ pulls \in Nat

\* Every variable has its type, and a revision's parents are older than it.
TypeOK == HistoryType /\ DiskType /\ SessionType /\ GhostType /\ script \in Scripts

-----------------------------------------------------------------------------
(* The invariant that every other rests on                                 *)

\* The journal's revision is there, and what it retires are its parents.
JournalOK ==
  /\ jnl.rev = 0 => jnl = NoTxn
  /\ jnl.rev # 0 => jnl.rev \in Rev /\ jnl.retire \subseteq revs[jnl.rev].parents

\* c holds the lock where it must; beside it there is a journal just when c is
\* finishing one; and it goes by whole files, and by revisions that exist.
SessionOK(c) ==
  /\ s[c].pc \in Holding => lock = c
  /\ s[c].pc \in Finishing => jnl.rev # 0 /\ s[c].task # "none"
  /\ s[c].pc \in Holding \ (Finishing \union {"recover"}) => jnl.rev = 0
  /\ s[c].pc \in {"retire", "finish"} => jnl.rev \in heads /\ jnl.todo = {}
  /\ Observing(c) \/ Changing(c) => s[c].view \in State
  /\ s[c].seen \subseteq Rev /\ s[c].hist \subseteq Rev

Ordered == TypeOK /\ JournalOK /\ \A c \in Command : SessionOK(c)

-----------------------------------------------------------------------------
(* The log of a set of heads                                               *)

Closed(S) == \A r \in S : revs[r].parents \subseteq S

\* The least number of a set.
LEMMA LeastNat ==
  ASSUME NEW S \in SUBSET Nat, S # {}
  PROVE  \E n \in S : \A m \in S : n <= m
<1>1. PICK n \in S : \A m \in S : <<m, n>> \notin OpToRel(<, Nat)
  BY NatLessThanWellFounded, WFMin
<1>2. ASSUME NEW m \in S PROVE n <= m
  <2>1. ~(m < n)
    <3>1. SUFFICES ASSUME m < n PROVE <<m, n>> \in OpToRel(<, Nat)
      BY <1>1
    <3>2. <<m, n>> \in Nat \X Nat /\ <<m, n>>[1] < <<m, n>>[2]
      BY <3>1
    <3> QED BY <3>2 DEF OpToRel
  <2> QED BY <2>1
<1> QED BY <1>2

Up(S) == S \union UNION {revs[r].parents : r \in S}

\* f is the walk of Log from hs, n steps far.
Walk(f, hs, n) == f = [k \in 0..n |-> IF k = 0 THEN hs ELSE f[k-1] \union UNION {revs[r].parents : r \in f[k-1]}]

\* Each step adds the parents of what the steps before it reached.
LEMMA WalkSteps ==
  ASSUME NEW f, NEW hs, NEW n \in Nat
  PROVE  Walk(f, hs, n) <=> /\ f = [k \in 0..n |-> f[k]]
                            /\ f[0] = hs /\ \A k \in 0..(n-1) : f[k+1] = Up(f[k])
<1>1. ASSUME Walk(f, hs, n) PROVE /\ f = [k \in 0..n |-> f[k]]
                            /\ f[0] = hs /\ \A k \in 0..(n-1) : f[k+1] = Up(f[k])
  <2>1. \A k \in 0..n : f[k] = IF k = 0 THEN hs ELSE f[k-1] \union UNION {revs[r].parents : r \in f[k-1]}
    BY <1>1 DEF Walk
  <2>2. f[0] = hs
    <3>1. 0 \in 0..n
      OBVIOUS
    <3> QED BY <2>1, <3>1
  <2>3. ASSUME NEW k \in 0..(n-1) PROVE f[k+1] = Up(f[k])
    <3>1. k+1 \in 0..n /\ k+1 # 0 /\ (k+1)-1 = k
      OBVIOUS
    <3>2. f[k+1] = f[(k+1)-1] \union UNION {revs[r].parents : r \in f[(k+1)-1]}
      BY <2>1, <3>1
    <3> QED BY <3>1, <3>2 DEF Up
  <2>4. f = [k \in 0..n |-> f[k]]
    BY <1>1 DEF Walk
  <2> QED BY <2>2, <2>3, <2>4
<1>2. ASSUME f = [k \in 0..n |-> f[k]], f[0] = hs, \A k \in 0..(n-1) : f[k+1] = Up(f[k])
      PROVE  Walk(f, hs, n)
  <2>1. ASSUME NEW k \in 0..n
        PROVE f[k] = IF k = 0 THEN hs ELSE f[k-1] \union UNION {revs[r].parents : r \in f[k-1]}
    <3>1. CASE k = 0
      BY <1>2, <3>1
    <3>2. CASE k # 0
      <4>1. k - 1 \in 0..(n-1) /\ (k - 1) + 1 = k
        BY <3>2
      <4> QED BY <1>2, <3>2, <4>1 DEF Up
    <3> QED BY <3>1, <3>2
  <2>2. f = [k \in 0..n |-> IF k = 0 THEN hs ELSE f[k-1] \union UNION {revs[r].parents : r \in f[k-1]}]
    BY <1>2, <2>1
  <2> QED BY <2>2 DEF Walk
<1> QED BY <1>1, <1>2

\* The recursion defines a function.
LEMMA WalkExists ==
  ASSUME NEW hs, NEW n \in Nat
  PROVE  \E f : Walk(f, hs, n)
<1> DEFINE Bad == {m \in Nat : ~ \E f : Walk(f, hs, m)}
<1>1. SUFFICES ASSUME Bad # {} PROVE FALSE
  OBVIOUS
<1>2. PICK m \in Bad : \A q \in Bad : m <= q
  BY <1>1, LeastNat
<1>3. CASE m = 0
  <2> DEFINE g == [k \in 0..0 |-> hs]
  <2>1. g = [k \in 0..0 |-> g[k]] /\ g[0] = hs /\ \A k \in 0..(0-1) : g[k+1] = Up(g[k])
    OBVIOUS
  <2> HIDE DEF g
  <2>2. Walk(g, hs, 0)
    BY <2>1, WalkSteps
  <2> QED BY <1>2, <1>3, <2>2
<1>4. CASE m # 0
  <2>1. m - 1 \in Nat /\ m - 1 \notin Bad
    BY <1>2, <1>4
  <2>2. PICK f : Walk(f, hs, m - 1)
    BY <2>1
  <2> DEFINE g == [k \in 0..m |-> IF k = m THEN Up(f[m - 1]) ELSE f[k]]
  <2>3. f[0] = hs /\ \A k \in 0..(m-1-1) : f[k+1] = Up(f[k])
    BY <2>1, <2>2, WalkSteps
  <2>4. g = [k \in 0..m |-> g[k]] /\ g[0] = hs
    BY <1>4, <2>3
  <2>5. ASSUME NEW k \in 0..(m-1) PROVE g[k+1] = Up(g[k])
    <3>1. CASE k = m - 1
      BY <3>1, <1>4
    <3>2. CASE k # m - 1
      <4>1. k \in 0..(m-1-1) /\ k+1 \in 0..m /\ k+1 # m /\ k # m /\ k \in 0..m
        BY <3>2, <2>1
      <4>2. g[k+1] = f[k+1] /\ g[k] = f[k]
        BY <4>1
      <4> QED BY <2>3, <4>1, <4>2
    <3> QED BY <3>1, <3>2
  <2>6. Walk(g, hs, m)
    <3>1. m \in Nat
      BY <1>2
    <3> HIDE DEF g
    <3> QED BY <2>4, <2>5, <3>1, WalkSteps
  <2> QED BY <1>2, <2>6
<1> QED BY <1>3, <1>4

\* Log(hs) is where a walk from hs ends.
LEMMA LogWalks ==
  ASSUME NEW hs, HistoryType
  PROVE  \E f : /\ f[0] = hs /\ Log(hs) = f[Len(revs)]
                /\ \A k \in 0..(Len(revs)-1) : f[k+1] = Up(f[k])
<1> DEFINE f == CHOOSE g : Walk(g, hs, Len(revs))
<1>1. Walk(f, hs, Len(revs))
  BY WalkExists
<1>2. Log(hs) = f[Len(revs)]
  BY DEF Log, Walk
<1> HIDE DEF f
<1> QED BY <1>1, <1>2, WalkSteps


\* Log(hs) is the least set of revisions that has hs and with each its parents.
LEMMA LogMeaning ==
  ASSUME HistoryType, NEW hs \in SUBSET Rev
  PROVE  /\ Log(hs) \subseteq Rev
         /\ hs \subseteq Log(hs)
         /\ Closed(Log(hs))
         /\ \A S \in SUBSET Rev : hs \subseteq S /\ Closed(S) => Log(hs) \subseteq S
<1> DEFINE N == Len(revs)
<1>1. PICK f : /\ f[0] = hs /\ Log(hs) = f[N]
               /\ \A k \in 0..(N-1) : f[k+1] = Up(f[k])
  BY LogWalks
<1>2. ASSUME NEW S \in SUBSET Rev, hs \subseteq S, Closed(S), NEW k \in 0..N
      PROVE  f[k] \subseteq S
  <2> DEFINE Bad == {m \in 0..N : ~(f[m] \subseteq S)}
  <2> SUFFICES ASSUME Bad # {} PROVE FALSE
    BY <1>2
  <2>1. PICK m \in Bad : \A q \in Bad : m <= q
    <3>1. Bad \in SUBSET Nat
      OBVIOUS
    <3> HIDE DEF Bad
    <3> QED BY <3>1, LeastNat
  <2>2. m # 0
    BY <1>1, <1>2, <2>1
  <2>3. m - 1 \in 0..(N-1) /\ m - 1 \notin Bad /\ (m - 1) + 1 = m /\ m - 1 \in 0..N
    BY <2>1, <2>2
  <2>4. f[m] = Up(f[m-1]) /\ f[m-1] \subseteq S
    BY <1>1, <2>3
  <2>5. f[m] \subseteq S
    BY <1>2, <2>4 DEF Up, Closed
  <2> QED BY <2>1, <2>5
<1>3. Closed(Rev)
  BY DEF HistoryType, Closed, Rev
<1>4. \A k \in 0..N : f[k] \subseteq Rev
  BY <1>2, <1>3
<1>5. ASSUME NEW k \in 0..N, k # 0
      PROVE  f[k] \subseteq f[k-1] \union 1..(N - k)
  <2> DEFINE Bad == {m \in 1..N : ~(f[m] \subseteq f[m-1] \union 1..(N - m))}
  <2> SUFFICES ASSUME Bad # {} PROVE FALSE
    BY <1>5
  <2>1. PICK m \in Bad : \A q \in Bad : m <= q
    <3>1. Bad \in SUBSET Nat
      OBVIOUS
    <3> HIDE DEF Bad
    <3> QED BY <3>1, LeastNat
  <2>2. m - 1 \in 0..(N-1) /\ (m - 1) + 1 = m /\ m - 1 \in 0..N /\ m \in 1..N
    BY <2>1
  <2>3. f[m] = Up(f[m-1]) /\ f[m-1] \subseteq Rev
    BY <1>1, <1>4, <2>2
  <2>4. ASSUME NEW x \in f[m], x \notin f[m-1] PROVE x \in 1..(N - m)
    <3>1. PICK r \in f[m-1] : x \in revs[r].parents
      BY <2>3, <2>4 DEF Up
    <3>2. r \in 1..N /\ x \in 1..(r-1)
      BY <2>3, <3>1 DEF HistoryType, Rev
    <3>3. CASE m = 1
      BY <3>2, <3>3
    <3>4. CASE m # 1
      <4>1. m - 2 \in 0..(N-1) /\ (m - 2) + 1 = m - 1 /\ m - 1 \in 1..N /\ (m-1) - 1 = m - 2
        BY <2>2, <3>4
      <4>2. m - 1 \notin Bad
        BY <2>1, <4>1
      <4>3. f[m-1] \subseteq f[m-2] \union 1..(N - (m-1))
        BY <4>1, <4>2
      <4>4. f[m-1] = Up(f[m-2])
        BY <1>1, <4>1
      <4>5. r \notin f[m-2]
        BY <2>4, <3>1, <4>4 DEF Up
      <4>6. r \in 1..(N - (m-1))
        BY <3>1, <4>3, <4>5
      <4> QED BY <3>2, <4>6, <2>2
    <3> QED BY <3>3, <3>4
  <2> QED BY <2>1, <2>4
<1>6. \A k \in 0..(N-1) : f[k] \subseteq f[k+1]
  BY <1>1 DEF Up
<1>7. hs \subseteq f[N]
  <2> DEFINE Bad == {m \in 0..N : ~(hs \subseteq f[m])}
  <2> SUFFICES ASSUME Bad # {} PROVE FALSE
    BY <1>7
  <2>1. PICK m \in Bad : \A q \in Bad : m <= q
    <3>1. Bad \in SUBSET Nat
      OBVIOUS
    <3> HIDE DEF Bad
    <3> QED BY <3>1, LeastNat
  <2>2. m # 0
    BY <1>1, <2>1
  <2>3. m - 1 \in 0..(N-1) /\ m - 1 \notin Bad /\ (m - 1) + 1 = m /\ m - 1 \in 0..N
    BY <2>1, <2>2
  <2> QED BY <1>6, <2>1, <2>3
<1>8. Closed(f[N])
  <2>1. CASE N = 0
    <3>1. f[N] = {}
      BY <1>4, <2>1 DEF Rev
    <3> QED BY <3>1 DEF Closed
  <2>2. CASE N # 0
    <3>1. N - 1 \in 0..(N-1) /\ (N-1)+1 = N /\ N \in 0..N /\ 1..(N-N) = {}
      BY <2>2
    <3>2. f[N] = Up(f[N-1])
      BY <1>1, <3>1
    <3>3. f[N] \subseteq f[N-1]
      BY <1>5, <2>2, <3>1
    <3> QED BY <3>2, <3>3 DEF Up, Closed
  <2> QED BY <2>1, <2>2
<1> QED
  <2>1. N \in 0..N
    OBVIOUS
  <2> HIDE DEF N
  <2> QED BY <1>1, <1>2, <1>4, <1>7, <1>8, <2>1

-----------------------------------------------------------------------------
(* What a step makes of its session                                        *)

Outs == {"none", "contended", "pending", "blocked", "moved", "replayed", "refused", "ok",
         "answered", "incomplete", "killed"}

\* Only c's session moves.
Alone(c) == s' \in [Command -> Session] /\ \A d \in Command : d # c => s'[d] = s[d]

\* c goes on with what it has seen; with its answer to come.
SameSights(c) == s'[c].view = s[c].view /\ s'[c].seen = s[c].seen /\ s'[c].hist = s[c].hist
SameRest(c) == s'[c].token = s[c].token /\ s'[c].posts = s[c].posts /\ s'[c].out = s[c].out

LEMMA Replace ==
  ASSUME s \in [Command -> Session], NEW c \in Command, NEW r \in Session, s' = [s EXCEPT ![c] = r]
  PROVE  Alone(c) /\ s'[c] = r
BY DEF Alone

LEMMA ToStep ==
  ASSUME SessionType, NEW c \in Command, NEW l \in Holding \union Sharing, To(c, l)
  PROVE  Alone(c) /\ SameSights(c) /\ SameRest(c) /\ s'[c].pc = l /\ s'[c].task = s[c].task
BY DEF SessionType, Session, To, Alone, SameSights, SameRest

LEMMA IdleType == Idle \in Session
BY WaitAssumption DEF Idle, Session, Sharing, NoTxn, NoToken, Change, Blank, State, Rows, Mark,
   Nothing, Unread

LEMMA EndStep ==
  ASSUME SessionType, NEW c \in Command, NEW o \in Outs, NEW rows \in Rows, EndAs(c, o, rows)
  PROVE  /\ Alone(c)
         /\ s'[c].pc = "done" /\ s'[c].view = rows /\ s'[c].seen = {} /\ s'[c].hist = {}
         /\ s'[c].token = s[c].token /\ s'[c].out = o
         /\ lock' = IF lock = c THEN Nobody ELSE lock
<1>1. s \in [Command -> Session] /\ s[c].token \in [heads : SUBSET Nat, view : Rows]
  BY DEF SessionType, Session
<1> DEFINE r == [Idle EXCEPT !.pc = "done", !.out = o, !.view = rows, !.token = s[c].token]
<1>2. r \in Session
  BY <1>1, IdleType DEF Session, Sharing, Outs
<1>3. Alone(c) /\ s'[c] = r
  BY <1>1, <1>2, Replace DEF EndAs
<1>4. r.pc = "done" /\ r.view = rows /\ r.seen = {} /\ r.hist = {} /\ r.token = s[c].token
      /\ r.out = o
  BY DEF Idle
<1> HIDE DEF r
<1> QED BY <1>3, <1>4 DEF EndAs

\* The least of two numbers is one of them, and at most the other.
LEMMA MinOfTwo ==
  ASSUME NEW a \in Int, NEW b \in Int
  PROVE  Min({a, b}) \in {a, b} /\ Min({a, b}) <= a /\ Min({a, b}) <= b
<1>1. \E x \in {a, b} : \A y \in {a, b} : x <= y
  OBVIOUS
<1> QED BY <1>1 DEF Min

\* A sleep ends by the deadline, and the next is no longer than the longest.
LEMMA SleepStep ==
  ASSUME SessionType, NEW c \in Command, Sleep(c)
  PROVE  Alone(c) /\ SameSights(c) /\ SameRest(c) /\ s'[c].pc = "try" /\ s'[c].task = s[c].task
<1>1. /\ s \in [Command -> Session] /\ s[c] \in Session
      /\ s[c].delay \in 1..MaxDelay /\ s[c].waited \in 0..Budget
      /\ Budget \in Nat /\ MaxDelay \in Nat
  BY WaitAssumption DEF SessionType, Session
<1>2. PICK d \in 1..Min({s[c].delay, Budget - s[c].waited}) :
        s' = [s EXCEPT ![c] = [s[c] EXCEPT !.pc = "try", !.waited = @ + d,
                                           !.delay = Min({2 * @, MaxDelay})]]
  BY DEF Sleep
<1>3. s[c].waited + d \in 0..Budget /\ Min({2 * s[c].delay, MaxDelay}) \in 1..MaxDelay
  <2>1. /\ s[c].delay \in Int /\ Budget - s[c].waited \in Int
        /\ 2 * s[c].delay \in Int /\ MaxDelay \in Int
    BY <1>1
  <2>2. Min({s[c].delay, Budget - s[c].waited}) <= Budget - s[c].waited
        /\ Min({s[c].delay, Budget - s[c].waited}) \in {s[c].delay, Budget - s[c].waited}
    BY <2>1, MinOfTwo
  <2>3. Min({2 * s[c].delay, MaxDelay}) <= MaxDelay
        /\ Min({2 * s[c].delay, MaxDelay}) \in {2 * s[c].delay, MaxDelay}
    BY <2>1, MinOfTwo
  <2> QED BY <1>1, <1>2, <2>2, <2>3
<1> DEFINE r == [s[c] EXCEPT !.pc = "try", !.waited = s[c].waited + d,
                             !.delay = Min({2 * s[c].delay, MaxDelay})]
<1>4. r \in Session
  BY <1>1, <1>3 DEF Session, Sharing
<1>5. s' = [s EXCEPT ![c] = r]
  BY <1>2
<1>6. /\ r.view = s[c].view /\ r.seen = s[c].seen /\ r.hist = s[c].hist /\ r.task = s[c].task
      /\ r.token = s[c].token /\ r.posts = s[c].posts /\ r.out = s[c].out /\ r.pc = "try"
  BY <1>1 DEF Session
<1> HIDE DEF r
<1> QED BY <1>1, <1>4, <1>5, <1>6, Replace DEF SameSights, SameRest

LEMMA CommitStep ==
  ASSUME SessionType, NEW c \in Command, NEW t \in {"adopt", "change"}, NEW j, NEW r,
         CommitPoint(c, t, j, r)
  PROVE  /\ Alone(c) /\ SameSights(c) /\ SameRest(c) /\ s'[c].pc = "apply" /\ s'[c].task = t
         /\ jnl' = [j EXCEPT !.rev = Len(revs) + 1] /\ revs' = Append(revs, r)
<1> DEFINE x == [s[c] EXCEPT !.pc = "apply", !.task = t]
<1>1. s \in [Command -> Session] /\ s[c] \in Session
  BY DEF SessionType
<1>2. x \in Session
  BY <1>1 DEF Session, Holding, Finishing
<1>3. s' = [s EXCEPT ![c] = x]
  BY <1>1 DEF CommitPoint, Session
<1>4. /\ x.pc = "apply" /\ x.view = s[c].view /\ x.seen = s[c].seen /\ x.hist = s[c].hist
      /\ x.task = t /\ x.token = s[c].token /\ x.posts = s[c].posts /\ x.out = s[c].out
  BY <1>1 DEF Session
<1> HIDE DEF x
<1> QED BY <1>1, <1>2, <1>3, <1>4, Replace DEF SameSights, SameRest, CommitPoint

LEMMA FinishStep ==
  ASSUME SessionType, NEW c \in Command, Finish(c), jnl.rev \in Nat, s[c].task # "none"
  PROVE  /\ Alone(c) /\ SameRest(c) /\ s'[c].view = s[c].view /\ s'[c].hist = s[c].hist
         /\ s'[c].seen = {jnl.rev} /\ s'[c].task = s[c].task
         /\ s'[c].pc = IF s[c].task = "recovery" THEN "observe"
                       ELSE IF s[c].task = "adopt" THEN "settle" ELSE "keep"
<1>1. /\ s \in [Command -> Session] /\ s[c] \in Session
      /\ s[c].task \in {"recovery", "adopt", "change"}
  BY DEF SessionType, Session
<1> DEFINE l == IF s[c].task = "recovery" THEN "observe"
                ELSE IF s[c].task = "adopt" THEN "settle" ELSE "keep"
<1>2. l \in Holding
  BY <1>1 DEF Holding
<1>3. s' = [s EXCEPT ![c].seen = {jnl.rev}, ![c].pc = l]
  BY <1>1 DEF Finish
<1> HIDE DEF l
<1>4. Alone(c) /\ SameRest(c) /\ s'[c].view = s[c].view /\ s'[c].hist = s[c].hist
      /\ s'[c].seen = {jnl.rev} /\ s'[c].task = s[c].task /\ s'[c].pc = l
  BY <1>1, <1>2, <1>3 DEF Session, Alone, SameRest
<1> QED BY <1>4 DEF l

LEMMA RecoverStep ==
  ASSUME SessionType, NEW c \in Command, Recover(c)
  PROVE  /\ Alone(c) /\ SameSights(c) /\ SameRest(c) /\ s'[c].task = "recovery"
         /\ s'[c].pc = IF jnl = NoTxn THEN "observe" ELSE "apply"
<1> DEFINE l == IF jnl = NoTxn THEN "observe" ELSE "apply"
<1>1. l \in Holding
  BY DEF Holding, Finishing
<1>2. s' = [s EXCEPT ![c].task = "recovery", ![c].pc = l]
  BY DEF Recover
<1> HIDE DEF l
<1>3. s \in [Command -> Session] /\ s[c] \in Session
  BY DEF SessionType
<1> DEFINE r == [s[c] EXCEPT !.task = "recovery", !.pc = l]
<1>4. r \in Session
  BY <1>1, <1>3 DEF Session
<1>5. s' = [s EXCEPT ![c] = r]
  BY <1>2, <1>3 DEF Session
<1>6. /\ r.pc = l /\ r.view = s[c].view /\ r.seen = s[c].seen /\ r.hist = s[c].hist
      /\ r.task = "recovery" /\ r.token = s[c].token /\ r.posts = s[c].posts /\ r.out = s[c].out
  BY <1>3 DEF Session
<1> HIDE DEF r
<1> QED BY <1>3, <1>4, <1>5, <1>6, Replace DEF SameSights, SameRest, l

LEMMA ObserveStep ==
  ASSUME SessionType, DiskType, NEW c \in Command, Observe(c)
  PROVE  /\ Alone(c) /\ SameRest(c) /\ s'[c].pc = "judge" /\ s'[c].task = s[c].task
         /\ s'[c].view = files /\ s'[c].seen = s[c].seen /\ s'[c].hist = s[c].hist
<1> DEFINE b == mir.rows # files
<1>1. b \in BOOLEAN
  OBVIOUS
<1>2. s' = [s EXCEPT ![c].pc = "judge", ![c].view = files, ![c].fresh = b]
  BY DEF Observe
<1> HIDE DEF b
<1>3. s[c] \in Session /\ s \in [Command -> Session] /\ files \in Rows
  BY DEF SessionType, DiskType, State, Rows
<1> DEFINE r == [s[c] EXCEPT !.pc = "judge", !.view = files, !.fresh = b]
<1>4. r \in Session
  BY <1>1, <1>3 DEF Session, Holding
<1>5. s' = [s EXCEPT ![c] = r]
  BY <1>2, <1>3 DEF Session
<1>6. /\ r.pc = "judge" /\ r.view = files /\ r.seen = s[c].seen /\ r.hist = s[c].hist
      /\ r.task = s[c].task /\ r.token = s[c].token /\ r.posts = s[c].posts /\ r.out = s[c].out
  BY <1>3 DEF Session
<1> HIDE DEF r
<1> QED BY <1>3, <1>4, <1>5, <1>6, Replace DEF SameRest

LEMMA JudgeStep ==
  ASSUME SessionType, DiskType, NEW c \in Command, Judge(c), heads \subseteq Nat
  PROVE  /\ Alone(c) /\ SameRest(c) /\ s'[c].pc = "adopt" /\ s'[c].task = s[c].task
         /\ s'[c].view = s[c].view /\ s'[c].seen = heads /\ s'[c].hist = s[c].hist
<1> DEFINE b == IF s[c].fresh THEN Valid(s[c].view) ELSE mir.good
<1>1. b \in BOOLEAN
  BY DEF DiskType, Valid
<1>2. s' = [s EXCEPT ![c].pc = "adopt", ![c].good = b, ![c].seen = heads]
  BY DEF Judge
<1> HIDE DEF b
<1>3. s[c] \in Session /\ s \in [Command -> Session]
  BY DEF SessionType
<1> DEFINE r == [s[c] EXCEPT !.pc = "adopt", !.good = b, !.seen = heads]
<1>4. r \in Session
  BY <1>1, <1>3 DEF Session, Holding
<1>5. s' = [s EXCEPT ![c] = r]
  BY <1>2, <1>3 DEF Session
<1>6. /\ r.pc = "adopt" /\ r.view = s[c].view /\ r.seen = heads /\ r.hist = s[c].hist
      /\ r.task = s[c].task /\ r.token = s[c].token /\ r.posts = s[c].posts /\ r.out = s[c].out
  BY <1>3 DEF Session
<1> HIDE DEF r
<1> QED BY <1>3, <1>4, <1>5, <1>6, Replace DEF SameRest

LEMMA OpenedStep ==
  ASSUME SessionType, NEW c \in Command, Opened(c), heads \subseteq Nat
  PROVE  /\ Alone(c) /\ SameRest(c) /\ s'[c].view = s[c].view /\ s'[c].seen = s[c].seen
         /\ s'[c].hist = heads /\ s'[c].task = s[c].task
         /\ s'[c].pc = IF KindOf[c] = "observe" THEN "answer" ELSE "transact"
<1> DEFINE l == IF KindOf[c] = "observe" THEN "answer" ELSE "transact"
<1>1. l \in Holding
  BY DEF Holding
<1>2. s' = [s EXCEPT ![c].pc = l, ![c].hist = heads]
  BY DEF Opened
<1> HIDE DEF l
<1>3. s \in [Command -> Session] /\ s[c] \in Session
  BY DEF SessionType
<1> DEFINE r == [s[c] EXCEPT !.pc = l, !.hist = heads]
<1>4. r \in Session
  BY <1>1, <1>3 DEF Session
<1>5. s' = [s EXCEPT ![c] = r]
  BY <1>2, <1>3 DEF Session
<1>6. /\ r.pc = l /\ r.view = s[c].view /\ r.seen = s[c].seen /\ r.hist = heads
      /\ r.task = s[c].task /\ r.token = s[c].token /\ r.posts = s[c].posts /\ r.out = s[c].out
  BY <1>3 DEF Session
<1> HIDE DEF r
<1> QED BY <1>3, <1>4, <1>5, <1>6, Replace DEF SameRest, l

LEMMA DryRunStep ==
  ASSUME SessionType, NEW c \in Command, DryRun(c)
  PROVE  /\ Alone(c) /\ s'[c].pc = "try" /\ s'[c].seen = {} /\ s'[c].hist = {}
         /\ s'[c].out = "none" /\ s'[c].token = Token(c)
<1>1. s \in [Command -> Session] /\ s[c].seen \in SUBSET Nat /\ s[c].view \in Rows
  BY DEF SessionType, Session
<1> DEFINE r == [Idle EXCEPT !.pc = "try", !.token = Token(c)]
<1>2. r \in Session
  BY <1>1, IdleType DEF Session, Sharing, Token
<1>3. Alone(c) /\ s'[c] = r
  BY <1>1, <1>2, Replace DEF DryRun
<1>4. r.pc = "try" /\ r.seen = {} /\ r.hist = {} /\ r.token = Token(c) /\ r.out = "none"
  BY DEF Idle
<1> HIDE DEF r
<1> QED BY <1>3, <1>4

LEMMA ListStep ==
  ASSUME SessionType, DiskType, NEW c \in Command, List(c)
  PROVE  /\ Alone(c) /\ SameSights(c) /\ s'[c].pc = "posts" /\ s'[c].task = s[c].task
         /\ s'[c].posts = jnl /\ s'[c].token = s[c].token /\ s'[c].out = s[c].out
<1> DEFINE r == [s[c] EXCEPT !.pc = "posts", !.posts = jnl]
<1>1. s \in [Command -> Session] /\ s[c] \in Session /\ jnl \in Change
  BY DEF SessionType, DiskType
<1>2. r \in Session
  BY <1>1 DEF Session, Sharing
<1>3. s' = [s EXCEPT ![c] = r]
  BY <1>1 DEF List, Session
<1>4. /\ r.pc = "posts" /\ r.view = s[c].view /\ r.seen = s[c].seen /\ r.hist = s[c].hist
      /\ r.task = s[c].task /\ r.token = s[c].token /\ r.posts = jnl /\ r.out = s[c].out
  BY <1>1 DEF Session
<1> HIDE DEF r
<1> QED BY <1>1, <1>2, <1>3, <1>4, Replace DEF SameSights

LEMMA ReadStep ==
  ASSUME SessionType, DiskType, NEW c \in Command, Read(c)
  PROVE  /\ Alone(c) /\ SameRest(c) /\ s'[c].pc = "read" /\ s'[c].task = s[c].task
         /\ s'[c].seen = s[c].seen /\ s'[c].hist = s[c].hist
         /\ \E p \in Path :
              /\ \A q \in Path : q # p => s'[c].view[q] = s[c].view[q]
              /\ s'[c].view[p] = IF p \in s[c].posts.writes THEN s[c].posts.post[p] ELSE files[p]
<1>1. PICK p \in Path :
        s' = [s EXCEPT ![c].view[p] = IF p \in s[c].posts.writes THEN s[c].posts.post[p]
                                      ELSE files[p]]
  BY DEF Read
<1>2. /\ s \in [Command -> Session] /\ s[c] \in Session /\ s[c].view \in Rows
      /\ s[c].posts \in Change /\ s[c].pc = "read"
  BY DEF SessionType, Session, Read, At
<1> DEFINE x == IF p \in s[c].posts.writes THEN s[c].posts.post[p] ELSE files[p]
           v == [s[c].view EXCEPT ![p] = x]
           r == [s[c] EXCEPT !.view = v]
<1>3. x \in SUBSET (Mark \union {"unread"})
  BY <1>2 DEF DiskType, State, Change
<1> HIDE DEF x
<1>4. v \in Rows /\ v[p] = x /\ \A q \in Path : q # p => v[q] = s[c].view[q]
  BY <1>2, <1>3 DEF Rows
<1>5. s' = [s EXCEPT ![c] = r]
  BY <1>1, <1>2 DEF Session, x
<1> HIDE DEF v
<1>6. r \in Session
  BY <1>2, <1>4 DEF Session
<1>7. /\ r.pc = "read" /\ r.view = v /\ r.seen = s[c].seen /\ r.hist = s[c].hist
      /\ r.task = s[c].task /\ r.token = s[c].token /\ r.posts = s[c].posts /\ r.out = s[c].out
  BY <1>2 DEF Session
<1> HIDE DEF r
<1> QED BY <1>2, <1>4, <1>5, <1>6, <1>7, Replace DEF SameRest, x

-----------------------------------------------------------------------------
(* Commands keep the order                                                 *)

\* What c does to the lock, the journal and the heads it does while it holds
\* the lock, or nobody does.
Apart(c) ==
  \A d \in Command : d # c /\ lock = d => UNCHANGED <<lock, jnl>> /\ heads \subseteq heads'

\* So the sessions beside c are in order after its step.
LEMMA OthersOrdered ==
  ASSUME Ordered, NEW c \in Command, Alone(c), Apart(c), Rev \subseteq Rev'
  PROVE  \A d \in Command : d # c => SessionOK(d)'
<1> SUFFICES ASSUME NEW d \in Command, d # c PROVE SessionOK(d)'
  OBVIOUS
<1>1. s'[d] = s[d] /\ SessionOK(d)
  BY DEF Alone, Ordered
<1>2. CASE s[d].pc \notin Holding
  BY <1>1, <1>2 DEF SessionOK, Observing, Changing, Holding, Finishing
<1>3. CASE s[d].pc \in Holding
  <2>1. UNCHANGED <<lock, jnl>> /\ heads \subseteq heads'
    BY <1>1, <1>3 DEF SessionOK, Apart
  <2> QED BY <1>1, <2>1 DEF SessionOK, Observing, Changing
<1> QED BY <1>2, <1>3

\* A step that leaves the disk alone keeps the order if it does so for itself.
LEMMA QuietOrdered ==
  ASSUME Ordered, NEW c \in Command, Alone(c), UNCHANGED <<disk, script>>, GhostType',
         lock' \in {lock, c, Nobody}, lock' # lock => lock \in {c, Nobody}, SessionOK(c)'
  PROVE  Ordered'
<1>1. Rev \subseteq Rev' /\ Apart(c)
  BY CommandAssumption DEF disk, Rev, Apart
<1>2. \A d \in Command : SessionOK(d)'
  BY <1>1, OthersOrdered
<1>3. HistoryType' /\ JournalOK'
  BY DEF Ordered, TypeOK, HistoryType, JournalOK, disk, Rev
<1>4. DiskType'
  BY DEF Ordered, TypeOK, DiskType, disk
<1>5. SessionType' /\ script' \in Scripts
  BY DEF Alone, Ordered, TypeOK, SessionType
<1> QED BY <1>2, <1>3, <1>4, <1>5 DEF Ordered, TypeOK

\* A session that ends is in order.
LEMMA EndOrdered ==
  ASSUME Ordered, NEW c \in Command, NEW o \in Outs, NEW rows \in Rows, EndAs(c, o, rows)
  PROVE  Alone(c) /\ SessionOK(c)' /\ lock' \in {lock, Nobody} /\ (lock' # lock => lock = c)
<1>1. SessionType
  BY DEF Ordered, TypeOK
<1> QED BY <1>1, EndStep DEF SessionOK, Observing, Changing, Holding, Finishing

LEMMA LockOrdered ==
  ASSUME Ordered, NEW c \in Command, Lock(c)
  PROVE  Ordered'
<1> USE DEF around
<1>1. SessionType /\ GhostType /\ SessionOK(c)
  BY DEF Ordered, TypeOK
<1>2. CASE Begin(c)
  <2>1. GhostType'
    BY <1>1, <1>2 DEF Begin, GhostType
  <2>2. PICK l \in {"list", "try"} : To(c, l)
    BY <1>2 DEF Begin
  <2>3. Alone(c) /\ SessionOK(c)'
    BY <1>1, <1>2, <2>2, ToStep
      DEF Begin, SessionOK, SameSights, Observing, Changing, Holding, Finishing, Sharing, Rev, disk
  <2> QED BY <1>2, <2>1, <2>3, QuietOrdered DEF Begin
<1>3. CASE Take(c)
  <2>1. GhostType'
    BY <1>1, <1>3 DEF Take, GhostType, ghosts
  <2>2. Alone(c) /\ s'[c].pc = "recover" /\ SameSights(c)
    BY <1>1, <1>3, ToStep DEF Take, Holding
  <2>3. SessionOK(c)'
    BY <1>1, <1>3, <2>2
      DEF Take, SessionOK, SameSights, Observing, Changing, Holding, Finishing, disk, Rev
  <2> QED BY <1>3, <2>1, <2>2, <2>3, QuietOrdered DEF Take
<1>4. CASE Busy(c)
  <2>1. GhostType'
    BY <1>1, <1>4 DEF Busy, GhostType, ghosts
  <2>2. PICK l \in {"snapshot", "wait"} : To(c, l)
    BY <1>4 DEF Busy
  <2>3. Alone(c) /\ SessionOK(c)'
    BY <1>1, <1>4, <2>2, ToStep
      DEF Busy, SessionOK, SameSights, Observing, Changing, Holding, Finishing, Sharing, Rev, disk
  <2> QED BY <1>4, <2>1, <2>3, QuietOrdered DEF Busy
<1>5. CASE Sleep(c)
  <2>1. GhostType'
    BY <1>1, <1>5 DEF Sleep, GhostType, ghosts
  <2>2. Alone(c) /\ SessionOK(c)'
    BY <1>1, <1>5, SleepStep
      DEF Sleep, SessionOK, SameSights, Observing, Changing, Holding, Finishing, Rev, disk
  <2> QED BY <1>5, <2>1, <2>2, QuietOrdered DEF Sleep
<1>6. CASE GiveUp(c)
  <2>1. GhostType'
    BY <1>1, <1>6 DEF GiveUp, GhostType, ghosts
  <2>2. Nothing \in Rows /\ "contended" \in Outs
    BY DEF Nothing, Unread, Rows, Outs
  <2>3. EndAs(c, "contended", Nothing) /\ UNCHANGED <<disk, script>>
    BY <1>6 DEF GiveUp, End
  <2> QED BY <2>1, <2>2, <2>3, EndOrdered, QuietOrdered
<1> QED BY <1>2, <1>3, <1>4, <1>5, <1>6 DEF Lock

LEMMA ApplyOrdered ==
  ASSUME Ordered, NEW c \in Command, Apply(c)
  PROVE  Ordered'
<1> USE DEF around, ghosts
<1>1. SessionType /\ GhostType /\ SessionOK(c) /\ DiskType /\ HistoryType /\ JournalOK
  BY DEF Ordered, TypeOK
<1>2. s[c].pc \in Finishing
  BY DEF Apply, Place, Publish, Retire, Finish, At, Finishing
<1>3. lock = c /\ jnl.rev # 0 /\ jnl.rev \in Rev /\ jnl.retire \subseteq revs[jnl.rev].parents
      /\ s[c].task # "none"
  BY <1>1, <1>2 DEF SessionOK, JournalOK, Holding
<1>4. \A d \in Command : d # c => lock # d
  BY <1>3
<1>5. CASE Place(c)
  <2>1. PICK p \in jnl.todo :
          /\ jnl' = [jnl EXCEPT !.todo = @ \ {p}]
          /\ files' = [files EXCEPT ![p] = IF @ = jnl.pre[p] THEN jnl.post[p] ELSE @]
          /\ kept' = IF files[p] \in {jnl.pre[p], jnl.post[p]} THEN kept
                     ELSE kept \union {<<revs[jnl.rev].by, p>>}
    BY <1>5 DEF Place
  <2>2. p \in Path /\ revs[jnl.rev].by \in Command \union {Nobody}
    <3>1. revs[jnl.rev] \in Revision
      BY <1>1, <1>3 DEF HistoryType, Rev
    <3> QED BY <1>1, <3>1 DEF DiskType, Change, Revision
  <2>3. files' \in State
    BY <1>1, <2>1, <2>2 DEF DiskType, Change, State
  <2>4. jnl' \in Change /\ jnl'.rev = jnl.rev /\ jnl'.retire = jnl.retire
    BY <1>1, <2>1 DEF DiskType, Change
  <2>5. kept' \subseteq (Command \union {Nobody}) \X Path
    BY <1>1, <2>1, <2>2 DEF GhostType
  <2>6. DiskType' /\ GhostType' /\ HistoryType' /\ SessionType' /\ Rev' = Rev
    BY <1>1, <1>5, <2>3, <2>4, <2>5 DEF Place, DiskType, GhostType, HistoryType, SessionType, Rev
  <2>7. JournalOK'
    BY <1>1, <1>3, <1>5, <2>4, <2>6 DEF Place, JournalOK
  <2>8. SessionOK(c)'
    BY <1>1, <1>5, <2>4, <2>6
      DEF Place, At, SessionOK, Observing, Changing, Holding, Finishing
  <2>9. Alone(c) /\ Apart(c)
    BY <1>1, <1>4, <1>5 DEF Place, Alone, Apart, SessionType
  <2> QED
    BY <1>5, <2>6, <2>7, <2>8, <2>9, OthersOrdered DEF Place, Ordered, TypeOK
<1>6. CASE Publish(c)
  <2>1. Alone(c) /\ SameSights(c) /\ s'[c].pc = "retire" /\ s'[c].task = s[c].task
    BY <1>1, <1>6, ToStep DEF Publish, Holding, Finishing
  <2>2. DiskType' /\ GhostType' /\ HistoryType' /\ SessionType' /\ Rev' = Rev
    BY <1>1, <1>3, <1>6, <2>1
      DEF Publish, DiskType, GhostType, HistoryType, SessionType, Rev, Alone
  <2>3. JournalOK'
    BY <1>1, <1>6, <2>2 DEF Publish, JournalOK
  <2>4. SessionOK(c)'
    BY <1>1, <1>3, <1>6, <2>1, <2>2
      DEF Publish, At, SessionOK, SameSights, Observing, Changing, Holding, Finishing
  <2>5. Apart(c)
    BY <1>4 DEF Apart
  <2> QED
    BY <1>6, <2>1, <2>2, <2>3, <2>4, <2>5, OthersOrdered DEF Publish, Ordered, TypeOK
<1>7. CASE Retire(c)
  <2>1. Alone(c) /\ SameSights(c) /\ s'[c].pc = "finish" /\ s'[c].task = s[c].task
    BY <1>1, <1>7, ToStep DEF Retire, Holding, Finishing
  <2>2. DiskType' /\ GhostType' /\ HistoryType' /\ SessionType' /\ Rev' = Rev
    BY <1>1, <1>7, <2>1
      DEF Retire, DiskType, GhostType, HistoryType, SessionType, Rev, Alone
  <2>3. JournalOK'
    BY <1>1, <1>7, <2>2 DEF Retire, JournalOK
  <2>4. jnl.rev \in heads /\ jnl.todo = {} /\ jnl.rev \notin jnl.retire
    BY <1>1, <1>3, <1>7 DEF Retire, At, SessionOK, HistoryType, Rev
  <2>5. SessionOK(c)'
    BY <1>1, <1>3, <1>7, <2>1, <2>2, <2>4
      DEF Retire, At, SessionOK, SameSights, Observing, Changing, Holding, Finishing
  <2>6. Apart(c)
    BY <1>4 DEF Apart
  <2> QED
    BY <1>7, <2>1, <2>2, <2>3, <2>5, <2>6, OthersOrdered DEF Retire, Ordered, TypeOK
<1>8. CASE Finish(c)
  <2>1. /\ Alone(c) /\ s'[c].view = s[c].view /\ s'[c].hist = s[c].hist
        /\ s'[c].seen = {jnl.rev} /\ s'[c].task = s[c].task
        /\ s'[c].pc = IF s[c].task = "recovery" THEN "observe"
                      ELSE IF s[c].task = "adopt" THEN "settle" ELSE "keep"
    BY <1>1, <1>3, <1>8, FinishStep DEF Rev
  <2>2. NoTxn \in Change /\ NoTxn.rev = 0
    BY DEF NoTxn, Change, Blank, State
  <2>3. DiskType' /\ GhostType' /\ HistoryType' /\ SessionType' /\ Rev' = Rev
    BY <1>1, <1>8, <2>1, <2>2
      DEF Finish, DiskType, GhostType, HistoryType, SessionType, Rev, Alone
  <2>4. JournalOK'
    BY <1>8, <2>2 DEF Finish, JournalOK
  <2>5. s[c].task \in {"recovery", "adopt", "change"}
    BY <1>1, <1>3 DEF SessionType, Session
  <2>6. SessionOK(c)'
    <3> USE DEF Finish, At, SessionOK, Observing, Changing, Holding, Finishing
    <3>1. s[c].pc = "finish" /\ jnl' = NoTxn /\ lock' = lock
      BY <1>8
    <3>2. s'[c].seen \subseteq Rev' /\ s'[c].hist \subseteq Rev'
      BY <1>1, <1>3, <2>1, <2>3
    <3>3. CASE s[c].task = "recovery"
      BY <1>3, <2>1, <2>2, <3>1, <3>2, <3>3
    <3>4. CASE s[c].task # "recovery"
      BY <1>1, <1>3, <2>1, <2>2, <2>5, <3>1, <3>2, <3>4
    <3> QED BY <3>3, <3>4
  <2>7. Apart(c)
    BY <1>4 DEF Apart
  <2> QED
    BY <1>8, <2>1, <2>3, <2>4, <2>6, <2>7, OthersOrdered DEF Finish, Ordered, TypeOK
<1> QED BY <1>5, <1>6, <1>7, <1>8 DEF Apply

\* A step that on disk only touches the mirror keeps the order if it does so
\* for itself.
LEMMA MirrorOrdered ==
  ASSUME Ordered, NEW c \in Command, Alone(c), UNCHANGED <<files, revs, heads, jnl, script>>,
         mir' \in [rows : State, rec : SUBSET Nat, good : BOOLEAN], GhostType', SessionOK(c)',
         lock' \in {lock, Nobody}, lock' # lock => lock = c
  PROVE  Ordered'
<1>1. Rev \subseteq Rev' /\ Apart(c)
  BY DEF Rev, Apart
<1>2. \A d \in Command : SessionOK(d)'
  BY <1>1, OthersOrdered
<1>3. HistoryType' /\ JournalOK'
  BY DEF Ordered, TypeOK, HistoryType, JournalOK, Rev
<1>4. DiskType' /\ SessionType' /\ script' \in Scripts
  BY DEF Ordered, TypeOK, DiskType, Alone, SessionType
<1> QED BY <1>2, <1>3, <1>4 DEF Ordered, TypeOK

\* What is appended to history is its last revision.
LEMMA Appended ==
  ASSUME HistoryType, NEW r \in Revision, r.parents \subseteq Rev, revs' = Append(revs, r)
  PROVE  /\ Len(revs') = Len(revs) + 1 /\ Rev' = Rev \union {Len(revs) + 1}
         /\ Len(revs) \in Nat /\ Len(revs) + 1 \notin Rev
         /\ revs'[Len(revs) + 1] = r /\ \A q \in Rev : revs'[q] = revs[q]
         /\ revs' \in Seq(Revision) /\ \A q \in Rev' : revs'[q].parents \subseteq 1..(q - 1)
<1>1. Len(revs) \in Nat /\ revs \in Seq(Revision)
  BY DEF HistoryType
<1>2. Len(revs') = Len(revs) + 1 /\ revs' \in Seq(Revision)
  BY <1>1
<1>3. revs'[Len(revs) + 1] = r /\ \A q \in 1..Len(revs) : revs'[q] = revs[q]
  BY <1>1
<1>4. Rev' = Rev \union {Len(revs) + 1} /\ Len(revs) + 1 \notin Rev
  BY <1>1, <1>2 DEF Rev
<1>5. ASSUME NEW q \in Rev' PROVE revs'[q].parents \subseteq 1..(q - 1)
  <2>1. CASE q \in Rev
    BY <1>3, <2>1 DEF HistoryType, Rev
  <2>2. CASE q = Len(revs) + 1
    BY <1>1, <1>3, <2>2 DEF Rev
  <2> QED BY <1>4, <1>5, <2>1, <2>2
<1> QED BY <1>1, <1>2, <1>3, <1>4, <1>5 DEF Rev

\* A commit keeps the order.
LEMMA CommitOrdered ==
  ASSUME Ordered, NEW c \in Command, NEW t \in {"adopt", "change"}, NEW j \in Change,
         NEW r \in Revision, r.parents \subseteq Rev, j.retire \subseteq r.parents,
         CommitPoint(c, t, j, r), s[c].pc \in {"adopt", "commit"}, GhostType',
         UNCHANGED <<files, heads, mir, lock, script>>
  PROVE  Ordered'
<1>1. SessionType /\ SessionOK(c) /\ HistoryType /\ DiskType
  BY DEF Ordered, TypeOK
<1>2. lock = c /\ s[c].view \in State
  BY <1>1 DEF SessionOK, Holding, Observing
<1>3. /\ Alone(c) /\ SameSights(c) /\ s'[c].pc = "apply" /\ s'[c].task = t
      /\ jnl' = [j EXCEPT !.rev = Len(revs) + 1] /\ revs' = Append(revs, r)
  BY <1>1, CommitStep
<1>4. /\ Rev' = Rev \union {Len(revs) + 1} /\ Len(revs) \in Nat
      /\ revs'[Len(revs) + 1] = r /\ revs' \in Seq(Revision)
      /\ \A q \in Rev' : revs'[q].parents \subseteq 1..(q - 1)
  BY <1>1, <1>3, Appended
<1>5. jnl' \in Change /\ jnl'.rev = Len(revs) + 1 /\ jnl'.retire = j.retire
  BY <1>3, <1>4 DEF Change
<1>6. HistoryType'
  BY <1>1, <1>4 DEF HistoryType
<1>7. DiskType' /\ SessionType' /\ script' \in Scripts
  BY <1>1, <1>3, <1>5 DEF DiskType, SessionType, Alone, Ordered, TypeOK
<1>8. JournalOK'
  BY <1>4, <1>5 DEF JournalOK
<1>9. SessionOK(c)'
  BY <1>1, <1>2, <1>3, <1>4, <1>5
    DEF SessionOK, SameSights, Observing, Changing, Holding, Finishing
<1>10. Apart(c)
  BY <1>2 DEF Apart
<1> QED
  BY <1>3, <1>4, <1>6, <1>7, <1>8, <1>9, <1>10, OthersOrdered DEF Ordered, TypeOK

LEMMA OpenOrdered ==
  ASSUME Ordered, NEW c \in Command, Open(c)
  PROVE  Ordered'
<1> USE DEF around, ghosts
<1>1. SessionType /\ GhostType /\ SessionOK(c) /\ DiskType /\ HistoryType /\ JournalOK
  BY DEF Ordered, TypeOK
<1>2. GhostType'
  BY <1>1 DEF Open, Recover, Observe, Judge, AdoptNothing, Adopt, AdoptMoved, Settle, GhostType
<1>3. heads \subseteq Nat
  BY <1>1 DEF HistoryType, Rev
<1>4. CASE Recover(c)
  <2>1. /\ Alone(c) /\ SameSights(c) /\ s'[c].task = "recovery"
        /\ s'[c].pc = IF jnl = NoTxn THEN "observe" ELSE "apply"
    BY <1>1, <1>4, RecoverStep
  <2>2. NoTxn.rev = 0
    BY DEF NoTxn
  <2>3. SessionOK(c)'
    <3> USE DEF SessionOK, SameSights, Observing, Changing, Holding, Finishing
    <3>1. UNCHANGED <<jnl, lock, heads>> /\ Rev' = Rev /\ lock = c
      BY <1>1, <1>4 DEF Recover, At, disk, Rev
    <3>2. CASE jnl = NoTxn
      BY <1>1, <2>1, <2>2, <3>1, <3>2
    <3>3. CASE jnl # NoTxn
      BY <1>1, <2>1, <3>1, <3>3 DEF JournalOK
    <3> QED BY <3>2, <3>3
  <2> QED BY <1>2, <1>4, <2>1, <2>3, QuietOrdered DEF Recover
<1>5. CASE Observe(c)
  <2>1. /\ Alone(c) /\ s'[c].pc = "judge" /\ s'[c].view = files
        /\ s'[c].seen = s[c].seen /\ s'[c].hist = s[c].hist
    BY <1>1, <1>5, ObserveStep
  <2>2. mir' \in [rows : State, rec : SUBSET Nat, good : BOOLEAN]
    BY <1>1, <1>5 DEF Observe, DiskType
  <2>3. SessionOK(c)'
    BY <1>1, <1>5, <2>1
      DEF Observe, At, SessionOK, Observing, Changing, Holding, Finishing, Rev, DiskType
  <2> QED BY <1>2, <1>5, <2>1, <2>2, <2>3, MirrorOrdered DEF Observe
<1>6. CASE Judge(c)
  <2>1. /\ Alone(c) /\ s'[c].pc = "adopt" /\ s'[c].view = s[c].view
        /\ s'[c].seen = heads /\ s'[c].hist = s[c].hist
    BY <1>1, <1>3, <1>6, JudgeStep
  <2>2. mir' \in [rows : State, rec : SUBSET Nat, good : BOOLEAN]
    <3> DEFINE good == IF s[c].fresh THEN Valid(s[c].view) ELSE mir.good
    <3>1. good \in BOOLEAN
      BY <1>1 DEF Valid, DiskType
    <3>2. Recorded(heads) \in SUBSET Nat
      BY <1>1, <1>3 DEF Recorded, DiskType
    <3>3. mir' = [mir EXCEPT !.good = good, !.rec = Recorded(heads)]
      BY <1>6 DEF Judge
    <3> HIDE DEF good
    <3> QED BY <1>1, <3>1, <3>2, <3>3 DEF DiskType
  <2>3. SessionOK(c)'
    BY <1>1, <1>6, <2>1
      DEF Judge, At, SessionOK, Observing, Changing, Holding, Finishing, Rev, HistoryType
  <2> QED BY <1>2, <1>6, <2>1, <2>2, <2>3, MirrorOrdered DEF Judge
<1>7. CASE AdoptNothing(c)
  <2>1. /\ Alone(c) /\ s'[c].view = s[c].view /\ s'[c].seen = s[c].seen /\ s'[c].hist = heads
        /\ s'[c].pc = IF KindOf[c] = "observe" THEN "answer" ELSE "transact"
    BY <1>1, <1>3, <1>7, OpenedStep DEF AdoptNothing
  <2>2. SessionOK(c)'
    BY <1>1, <1>7, <2>1
      DEF AdoptNothing, At, SessionOK, Observing, Changing, Holding, Finishing, Rev, HistoryType,
          disk
  <2> QED BY <1>2, <1>7, <2>1, <2>2, QuietOrdered DEF AdoptNothing
<1>8. CASE Adopt(c)
  <2> DEFINE j == [NoTxn EXCEPT !.retire = s[c].seen]
             r == [parents |-> s[c].seen, state |-> s[c].view, key |-> NoKey, by |-> Nobody]
  <2>1. CommitPoint(c, "adopt", j, r) /\ s[c].pc = "adopt"
        /\ UNCHANGED <<files, heads, mir, lock, script>>
    BY <1>8 DEF Adopt, At
  <2>2. s[c].seen \subseteq Rev /\ s[c].seen \subseteq Nat /\ s[c].view \in State
    BY <1>1, <2>1 DEF SessionOK, Observing, Rev
  <2>3. j \in Change /\ j.retire = s[c].seen
    BY <2>2 DEF NoTxn, Change, Blank, State
  <2>4. r \in Revision /\ r.parents = s[c].seen
    BY <2>2 DEF Revision, Keys
  <2> HIDE DEF j, r
  <2> QED BY <1>2, <2>1, <2>2, <2>3, <2>4, CommitOrdered
<1>9. CASE AdoptMoved(c)
  <2>1. Nothing \in Rows /\ "moved" \in Outs
    BY DEF Nothing, Unread, Rows, Outs
  <2>2. EndAs(c, "moved", Nothing) /\ UNCHANGED <<disk, script>>
    BY <1>9 DEF AdoptMoved, End
  <2> QED BY <1>2, <2>1, <2>2, EndOrdered, QuietOrdered
<1>10. CASE Settle(c)
  <2>1. /\ Alone(c) /\ s'[c].view = s[c].view /\ s'[c].seen = s[c].seen /\ s'[c].hist = heads
        /\ s'[c].pc = IF KindOf[c] = "observe" THEN "answer" ELSE "transact"
    BY <1>1, <1>3, <1>10, OpenedStep DEF Settle
  <2>2. mir' \in [rows : State, rec : SUBSET Nat, good : BOOLEAN]
    BY <1>1, <1>10 DEF Settle, DiskType, SessionOK, Rev
  <2>3. SessionOK(c)'
    BY <1>1, <1>10, <2>1
      DEF Settle, At, SessionOK, Observing, Changing, Holding, Finishing, Rev, HistoryType
  <2> QED BY <1>2, <1>10, <2>1, <2>2, <2>3, MirrorOrdered DEF Settle
<1> QED BY <1>4, <1>5, <1>6, <1>7, <1>8, <1>9, <1>10 DEF Open

LEMMA PostType ==
  ASSUME NEW c \in Command, s[c].view \in State
  PROVE  Post(c) \in State
BY DEF Post, State, Mark

LEMMA TransactOrdered ==
  ASSUME Ordered, NEW c \in Command, Transact(c)
  PROVE  Ordered'
<1> USE DEF around, ghosts
<1>1. SessionType /\ GhostType /\ SessionOK(c) /\ DiskType /\ HistoryType /\ JournalOK
  BY DEF Ordered, TypeOK
<1>2. s[c].pc \in {"transact", "preflight", "commit", "keep", "keepverdict"}
  BY DEF Transact, Replayed, DryRun, Refuse, PlanChange, Conflict, Preflight, Commit, Keep,
         KeepVerdict, Planning, At
<1>3. lock = c /\ jnl.rev = 0 /\ s[c].view \in State /\ Post(c) \in State
  BY <1>1, <1>2, PostType DEF SessionOK, Holding, Finishing, Observing, Changing
<1>4. Nothing \in Rows
  BY DEF Nothing, Unread, Rows
<1>5. CASE Replayed(c) \/ Refuse(c) \/ Conflict(c)
  <2>1. PICK o \in Outs : EndAs(c, o, Nothing)
    BY <1>5 DEF Replayed, Refuse, Conflict, End, Outs
  <2>2. UNCHANGED <<disk, script>> /\ GhostType'
    BY <1>1, <1>5 DEF Replayed, Refuse, Conflict, GhostType
  <2> QED BY <1>4, <2>1, <2>2, EndOrdered, QuietOrdered
<1>6. CASE DryRun(c)
  <2>1. Alone(c) /\ s'[c].pc = "try" /\ s'[c].seen = {} /\ s'[c].hist = {}
    BY <1>1, <1>6, DryRunStep
  <2>2. SessionOK(c)' /\ GhostType'
    BY <1>1, <1>6, <2>1
      DEF DryRun, SessionOK, Observing, Changing, Holding, Finishing, GhostType
  <2> QED BY <1>3, <1>6, <2>1, <2>2, QuietOrdered DEF DryRun
<1>7. CASE PlanChange(c) \/ Preflight(c)
  <2>1. PICK l \in {"preflight", "commit"} : To(c, l)
    BY <1>7 DEF PlanChange, Preflight
  <2>2. Alone(c) /\ SameSights(c) /\ s'[c].pc = l
    BY <1>1, <2>1, ToStep DEF Holding
  <2>3. UNCHANGED <<disk, lock, script>> /\ GhostType'
    BY <1>1, <1>7 DEF PlanChange, Preflight, GhostType
  <2>4. SessionOK(c)'
    BY <1>1, <1>3, <2>1, <2>2, <2>3
      DEF SessionOK, SameSights, Observing, Changing, Holding, Finishing, disk, Rev
  <2> QED BY <2>2, <2>3, <2>4, QuietOrdered
<1>8. CASE Commit(c)
  <2> DEFINE j == [writes |-> Path, todo |-> Path, pre |-> s[c].view, post |-> Post(c), rev |-> 0,
                   retire |-> s[c].hist]
             r == [parents |-> s[c].hist, state |-> Post(c), key |-> KeyOf[c], by |-> c]
  <2>1. CommitPoint(c, "change", j, r) /\ s[c].pc = "commit"
        /\ UNCHANGED <<files, heads, mir, lock, script>>
    BY <1>8 DEF Commit, At
  <2>2. s[c].hist \subseteq Rev /\ s[c].hist \subseteq Nat
    BY <1>1 DEF SessionOK, Rev
  <2>3. KeyOf[c] \in Keys
    BY DEF KeyOf, Keys, Ordered, TypeOK
  <2>4. j \in Change /\ j.retire = s[c].hist
    BY <1>3, <2>2 DEF Change
  <2>5. r \in Revision /\ r.parents = s[c].hist
    BY <1>3, <2>2, <2>3 DEF Revision
  <2>6. GhostType'
    <3>1. s[c].view \in Rows
      BY <1>1 DEF SessionType, Session
    <3> QED BY <1>1, <1>8, <3>1 DEF Commit, GhostType
  <2> HIDE DEF j, r
  <2> QED BY <2>1, <2>2, <2>4, <2>5, <2>6, CommitOrdered
<1>9. CASE Keep(c)
  <2>1. Alone(c) /\ SameSights(c) /\ s'[c].pc = "keepverdict"
    BY <1>1, <1>9, ToStep DEF Keep, Holding
  <2>2. mir' \in [rows : State, rec : SUBSET Nat, good : BOOLEAN] /\ GhostType'
    BY <1>1, <1>3, <1>9 DEF Keep, DiskType, GhostType
  <2>3. SessionOK(c)'
    BY <1>1, <1>3, <1>9, <2>1
      DEF Keep, SessionOK, SameSights, Observing, Changing, Holding, Finishing, Rev
  <2> QED BY <1>9, <2>1, <2>2, <2>3, MirrorOrdered DEF Keep
<1>10. CASE KeepVerdict(c)
  <2>1. EndAs(c, "ok", Nothing) /\ "ok" \in Outs
    BY <1>10 DEF KeepVerdict, End, Outs
  <2>2. Alone(c) /\ SessionOK(c)' /\ lock' \in {lock, Nobody} /\ (lock' # lock => lock = c)
    BY <1>4, <2>1, EndOrdered
  <2>3. mir' \in [rows : State, rec : SUBSET Nat, good : BOOLEAN]
    <3>1. s[c].seen \in SUBSET Nat
      BY <1>1 DEF SessionOK, Rev
    <3> QED BY <1>1, <1>10, <3>1 DEF KeepVerdict, DiskType
  <2>4. GhostType'
    BY <1>1, <1>10 DEF KeepVerdict, GhostType
  <2>5. UNCHANGED <<files, revs, heads, jnl, script>>
    BY <1>10 DEF KeepVerdict
  <2> QED BY <2>2, <2>3, <2>4, <2>5, MirrorOrdered
<1> QED
  BY <1>5, <1>6, <1>7, <1>8, <1>9, <1>10 DEF Transact

LEMMA ReaderOrdered ==
  ASSUME Ordered, NEW c \in Command, Reader(c)
  PROVE  Ordered'
<1> USE DEF around, ghosts
<1>1. SessionType /\ GhostType /\ SessionOK(c) /\ DiskType /\ HistoryType /\ JournalOK
  BY DEF Ordered, TypeOK
<1>2. GhostType' /\ UNCHANGED <<disk, script>>
  BY <1>1
    DEF Reader, Answer, Snapshot, List, Posts, Incomplete, Read, AnswerRead, GhostType
<1>3. s[c].view \in Rows /\ mir.rows \in Rows /\ Nothing \in Rows
  BY <1>1 DEF SessionType, Session, DiskType, State, Rows, Nothing, Unread
<1>4. CASE Answer(c) \/ Snapshot(c) \/ Incomplete(c) \/ AnswerRead(c)
  <2>1. PICK o \in Outs, rows \in Rows : EndAs(c, o, rows)
    BY <1>3, <1>4 DEF Answer, Snapshot, Incomplete, AnswerRead, End, Outs
  <2> QED BY <1>2, <2>1, EndOrdered, QuietOrdered
<1>5. CASE List(c)
  <2>1. Alone(c) /\ SameSights(c) /\ s'[c].pc = "posts"
    BY <1>1, <1>5, ListStep
  <2>2. SessionOK(c)'
    BY <1>1, <1>2, <2>1
      DEF SessionOK, SameSights, Observing, Changing, Holding, Finishing, disk, Rev
  <2> QED BY <1>2, <1>5, <2>1, <2>2, QuietOrdered DEF List
<1>6. CASE Posts(c)
  <2>1. Alone(c) /\ SameSights(c) /\ s'[c].pc = "read"
    BY <1>1, <1>6, ToStep DEF Posts, Sharing
  <2>2. SessionOK(c)'
    BY <1>1, <1>2, <2>1
      DEF SessionOK, SameSights, Observing, Changing, Holding, Finishing, disk, Rev
  <2> QED BY <1>2, <1>6, <2>1, <2>2, QuietOrdered DEF Posts
<1>7. CASE Read(c)
  <2>1. /\ Alone(c) /\ s'[c].pc = "read"
        /\ s'[c].seen = s[c].seen /\ s'[c].hist = s[c].hist
    BY <1>1, <1>7, ReadStep
  <2>2. SessionOK(c)'
    BY <1>1, <1>2, <2>1
      DEF SessionOK, Observing, Changing, Holding, Finishing, disk, Rev
  <2> QED BY <1>2, <1>7, <2>1, <2>2, QuietOrdered DEF Read
<1> QED BY <1>4, <1>5, <1>6, <1>7 DEF Reader

LEMMA AroundOrdered ==
  ASSUME Ordered, NEW c \in Command, Block(c) \/ Kill(c)
  PROVE  Ordered'
<1> USE DEF ghosts
<1>1. SessionType /\ GhostType /\ SessionOK(c) /\ DiskType /\ HistoryType /\ JournalOK
  BY DEF Ordered, TypeOK
<1>2. Nothing \in Rows
  BY DEF Nothing, Unread, Rows
<1>3. PICK o \in Outs : EndAs(c, o, Nothing)
  BY DEF Block, Kill, End, Outs
<1>4. Alone(c) /\ SessionOK(c)' /\ lock' \in {lock, Nobody} /\ (lock' # lock => lock = c)
  BY <1>2, <1>3, EndOrdered
<1>5. mir' \in [rows : State, rec : SUBSET Nat, good : BOOLEAN] /\ GhostType'
  BY <1>1 DEF Block, Kill, DiskType, GhostType, Change, disk
<1>6. UNCHANGED <<files, revs, heads, jnl, script>>
  BY DEF Block, Kill, disk
<1> QED BY <1>4, <1>5, <1>6, MirrorOrdered

LEMMA EditOrdered ==
  ASSUME Ordered, Edit
  PROVE  Ordered'
<1> USE DEF ghosts
<1>1. HistoryType /\ DiskType /\ GhostType
  BY DEF Ordered, TypeOK
<1>2. PICK p \in Path, m \in Marks : files' = [files EXCEPT ![p] = @ \union {m}]
  BY DEF Edit
<1>3. files' \in State
  BY <1>1, <1>2, MarkAssumption DEF DiskType, State, Mark
<1>4. DiskType' /\ GhostType' /\ HistoryType' /\ Rev' = Rev
  BY <1>1, <1>3 DEF Edit, DiskType, GhostType, HistoryType, Rev
<1>5. UNCHANGED <<s, script, lock, jnl, heads, revs>>
  BY DEF Edit
<1>6. \A d \in Command : SessionOK(d)'
  BY <1>5, <1>4 DEF Ordered, SessionOK, Observing, Changing
<1> QED
  BY <1>4, <1>5, <1>6 DEF Ordered, TypeOK, SessionType, JournalOK

LEMMA PullOrdered ==
  ASSUME Ordered, Pull
  PROVE  Ordered'
<1> USE DEF ghosts
<1>1. HistoryType /\ DiskType /\ GhostType /\ JournalOK
  BY DEF Ordered, TypeOK
<1>2. PICK q \in Log(heads) :
        revs' = Append(revs, [parents |-> {q}, state |-> revs[q].state, key |-> NoKey,
                              by |-> Nobody])
  BY DEF Pull
<1>3. q \in Rev
  BY <1>1, <1>2, LogMeaning DEF HistoryType
<1> DEFINE r == [parents |-> {q}, state |-> revs[q].state, key |-> NoKey, by |-> Nobody]
<1>4. r \in Revision /\ r.parents \subseteq Rev
  <2>1. revs[q] \in Revision
    BY <1>1, <1>3 DEF HistoryType, Rev
  <2> QED BY <1>3, <2>1 DEF Revision, Keys, Rev
<1>5. revs' = Append(revs, r)
  BY <1>2
<1> HIDE DEF r
<1>6. /\ Len(revs') = Len(revs) + 1 /\ Rev' = Rev \union {Len(revs) + 1}
      /\ Len(revs) \in Nat /\ \A x \in Rev : revs'[x] = revs[x]
      /\ revs' \in Seq(Revision) /\ \A x \in Rev' : revs'[x].parents \subseteq 1..(x - 1)
  BY <1>1, <1>4, <1>5, Appended
<1>7. heads' = heads \union {Len(revs) + 1} /\ UNCHANGED <<files, jnl, mir, lock, s, script>>
  BY DEF Pull
<1>8. HistoryType'
  BY <1>1, <1>6, <1>7 DEF HistoryType
<1>9. DiskType' /\ GhostType'
  BY <1>1, <1>7 DEF Pull, DiskType, GhostType
<1>10. JournalOK'
  BY <1>1, <1>6, <1>7 DEF JournalOK
<1>11. \A d \in Command : SessionOK(d)'
  BY <1>6, <1>7 DEF Ordered, SessionOK, Observing, Changing
<1> QED
  BY <1>7, <1>8, <1>9, <1>10, <1>11 DEF Ordered, TypeOK, SessionType

LEMMA StutterOrdered ==
  ASSUME Ordered, UNCHANGED vars
  PROVE  Ordered'
BY DEF Ordered, TypeOK, HistoryType, DiskType, SessionType, GhostType, JournalOK, SessionOK,
   Observing, Changing, Rev, vars, disk, ghosts, around

LEMMA InitOrdered == Init => Ordered
<1> SUFFICES ASSUME Init PROVE Ordered
  OBVIOUS
<1> USE DEF Init
<1>1. Blank \in State /\ Nothing \in Rows /\ NoTxn \in Change /\ NoTxn.rev = 0
  BY DEF Blank, State, Nothing, Unread, Rows, NoTxn, Change
<1>2. [parents |-> {}, state |-> Blank, key |-> NoKey, by |-> Nobody] \in Revision
  BY <1>1 DEF Revision, Keys
<1>3. Rev = {1} /\ revs \in Seq(Revision) /\ revs[1].parents = {}
  BY <1>2 DEF Rev
<1>4. HistoryType
  BY <1>3 DEF HistoryType
<1>5. DiskType /\ GhostType
  BY <1>1 DEF DiskType, GhostType
<1>6. SessionType
  BY IdleType DEF SessionType
<1>7. \A c \in Command : s[c].pc = "idle" /\ s[c].seen = {} /\ s[c].hist = {}
  BY DEF Idle
<1>8. \A c \in Command : SessionOK(c)
  BY <1>7 DEF SessionOK, Observing, Changing, Holding, Finishing
<1>9. JournalOK
  BY <1>1 DEF JournalOK
<1> QED BY <1>4, <1>5, <1>6, <1>8, <1>9 DEF Ordered, TypeOK

\* Every variable has its type, the lock is held by one command at most, and
\* there is a journal beside it just when it is being finished (lock.rs, and
\* journal.rs from the commit point on): for any number of commands and files,
\* wherever they are killed.
THEOREM KeepsOrder == Spec => []Ordered
<1>1. Ordered /\ [Next]_vars => Ordered'
  <2> SUFFICES ASSUME Ordered, [Next]_vars PROVE Ordered'
    OBVIOUS
  <2>1. ASSUME NEW c \in Command, Step(c) PROVE Ordered'
    BY <2>1, LockOrdered, ApplyOrdered, OpenOrdered, TransactOrdered, ReaderOrdered DEF Step
  <2>2. ASSUME NEW c \in Command, Block(c) \/ Kill(c) PROVE Ordered'
    BY <2>2, AroundOrdered
  <2>3. CASE Edit
    BY <2>3, EditOrdered
  <2>4. CASE Pull
    BY <2>4, PullOrdered
  <2>5. CASE UNCHANGED vars
    BY <2>5, StutterOrdered
  <2> QED BY <2>1, <2>2, <2>3, <2>4, <2>5 DEF Next
<1> QED BY InitOrdered, <1>1, PTL DEF Spec

-----------------------------------------------------------------------------
(* History and its keys                                                    *)

\* Whatever is closed under parents and has hs has q: Log(hs) has it.
Reached(hs, q) == \A S \in SUBSET Rev : hs \subseteq S /\ Closed(S) => q \in S

\* Every revision is reached from the heads, with the one about to be.
AllReached == \A r \in Rev : Reached(Tips, r)

\* What c asks history for its key is all of history; and from its plan to its
\* commit no revision comes to have its key.
KeysSeen(c) ==
  /\ s[c].pc = "transact" =>
       \A r \in Rev : revs[r].key # NoKey => Reached(s[c].hist, r)
  /\ s[c].pc \in {"preflight", "commit"} /\ KeyOf[c] # NoKey =>
       \A r \in Rev : revs[r].key # KeyOf[c]

Chronicle == AllReached /\ OncePerKey /\ \A c \in Command : KeysSeen(c)

\* The log of a set of heads has just what is reached from it.
LEMMA LogReaches ==
  ASSUME HistoryType, NEW hs \in SUBSET Rev
  PROVE  \A q \in Rev : Reached(hs, q) <=> q \in Log(hs)
<1>1. /\ Log(hs) \in SUBSET Rev /\ hs \subseteq Log(hs) /\ Closed(Log(hs))
      /\ \A S \in SUBSET Rev : hs \subseteq S /\ Closed(S) => Log(hs) \subseteq S
  BY LogMeaning
<1>2. ASSUME NEW q \in Rev, Reached(hs, q) PROVE q \in Log(hs)
  BY <1>1, <1>2 DEF Reached
<1>3. ASSUME NEW q \in Log(hs) PROVE Reached(hs, q)
  BY <1>1, <1>3 DEF Reached
<1> QED BY <1>2, <1>3

\* What is reached stays so when history grows, and from more heads.
LEMMA ReachedStays ==
  ASSUME HistoryType, NEW hs \in SUBSET Rev, NEW ts \in SUBSET Rev', hs \subseteq ts,
         NEW q \in Rev, Reached(hs, q), Rev \subseteq Rev', \A r \in Rev : revs'[r] = revs[r]
  PROVE  \A S \in SUBSET Rev' : ts \subseteq S /\ Closed(S)' => q \in S
<1> SUFFICES ASSUME NEW S \in SUBSET Rev', ts \subseteq S, Closed(S)' PROVE q \in S
  OBVIOUS
<1> DEFINE T == S \cap Rev
<1>1. \A r \in Rev : revs[r].parents \subseteq Rev
  BY DEF HistoryType, Rev
<1>2. T \in SUBSET Rev /\ hs \subseteq T
  OBVIOUS
<1>3. Closed(T)
  BY <1>1 DEF Closed
<1> HIDE DEF T
<1>4. q \in T
  BY <1>2, <1>3 DEF Reached
<1> QED BY <1>4 DEF T

\* Nothing changes in history, and c is not at its keys.
LEMMA SameChronicle ==
  ASSUME Chronicle, NEW c \in Command, Alone(c), UNCHANGED <<revs, heads, jnl, script>>,
         KeysSeen(c)'
  PROVE  Chronicle'
<1>1. AllReached' /\ OncePerKey'
  BY DEF Chronicle, AllReached, OncePerKey, Reached, Closed, Tips, Rev
<1>2. ASSUME NEW d \in Command, d # c PROVE KeysSeen(d)'
  BY <1>2 DEF Chronicle, KeysSeen, Alone, Reached, Closed, Rev, KeyOf
<1> QED BY <1>1, <1>2 DEF Chronicle

\* A new revision that follows the heads in use, and has no key in use.
LEMMA GrownChronicle ==
  ASSUME Ordered, Chronicle, NEW r \in Revision, r.parents \subseteq Rev,
         revs' = Append(revs, r), Tips \subseteq Tips', Len(revs) + 1 \in Tips',
         Tips' \subseteq Rev',
         r.key # NoKey => \A q \in Rev : revs[q].key # r.key
  PROVE  AllReached' /\ OncePerKey'
<1> SUFFICES ASSUME NEW n, n = Len(revs) + 1 PROVE AllReached' /\ OncePerKey'
  OBVIOUS
<1>1. HistoryType /\ Tips \in SUBSET Rev
  BY DEF Ordered, TypeOK, HistoryType, JournalOK, Tips
<1>2. /\ Rev' = Rev \union {n} /\ n \notin Rev /\ revs'[n] = r
      /\ \A q \in Rev : revs'[q] = revs[q]
  BY <1>1, Appended
<1>3. ASSUME NEW q \in Rev PROVE Reached(Tips, q)'
  <2>1. Reached(Tips, q)
    BY DEF Chronicle, AllReached
  <2>2. \A S \in SUBSET Rev' : Tips' \subseteq S /\ Closed(S)' => q \in S
    BY <1>1, <1>2, <2>1, ReachedStays
  <2> QED BY <2>2 DEF Reached
<1>4. Reached(Tips, n)'
  BY DEF Reached
<1>5. AllReached'
  BY <1>2, <1>3, <1>4 DEF AllReached
<1>6. OncePerKey'
  <2> SUFFICES ASSUME NEW x \in Rev', NEW y \in Rev',
                      revs'[x].key = revs'[y].key, revs'[x].key # NoKey
               PROVE  x = y
    BY DEF OncePerKey
  <2>1. CASE x \in Rev /\ y \in Rev
    BY <1>2, <2>1 DEF Chronicle, OncePerKey
  <2>2. CASE x = n \/ y = n
    BY <1>2, <2>2
  <2> QED BY <1>2, <2>1, <2>2
<1> QED BY <1>5, <1>6

\* The steps that leave history, the heads and the journal alone.
LEMMA QuietChronicle ==
  ASSUME Ordered, Chronicle, NEW c \in Command,
         \/ Lock(c) \/ Recover(c) \/ Observe(c) \/ Judge(c) \/ AdoptNothing(c) \/ AdoptMoved(c)
         \/ Settle(c) \/ Replayed(c) \/ DryRun(c) \/ Refuse(c) \/ PlanChange(c) \/ Conflict(c)
         \/ Preflight(c) \/ Keep(c) \/ KeepVerdict(c) \/ Reader(c) \/ Block(c) \/ Kill(c)
  PROVE  Chronicle'
<1> USE DEF disk
<1>1. SessionType /\ DiskType /\ HistoryType /\ SessionOK(c) /\ KeysSeen(c)
  BY DEF Ordered, TypeOK, Chronicle
<1>2. heads \subseteq Nat /\ heads \subseteq Rev
  BY <1>1 DEF HistoryType, Rev
<1>3. UNCHANGED <<revs, heads, jnl, script>>
  BY DEF Lock, Begin, Take, Busy, Sleep, GiveUp, Recover, Observe, Judge, AdoptNothing, AdoptMoved,
         Settle, Replayed, DryRun, Refuse, PlanChange, Conflict, Preflight, Keep, KeepVerdict,
         Reader, Answer, Snapshot, List, Posts, Incomplete, Read, AnswerRead, Block, Kill
<1>4. ASSUME Alone(c), s'[c].pc \notin {"transact", "preflight", "commit"}
      PROVE  Chronicle'
  <2>1. KeysSeen(c)'
    BY <1>4 DEF KeysSeen
  <2> QED BY <1>3, <1>4, <2>1, SameChronicle
<1>5. CASE \E o \in Outs, rows \in Rows : EndAs(c, o, rows)
  BY <1>1, <1>4, <1>5, EndStep
<1>6. Nothing \in Rows /\ s[c].view \in Rows /\ (DiskType => mir.rows \in Rows)
  BY <1>1 DEF Nothing, Unread, Rows, SessionType, Session, DiskType, State
<1>7. CASE GiveUp(c) \/ AdoptMoved(c) \/ Replayed(c) \/ Refuse(c) \/ Conflict(c) \/ KeepVerdict(c)
           \/ Answer(c) \/ Snapshot(c) \/ Incomplete(c) \/ AnswerRead(c) \/ Block(c) \/ Kill(c)
  BY <1>1, <1>5, <1>6, <1>7
    DEF GiveUp, AdoptMoved, Replayed, Refuse, Conflict, KeepVerdict, Answer, Snapshot, Incomplete,
        AnswerRead, Block, Kill, End, Outs
<1>8. CASE Begin(c) \/ Take(c) \/ Busy(c) \/ Keep(c) \/ Posts(c)
  <2>1. PICK l \in {"list", "try", "recover", "snapshot", "wait", "keepverdict", "read"} : To(c, l)
    BY <1>8 DEF Begin, Take, Busy, Keep, Posts
  <2>2. Alone(c) /\ s'[c].pc = l
    BY <1>1, <2>1, ToStep DEF Holding, Sharing
  <2> QED BY <1>4, <2>2
<1>9. CASE Sleep(c)
  BY <1>1, <1>4, <1>9, SleepStep
<1>10. CASE Recover(c)
  BY <1>1, <1>4, <1>10, RecoverStep
<1>11. CASE Observe(c)
  BY <1>1, <1>4, <1>11, ObserveStep
<1>12. CASE Judge(c)
  BY <1>1, <1>2, <1>4, <1>12, JudgeStep
<1>13. CASE DryRun(c)
  BY <1>1, <1>4, <1>13, DryRunStep
<1>14. CASE List(c)
  BY <1>1, <1>4, <1>14, ListStep
<1>15. CASE Read(c)
  BY <1>1, <1>4, <1>15, ReadStep
<1>16. CASE AdoptNothing(c) \/ Settle(c)
  <2>1. /\ Alone(c) /\ s'[c].hist = heads
        /\ s'[c].pc = IF KindOf[c] = "observe" THEN "answer" ELSE "transact"
    BY <1>1, <1>2, <1>16, OpenedStep DEF AdoptNothing, Settle
  <2>2. Tips = heads
    BY <1>1, <1>2, <1>16
      DEF AdoptNothing, Settle, At, SessionOK, Holding, Finishing, Tips, Rev
  <2>3. \A r \in Rev : Reached(heads, r)
    BY <2>2 DEF Chronicle, AllReached
  <2>4. KeysSeen(c)'
    BY <1>3, <2>1, <2>3 DEF KeysSeen, Reached, Closed, Rev
  <2> QED BY <1>3, <2>1, <2>4, SameChronicle
<1>17. CASE PlanChange(c)
  <2>1. Alone(c) /\ s'[c].pc = "preflight"
    BY <1>1, <1>17, ToStep DEF PlanChange, Holding
  <2>2. s[c].pc = "transact" /\ ~Made(c)
    BY <1>17 DEF PlanChange, Planning, At
  <2>3. ASSUME KeyOf[c] # NoKey, NEW r \in Rev PROVE revs[r].key # KeyOf[c]
    <3>1. SUFFICES ASSUME revs[r].key = KeyOf[c] PROVE FALSE
      OBVIOUS
    <3>2. Reached(s[c].hist, r)
      BY <1>1, <2>2, <2>3, <3>1 DEF KeysSeen
    <3>3. r \in Log(s[c].hist)
      BY <1>1, <3>2, LogReaches DEF SessionOK
    <3> QED BY <2>2, <2>3, <3>1, <3>3 DEF Made
  <2>4. KeysSeen(c)'
    BY <1>3, <2>1, <2>3 DEF KeysSeen, Rev, KeyOf
  <2> QED BY <1>3, <2>1, <2>4, SameChronicle
<1>18. CASE Preflight(c)
  <2>1. Alone(c) /\ s'[c].pc = "commit" /\ s[c].pc = "preflight"
    BY <1>1, <1>18, ToStep DEF Preflight, At, Holding
  <2>2. KeysSeen(c)'
    BY <1>1, <1>3, <2>1 DEF KeysSeen, Rev, KeyOf
  <2> QED BY <1>3, <2>1, <2>2, SameChronicle
<1> QED
  BY <1>7, <1>8, <1>9, <1>10, <1>11, <1>12, <1>13, <1>14, <1>15, <1>16, <1>17, <1>18
    DEF Lock, Reader

\* While c holds the lock no other session is at its keys.
LEMMA OthersKeys ==
  ASSUME Ordered, NEW c \in Command, lock = c, NEW d \in Command, d # c,
         Alone(c) \/ UNCHANGED s
  PROVE  KeysSeen(d)'
<1>1. s[d].pc \notin {"transact", "preflight", "commit"}
  BY DEF Ordered, SessionOK, Holding
<1>2. s'[d] = s[d]
  BY DEF Alone
<1> QED BY <1>1, <1>2 DEF KeysSeen

LEMMA CommitChronicle ==
  ASSUME Ordered, Chronicle, NEW c \in Command, Adopt(c) \/ Commit(c)
  PROVE  Chronicle'
<1>1. SessionType /\ HistoryType /\ SessionOK(c) /\ KeysSeen(c)
  BY DEF Ordered, TypeOK, Chronicle
<1>2. PICK t, j, r :
        /\ t \in {"adopt", "change"} /\ CommitPoint(c, t, j, r) /\ heads' = heads
        /\ r \in Revision /\ r.parents \subseteq Rev
        /\ r.key # NoKey => \A q \in Rev : revs[q].key # r.key
  <2>1. CASE Adopt(c)
    <3> DEFINE r == [parents |-> s[c].seen, state |-> s[c].view, key |-> NoKey, by |-> Nobody]
    <3>1. s[c].seen \subseteq Rev /\ s[c].view \in State
      BY <1>1, <2>1 DEF Adopt, At, SessionOK, Observing
    <3>2. r \in Revision /\ r.parents = s[c].seen /\ r.key = NoKey
      BY <3>1 DEF Revision, Keys, Rev
    <3>3. CommitPoint(c, "adopt", [NoTxn EXCEPT !.retire = s[c].seen], r) /\ heads' = heads
      BY <2>1 DEF Adopt
    <3> HIDE DEF r
    <3> QED BY <3>1, <3>2, <3>3
  <2>2. CASE Commit(c)
    <3> DEFINE r == [parents |-> s[c].hist, state |-> Post(c), key |-> KeyOf[c], by |-> c]
               j == [writes |-> Path, todo |-> Path, pre |-> s[c].view, post |-> Post(c), rev |-> 0,
                     retire |-> s[c].hist]
    <3>1. s[c].hist \subseteq Rev /\ s[c].view \in State /\ s[c].pc = "commit"
      BY <1>1, <2>2 DEF Commit, At, SessionOK, Observing
    <3>2. Post(c) \in State
      BY <3>1, PostType
    <3>3. r \in Revision /\ r.parents = s[c].hist /\ r.key = KeyOf[c]
      <4>1. KeyOf[c] \in Keys
        BY DEF KeyOf, Keys, Ordered, TypeOK
      <4> QED BY <3>1, <3>2, <4>1 DEF Revision, Rev
    <3>4. CommitPoint(c, "change", j, r) /\ heads' = heads
      BY <2>2 DEF Commit
    <3> HIDE DEF r, j
    <3> QED BY <1>1, <3>1, <3>3, <3>4 DEF KeysSeen
  <2> QED BY <2>1, <2>2
<1>3. Alone(c) /\ s'[c].pc = "apply" /\ jnl' = [j EXCEPT !.rev = Len(revs) + 1]
      /\ revs' = Append(revs, r)
  BY <1>1, <1>2, CommitStep
<1>4. lock = c /\ jnl.rev = 0
  BY <1>1 DEF Adopt, Commit, At, SessionOK, Holding, Finishing
<1>5. Rev' = Rev \union {Len(revs) + 1} /\ Len(revs) \in Nat
  BY <1>1, <1>2, <1>3, Appended
<1>6. jnl' \in Change
  BY OpenOrdered, TransactOrdered DEF Open, Transact, TypeOK, DiskType, Ordered
<1>7. Tips = heads /\ Tips' = heads \union {Len(revs) + 1}
  BY <1>1, <1>2, <1>3, <1>4, <1>5, <1>6 DEF Tips, HistoryType, Rev, Change
<1>8. AllReached' /\ OncePerKey'
  BY <1>1, <1>2, <1>3, <1>5, <1>7, GrownChronicle DEF HistoryType
<1>9. \A d \in Command : KeysSeen(d)'
  <2>1. KeysSeen(c)'
    BY <1>3 DEF KeysSeen
  <2> QED BY <1>3, <1>4, <2>1, OthersKeys
<1> QED BY <1>8, <1>9 DEF Chronicle

\* Finishing a journal moves the heads past those its revision follows.
LEMMA ApplyChronicle ==
  ASSUME Ordered, Chronicle, NEW c \in Command, Apply(c)
  PROVE  Chronicle'
<1> USE DEF ghosts
<1>1. SessionType /\ HistoryType /\ SessionOK(c) /\ DiskType /\ JournalOK
  BY DEF Ordered, TypeOK
<1>2. s[c].pc \in Finishing /\ UNCHANGED <<revs, script>>
  BY DEF Apply, Place, Publish, Retire, Finish, At, Finishing
<1>3. lock = c /\ jnl.rev # 0 /\ jnl.rev \in Rev /\ jnl.retire \subseteq revs[jnl.rev].parents
      /\ s[c].task # "none" /\ Tips = heads \union {jnl.rev}
  BY <1>1, <1>2 DEF SessionOK, JournalOK, Holding, Tips, HistoryType, Rev
<1>4. Alone(c) \/ UNCHANGED s
  <2>1. CASE Place(c)
    BY <2>1 DEF Place
  <2>2. CASE Publish(c) \/ Retire(c)
    BY <1>1, <2>2, ToStep DEF Publish, Retire, Holding, Finishing
  <2>3. CASE Finish(c)
    BY <1>1, <1>3, <2>3, FinishStep DEF Rev
  <2> QED BY <2>1, <2>2, <2>3 DEF Apply
<1>5. s'[c].pc \notin {"transact", "preflight", "commit"}
  <2>1. CASE Place(c)
    BY <2>1 DEF Place, At
  <2>2. CASE Publish(c) \/ Retire(c)
    BY <1>1, <2>2, ToStep DEF Publish, Retire, Holding, Finishing
  <2>3. CASE Finish(c)
    BY <1>1, <1>3, <2>3, FinishStep DEF Rev
  <2> QED BY <2>1, <2>2, <2>3 DEF Apply
<1>6. \A d \in Command : KeysSeen(d)'
  <2>1. KeysSeen(c)'
    BY <1>5 DEF KeysSeen
  <2> QED BY <1>3, <1>4, <2>1, OthersKeys
<1>7. OncePerKey'
  BY <1>2 DEF Chronicle, OncePerKey, Rev
<1>8. ASSUME NEW S \in SUBSET Rev, Closed(S), Tips' \subseteq S PROVE Tips \subseteq S
  <2>1. CASE Place(c)
    BY <1>1, <1>8, <2>1 DEF Place, Tips, DiskType, Change
  <2>2. CASE Publish(c)
    BY <1>3, <1>8, <2>2 DEF Publish, Tips
  <2>3. CASE Retire(c)
    <3>1. Tips' = ((heads \ jnl.retire) \union {jnl.rev}) \ {0}
      BY <2>3 DEF Retire, Tips
    <3>2. jnl.rev \in S /\ heads \ jnl.retire \subseteq S
      BY <1>1, <1>3, <1>8, <3>1 DEF HistoryType, Rev
    <3>3. jnl.retire \subseteq S
      BY <1>3, <1>8, <3>2 DEF Closed
    <3> QED BY <1>3, <3>2, <3>3
  <2>4. CASE Finish(c)
    <3>1. jnl.rev \in heads
      BY <1>1, <2>4 DEF Finish, At, SessionOK
    <3>2. jnl' = NoTxn /\ NoTxn.rev = 0 /\ heads' = heads
      BY <2>4 DEF Finish, NoTxn
    <3> QED BY <1>1, <1>3, <1>8, <3>1, <3>2 DEF Tips, HistoryType, Rev
  <2> QED BY <2>1, <2>2, <2>3, <2>4 DEF Apply
<1>9. AllReached'
  <2> SUFFICES ASSUME NEW r \in Rev, NEW S \in SUBSET Rev, Tips' \subseteq S, Closed(S)
               PROVE  r \in S
    BY <1>2 DEF AllReached, Reached, Closed, Rev
  <2> QED BY <1>8 DEF Chronicle, AllReached, Reached
<1> QED BY <1>6, <1>7, <1>9 DEF Chronicle

LEMMA PullChronicle ==
  ASSUME Ordered, Chronicle, Pull
  PROVE  Chronicle'
<1>1. HistoryType /\ JournalOK
  BY DEF Ordered, TypeOK
<1>2. PICK q \in Log(heads) :
        revs' = Append(revs, [parents |-> {q}, state |-> revs[q].state, key |-> NoKey,
                              by |-> Nobody])
  BY DEF Pull
<1>3. q \in Rev
  BY <1>1, <1>2, LogMeaning DEF HistoryType
<1> DEFINE r == [parents |-> {q}, state |-> revs[q].state, key |-> NoKey, by |-> Nobody]
<1>4. r \in Revision /\ r.parents \subseteq Rev /\ r.key = NoKey
  <2>1. revs[q] \in Revision
    BY <1>1, <1>3 DEF HistoryType, Rev
  <2> QED BY <1>3, <2>1 DEF Revision, Keys, Rev
<1>5. revs' = Append(revs, r)
  BY <1>2
<1> HIDE DEF r
<1>6. /\ Rev' = Rev \union {Len(revs) + 1} /\ Len(revs) \in Nat /\ Len(revs) + 1 \notin Rev
      /\ revs'[Len(revs) + 1] = r /\ \A x \in Rev : revs'[x] = revs[x]
  BY <1>1, <1>4, <1>5, Appended
<1>7. heads' = heads \union {Len(revs) + 1} /\ UNCHANGED <<jnl, s, script>>
  BY DEF Pull
<1>8. Tips \subseteq Tips' /\ Len(revs) + 1 \in Tips' /\ Tips' \subseteq Rev'
  BY <1>1, <1>6, <1>7 DEF Tips, HistoryType, JournalOK
<1>9. AllReached' /\ OncePerKey'
  BY <1>4, <1>5, <1>8, GrownChronicle
<1>10. ASSUME NEW d \in Command PROVE KeysSeen(d)'
  <2>1. KeysSeen(d) /\ s'[d] = s[d] /\ KeyOf'[d] = KeyOf[d] /\ s[d].hist \in SUBSET Rev
    BY <1>7, <1>10 DEF Chronicle, KeyOf, Ordered, SessionOK
  <2>2. ASSUME s[d].pc = "transact", NEW x \in Rev', revs'[x].key # NoKey
        PROVE  Reached(s[d].hist, x)'
    <3>1. x \in Rev /\ Reached(s[d].hist, x)
      BY <1>4, <1>6, <2>1, <2>2 DEF KeysSeen
    <3>2. \A S \in SUBSET Rev' : s[d].hist \subseteq S /\ Closed(S)' => x \in S
      BY <1>1, <1>6, <2>1, <3>1, ReachedStays
    <3> QED BY <2>1, <3>2 DEF Reached
  <2>3. ASSUME s[d].pc \in {"preflight", "commit"}, KeyOf[d] # NoKey, NEW x \in Rev'
        PROVE  revs'[x].key # KeyOf[d]
    BY <1>4, <1>6, <2>1, <2>3 DEF KeysSeen
  <2> QED BY <2>1, <2>2, <2>3 DEF KeysSeen
<1> QED BY <1>9, <1>10 DEF Chronicle

LEMMA InitChronicle == Init => Chronicle
<1> SUFFICES ASSUME Init PROVE Chronicle
  OBVIOUS
<1>1. Rev = {1} /\ heads = {1} /\ jnl.rev = 0
  BY DEF Init, Rev, NoTxn
<1>2. AllReached
  BY <1>1 DEF AllReached, Reached, Tips
<1>3. OncePerKey
  BY <1>1 DEF OncePerKey
<1>4. \A c \in Command : KeysSeen(c)
  BY DEF Init, Idle, KeysSeen
<1> QED BY <1>2, <1>3, <1>4 DEF Chronicle

LEMMA ChronicleKept == Spec => [](Ordered /\ Chronicle)
<1>1. Ordered /\ Chronicle /\ [Next]_vars => Chronicle'
  <2> SUFFICES ASSUME Ordered, Chronicle, [Next]_vars PROVE Chronicle'
    OBVIOUS
  <2>1. ASSUME NEW c \in Command, Step(c) \/ Block(c) \/ Kill(c) PROVE Chronicle'
    BY <2>1, QuietChronicle, ApplyChronicle, CommitChronicle DEF Step, Open, Transact
  <2>2. CASE Edit \/ UNCHANGED vars
    <3>1. UNCHANGED <<revs, heads, jnl, s, script>>
      BY <2>2 DEF Edit, vars, disk
    <3> QED
      BY <3>1 DEF Chronicle, AllReached, OncePerKey, KeysSeen, Reached, Closed, Tips, Rev, KeyOf
  <2>3. CASE Pull
    BY <2>3, PullChronicle
  <2> QED BY <2>1, <2>2, <2>3 DEF Next
<1> QED BY InitChronicle, <1>1, KeepsOrder, PTL DEF Spec

\* A change under a key is made once, whatever was killed, retried, blocked or
\* merged in between (History::find_idempotent, Database::replayed).
THEOREM MadeOnce == Spec => []OncePerKey
<1>1. Chronicle => OncePerKey
  BY DEF Chronicle
<1> QED BY <1>1, ChronicleKept, PTL

\* No revision is lost: each is in the log of the heads, or about to be
\* (Publish and Retire of journal.rs, adopt and transact of db.rs).
THEOREM HistoryStays == Spec => []HistoryKept
<1>1. Ordered /\ Chronicle => HistoryKept
  <2> SUFFICES ASSUME Ordered, Chronicle PROVE Log(Tips) = Rev
    BY DEF HistoryKept
  <2>1. HistoryType /\ Tips \in SUBSET Rev
    BY DEF Ordered, TypeOK, HistoryType, JournalOK, Tips
  <2>2. \A q \in Rev : Reached(Tips, q)
    BY DEF Chronicle, AllReached
  <2>3. Log(Tips) \subseteq Rev
    BY <2>1, LogMeaning
  <2> QED BY <2>1, <2>2, <2>3, LogReaches
<1> QED BY <1>1, ChronicleKept, PTL

-----------------------------------------------------------------------------
(* What callers were told                                                  *)

\* The changes that are made: there is a revision of each.
Committed == {revs[r].by : r \in Rev} \ {Nobody}

\* rows show the changes ds, but where an edit was kept against one.
Show(rows, ds) == \A d \in ds, p \in Path : d \in rows[p] \/ <<d, p>> \in kept

\* What rows show of changes is made; they show a change whole or not at all.
OnlyMade(rows) == \A p \in Path, d \in Command : d \in rows[p] => d \in Committed
Whole(rows) ==
  \A d \in Command, p, q \in Path : d \in rows[p] => d \in rows[q] \/ <<d, q>> \in kept

\* a and b show the same changes.
SameMarks(a, b) == \A p \in Path, d \in Command : d \in a[p] <=> d \in b[p]

\* The rows there will be when the journal is finished.
CurrentRows == [p \in Path |-> Current(p)]

\* Files and history hold the changes that are made, and no others, and what a
\* file holds a head tells of.
FilesTrue ==
  /\ OnlyMade(files) /\ \A r \in Rev : OnlyMade(revs[r].state)
  /\ Show(CurrentRows, Committed)
  /\ \A c \in Command, p \in Path :
       c \in Current(p) => <<c, p>> \in kept \/ \E r \in Tips : c \in revs[r].state[p]

\* The journal's revision shows every change; what it is about to write is that
\* revision's state, and adds its own change to what is in the file.
JournalTrue ==
  /\ jnl.rev # 0 => Show(revs[jnl.rev].state, Committed)
  /\ jnl.writes = {} \/ jnl.writes = Path
  /\ jnl.writes # {} => /\ jnl.rev # 0
                        /\ revs[jnl.rev].by \in Command /\ jnl.post = revs[jnl.rev].state
  /\ jnl.todo \subseteq jnl.writes
  /\ \A p \in jnl.todo, d \in Command :
       /\ d \in jnl.pre[p] => d \in files[p]
       /\ d \in jnl.post[p] <=> d \in jnl.pre[p] \/ d = revs[jnl.rev].by

\* The mirror shows what callers were told, and nothing by half.
MirrorTrue ==
  /\ acked \subseteq Committed
  /\ Show(mir.rows, acked) /\ Whole(mir.rows)

\* A writer goes by the changes there are, from its look at the folder to its
\* commit, and by the plan that was reviewed; then it goes by what it made.
WriterTrue(c) ==
  /\ Observing(c) => SameMarks(files, s[c].view)
  /\ s[c].pc \in Finishing /\ s[c].task = "adopt" => jnl.todo = {}
  /\ s[c].pc \in Finishing /\ s[c].task = "change" => jnl.post = Post(c)
  /\ Changing(c) => c \in Committed /\ Show(Post(c), Committed) /\ OnlyMade(Post(c))
  /\ s[c].pc = "keepverdict" => mir.rows = Post(c)
  /\ KindOf[c] = "review" /\ s[c].pc \in {"preflight", "commit"} => s[c].token.view = s[c].view
  /\ base[c] # Nothing => Changing(c) \/ s[c].pc = "done"
  /\ KindOf[c] = "review" /\ base[c] # Nothing => base[c] = s[c].token.view

\* A reader without the lock reads what shows all that was acknowledged before
\* it began, and so does an answer.
ReaderTrue(c) ==
  /\ known[c] \subseteq acked
  /\ s[c].pc \in {"list", "posts", "read"} => KindOf[c] = "readonly"
  /\ s[c].pc \in {"posts", "read"} =>
       \/ s[c].posts.writes = {} /\ Show(files, known[c])
       \/ s[c].posts.writes = Path /\ Show(s[c].posts.post, known[c])
  /\ s[c].pc \in {"idle", "list", "posts"} => s[c].view = Nothing
  /\ s[c].pc = "read" =>
       \A p \in Path, d \in known[c] :
         s[c].view[p] # Unread => d \in s[c].view[p] \/ <<d, p>> \in kept
  /\ Answered(c) => /\ s[c].pc = "done" /\ Show(s[c].view, known[c])
                    /\ KindOf[c] = "observe" => Whole(s[c].view)

Promised == FilesTrue /\ JournalTrue /\ MirrorTrue
            /\ \A c \in Command : WriterTrue(c) /\ ReaderTrue(c)

-----------------------------------------------------------------------------
(* The sessions beside the one that moves                                  *)

\* A step takes no change out of a file, and nothing back.
Grows ==
  /\ \A p \in Path, d \in Command : d \in files[p] => d \in files'[p]
  /\ kept \subseteq kept' /\ Committed \subseteq Committed' /\ acked \subseteq acked'

\* Who holds the lock sees no other change made.
Undisturbed(c) ==
  \A d \in Command : d # c /\ lock = d =>
    UNCHANGED <<jnl, mir>> /\ Committed' = Committed /\ SameMarks(files', files)

LEMMA OthersTrue ==
  ASSUME Ordered, Promised, NEW c, Grows, Undisturbed(c),
         NEW d \in Command, d # c, s'[d] = s[d], known'[d] = known[d], base'[d] = base[d],
         script' = script
  PROVE  WriterTrue(d)' /\ ReaderTrue(d)'
<1>1. WriterTrue(d) /\ ReaderTrue(d) /\ KindOf'[d] = KindOf[d]
  BY DEF Promised, KindOf
<1>2. WriterTrue(d)'
  <2>1. CASE s[d].pc \in Holding
    <3>1. UNCHANGED <<jnl, mir>> /\ Committed' = Committed /\ SameMarks(files', files)
      BY <2>1 DEF Ordered, SessionOK, Undisturbed
    <3>2. Observing(d)' <=> Observing(d)
      BY DEF Observing
    <3>3. Changing(d)' <=> Changing(d)
      BY DEF Changing
    <3>4. Post(d)' = Post(d)
      BY <1>1 DEF Post, Fixes
    <3> QED
      BY <1>1, <3>1, <3>2, <3>3, <3>4 DEF WriterTrue, SameMarks, Show, OnlyMade, Grows
  <2>2. CASE s[d].pc \notin Holding
    BY <1>1, <2>2 DEF WriterTrue, Observing, Changing, Holding, Finishing
  <2> QED BY <2>1, <2>2
<1>3. ReaderTrue(d)'
  <2>1. known'[d] = known[d] /\ known[d] \subseteq Command
    BY DEF Ordered, TypeOK, GhostType
  <2>2. ASSUME NEW rows, NEW more, Show(rows, known[d]),
               \A p \in Path, x \in Command : x \in rows[p] => x \in more[p]
        PROVE  \A x \in known'[d], p \in Path : x \in more[p] \/ <<x, p>> \in kept'
    BY <2>1, <2>2 DEF Show, Grows
  <2>3. s[d].pc \in {"posts", "read"} =>
          \/ s[d].posts.writes = {} /\ Show(files, known[d])'
          \/ s[d].posts.writes = Path /\ Show(s[d].posts.post, known[d])'
    BY <1>1, <2>2 DEF ReaderTrue, Grows, Show
  <2>4. Answered(d) => Show(s[d].view, known[d])' /\ (KindOf[d] = "observe" => Whole(s[d].view)')
    BY <1>1, <2>1 DEF ReaderTrue, Grows, Show, Whole
  <2> QED BY <1>1, <2>1, <2>3, <2>4 DEF ReaderTrue, Grows, Show, Whole, Answered
<1> QED BY <1>2, <1>3

\* A step that leaves disk and promises alone keeps the promises if its own
\* session does.
LEMMA QuietTrue ==
  ASSUME Ordered, Promised, NEW c \in Command, Alone(c), UNCHANGED <<disk, acked, kept, base, script>>,
         \A d \in Command : d # c => known'[d] = known[d],
         WriterTrue(c)', ReaderTrue(c)'
  PROVE  Promised'
<1>1. UNCHANGED <<files, revs, heads, jnl, mir>>
  BY DEF disk
<1>2. Committed' = Committed
  BY <1>1 DEF Committed, Rev
<1>3. Grows /\ Undisturbed(c)
  BY <1>1, <1>2 DEF Grows, Undisturbed, SameMarks
<1>4. \A d \in Command : WriterTrue(d)' /\ ReaderTrue(d)'
  BY <1>3, OthersTrue DEF Alone
<1>5. FilesTrue'
  BY <1>1, <1>2
    DEF Promised, FilesTrue, OnlyMade, Show, CurrentRows, Current, Tips, Rev
<1>6. JournalTrue' /\ MirrorTrue'
  BY <1>1, <1>2 DEF Promised, JournalTrue, MirrorTrue, Show, Whole
<1> QED BY <1>4, <1>5, <1>6 DEF Promised

-----------------------------------------------------------------------------
(* Steps that leave the disk alone                                         *)

\* A session that ends, with an answer that tells the truth if it has one.
LEMMA EndTrue ==
  ASSUME Ordered, Promised, NEW c \in Command, NEW o \in Outs, NEW rows \in Rows,
         EndAs(c, o, rows), base'[c] = base[c], known'[c] = known[c], script' = script,
         acked \subseteq acked', kept \subseteq kept',
         o = "answered" => Show(rows, known[c]) /\ (KindOf[c] = "observe" => Whole(rows))
  PROVE  Alone(c) /\ WriterTrue(c)' /\ ReaderTrue(c)'
<1>1. SessionType /\ WriterTrue(c) /\ ReaderTrue(c) /\ KindOf'[c] = KindOf[c]
  BY DEF Ordered, TypeOK, Promised, KindOf
<1>2. /\ Alone(c) /\ s'[c].pc = "done" /\ s'[c].view = rows
      /\ s'[c].token = s[c].token /\ s'[c].out = o
  BY <1>1, EndStep
<1>3. WriterTrue(c)'
  BY <1>1, <1>2 DEF WriterTrue, Observing, Changing, Holding, Finishing
<1>4. ReaderTrue(c)'
  BY <1>1, <1>2 DEF ReaderTrue, Answered, Show, Whole
<1> QED BY <1>2, <1>3, <1>4

\* Without a journal the files show every change, and no change by half.
LEMMA FilesShow ==
  ASSUME Ordered, Promised, jnl.todo = {}
  PROVE  Show(files, Committed) /\ Whole(files)
BY DEF Promised, FilesTrue, Show, Whole, OnlyMade, CurrentRows, Current

\* So does what a command sees under the lock.
LEMMA SeenShows ==
  ASSUME Ordered, Promised, NEW c \in Command, Observing(c)
  PROVE  jnl.todo = {} /\ Show(s[c].view, Committed) /\ Whole(s[c].view) /\ OnlyMade(s[c].view)
<1>1. jnl.todo = {}
  BY DEF Ordered, SessionOK, JournalOK, NoTxn, Promised, WriterTrue, Observing, Holding, Finishing
<1>2. SameMarks(files, s[c].view) /\ OnlyMade(files) /\ Committed \subseteq Command
  <2>1. \A r \in Rev : revs[r] \in Revision
    BY DEF Ordered, TypeOK, HistoryType, Rev
  <2> QED BY <2>1 DEF Promised, WriterTrue, FilesTrue, Committed, Revision
<1> QED BY <1>1, <1>2, FilesShow DEF SameMarks, Show, Whole, OnlyMade

LEMMA LockTrue ==
  ASSUME Ordered, Promised, NEW c \in Command, Lock(c)
  PROVE  Promised'
<1> USE DEF ghosts
<1>1. SessionType /\ GhostType /\ WriterTrue(c) /\ ReaderTrue(c) /\ SessionOK(c)
  BY DEF Ordered, TypeOK, Promised
<1>2. UNCHANGED <<disk, acked, kept, base, script>>
      /\ \A d \in Command : d # c => known'[d] = known[d]
  BY <1>1 DEF Lock, Begin, Take, Busy, Sleep, GiveUp, GhostType
<1>3. known'[c] \subseteq acked /\ KindOf'[c] = KindOf[c] /\ files' = files /\ mir' = mir /\ jnl' = jnl
  BY <1>1, <1>2 DEF Lock, Begin, Take, Busy, Sleep, GiveUp, GhostType, ReaderTrue, KindOf, disk
<1>4. CASE GiveUp(c)
  <2>1. Nothing \in Rows /\ "contended" \in Outs /\ EndAs(c, "contended", Nothing)
        /\ UNCHANGED <<known, base, script, acked, kept>>
    BY <1>4 DEF Nothing, Unread, Rows, Outs, GiveUp, End
  <2>2. Alone(c) /\ WriterTrue(c)' /\ ReaderTrue(c)'
    BY <2>1, EndTrue
  <2> QED BY <1>2, <2>2, QuietTrue
<1>5. CASE ~GiveUp(c)
  <2>1. /\ Alone(c) /\ s'[c].out = s[c].out /\ s'[c].token = s[c].token
        /\ s[c].pc \in {"idle", "try", "wait"}
        /\ s'[c].pc \in {"list", "try", "recover", "snapshot", "wait"}
        /\ s'[c].pc = "list" => KindOf[c] = "readonly" /\ s[c].pc = "idle" /\ s'[c].view = s[c].view
    <3>1. CASE Sleep(c)
      BY <1>1, <3>1, SleepStep DEF SameRest, Sleep, At
    <3>2. CASE Begin(c)
      <4>1. PICK l \in {"list", "try"} : To(c, l) /\ (l = "list" => KindOf[c] = "readonly")
        BY <3>2 DEF Begin
      <4> QED BY <1>1, <3>2, <4>1, ToStep DEF SameRest, SameSights, Begin, At, Sharing
    <3>3. CASE Take(c) \/ Busy(c)
      <4>1. PICK l \in {"recover", "snapshot", "wait"} : To(c, l)
        BY <3>3 DEF Take, Busy
      <4> QED BY <1>1, <3>3, <4>1, ToStep DEF SameRest, Take, Busy, At, Sharing, Holding
    <3> QED BY <1>5, <3>1, <3>2, <3>3 DEF Lock
  <2>2. WriterTrue(c)'
    BY <1>1, <1>2, <1>3, <2>1 DEF WriterTrue, Observing, Changing, Holding, Finishing
  <2>3. ReaderTrue(c)'
    BY <1>1, <1>2, <1>3, <2>1 DEF ReaderTrue, Answered
  <2> QED BY <1>2, <2>1, <2>2, <2>3, QuietTrue
<1> QED BY <1>4, <1>5

LEMMA ReadersTrue ==
  ASSUME Ordered, Promised, NEW c \in Command, Reader(c)
  PROVE  Promised'
<1> USE DEF ghosts
<1>1. SessionType /\ GhostType /\ DiskType /\ WriterTrue(c) /\ ReaderTrue(c) /\ SessionOK(c)
  BY DEF Ordered, TypeOK, Promised
<1>2. UNCHANGED <<disk, acked, kept, base, script, known>>
  BY DEF Reader, Answer, Snapshot, List, Posts, Incomplete, Read, AnswerRead
<1>3. KindOf'[c] = KindOf[c] /\ files' = files /\ mir' = mir /\ jnl' = jnl
  BY <1>2 DEF KindOf, disk
<1>4. known[c] \subseteq acked /\ acked \subseteq Committed
  BY <1>1 DEF ReaderTrue, Promised, MirrorTrue
<1>5. ASSUME NEW o \in Outs, NEW rows \in Rows, EndAs(c, o, rows),
             o = "answered" => Show(rows, known[c]) /\ (KindOf[c] = "observe" => Whole(rows))
      PROVE  Promised'
  <2>1. Alone(c) /\ WriterTrue(c)' /\ ReaderTrue(c)'
    BY <1>2, <1>5, EndTrue
  <2> QED BY <1>2, <2>1, QuietTrue
<1>6. CASE Incomplete(c)
  <2>1. Nothing \in Rows /\ "incomplete" \in Outs /\ EndAs(c, "incomplete", Nothing)
    BY <1>6 DEF Nothing, Unread, Rows, Outs, Incomplete, End
  <2> QED BY <1>5, <2>1
<1>7. CASE Answer(c)
  <2>1. s[c].view \in Rows /\ EndAs(c, "answered", s[c].view) /\ "answered" \in Outs
    BY <1>1, <1>7 DEF Answer, SessionType, Session, Outs
  <2>2. Show(s[c].view, Committed) /\ Whole(s[c].view)
    BY <1>7, SeenShows DEF Answer, At, Observing
  <2>3. Show(s[c].view, known[c])
    BY <1>4, <2>2 DEF Show
  <2> QED BY <1>5, <2>1, <2>2, <2>3
<1>8. CASE Snapshot(c)
  <2>1. mir.rows \in Rows /\ EndAs(c, "answered", mir.rows) /\ "answered" \in Outs
    BY <1>1, <1>8 DEF Snapshot, DiskType, State, Rows, Outs
  <2>2. Show(mir.rows, known[c]) /\ Whole(mir.rows)
    BY <1>4 DEF Show, Promised, MirrorTrue
  <2> QED BY <1>5, <2>1, <2>2
<1>9. CASE AnswerRead(c)
  <2>1. s[c].view \in Rows /\ EndAs(c, "answered", s[c].view) /\ "answered" \in Outs
    BY <1>1, <1>9 DEF AnswerRead, SessionType, Session, Outs
  <2>2. Show(s[c].view, known[c]) /\ KindOf[c] # "observe"
    BY <1>1, <1>9 DEF AnswerRead, At, ReaderTrue, Show
  <2> QED BY <1>5, <2>1, <2>2
<1>10. CASE List(c)
  <2>1. /\ Alone(c) /\ s'[c].pc = "posts" /\ s'[c].posts = jnl /\ s[c].pc = "list"
        /\ s'[c].token = s[c].token /\ s'[c].out = s[c].out /\ s'[c].view = s[c].view
    BY <1>1, <1>10, ListStep DEF List, At, SameSights
  <2>2. \/ jnl.writes = {} /\ Show(files, known[c])
        \/ jnl.writes = Path /\ Show(jnl.post, known[c])
    <3>1. CASE jnl.writes = {}
      <4>1. jnl.todo = {}
        BY <3>1 DEF Promised, JournalTrue
      <4> QED BY <1>4, <3>1, <4>1, FilesShow DEF Show
    <3>2. CASE jnl.writes # {}
      BY <1>4, <3>2 DEF Promised, JournalTrue, Show
    <3> QED BY <3>1, <3>2
  <2>3. ReaderTrue(c)'
    BY <1>1, <1>2, <1>3, <2>1, <2>2 DEF ReaderTrue, Answered, Show
  <2>4. WriterTrue(c)'
    BY <1>1, <1>2, <1>3, <2>1 DEF WriterTrue, Observing, Changing, Finishing
  <2> QED BY <1>2, <2>1, <2>3, <2>4, QuietTrue
<1>11. CASE Posts(c)
  <2>1. Alone(c) /\ SameSights(c) /\ SameRest(c) /\ s'[c].pc = "read" /\ s[c].pc = "posts"
    BY <1>1, <1>11, ToStep DEF Posts, At, Sharing
  <2>2. s[c].view = Nothing
    BY <1>1, <2>1 DEF ReaderTrue
  <2>3. ReaderTrue(c)'
    BY <1>1, <1>2, <1>3, <2>1, <2>2
      DEF ReaderTrue, Answered, Show, SameRest, SameSights, Nothing
  <2>4. WriterTrue(c)'
    BY <1>1, <1>2, <1>3, <2>1 DEF WriterTrue, Observing, Changing, Finishing, SameRest
  <2> QED BY <1>2, <2>1, <2>3, <2>4, QuietTrue
<1>12. CASE Read(c)
  <2>1. /\ Alone(c) /\ SameRest(c) /\ s'[c].pc = "read" /\ s[c].pc = "read"
    BY <1>1, <1>12, ReadStep DEF Read, At
  <2>2. PICK p \in Path :
          /\ \A q \in Path : q # p => s'[c].view[q] = s[c].view[q]
          /\ s'[c].view[p] = IF p \in s[c].posts.writes THEN s[c].posts.post[p] ELSE files[p]
    BY <1>1, <1>12, ReadStep
  <2>3. \A d \in known[c] : d \in s'[c].view[p] \/ <<d, p>> \in kept
    BY <1>1, <2>1, <2>2 DEF ReaderTrue, Show
  <2>4. ASSUME NEW q \in Path, NEW d \in known[c], s'[c].view[q] # Unread
        PROVE  d \in s'[c].view[q] \/ <<d, q>> \in kept
    BY <1>1, <2>1, <2>2, <2>3, <2>4 DEF ReaderTrue
  <2>5. ReaderTrue(c)'
    BY <1>1, <1>2, <1>3, <2>1, <2>4 DEF ReaderTrue, Answered, Show, SameRest
  <2>6. WriterTrue(c)'
    BY <1>1, <1>2, <1>3, <2>1 DEF WriterTrue, Observing, Changing, Finishing, SameRest
  <2> QED BY <1>2, <2>1, <2>5, <2>6, QuietTrue
<1> QED
  BY <1>6, <1>7, <1>8, <1>9, <1>10, <1>11, <1>12 DEF Reader

LEMMA OpenQuietTrue ==
  ASSUME Ordered, Promised, NEW c \in Command, Recover(c) \/ AdoptNothing(c) \/ AdoptMoved(c)
  PROVE  Promised'
<1> USE DEF ghosts
<1>1. SessionType /\ HistoryType /\ WriterTrue(c) /\ ReaderTrue(c)
  BY DEF Ordered, TypeOK, Promised
<1>2. UNCHANGED <<disk, acked, kept, base, script, known>>
  BY DEF Recover, AdoptNothing, AdoptMoved
<1>3. KindOf'[c] = KindOf[c] /\ files' = files /\ mir' = mir /\ jnl' = jnl
  BY <1>2 DEF KindOf, disk
<1>4. CASE Recover(c)
  <2>1. /\ Alone(c) /\ SameRest(c) /\ s[c].pc = "recover" /\ s'[c].task = "recovery"
        /\ s'[c].pc \in {"observe", "apply"}
    BY <1>1, <1>4, RecoverStep DEF Recover, At
  <2>2. WriterTrue(c)' /\ ReaderTrue(c)'
    BY <1>1, <1>2, <1>3, <2>1
      DEF WriterTrue, ReaderTrue, Observing, Changing, Finishing, Answered, SameRest
  <2> QED BY <1>2, <2>1, <2>2, QuietTrue
<1>5. CASE AdoptNothing(c)
  <2>1. heads \subseteq Nat
    BY <1>1 DEF HistoryType, Rev
  <2>2. /\ Alone(c) /\ SameRest(c) /\ s[c].pc = "adopt" /\ s'[c].view = s[c].view
        /\ s'[c].pc \in {"answer", "transact"}
    BY <1>1, <1>5, <2>1, OpenedStep DEF AdoptNothing, At
  <2>3. SameMarks(files, s[c].view)
    BY <1>1, <2>2 DEF WriterTrue, Observing
  <2>4. WriterTrue(c)' /\ ReaderTrue(c)'
    BY <1>1, <1>2, <1>3, <2>2, <2>3
      DEF WriterTrue, ReaderTrue, Observing, Changing, Finishing, Answered, SameRest, SameMarks
  <2> QED BY <1>2, <2>2, <2>4, QuietTrue
<1>6. CASE AdoptMoved(c)
  <2>1. Nothing \in Rows /\ "moved" \in Outs /\ EndAs(c, "moved", Nothing)
    BY <1>6 DEF Nothing, Unread, Rows, Outs, AdoptMoved, End
  <2>2. Alone(c) /\ WriterTrue(c)' /\ ReaderTrue(c)'
    BY <1>2, <2>1, EndTrue
  <2> QED BY <1>2, <2>2, QuietTrue
<1> QED BY <1>4, <1>5, <1>6

\* A session that ends and leaves everything else alone, answering nothing.
LEMMA QuietEnd ==
  ASSUME Ordered, Promised, NEW c \in Command, NEW o \in Outs \ {"answered"}, End(c, o),
         UNCHANGED <<disk, ghosts, script>>
  PROVE  Promised'
<1>1. Nothing \in Rows /\ EndAs(c, o, Nothing)
  BY DEF Nothing, Unread, Rows, End
<1>2. UNCHANGED <<disk, acked, kept, base, script, known>>
  BY DEF ghosts
<1>3. Alone(c) /\ WriterTrue(c)' /\ ReaderTrue(c)'
  BY <1>1, <1>2, EndTrue
<1> QED BY <1>2, <1>3, QuietTrue

LEMMA PlanTrue ==
  ASSUME Ordered, Promised, NEW c \in Command,
         \/ Replayed(c) \/ DryRun(c) \/ Refuse(c) \/ PlanChange(c) \/ Conflict(c) \/ Preflight(c)
  PROVE  Promised'
<1> USE DEF ghosts
<1>1. SessionType /\ WriterTrue(c) /\ ReaderTrue(c)
  BY DEF Ordered, TypeOK, Promised
<1>2. UNCHANGED <<disk, acked, kept, base, script, known>>
  BY DEF Replayed, DryRun, Refuse, PlanChange, Conflict, Preflight
<1>3. KindOf'[c] = KindOf[c] /\ files' = files /\ mir' = mir /\ jnl' = jnl
  BY <1>2 DEF KindOf, disk
<1>4. CASE Replayed(c) \/ Refuse(c) \/ Conflict(c)
  <2>1. PICK o \in Outs \ {"answered"} : End(c, o)
    BY <1>4 DEF Replayed, Refuse, Conflict, Outs
  <2> QED BY <1>2, <2>1, QuietEnd
<1>5. CASE DryRun(c)
  <2>1. Alone(c) /\ s'[c].pc = "try" /\ s'[c].out = "none" /\ s[c].pc = "transact"
    BY <1>1, <1>5, DryRunStep DEF DryRun, At
  <2>2. WriterTrue(c)' /\ ReaderTrue(c)'
    BY <1>1, <1>2, <1>3, <2>1
      DEF WriterTrue, ReaderTrue, Observing, Changing, Finishing, Answered
  <2> QED BY <1>2, <2>1, <2>2, QuietTrue
<1>6. CASE PlanChange(c) \/ Preflight(c)
  <2>1. PICK l \in {"preflight", "commit"} : To(c, l)
    BY <1>6 DEF PlanChange, Preflight
  <2>2. Alone(c) /\ SameSights(c) /\ SameRest(c) /\ s'[c].pc = l
    BY <1>1, <2>1, ToStep DEF Holding
  <2>3. s[c].pc \in {"transact", "preflight"}
    BY <1>6 DEF PlanChange, Planning, Preflight, At
  <2>4. KindOf[c] = "review" => s[c].token.view = s[c].view
    <3>1. CASE PlanChange(c)
      BY <3>1 DEF PlanChange, Expected, Token
    <3>2. CASE Preflight(c)
      BY <1>1, <3>2 DEF Preflight, At, WriterTrue
    <3> QED BY <1>6, <3>1, <3>2
  <2>5. WriterTrue(c)' /\ ReaderTrue(c)'
    BY <1>1, <1>2, <1>3, <2>1, <2>2, <2>3, <2>4
      DEF WriterTrue, ReaderTrue, Observing, Changing, Finishing, Answered, SameSights, SameRest,
          SameMarks
  <2> QED BY <1>2, <2>2, <2>5, QuietTrue
<1> QED BY <1>4, <1>5, <1>6

-----------------------------------------------------------------------------
(* Steps that touch the mirror                                             *)

LEMMA MirrorStep ==
  ASSUME Ordered, Promised, NEW c \in Command, lock = c, Alone(c),
         UNCHANGED <<files, revs, heads, jnl, kept, known, base, script>>, acked \subseteq acked',
         MirrorTrue', WriterTrue(c)', ReaderTrue(c)'
  PROVE  Promised'
<1>1. Committed' = Committed
  BY DEF Committed, Rev
<1>2. Grows /\ Undisturbed(c)
  BY <1>1 DEF Grows, Undisturbed
<1>3. \A d \in Command : WriterTrue(d)' /\ ReaderTrue(d)'
  BY <1>2, OthersTrue DEF Alone
<1>4. FilesTrue'
  BY <1>1 DEF Promised, FilesTrue, OnlyMade, Show, CurrentRows, Current, Tips, Rev
<1>5. JournalTrue'
  BY <1>1 DEF Promised, JournalTrue, Show
<1> QED BY <1>3, <1>4, <1>5 DEF Promised

\* What a change made is whole, and shows all that is acknowledged.
LEMMA ChangeShows ==
  ASSUME Ordered, Promised, NEW c \in Command, Changing(c)
  PROVE  c \in Committed /\ Show(Post(c), acked \union {c}) /\ Whole(Post(c))
<1>1. c \in Committed /\ Show(Post(c), Committed) /\ OnlyMade(Post(c)) /\ acked \subseteq Committed
  BY DEF Promised, WriterTrue, MirrorTrue
<1> QED BY <1>1 DEF Show, Whole, OnlyMade

LEMMA ObserveTrue ==
  ASSUME Ordered, Promised, NEW c \in Command, Observe(c)
  PROVE  Promised'
<1> USE DEF ghosts
<1>1. /\ SessionType /\ DiskType /\ WriterTrue(c) /\ ReaderTrue(c) /\ SessionOK(c) /\ JournalOK
      /\ acked \subseteq Committed
  BY DEF Ordered, TypeOK, Promised, MirrorTrue
<1>2. /\ UNCHANGED <<files, revs, heads, jnl, lock, acked, known, kept, base, script>>
      /\ mir' = [mir EXCEPT !.rows = files] /\ s[c].pc = "observe"
  BY DEF Observe, At
<1>3. lock = c /\ jnl.todo = {}
  BY <1>1, <1>2 DEF SessionOK, JournalOK, Holding, Finishing, NoTxn
<1>4. Alone(c) /\ SameRest(c) /\ s'[c].pc = "judge" /\ s'[c].view = files
  BY <1>1, ObserveStep
<1>5. mir'.rows = files /\ KindOf'[c] = KindOf[c] /\ Committed' = Committed
  BY <1>1, <1>2 DEF DiskType, KindOf, Committed, Rev
<1>6. MirrorTrue'
  BY <1>1, <1>2, <1>3, <1>5, FilesShow DEF MirrorTrue, Show, Whole
<1>7. WriterTrue(c)' /\ ReaderTrue(c)'
  BY <1>1, <1>2, <1>4, <1>5
    DEF WriterTrue, ReaderTrue, Observing, Changing, Finishing, Answered, SameRest, SameMarks
<1> QED BY <1>2, <1>3, <1>4, <1>6, <1>7, MirrorStep

LEMMA VerdictTrue ==
  ASSUME Ordered, Promised, NEW c \in Command, Judge(c) \/ Settle(c)
  PROVE  Promised'
<1> USE DEF ghosts
<1>1. SessionType /\ DiskType /\ HistoryType /\ WriterTrue(c) /\ ReaderTrue(c) /\ SessionOK(c)
  BY DEF Ordered, TypeOK, Promised
<1>2. /\ UNCHANGED <<files, revs, heads, jnl, lock, acked, known, kept, base, script>>
      /\ s[c].pc \in {"judge", "settle"}
  BY DEF Judge, Settle, At
<1>3. lock = c /\ heads \subseteq Nat
  BY <1>1, <1>2 DEF SessionOK, Holding, HistoryType, Rev
<1>4. mir'.rows = mir.rows
  BY <1>1 DEF Judge, Settle, DiskType
<1>5. /\ Alone(c) /\ SameRest(c) /\ s'[c].view = s[c].view
      /\ s'[c].pc \in {"adopt", "answer", "transact"}
  <2>1. CASE Judge(c)
    BY <1>1, <1>3, <2>1, JudgeStep
  <2>2. CASE Settle(c)
    BY <1>1, <1>3, <2>2, OpenedStep DEF Settle
  <2> QED BY <2>1, <2>2
<1>6. KindOf'[c] = KindOf[c] /\ Committed' = Committed
  BY <1>2 DEF KindOf, Committed, Rev
<1>7. MirrorTrue'
  BY <1>2, <1>4, <1>6 DEF Promised, MirrorTrue, Show, Whole
<1>8. SameMarks(files, s[c].view)
  BY <1>1, <1>2 DEF WriterTrue, Observing
<1>9. WriterTrue(c)' /\ ReaderTrue(c)'
  BY <1>1, <1>2, <1>5, <1>6, <1>8
    DEF WriterTrue, ReaderTrue, Observing, Changing, Finishing, Answered, SameRest, SameMarks
<1> QED BY <1>2, <1>3, <1>5, <1>7, <1>9, MirrorStep

LEMMA KeepTrue ==
  ASSUME Ordered, Promised, NEW c \in Command, Keep(c)
  PROVE  Promised'
<1> USE DEF ghosts
<1>1. SessionType /\ DiskType /\ WriterTrue(c) /\ ReaderTrue(c) /\ SessionOK(c)
  BY DEF Ordered, TypeOK, Promised
<1>2. /\ UNCHANGED <<files, revs, heads, jnl, lock, acked, known, kept, base, script>>
      /\ mir' = [mir EXCEPT !.rows = Post(c)] /\ s[c].pc = "keep" /\ To(c, "keepverdict")
  BY DEF Keep, At
<1>3. lock = c /\ Changing(c)
  BY <1>1, <1>2 DEF SessionOK, Holding, Changing
<1>4. Alone(c) /\ SameSights(c) /\ SameRest(c) /\ s'[c].pc = "keepverdict"
  BY <1>1, <1>2, ToStep DEF Holding
<1>5. mir'.rows = Post(c) /\ KindOf'[c] = KindOf[c] /\ Committed' = Committed
  BY <1>1, <1>2 DEF DiskType, KindOf, Committed, Rev
<1>6. Post(c)' = Post(c)
  BY <1>4, <1>5 DEF Post, Fixes, SameSights
<1>7. MirrorTrue'
  BY <1>2, <1>3, <1>5, ChangeShows DEF Promised, MirrorTrue, Show, Whole
<1>8. WriterTrue(c)'
  BY <1>1, <1>2, <1>3, <1>4, <1>5, <1>6
    DEF WriterTrue, Observing, Changing, Finishing, SameRest, Show, OnlyMade
<1>9. ReaderTrue(c)'
  BY <1>1, <1>2, <1>4, <1>5 DEF ReaderTrue, Answered, SameRest
<1> QED BY <1>2, <1>3, <1>4, <1>7, <1>8, <1>9, MirrorStep

\* A session that acknowledges its change, with the mirror at what it made.
LEMMA AcknowledgeTrue ==
  ASSUME Ordered, Promised, NEW c \in Command, NEW o \in Outs \ {"answered"}, End(c, o),
         Changing(c), lock = c, mir'.rows = Post(c), acked' = acked \union {c},
         UNCHANGED <<files, revs, heads, jnl, known, kept, base, script>>
  PROVE  Promised'
<1>1. Nothing \in Rows /\ EndAs(c, o, Nothing)
  BY DEF Nothing, Unread, Rows, End
<1>2. Alone(c) /\ WriterTrue(c)' /\ ReaderTrue(c)'
  BY <1>1, EndTrue
<1>3. Committed' = Committed
  BY DEF Committed, Rev
<1>4. MirrorTrue'
  BY <1>3, ChangeShows DEF Promised, MirrorTrue, Show, Whole
<1> QED BY <1>2, <1>4, MirrorStep

LEMMA KeepVerdictTrue ==
  ASSUME Ordered, Promised, NEW c \in Command, KeepVerdict(c)
  PROVE  Promised'
<1>1. s[c].pc = "keepverdict" /\ WriterTrue(c) /\ SessionOK(c) /\ DiskType
  BY DEF KeepVerdict, At, Promised, Ordered, TypeOK
<1>2. lock = c /\ Changing(c) /\ mir.rows = Post(c)
  BY <1>1 DEF SessionOK, Holding, Changing, WriterTrue
<1>3. mir'.rows = mir.rows /\ "ok" \in Outs \ {"answered"}
  BY <1>1 DEF KeepVerdict, DiskType, Outs
<1> QED BY <1>2, <1>3, AcknowledgeTrue DEF KeepVerdict

LEMMA AroundTrue ==
  ASSUME Ordered, Promised, NEW c \in Command, Block(c) \/ Kill(c)
  PROVE  Promised'
<1>1. CASE Kill(c)
  <2>1. "killed" \in Outs \ {"answered"}
    BY DEF Outs
  <2> QED BY <1>1, <2>1, QuietEnd DEF Kill
<1>2. CASE Block(c) /\ s[c].task = "recovery"
  <2>1. "blocked" \in Outs \ {"answered"}
    BY DEF Outs
  <2> QED BY <1>2, <2>1, QuietEnd DEF Block, disk, ghosts
<1>3. CASE Block(c) /\ s[c].task = "change"
  <2>1. s[c].pc = "apply" /\ WriterTrue(c) /\ SessionOK(c) /\ DiskType
    BY <1>3 DEF Block, At, Promised, Ordered, TypeOK
  <2>2. lock = c /\ Changing(c) /\ jnl.post = Post(c)
    BY <1>3, <2>1 DEF SessionOK, Holding, Changing, Finishing, WriterTrue
  <2>3. mir'.rows = jnl.post /\ "pending" \in Outs \ {"answered"}
    BY <1>3, <2>1 DEF Block, DiskType, Outs
  <2> QED BY <1>3, <2>2, <2>3, AcknowledgeTrue DEF Block
<1> QED BY <1>1, <1>2, <1>3 DEF Block

-----------------------------------------------------------------------------
(* Finishing a transaction                                                 *)

LEMMA DiskStep ==
  ASSUME Ordered, Promised, NEW c \in Command, Alone(c), Grows, Undisturbed(c),
         UNCHANGED <<known, script>>, \A d \in Command : d # c => base'[d] = base[d],
         FilesTrue', JournalTrue', MirrorTrue', WriterTrue(c)', ReaderTrue(c)'
  PROVE  Promised'
BY OthersTrue DEF Alone, Promised

\* What is made is a command's.
LEMMA MadeByCommands ==
  ASSUME Ordered
  PROVE  Committed \subseteq Command
<1>1. \A r \in Rev : revs[r] \in Revision
  BY DEF Ordered, TypeOK, HistoryType, Rev
<1> QED BY <1>1 DEF Committed, Revision

\* The mirror stays true when more edits are kept, or more is made.
LEMMA MirrorStays ==
  ASSUME MirrorTrue, mir' = mir, acked' = acked, kept \subseteq kept', Committed \subseteq Committed'
  PROVE  MirrorTrue'
BY DEF MirrorTrue, Show, Whole

\* What the files will hold is made; a journal's revision tells of all of it.
LEMMA CurrentMade ==
  ASSUME Ordered, Promised
  PROVE  /\ OnlyMade(CurrentRows)
         /\ jnl.rev # 0 =>
              /\ jnl.rev \in Rev /\ jnl.rev \in Tips
              /\ \A c \in Command, p \in Path :
                   c \in Current(p) => <<c, p>> \in kept \/ c \in revs[jnl.rev].state[p]
<1>1. FilesTrue /\ JournalTrue /\ JournalOK
  BY DEF Promised, Ordered
<1>2. ASSUME NEW p \in Path, NEW d \in Command, d \in Current(p) PROVE d \in Committed
  <2>1. CASE p \in jnl.todo
    BY <1>1, <1>2, <2>1 DEF FilesTrue, JournalTrue, JournalOK, OnlyMade, Current
  <2>2. CASE p \notin jnl.todo
    BY <1>1, <1>2, <2>2 DEF FilesTrue, OnlyMade, Current
  <2> QED BY <2>1, <2>2
<1>3. OnlyMade(CurrentRows)
  BY <1>2 DEF OnlyMade, CurrentRows
<1>4. CASE jnl.rev # 0
  BY <1>1, <1>2, <1>3, <1>4 DEF JournalTrue, JournalOK, Tips, Show
<1> QED BY <1>3, <1>4

LEMMA PlaceTrue ==
  ASSUME Ordered, Promised, NEW c \in Command, Place(c)
  PROVE  Promised'
<1> USE DEF ghosts
<1>1. /\ SessionType /\ DiskType /\ GhostType /\ HistoryType /\ SessionOK(c)
      /\ WriterTrue(c) /\ ReaderTrue(c) /\ FilesTrue /\ JournalTrue /\ MirrorTrue
  BY DEF Ordered, TypeOK, Promised
<1>2. PICK p \in jnl.todo :
        /\ jnl' = [jnl EXCEPT !.todo = @ \ {p}]
        /\ files' = [files EXCEPT ![p] = IF @ = jnl.pre[p] THEN jnl.post[p] ELSE @]
        /\ kept' = IF files[p] \in {jnl.pre[p], jnl.post[p]} THEN kept
                   ELSE kept \union {<<revs[jnl.rev].by, p>>}
  BY DEF Place
<1>3. /\ UNCHANGED <<revs, heads, mir, lock, s, acked, known, base, script>>
      /\ s[c].pc = "apply"
  BY DEF Place, At
<1>4. p \in Path /\ lock = c
  BY <1>1, <1>3 DEF DiskType, Change, SessionOK, Holding, Finishing
<1> DEFINE by == revs[jnl.rev].by
<1>5. /\ jnl.writes = Path /\ jnl.rev # 0 /\ by \in Command /\ jnl.post = revs[jnl.rev].state
      /\ \A d \in Command : /\ d \in jnl.pre[p] => d \in files[p]
                            /\ d \in jnl.post[p] <=> d \in jnl.pre[p] \/ d = by
  BY <1>1 DEF JournalTrue
<1>6. /\ jnl'.todo = jnl.todo \ {p} /\ jnl'.writes = jnl.writes /\ jnl'.pre = jnl.pre
      /\ jnl'.post = jnl.post /\ jnl'.rev = jnl.rev
  BY <1>1, <1>2 DEF DiskType, Change
<1>7. /\ \A q \in Path : q # p => files'[q] = files[q]
      /\ files'[p] = IF files[p] = jnl.pre[p] THEN jnl.post[p] ELSE files[p]
  BY <1>1, <1>2, <1>4 DEF DiskType, State
<1>8. kept \subseteq kept' /\ Rev' = Rev /\ Committed' = Committed /\ Tips' = Tips
  BY <1>2, <1>3, <1>6 DEF Rev, Committed, Tips
<1>9. Grows /\ Undisturbed(c)
  BY <1>3, <1>4, <1>5, <1>7, <1>8 DEF Grows, Undisturbed
<1>10. \A q \in Path : q # p => Current(q)' = Current(q)
  BY <1>6, <1>7 DEF Current
<1>11. Current(p) = jnl.post[p] /\ Current(p)' = files'[p]
  BY <1>6 DEF Current
<1>12. \/ files[p] \in {jnl.pre[p], jnl.post[p]} /\ Current(p)' = Current(p)
       \/ Current(p)' = files[p] /\ <<by, p>> \in kept'
  BY <1>2, <1>7, <1>11
<1>13. Committed \subseteq Command
  BY MadeByCommands
<1>14. FilesTrue'
  <2>1. OnlyMade(files)'
    BY <1>1, <1>5, <1>7, <1>8, CurrentMade DEF FilesTrue, OnlyMade
  <2>2. \A r \in Rev' : OnlyMade(revs[r].state)'
    BY <1>1, <1>3, <1>8 DEF FilesTrue, OnlyMade
  <2>3. \A d \in Committed, q \in Path : d \in Current(q)' \/ <<d, q>> \in kept'
    <3> SUFFICES ASSUME NEW d \in Committed, NEW q \in Path
                 PROVE  d \in Current(q)' \/ <<d, q>> \in kept'
      OBVIOUS
    <3>1. d \in Current(q) \/ <<d, q>> \in kept
      BY <1>1 DEF FilesTrue, Show, CurrentRows
    <3>2. CASE q # p
      BY <1>8, <1>10, <3>1, <3>2
    <3>3. CASE q = p
      BY <1>5, <1>8, <1>11, <1>12, <1>13, <3>1, <3>3
    <3> QED BY <3>2, <3>3
  <2>4. Show(CurrentRows, Committed)'
    BY <1>8, <2>3 DEF Show, CurrentRows
  <2>5. ASSUME NEW d \in Command, NEW q \in Path, d \in Current(q)'
        PROVE  <<d, q>> \in kept' \/ d \in revs[jnl.rev].state[q]
    <3>1. CASE d \in Current(q)
      BY <1>5, <1>8, <3>1, CurrentMade
    <3>2. CASE d \notin Current(q)
      <4>1. d \in files[q]
        BY <1>10, <1>12, <2>5, <3>2
      <4>2. d \in Committed
        BY <1>1, <4>1 DEF FilesTrue, OnlyMade
      <4> QED BY <1>1, <1>5, <1>8, <4>2 DEF JournalTrue, Show
    <3> QED BY <3>1, <3>2
  <2>6. jnl.rev \in Tips'
    BY <1>5, <1>8, CurrentMade
  <2> QED BY <1>3, <2>1, <2>2, <2>4, <2>5, <2>6 DEF FilesTrue
<1>15. JournalTrue'
  BY <1>1, <1>3, <1>5, <1>6, <1>7, <1>8, <1>4 DEF JournalTrue, Show
<1>16. MirrorTrue'
  BY <1>1, <1>3, <1>8, MirrorStays
<1>17. KindOf'[c] = KindOf[c] /\ Post(c)' = Post(c)
  BY <1>3 DEF KindOf, Post, Fixes
<1>18. WriterTrue(c)'
  BY <1>1, <1>3, <1>6, <1>8, <1>17
    DEF WriterTrue, Observing, Changing, Finishing, Show, OnlyMade
<1>19. ReaderTrue(c)'
  BY <1>1, <1>3, <1>17 DEF ReaderTrue, Answered
<1>20. Alone(c)
  BY <1>1, <1>3 DEF Alone, SessionType
<1> QED BY <1>3, <1>9, <1>14, <1>15, <1>16, <1>18, <1>19, <1>20, DiskStep

\* Publishing the head and retiring those it was made on changes no row, and
\* leaves the head that tells of them all.
LEMMA HeadsTrue ==
  ASSUME Ordered, Promised, NEW c \in Command, Publish(c) \/ Retire(c)
  PROVE  Promised'
<1> USE DEF ghosts
<1>1. /\ SessionType /\ HistoryType /\ SessionOK(c) /\ JournalOK
      /\ WriterTrue(c) /\ ReaderTrue(c) /\ FilesTrue /\ JournalTrue /\ MirrorTrue
  BY DEF Ordered, TypeOK, Promised
<1>2. /\ UNCHANGED <<files, revs, jnl, mir, lock, acked, known, kept, base, script>>
      /\ s[c].pc \in {"apply", "retire"}
  BY DEF Publish, Retire, At
<1>3. PICK l \in {"retire", "finish"} : To(c, l)
  BY DEF Publish, Retire
<1>4. Alone(c) /\ SameSights(c) /\ SameRest(c) /\ s'[c].pc = l /\ s'[c].task = s[c].task
  BY <1>1, <1>3, ToStep DEF Holding, Finishing
<1>5. lock = c /\ jnl.rev # 0
  BY <1>1, <1>2 DEF SessionOK, Holding, Finishing
<1>6. Committed' = Committed /\ Rev' = Rev /\ KindOf'[c] = KindOf[c]
  BY <1>2 DEF Committed, Rev, KindOf
<1>7. Grows /\ Undisturbed(c)
  BY <1>2, <1>5, <1>6 DEF Grows, Undisturbed
<1>8. jnl.rev \in Tips'
  BY <1>2, <1>5 DEF Tips
<1>9. \A p \in Path : Current(p)' = Current(p)
  BY <1>2 DEF Current
<1>10. FilesTrue'
  <2>1. \A d \in Command, p \in Path :
          d \in Current(p)' => <<d, p>> \in kept' \/ \E r \in Tips' : d \in revs'[r].state[p]
    BY <1>2, <1>5, <1>8, <1>9, CurrentMade
  <2> QED
    BY <1>1, <1>2, <1>6, <1>9, <2>1 DEF FilesTrue, OnlyMade, Show, CurrentRows
<1>11. JournalTrue' /\ MirrorTrue'
  BY <1>1, <1>2, <1>6 DEF JournalTrue, MirrorTrue, Show, Whole
<1>12. Post(c)' = Post(c)
  BY <1>4, <1>6 DEF Post, Fixes, SameSights
<1>13. WriterTrue(c)'
  BY <1>1, <1>2, <1>4, <1>6, <1>12
    DEF WriterTrue, Observing, Changing, Finishing, SameSights, SameRest, SameMarks, Show, OnlyMade
<1>14. ReaderTrue(c)'
  BY <1>1, <1>2, <1>4, <1>6 DEF ReaderTrue, Answered, SameRest
<1> QED BY <1>2, <1>4, <1>7, <1>10, <1>11, <1>13, <1>14, DiskStep

LEMMA FinishTrue ==
  ASSUME Ordered, Promised, NEW c \in Command, Finish(c)
  PROVE  Promised'
<1> USE DEF ghosts
<1>1. /\ SessionType /\ HistoryType /\ SessionOK(c) /\ JournalOK
      /\ WriterTrue(c) /\ ReaderTrue(c) /\ FilesTrue /\ JournalTrue /\ MirrorTrue
  BY DEF Ordered, TypeOK, Promised
<1>2. /\ UNCHANGED <<files, revs, heads, mir, lock, acked, known, kept, base, script>>
      /\ jnl' = NoTxn /\ s[c].pc = "finish"
  BY DEF Finish, At
<1>3. /\ lock = c /\ jnl.rev # 0 /\ jnl.todo = {} /\ jnl.rev \in heads /\ s[c].task # "none"
      /\ jnl.rev \in Nat /\ 0 \notin heads
  BY <1>1, <1>2 DEF SessionOK, JournalOK, Holding, Finishing, Rev, HistoryType
<1>4. NoTxn.rev = 0 /\ NoTxn.todo = {} /\ NoTxn.writes = {}
  BY DEF NoTxn
<1>5. /\ Alone(c) /\ SameRest(c) /\ s'[c].view = s[c].view /\ s'[c].task = s[c].task
      /\ s'[c].pc = IF s[c].task = "recovery" THEN "observe"
                    ELSE IF s[c].task = "adopt" THEN "settle" ELSE "keep"
  BY <1>1, <1>3, FinishStep
<1>6. s[c].task \in {"recovery", "adopt", "change"}
  BY <1>1, <1>3 DEF SessionType, Session
<1>7. Committed' = Committed /\ Rev' = Rev /\ KindOf'[c] = KindOf[c] /\ Tips' = Tips
  BY <1>2, <1>3, <1>4 DEF Committed, Rev, KindOf, Tips
<1>8. Grows /\ Undisturbed(c)
  BY <1>2, <1>3, <1>7 DEF Grows, Undisturbed
<1>9. \A p \in Path : Current(p)' = Current(p)
  BY <1>2, <1>3, <1>4 DEF Current
<1>10. FilesTrue'
  BY <1>1, <1>2, <1>7, <1>9 DEF FilesTrue, OnlyMade, Show, CurrentRows
<1>11. JournalTrue'
  BY <1>2, <1>4 DEF JournalTrue
<1>12. MirrorTrue'
  BY <1>1, <1>2, <1>7, MirrorStays
<1>13. Post(c)' = Post(c)
  BY <1>5, <1>7 DEF Post, Fixes
<1>14. WriterTrue(c)'
  <2> USE DEF WriterTrue, Observing, Changing, Finishing, SameRest
  <2>1. CASE s[c].task = "recovery"
    BY <1>1, <1>2, <1>5, <2>1
  <2>2. CASE s[c].task = "adopt"
    BY <1>1, <1>2, <1>5, <2>2 DEF SameMarks
  <2>3. CASE s[c].task = "change"
    BY <1>1, <1>2, <1>5, <1>7, <1>13, <2>3 DEF Show, OnlyMade
  <2> QED BY <1>6, <2>1, <2>2, <2>3
<1>15. ReaderTrue(c)'
  BY <1>1, <1>2, <1>5, <1>7 DEF ReaderTrue, Answered, SameRest
<1> QED BY <1>2, <1>5, <1>8, <1>10, <1>11, <1>12, <1>14, <1>15, DiskStep

-----------------------------------------------------------------------------
(* Commits, and what happens around the commands                           *)

\* A new revision, and the changes there are then.
LEMMA Grown ==
  ASSUME Ordered, NEW r \in Revision, r.parents \subseteq Rev, revs' = Append(revs, r)
  PROVE  /\ Committed' = Committed \union ({r.by} \ {Nobody})
         /\ Rev \subseteq Rev' /\ Len(revs) + 1 \in Rev' /\ Len(revs) + 1 # 0
         /\ \A q \in Rev' : q \in Rev \/ q = Len(revs) + 1
         /\ revs'[Len(revs) + 1] = r /\ \A q \in Rev : revs'[q] = revs[q]
<1>1. HistoryType
  BY DEF Ordered, TypeOK
<1>2. /\ Len(revs') = Len(revs) + 1 /\ Rev' = Rev \union {Len(revs) + 1} /\ Len(revs) \in Nat
      /\ revs'[Len(revs) + 1] = r /\ \A q \in Rev : revs'[q] = revs[q]
  BY <1>1, Appended
<1> DEFINE n == Len(revs) + 1
<1>3. n # 0
  BY <1>2
<1> HIDE DEF n
<1>4. Rev' = Rev \union {n} /\ revs'[n] = r /\ \A q \in Rev : revs'[q] = revs[q]
  BY <1>2 DEF n
<1>5. Committed' = {revs'[q].by : q \in Rev'} \ {Nobody}
  BY DEF Committed
<1>6. Committed' = Committed \union ({r.by} \ {Nobody})
  BY <1>4, <1>5 DEF Committed
<1> QED BY <1>3, <1>4, <1>6 DEF n

LEMMA AdoptTrue ==
  ASSUME Ordered, Promised, NEW c \in Command, Adopt(c)
  PROVE  Promised'
<1> USE DEF ghosts
<1>1. /\ SessionType /\ HistoryType /\ SessionOK(c) /\ JournalOK
      /\ WriterTrue(c) /\ ReaderTrue(c) /\ FilesTrue /\ JournalTrue /\ MirrorTrue
  BY DEF Ordered, TypeOK, Promised
<1> DEFINE j == [NoTxn EXCEPT !.retire = s[c].seen]
           r == [parents |-> s[c].seen, state |-> s[c].view, key |-> NoKey, by |-> Nobody]
           n == Len(revs) + 1
<1>2. /\ CommitPoint(c, "adopt", j, r) /\ s[c].pc = "adopt"
      /\ UNCHANGED <<files, heads, mir, lock, script, acked, known, kept, base>>
  BY DEF Adopt, At
<1>3. /\ lock = c /\ Observing(c) /\ s[c].view \in State
      /\ s[c].seen \subseteq Rev /\ s[c].seen \subseteq Nat /\ jnl.rev = 0
  BY <1>1, <1>2 DEF SessionOK, Observing, Holding, Finishing, Rev
<1>4. r \in Revision /\ r.parents \subseteq Rev /\ r.by = Nobody /\ r.state = s[c].view
  BY <1>3 DEF Revision, Keys
<1>5. j.writes = {} /\ j.todo = {} /\ DOMAIN j = {"writes", "todo", "pre", "post", "rev", "retire"}
  BY DEF NoTxn
<1> HIDE DEF j, r
<1>6. /\ Alone(c) /\ SameSights(c) /\ SameRest(c) /\ s'[c].pc = "apply" /\ s'[c].task = "adopt"
      /\ jnl' = [j EXCEPT !.rev = n] /\ revs' = Append(revs, r)
  BY <1>1, <1>2, CommitStep
<1>7. jnl'.rev = n /\ jnl'.writes = {} /\ jnl'.todo = {}
  BY <1>5, <1>6
<1>8. /\ Committed' = Committed \union ({r.by} \ {Nobody})
      /\ Rev \subseteq Rev' /\ n \in Rev' /\ n # 0 /\ \A q \in Rev' : q \in Rev \/ q = n
      /\ revs'[n] = r /\ \A q \in Rev : revs'[q] = revs[q]
  BY <1>4, <1>6, Grown
<1> HIDE DEF n
<1>9. Committed' = Committed /\ KindOf'[c] = KindOf[c]
  BY <1>2, <1>4, <1>8 DEF KindOf
<1>10. jnl.todo = {} /\ Show(s[c].view, Committed) /\ OnlyMade(s[c].view)
  BY <1>3, SeenShows
<1>11. Grows /\ Undisturbed(c)
  BY <1>2, <1>3, <1>9 DEF Grows, Undisturbed
<1>12. \A p \in Path : Current(p)' = Current(p)
  BY <1>2, <1>7, <1>10 DEF Current
<1>13. FilesTrue'
  <2>1. \A q \in Rev' : OnlyMade(revs[q].state)'
    BY <1>1, <1>4, <1>8, <1>9, <1>10 DEF FilesTrue, OnlyMade
  <2>2. \A q \in Tips : q \in Tips' /\ revs'[q] = revs[q]
    BY <1>1, <1>2, <1>3, <1>8 DEF Tips, HistoryType
  <2> QED
    BY <1>1, <1>2, <1>9, <1>12, <2>1, <2>2 DEF FilesTrue, OnlyMade, Show, CurrentRows
<1>14. JournalTrue'
  BY <1>2, <1>4, <1>7, <1>8, <1>9, <1>10 DEF JournalTrue, Show
<1>15. MirrorTrue'
  BY <1>1, <1>2, <1>9, MirrorStays
<1>16. WriterTrue(c)'
  BY <1>1, <1>2, <1>3, <1>6, <1>7, <1>9
    DEF WriterTrue, Observing, Changing, Finishing, SameSights, SameRest, SameMarks
<1>17. ReaderTrue(c)'
  BY <1>1, <1>2, <1>6, <1>9 DEF ReaderTrue, Answered, SameRest
<1> QED BY <1>2, <1>6, <1>11, <1>13, <1>14, <1>15, <1>16, <1>17, DiskStep

\* What a change makes of what was seen: its own mark in every row, and no
\* other change added or lost.
LEMMA PostMarks ==
  ASSUME NEW c \in Command, NEW p \in Path
  PROVE  \A d \in Command : d \in Post(c)[p] <=> d \in s[c].view[p] \/ d = c
BY CommandAssumption DEF Post, Fixes

LEMMA CommitTrue ==
  ASSUME Ordered, Promised, NEW c \in Command, Commit(c)
  PROVE  Promised'
<1> USE DEF ghosts
<1>1. /\ SessionType /\ HistoryType /\ GhostType /\ SessionOK(c) /\ JournalOK
      /\ WriterTrue(c) /\ ReaderTrue(c) /\ FilesTrue /\ JournalTrue /\ MirrorTrue
  BY DEF Ordered, TypeOK, Promised
<1> DEFINE j == [writes |-> Path, todo |-> Path, pre |-> s[c].view, post |-> Post(c), rev |-> 0,
                 retire |-> s[c].hist]
           r == [parents |-> s[c].hist, state |-> Post(c), key |-> KeyOf[c], by |-> c]
           n == Len(revs) + 1
<1>2. /\ CommitPoint(c, "change", j, r) /\ s[c].pc = "commit"
      /\ base' = [base EXCEPT ![c] = s[c].view]
      /\ UNCHANGED <<files, heads, mir, lock, script, acked, known, kept>>
  BY DEF Commit, At
<1>3. /\ lock = c /\ Observing(c) /\ s[c].view \in State
      /\ s[c].hist \subseteq Rev /\ s[c].hist \subseteq Nat /\ jnl.rev = 0
  BY <1>1, <1>2 DEF SessionOK, Observing, Holding, Finishing, Rev
<1>4. r \in Revision /\ r.parents \subseteq Rev /\ r.by = c /\ r.state = Post(c)
  <2>1. KeyOf[c] \in Keys
    BY DEF KeyOf, Keys, Ordered, TypeOK
  <2> QED BY <1>3, <2>1, PostType DEF Revision
<1>5. /\ j.writes = Path /\ j.todo = Path /\ j.pre = s[c].view /\ j.post = Post(c)
      /\ DOMAIN j = {"writes", "todo", "pre", "post", "rev", "retire"}
  OBVIOUS
<1> HIDE DEF j, r
<1>6. /\ Alone(c) /\ SameSights(c) /\ SameRest(c) /\ s'[c].pc = "apply" /\ s'[c].task = "change"
      /\ jnl' = [j EXCEPT !.rev = n] /\ revs' = Append(revs, r)
  BY <1>1, <1>2, CommitStep
<1>7. /\ jnl'.rev = n /\ jnl'.writes = Path /\ jnl'.todo = Path /\ jnl'.pre = s[c].view
      /\ jnl'.post = Post(c)
  BY <1>5, <1>6
<1>8. /\ Committed' = Committed \union ({r.by} \ {Nobody})
      /\ Rev \subseteq Rev' /\ n \in Rev' /\ n # 0 /\ \A q \in Rev' : q \in Rev \/ q = n
      /\ revs'[n] = r /\ \A q \in Rev : revs'[q] = revs[q]
  BY <1>4, <1>6, Grown
<1> HIDE DEF n
<1>9. Committed' = Committed \union {c} /\ KindOf'[c] = KindOf[c]
  BY <1>2, <1>4, <1>8, CommandAssumption DEF KindOf
<1>10. Show(s[c].view, Committed) /\ OnlyMade(s[c].view) /\ SameMarks(files, s[c].view)
       /\ Committed \subseteq Command
  BY <1>1, <1>3, SeenShows, MadeByCommands DEF WriterTrue
<1>11. Grows /\ Undisturbed(c)
  BY <1>2, <1>3, <1>9 DEF Grows, Undisturbed
<1>12. Show(Post(c), Committed') /\ \A p \in Path, d \in Command : d \in Post(c)[p] => d \in Committed'
  BY <1>9, <1>10, PostMarks DEF Show, OnlyMade
<1>13. \A p \in Path : Current(p)' = Post(c)[p]
  BY <1>7 DEF Current
<1>14. n \in Tips'
  BY <1>7, <1>8 DEF Tips
<1>15. FilesTrue'
  <2>1. OnlyMade(files)' /\ \A q \in Rev' : OnlyMade(revs[q].state)'
    BY <1>1, <1>2, <1>4, <1>8, <1>9, <1>12 DEF FilesTrue, OnlyMade
  <2>2. Show(CurrentRows, Committed)'
    BY <1>2, <1>12, <1>13 DEF Show, CurrentRows
  <2>3. \A d \in Command, p \in Path : d \in Current(p)' => d \in revs'[n].state[p]
    BY <1>4, <1>8, <1>13
  <2> QED BY <1>14, <2>1, <2>2, <2>3 DEF FilesTrue
<1>16. JournalTrue'
  <2>1. Show(revs[jnl.rev].state, Committed)'
    BY <1>2, <1>4, <1>7, <1>8, <1>12 DEF Show
  <2>2. ASSUME NEW p \in Path, NEW d \in Command
        PROVE  /\ d \in jnl'.pre[p] => d \in files'[p]
               /\ d \in jnl'.post[p] <=> d \in jnl'.pre[p] \/ d = revs'[jnl'.rev].by
    BY <1>2, <1>4, <1>7, <1>8, <1>10, PostMarks DEF SameMarks
  <2> QED BY <1>4, <1>7, <1>8, <2>1, <2>2 DEF JournalTrue
<1>17. MirrorTrue'
  BY <1>1, <1>2, <1>9, MirrorStays
<1>18. Post(c)' = Post(c)
  BY <1>6, <1>9 DEF Post, Fixes, SameSights
<1>19. WriterTrue(c)'
  <2>1. base'[c] = s[c].view
    BY <1>1, <1>2 DEF GhostType
  <2>2. c \in Committed' /\ Show(Post(c), Committed)' /\ OnlyMade(Post(c))'
    BY <1>2, <1>9, <1>12, <1>18 DEF Show, OnlyMade
  <2>3. KindOf[c] = "review" => s[c].token.view = s[c].view
    BY <1>1, <1>2 DEF WriterTrue
  <2> QED
    BY <1>6, <1>7, <1>9, <1>18, <2>1, <2>2, <2>3
      DEF WriterTrue, Observing, Changing, Finishing, SameRest
<1>20. ReaderTrue(c)'
  BY <1>1, <1>2, <1>6, <1>9 DEF ReaderTrue, Answered, SameRest
<1>21. \A d \in Command : d # c => base'[d] = base[d]
  BY <1>1, <1>2 DEF GhostType
<1> QED BY <1>2, <1>6, <1>11, <1>15, <1>16, <1>17, <1>19, <1>20, <1>21, DiskStep

LEMMA PullTrue ==
  ASSUME Ordered, Promised, Pull
  PROVE  Promised'
<1> USE DEF ghosts
<1>1. /\ SessionType /\ HistoryType /\ GhostType /\ JournalOK
      /\ FilesTrue /\ JournalTrue /\ MirrorTrue
  BY DEF Ordered, TypeOK, Promised
<1>2. PICK o \in Log(heads) :
        revs' = Append(revs, [parents |-> {o}, state |-> revs[o].state, key |-> NoKey,
                              by |-> Nobody])
  BY DEF Pull
<1>3. o \in Rev
  BY <1>1, <1>2, LogMeaning DEF HistoryType
<1> DEFINE r == [parents |-> {o}, state |-> revs[o].state, key |-> NoKey, by |-> Nobody]
           n == Len(revs) + 1
<1>4. r \in Revision /\ r.parents \subseteq Rev /\ r.by = Nobody /\ r.state = revs[o].state
  <2>1. revs[o] \in Revision
    BY <1>1, <1>3 DEF HistoryType, Rev
  <2> QED BY <1>3, <2>1 DEF Revision, Keys, Rev
<1>5. revs' = Append(revs, r) /\ heads' = heads \union {n}
  BY <1>2 DEF Pull
<1> HIDE DEF r
<1>6. /\ Committed' = Committed \union ({r.by} \ {Nobody})
      /\ Rev \subseteq Rev' /\ n \in Rev' /\ n # 0 /\ \A q \in Rev' : q \in Rev \/ q = n
      /\ revs'[n] = r /\ \A q \in Rev : revs'[q] = revs[q]
  BY <1>4, <1>5, Grown
<1> HIDE DEF n
<1>7. Committed' = Committed
  BY <1>4, <1>6
<1>8. UNCHANGED <<files, jnl, mir, lock, s, script, acked, known, kept, base>>
  BY DEF Pull
<1>9. Grows /\ Undisturbed(Nobody) /\ Nobody \notin Command
  BY <1>7, <1>8, CommandAssumption DEF Grows, Undisturbed, SameMarks
<1>10. \A d \in Command : WriterTrue(d)' /\ ReaderTrue(d)'
  BY <1>8, <1>9, OthersTrue
<1>11. \A p \in Path : Current(p)' = Current(p)
  BY <1>8 DEF Current
<1>12. FilesTrue'
  <2>1. \A q \in Rev' : OnlyMade(revs[q].state)'
    BY <1>1, <1>3, <1>4, <1>6, <1>7 DEF FilesTrue, OnlyMade
  <2>2. \A q \in Tips : q \in Tips' /\ revs'[q] = revs[q]
    BY <1>1, <1>5, <1>6, <1>8 DEF Tips, HistoryType, JournalOK
  <2> QED
    BY <1>1, <1>7, <1>8, <1>11, <2>1, <2>2 DEF FilesTrue, OnlyMade, Show, CurrentRows
<1>13. JournalTrue'
  BY <1>1, <1>6, <1>7, <1>8 DEF JournalTrue, JournalOK, Show
<1>14. MirrorTrue'
  BY <1>1, <1>7, <1>8, MirrorStays
<1> QED BY <1>10, <1>12, <1>13, <1>14 DEF Promised

\* An outside edit writes no command's mark and takes none away.
LEMMA EditTrue ==
  ASSUME Ordered, Promised, Edit
  PROVE  Promised'
<1> USE DEF ghosts
<1>1. DiskType /\ FilesTrue /\ JournalTrue /\ MirrorTrue
  BY DEF Ordered, TypeOK, Promised
<1>2. PICK p \in Path, m \in Marks : files' = [files EXCEPT ![p] = @ \union {m}]
  BY DEF Edit
<1>3. UNCHANGED <<revs, heads, jnl, mir, lock, s, script, acked, known, kept, base>>
  BY DEF Edit
<1>4. m \notin Command
  BY <1>2, MarkAssumption, CommandAssumption
<1>5. SameMarks(files', files)
  BY <1>1, <1>2, <1>4 DEF SameMarks, DiskType, State
<1>6. Committed' = Committed /\ Tips' = Tips /\ Rev' = Rev
  BY <1>3 DEF Committed, Tips, Rev
<1>7. Grows /\ Undisturbed(Nobody) /\ Nobody \notin Command
  BY <1>3, <1>5, <1>6, CommandAssumption DEF Grows, Undisturbed, SameMarks
<1>8. \A d \in Command : WriterTrue(d)' /\ ReaderTrue(d)'
  BY <1>3, <1>7, OthersTrue
<1>9. \A q \in Path, d \in Command : d \in Current(q)' <=> d \in Current(q)
  BY <1>3, <1>5 DEF Current, SameMarks
<1>10. Committed \subseteq Command
  BY MadeByCommands
<1>11. FilesTrue'
  <2>1. OnlyMade(files)'
    BY <1>1, <1>5, <1>6 DEF FilesTrue, OnlyMade, SameMarks
  <2>2. Show(CurrentRows, Committed)'
    BY <1>1, <1>3, <1>6, <1>9, <1>10 DEF FilesTrue, Show, CurrentRows
  <2> QED BY <1>1, <1>3, <1>6, <1>9, <2>1, <2>2 DEF FilesTrue, OnlyMade
<1>12. JournalTrue'
  <2>1. jnl.todo \subseteq Path
    BY <1>1 DEF DiskType, Change
  <2> QED BY <1>1, <1>3, <1>5, <1>6, <2>1 DEF JournalTrue, Show, SameMarks
<1>13. MirrorTrue'
  BY <1>1, <1>3, <1>6, MirrorStays
<1> QED BY <1>8, <1>11, <1>12, <1>13 DEF Promised

LEMMA StutterTrue ==
  ASSUME Ordered, Promised, UNCHANGED vars
  PROVE  Promised'
<1> USE DEF vars, disk, ghosts
<1>1. Committed' = Committed /\ Tips' = Tips /\ Rev' = Rev
  BY DEF Committed, Tips, Rev
<1>2. Grows /\ Undisturbed(Nobody) /\ Nobody \notin Command
  BY <1>1, CommandAssumption DEF Grows, Undisturbed, SameMarks
<1>3. \A d \in Command : WriterTrue(d)' /\ ReaderTrue(d)'
  BY <1>2, OthersTrue
<1>4. FilesTrue'
  BY <1>1 DEF Promised, FilesTrue, OnlyMade, Show, CurrentRows, Current
<1>5. JournalTrue' /\ MirrorTrue'
  BY <1>1 DEF Promised, JournalTrue, MirrorTrue, Show, Whole
<1> QED BY <1>3, <1>4, <1>5 DEF Promised

LEMMA InitTrue == Init => Promised
<1> SUFFICES ASSUME Init PROVE Promised
  OBVIOUS
<1> USE DEF Init
<1>1. Rev = {1} /\ Committed = {}
  BY DEF Rev, Committed
<1>2. /\ NoTxn.rev = 0 /\ NoTxn.todo = {} /\ NoTxn.writes = {}
      /\ \A p \in Path : Blank[p] = {}
  BY DEF NoTxn, Blank
<1>3. FilesTrue
  BY <1>1, <1>2 DEF FilesTrue, OnlyMade, Show, Current
<1>4. JournalTrue /\ MirrorTrue
  BY <1>1, <1>2 DEF JournalTrue, MirrorTrue, Show, Whole
<1>5. ASSUME NEW c \in Command
      PROVE  s[c].pc = "idle" /\ s[c].out = "none" /\ s[c].view = Nothing /\ base[c] = Nothing
             /\ known[c] = {}
  BY DEF Idle
<1>6. ASSUME NEW c \in Command PROVE WriterTrue(c) /\ ReaderTrue(c)
  BY <1>5 DEF WriterTrue, ReaderTrue, Observing, Changing, Finishing, Answered
<1> QED BY <1>3, <1>4, <1>6 DEF Promised

-----------------------------------------------------------------------------
(* What callers were told                                                  *)

LEMMA PromisesKept == Spec => [](Ordered /\ Promised)
<1>1. Ordered /\ Promised /\ [Next]_vars => Promised'
  <2> SUFFICES ASSUME Ordered, Promised, [Next]_vars PROVE Promised'
    OBVIOUS
  <2>1. ASSUME NEW c \in Command, Lock(c) \/ Reader(c) PROVE Promised'
    BY <2>1, LockTrue, ReadersTrue
  <2>2. ASSUME NEW c \in Command, Apply(c) PROVE Promised'
    BY <2>2, PlaceTrue, HeadsTrue, FinishTrue DEF Apply
  <2>3. ASSUME NEW c \in Command, Open(c) PROVE Promised'
    BY <2>3, OpenQuietTrue, ObserveTrue, VerdictTrue, AdoptTrue DEF Open
  <2>4. ASSUME NEW c \in Command, Transact(c) PROVE Promised'
    BY <2>4, PlanTrue, CommitTrue, KeepTrue, KeepVerdictTrue DEF Transact
  <2>5. ASSUME NEW c \in Command, Block(c) \/ Kill(c) PROVE Promised'
    BY <2>5, AroundTrue
  <2>6. CASE Edit \/ Pull
    BY <2>6, EditTrue, PullTrue
  <2>7. CASE UNCHANGED vars
    BY <2>7, StutterTrue
  <2> QED BY <2>1, <2>2, <2>3, <2>4, <2>5, <2>6, <2>7 DEF Next, Step
<1> QED BY InitTrue, KeepsOrder, <1>1, PTL DEF Spec

\* What a caller was told is made is in every file the change wrote, or about
\* to be placed there, or an outside edit was kept in its stead; and a reviewed
\* change is made of the rows that were reviewed (db.rs, transact and
\* expect_state; journal.rs, apply).
THEOREM NothingLost == Spec => []NoLostUpdate
<1>1. Ordered /\ Promised => NoLostUpdate
  <2> SUFFICES ASSUME Ordered, Promised PROVE NoLostUpdate
    OBVIOUS
  <2>1. \A c \in acked, p \in Path : c \in Current(p) \/ <<c, p>> \in kept
    BY DEF Promised, FilesTrue, MirrorTrue, Show, CurrentRows
  <2>2. AsReviewed
    BY DEF Promised, WriterTrue, AsReviewed
  <2> QED BY <2>1, <2>2 DEF NoLostUpdate
<1> QED BY <1>1, PromisesKept, PTL

\* History loses no revision, and tells of each change what the files do: a
\* change is in a file just when some head's state holds it, but for outside
\* edits that were kept (db.rs, adopt and transact; history.rs, prepare).
THEOREM HistoryTells == Spec => []HistoryTold
<1>1. Ordered /\ Promised => HistoryAgrees
  <2> SUFFICES ASSUME Ordered, Promised, NEW c \in Command, NEW p \in Path, <<c, p>> \notin kept
               PROVE  c \in Current(p) <=> \E r \in Tips : c \in revs[r].state[p]
    BY DEF HistoryAgrees
  <2>1. c \in Current(p) => \E r \in Tips : c \in revs[r].state[p]
    BY DEF Promised, FilesTrue
  <2>2. ASSUME NEW r \in Tips, c \in revs[r].state[p] PROVE c \in Current(p)
    <3>1. r \in Rev
      BY DEF Tips, Ordered, TypeOK, HistoryType, JournalOK
    <3>2. c \in Committed
      BY <2>2, <3>1 DEF Promised, FilesTrue, OnlyMade
    <3> QED BY <3>2 DEF Promised, FilesTrue, Show, CurrentRows
  <2> QED BY <2>1, <2>2
<1> QED BY <1>1, PromisesKept, HistoryStays, PTL DEF HistoryTold

\* An answer shows every change acknowledged before its command began, whether
\* it observed the folder, the mirror, or the files without the lock; and the
\* first two show no change by half (db.rs, open_as and open_snapshot).
THEOREM AnswersAreTrue == Spec => []AnsweredTruly
<1>1. Ordered /\ Promised => AnsweredTruly
  BY DEF Promised, ReaderTrue, AnsweredTruly, SeesAcknowledged, SeesWhole, Show, Whole
<1> QED BY <1>1, PromisesKept, PTL

=============================================================================
