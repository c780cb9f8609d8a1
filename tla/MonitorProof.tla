---------------------------- MODULE MonitorProof ----------------------------
(***************************************************************************)
(* The folder monitor and who asks it, however many files change, events   *)
(* are lost, monitors started and askers killed: a file that the mirror    *)
(* holds in an older version will be examined, and whoever opened the      *)
(* database holds every change made before it asked.                       *)
(***************************************************************************)
EXTENDS Monitor, SequenceTheorems, TLAPS

-----------------------------------------------------------------------------
(* Types                                                                   *)

Path == File \union {Other}
Event == Path \union {Rescan} \union Cookie
Mark == [epoch : Nat, token : Nat]
Request == [cookie : Cookie, since : Mark]
Changed == [now : Mark, whole : BOOLEAN, paths : SUBSET Path]

FolderType == ver \in [Path -> Nat] /\ queue \in Seq(Event)
LogType ==
  /\ running \in BOOLEAN /\ epoch \in Nat /\ logbase \in Nat /\ paths \in Seq(Path)
  /\ cookies \subseteq Cookie /\ request \in Request \union {NoRequest} /\ nepoch \in Nat
AskerType ==
  /\ mver \in [File -> Nat] /\ mark \in Mark
  /\ doing \in {"idle", "request", "wait", "broken", "answered", "examine", "stored"}
  /\ cookie \in Cookie \union {"none"} /\ used \subseteq Cookie /\ changes \in Changed
  /\ toread \subseteq File /\ found \in [File -> Nat \union {-1}] /\ asked \in [Path -> Nat]

\* Every variable has its type.
TypeOK == FolderType /\ LogType /\ AskerType

-----------------------------------------------------------------------------
(* The log and the queue                                                   *)

\* The paths the log holds since m.
Since(m) == {paths[i] : i \in (m.token - logbase + 1)..Len(paths)}

LEMMA ToSetOfSub ==
  ASSUME NEW S, NEW s \in Seq(S), NEW k \in 1..(Len(s) + 1)
  PROVE  ToSet(SubSeq(s, k, Len(s))) = {s[i] : i \in k..Len(s)}
<1> DEFINE t == SubSeq(s, k, Len(s))
<1>1. /\ t \in Seq(S) /\ Len(t) = Len(s) - k + 1
      /\ \A i \in 1..(Len(s) - k + 1) : t[i] = s[k + i - 1]
  <2>1. Len(s) \in Nat /\ \A i \in k..Len(s) : s[i] \in S
    OBVIOUS
  <2>2. /\ t \in Seq(S) /\ Len(t) = IF k <= Len(s) THEN Len(s) - k + 1 ELSE 0
        /\ \A i \in 1..(Len(s) - k + 1) : t[i] = s[k + i - 1]
    BY <2>1, SubSeqProperties
  <2>3. ~(k <= Len(s)) => Len(s) - k + 1 = 0
    BY <2>1
  <2> QED BY <2>2, <2>3
<1> HIDE DEF t
<1>2. DOMAIN t = 1..(Len(s) - k + 1)
  BY <1>1
<1>3. ASSUME NEW i \in DOMAIN t PROVE t[i] \in {s[j] : j \in k..Len(s)}
  <2>1. k + i - 1 \in k..Len(s)
    BY <1>2
  <2> QED BY <1>1, <1>2, <2>1
<1>4. ASSUME NEW j \in k..Len(s) PROVE s[j] \in {t[i] : i \in DOMAIN t}
  <2>1. j - k + 1 \in 1..(Len(s) - k + 1) /\ k + (j - k + 1) - 1 = j
    OBVIOUS
  <2> QED BY <1>1, <1>2, <2>1
<1> QED BY <1>3, <1>4 DEF ToSet, t

LEMMA AnswerSince ==
  ASSUME LogType, NEW m \in Mark, Reaches(m)
  PROVE  Answer(m) = [now |-> Now, whole |-> FALSE, paths |-> Since(m)]
<1>1. m.token - logbase + 1 \in 1..(Len(paths) + 1)
  BY DEF LogType, Mark, Reaches, Now
<1>2. ToSet(SubSeq(paths, m.token - logbase + 1, Len(paths))) = Since(m)
  BY <1>1, ToSetOfSub DEF LogType, Since
<1> QED BY <1>2 DEF Answer

LEMMA NowIsMark ==
  ASSUME LogType
  PROVE  Now \in Mark /\ Now.epoch = epoch /\ Now.token = logbase + Len(paths)
BY DEF LogType, Now, Mark

\* What is pushed is in the answer, and so is all that was, unless the log forgot it.
LEMMA Pushes ==
  ASSUME LogType, NEW e \in Path, Push(e)
  PROVE  /\ paths' \in Seq(Path) /\ logbase' \in Nat /\ epoch' = epoch /\ nepoch' = nepoch
         /\ Now.token <= Now.token'
         /\ \A m \in Mark : Reaches(m)' /\ m.token <= Now.token =>
              Reaches(m) /\ Since(m) \union {e} \subseteq Since(m)'
<1> DEFINE longer == Append(paths, e)
           n == Len(paths)
           forget == IF n + 1 > LogLimit THEN (n + 1) \div 2 ELSE 0
<1>1. /\ longer \in Seq(Path) /\ Len(longer) = n + 1 /\ n \in Nat
      /\ \A i \in 1..n : longer[i] = paths[i]
      /\ longer[n + 1] = e
  BY AppendProperties DEF LogType
<1>2. forget \in 0..(n + 1) /\ forget \in Nat
  <2>1. n \in Nat
    BY <1>1
  <2> HIDE DEF n
  <2>2. (n + 1) \div 2 \in 0..(n + 1)
    BY <2>1
  <2> QED BY <2>1, <2>2
<1>3. paths' = SubSeq(longer, forget + 1, n + 1) /\ logbase' = logbase + forget
      /\ UNCHANGED <<epoch, nepoch>>
  <2>1. Len(longer) = n + 1
    BY <1>1
  <2> QED BY <2>1 DEF Push
<1> HIDE DEF longer, forget
<1>4. /\ paths' \in Seq(Path) /\ Len(paths') = n + 1 - forget
      /\ \A i \in 1..(n + 1 - forget) : paths'[i] = longer[forget + i]
  <2> HIDE DEF n
  <2>1. /\ \A i \in (forget + 1)..(n + 1) : longer[i] \in Path
        /\ forget + 1 \in Int /\ n + 1 \in Int
    BY <1>1, <1>2
  <2> DEFINE lo == forget + 1
             hi == n + 1
  <2>2. lo \in Int /\ hi \in Int /\ \A i \in lo..hi : longer[i] \in Path
    BY <2>1
  <2>3. /\ n + 1 - forget = IF lo <= hi THEN hi - lo + 1 ELSE 0
        /\ \A i \in 1..(n + 1 - forget) : i \in 1..(hi - lo + 1) /\ lo + i - 1 = forget + i
    BY <1>1, <1>2
  <2>4. paths' = SubSeq(longer, lo, hi)
    BY <1>3
  <2> HIDE DEF lo, hi
  <2>5. /\ SubSeq(longer, lo, hi) \in Seq(Path)
        /\ Len(SubSeq(longer, lo, hi)) = IF lo <= hi THEN hi - lo + 1 ELSE 0
        /\ \A i \in 1..(hi - lo + 1) : SubSeq(longer, lo, hi)[i] = longer[lo + i - 1]
    BY <2>2, SubSeqProperties
  <2> QED BY <2>3, <2>4, <2>5
<1>5. logbase \in Nat /\ logbase' \in Nat
  BY <1>2, <1>3 DEF LogType
<1>6. Now.token = logbase + n /\ Now.token' = logbase + n + 1
  <2>1. Now.token' = logbase' + Len(paths')
    BY DEF Now
  <2> HIDE DEF n
  <2>2. Now.token = logbase + n
    BY DEF Now, n
  <2> QED BY <1>1, <1>2, <1>3, <1>4, <1>5, <2>1, <2>2
<1>7. ASSUME NEW m \in Mark, Reaches(m)', m.token <= Now.token
      PROVE  Reaches(m) /\ Since(m) \union {e} \subseteq Since(m)'
  <2>0. m.token \in Nat
    BY DEF Mark
  <2>1. m.epoch = epoch /\ m.token >= logbase + forget /\ m.token <= logbase + n
    BY <1>3, <1>6, <1>7 DEF Reaches
  <2> HIDE DEF n
  <2>2. Reaches(m)
    BY <1>2, <1>5, <1>6, <2>0, <2>1, <1>7 DEF Reaches
  <2>3. Since(m)' = {paths'[i] : i \in (m.token - logbase' + 1)..(n + 1 - forget)}
    BY <1>4 DEF Since
  <2>4. ASSUME NEW i \in (m.token - logbase + 1)..(n + 1) PROVE longer[i] \in Since(m)'
    <3>1. /\ i - forget \in (m.token - logbase' + 1)..(n + 1 - forget)
          /\ i - forget \in 1..(n + 1 - forget) /\ forget + (i - forget) = i
      <4>1. n \in Nat /\ forget \in Nat /\ forget <= n + 1 /\ logbase' = logbase + forget
        BY <1>1, <1>2, <1>3
      <4>2. i \in Int /\ m.token - logbase + 1 <= i /\ i <= n + 1 /\ logbase \in Nat
            /\ m.token \in Nat /\ m.token >= logbase + forget
        BY <1>5, <2>0, <2>1
      <4> QED BY <4>1, <4>2
    <3>2. paths'[i - forget] = longer[i]
      BY <1>4, <3>1
    <3> QED BY <2>3, <3>1, <3>2
  <2>5. e \in Since(m)'
    <3>1. n + 1 \in (m.token - logbase + 1)..(n + 1)
      BY <1>1, <1>5, <2>0, <2>1
    <3> QED BY <1>1, <2>4, <3>1
  <2>6. ASSUME NEW x \in Since(m) PROVE x \in Since(m)'
    <3>1. PICK i \in (m.token - logbase + 1)..n : x = paths[i]
      BY DEF Since, n
    <3>2. i \in 1..n /\ i \in (m.token - logbase + 1)..(n + 1)
      BY <1>1, <1>2, <1>5, <2>0, <2>1
    <3> QED BY <1>1, <2>4, <3>1, <3>2
  <2> QED BY <2>2, <2>5, <2>6
<1>8. Now.token <= Now.token'
  <2>1. n \in Nat
    BY <1>1
  <2> HIDE DEF n
  <2> QED BY <1>5, <1>6, <2>1
<1> QED BY <1>3, <1>4, <1>5, <1>7, <1>8

LEMMA Appended ==
  ASSUME NEW S, NEW s \in Seq(S), NEW e \in S
  PROVE  Append(s, e) \in Seq(S) /\ ToSet(Append(s, e)) = ToSet(s) \union {e}
<1> DEFINE t == Append(s, e)
<1>1. /\ t \in Seq(S) /\ Len(t) = Len(s) + 1 /\ t[Len(s) + 1] = e
      /\ \A i \in 1..Len(s) : t[i] = s[i]
  BY AppendProperties
<1> HIDE DEF t
<1>2. /\ DOMAIN t = 1..(Len(s) + 1) /\ DOMAIN s = 1..Len(s)
      /\ \A i \in 1..(Len(s) + 1) : i \in 1..Len(s) \/ i = Len(s) + 1
      /\ \A i \in 1..Len(s) : i \in 1..(Len(s) + 1)
      /\ Len(s) + 1 \in 1..(Len(s) + 1)
  BY <1>1
<1> QED BY <1>1, <1>2 DEF ToSet, t

LEMMA Delivered ==
  ASSUME NEW S, NEW s \in Seq(S), s # <<>>
  PROVE  /\ Tail(s) \in Seq(S) /\ Head(s) \in S /\ Head(s) = s[1] /\ Len(Tail(s)) = Len(s) - 1
         /\ Len(s) \in Nat \ {0} /\ \A i \in 1..(Len(s) - 1) : Tail(s)[i] = s[i + 1]
         /\ ToSet(s) \subseteq ToSet(Tail(s)) \union {Head(s)}
<1> DEFINE t == Tail(s)
<1>1. /\ t \in Seq(S) /\ Len(t) = Len(s) - 1 /\ Head(s) = s[1] /\ Head(s) \in S
      /\ \A i \in 1..Len(t) : t[i] = s[i + 1]
  BY HeadTailProperties
<1>2. Len(s) \in Nat \ {0}
  BY EmptySeq
<1> HIDE DEF t
<1>3. DOMAIN t = 1..(Len(s) - 1) /\ DOMAIN s = 1..Len(s)
  BY <1>1
<1>4. ASSUME NEW i \in DOMAIN s PROVE s[i] \in ToSet(t) \union {s[1]}
  <2>1. CASE i = 1
    BY <2>1
  <2>2. CASE i # 1
    <3>1. i - 1 \in DOMAIN t /\ (i - 1) + 1 = i
      BY <1>3, <2>2
    <3> QED BY <1>1, <1>3, <3>1 DEF ToSet
  <2> QED BY <2>1, <2>2
<1> QED BY <1>1, <1>2, <1>4 DEF ToSet, t

\* An event is queued, or the loss of one is; nothing that was queued is lost.
LEMMA Queues ==
  ASSUME queue \in Seq(Event), NEW e \in Event
  PROVE  /\ ~running => Queued(e) = queue
         /\ running => \/ Queued(e) = Append(queue, e)
                       \/ Queued(e) = queue /\ Rescan \in ToSet(queue)
                       \/ Queued(e) = Append(queue, Rescan)
         /\ Queued(e) \in Seq(Event) /\ ToSet(queue) \subseteq ToSet(Queued(e))
         /\ running => {e, Rescan} \intersect ToSet(Queued(e)) # {}
<1>1. Rescan \in Event
  BY DEF Event
<1>2. ASSUME running, ~(Len(queue) < QueueLimit), queue[Len(queue)] = Rescan
      PROVE  Queued(e) = queue /\ Rescan \in ToSet(queue)
  <2>1. Len(queue) \in DOMAIN queue
    BY <1>2, LimitAssumption
  <2> QED BY <1>2, <2>1 DEF Queued, ToSet
<1>3. running => \/ Queued(e) = Append(queue, e)
                 \/ Queued(e) = queue /\ Rescan \in ToSet(queue)
                 \/ Queued(e) = Append(queue, Rescan)
  BY <1>2 DEF Queued
<1>4. ~running => Queued(e) = queue
  BY DEF Queued
<1>5. /\ Append(queue, e) \in Seq(Event) /\ ToSet(Append(queue, e)) = ToSet(queue) \union {e}
      /\ Append(queue, Rescan) \in Seq(Event)
      /\ ToSet(Append(queue, Rescan)) = ToSet(queue) \union {Rescan}
  BY <1>1, Appended
<1> QED BY <1>3, <1>4, <1>5

-----------------------------------------------------------------------------
(* What is due since a mark                                                *)

\* Of what changed after m, nothing is forgotten unawares.
DueSince(m, p) ==
  \/ ~running \/ ~Reaches(m)
  \/ {p, Other} \intersect Since(m) # {}
  \/ {p, Rescan} \intersect ToSet(queue) # {}

\* m is of this log or of an earlier one.
Past(m) == m.epoch <= nepoch /\ (m.epoch = epoch => m.token <= Now.token)

\* The monitor starts, or starts its log again: no mark reaches so far.
LEMMA Restarted ==
  ASSUME LogType, NEW m \in Mark, Past(m), Restart
  PROVE  Past(m)' /\ ~Reaches(m)' /\ epoch' \in Nat /\ nepoch' \in Nat /\ logbase' \in Nat
         /\ paths' \in Seq(Path) /\ epoch' <= nepoch'
<1>1. m.epoch \in Nat /\ m.epoch <= nepoch /\ nepoch \in Nat
  BY DEF Mark, Past, LogType
<1>2. epoch' = nepoch + 1 /\ nepoch' = nepoch + 1 /\ logbase' = 0 /\ paths' = <<>>
  BY DEF Restart
<1>3. m.epoch # epoch' /\ m.epoch <= nepoch'
  BY <1>1, <1>2
<1> QED BY <1>1, <1>2, <1>3 DEF Past, Reaches

LEMMA SameLog ==
  ASSUME NEW m, NEW p, UNCHANGED <<epoch, logbase, paths, nepoch>>
  PROVE  /\ Past(m)' <=> Past(m)
         /\ Reaches(m)' <=> Reaches(m)
         /\ Since(m)' = Since(m)
         /\ Now' = Now
         /\ Answer(m)' = Answer(m)
         /\ (running' => running) /\ ToSet(queue) \subseteq ToSet(queue') /\ DueSince(m, p)
              => DueSince(m, p)'
BY DEF Past, Reaches, Since, Now, Answer, DueSince

\* An event is delivered.
LEMMA DeliverKeepsDue ==
  ASSUME FolderType, LogType, NEW m \in Mark, NEW p \in File,
         Past(m), Deliver
  PROVE  Past(m)' /\ (DueSince(m, p) => DueSince(m, p)')
<1> DEFINE e == Head(queue)
<1>1. /\ running /\ running' /\ queue' = Tail(queue) /\ e \in Event
      /\ ToSet(queue) \subseteq ToSet(queue') \union {e}
  BY Delivered DEF Deliver, FolderType
<1>2. CASE e = Rescan /\ Restart
  BY <1>2, Restarted DEF DueSince
<1>3. CASE e \in Cookie /\ UNCHANGED <<epoch, logbase, paths, nepoch>>
  <2>1. e # p /\ e # Rescan
    BY <1>3, NameAssumption
  <2>2. Past(m)' /\ (Reaches(m)' <=> Reaches(m)) /\ Since(m)' = Since(m)
    BY <1>3, SameLog
  <2> QED BY <1>1, <2>1, <2>2 DEF DueSince
<1>4. CASE e \in Path /\ Push(e)
  <2>1. /\ epoch' = epoch /\ nepoch' = nepoch /\ Now.token <= Now.token'
        /\ Reaches(m)' /\ m.token <= Now.token =>
             Reaches(m) /\ Since(m) \union {e} \subseteq Since(m)'
        /\ paths' \in Seq(Path) /\ logbase' \in Nat
    BY <1>4, Pushes
  <2>2. Past(m)'
    <3>1. Now.token \in Nat /\ Now.token' \in Nat /\ m.token \in Nat
      BY <2>1 DEF Now, LogType, Mark
    <3> QED BY <2>1, <3>1 DEF Past
  <2>3. ASSUME DueSince(m, p) PROVE DueSince(m, p)'
    <3>1. CASE ~Reaches(m)'
      BY <3>1 DEF DueSince
    <3>2. CASE Reaches(m)'
      <4>1. m.epoch = epoch
        BY <2>1, <3>2 DEF Reaches
      <4>2. Reaches(m) /\ Since(m) \union {e} \subseteq Since(m)'
        BY <2>1, <3>2, <4>1 DEF Past
      <4>3. e # Rescan
        BY <1>4, NameAssumption DEF Path
      <4> QED BY <1>1, <2>3, <4>2, <4>3 DEF DueSince
    <3> QED BY <3>1, <3>2
  <2> QED BY <2>2, <2>3
<1>5. \/ e = Rescan /\ Restart
      \/ e \in Cookie /\ UNCHANGED <<epoch, logbase, paths, nepoch>>
      \/ e \in Path /\ Push(e)
  BY DEF Deliver, Path
<1> QED BY <1>2, <1>3, <1>4, <1>5

-----------------------------------------------------------------------------
(* Types and turns are kept                                                *)

\* Who waits has asked since the mirror's mark, of a monitor that runs.
Turn ==
  /\ request # NoRequest => doing = "wait" /\ request = [cookie |-> cookie, since |-> mark]
  /\ doing \in {"request", "wait"} => running /\ cookie \in Cookie

Order == epoch <= nepoch /\ Past(mark) /\ Past(changes.now)

Base == TypeOK /\ Order /\ Turn

LEMMA NoChangesType == NoChanges \in Changed /\ NoChanges.now = Nowhere /\ NoChanges.whole
BY DEF NoChanges, Changed, Nowhere, Mark

\* Nowhere is a mark of no log, or of the one nothing was put in.
LEMMA NowhereBefore == ASSUME LogType PROVE Past(Nowhere)
<1>1. logbase + Len(paths) \in Nat
  BY DEF LogType
<1> QED BY <1>1 DEF Nowhere, Past, Now, LogType

LEMMA AnswerType ==
  ASSUME LogType, NEW m \in Mark
  PROVE  Answer(m) \in Changed /\ Answer(m).now = Now
<1>1. Now \in Mark
  BY NowIsMark
<1>2. CASE Reaches(m)
  <2>1. Since(m) \subseteq Path
    <3> SUFFICES ASSUME NEW i \in (m.token - logbase + 1)..Len(paths) PROVE paths[i] \in Path
      BY DEF Since
    <3>1. i \in 1..Len(paths)
      BY <1>2 DEF Reaches, LogType, Mark
    <3> QED BY <3>1 DEF LogType
  <2>2. Answer(m) = [now |-> Now, whole |-> FALSE, paths |-> Since(m)]
    BY <1>2, AnswerSince
  <2> DEFINE n == Now
             S == Since(m)
  <2>3. n \in Mark /\ S \in SUBSET Path
    BY <1>1, <2>1
  <2> HIDE DEF n, S
  <2>4. [now |-> n, whole |-> FALSE, paths |-> S] \in Changed
    BY <2>3 DEF Changed
  <2> QED BY <2>2, <2>4 DEF n, S
<1>3. CASE ~Reaches(m)
  BY <1>1, <1>3 DEF Answer, Changed
<1> QED BY <1>2, <1>3

LEMMA NowPast == ASSUME LogType, epoch <= nepoch PROVE Past(Now)
<1>1. Now.token \in Nat /\ Now.epoch = epoch
  BY NowIsMark DEF Mark
<1> QED BY <1>1 DEF Past

LEMMA ForgetKeeps ==
  ASSUME AskerType, Forget
  PROVE  /\ doing' = "idle" /\ cookie' \in Cookie \union {"none"} /\ changes' \in Changed
         /\ toread' \subseteq File /\ found' \in [File -> Nat \union {-1}]
         /\ asked' \in [Path -> Nat] /\ changes'.now = Nowhere
  BY NoChangesType DEF Forget, NotFound, Unasked, Path

LEMMA StepBase ==
  ASSUME Base, MonitorNext \/ UNCHANGED monitorVars
  PROVE  Base'
<1>0. FolderType /\ LogType /\ AskerType /\ mark \in Mark /\ changes.now \in Mark
  BY DEF Base, TypeOK, AskerType, Changed
<1>1. ASSUME NEW p \in Path, Change(p) PROVE Base'
  <2>1. p \in Event
    BY DEF Event
  <2>2. FolderType'
    BY <1>0, <1>1, <2>1, Queues DEF Change, FolderType
  <2>3. UNCHANGED <<monitor, mirror, asker, nepoch>>
    BY <1>1 DEF Change
  <2>4. LogType' /\ AskerType' /\ Turn'
    BY <1>0, <2>3 DEF LogType, AskerType, Turn, Base, monitor, mirror, asker
  <2>5. Order'
    BY <2>3 DEF Base, Order, Past, Now, monitor, mirror, asker
  <2> QED BY <2>2, <2>4, <2>5 DEF Base, TypeOK
<1>2. ASSUME Start PROVE Base'
  <2>1. Restart /\ UNCHANGED <<ver, queue, mirror, asker>> /\ running' /\ cookies' = {} /\ request' = NoRequest
    BY <1>2 DEF Start
  <2>2. epoch' \in Nat /\ nepoch' \in Nat /\ logbase' \in Nat /\ paths' \in Seq(Path)
        /\ epoch' <= nepoch'
    BY <1>0, <2>1, Restarted DEF Base, Order
  <2>3. Past(mark)' /\ Past(changes.now)'
    <3>1. \A m \in Mark : Past(m) => Past(m)'
      BY <1>0, <2>1, Restarted
    <3> QED BY <1>0, <2>1, <3>1 DEF Base, Order, asker, mirror
  <2>4. LogType'
    BY <2>1, <2>2, <1>2 DEF LogType, Start
  <2>5. FolderType' /\ AskerType'
    BY <1>0, <2>1 DEF FolderType, AskerType, mirror, asker
  <2>6. Turn'
    BY <2>1, <1>2 DEF Turn, Base, Start, asker
  <2> QED BY <2>2, <2>3, <2>4, <2>5, <2>6 DEF Base, TypeOK, Order
<1>3. ASSUME Stop PROVE Base'
  <2>1. /\ running' = FALSE /\ queue' = <<>> /\ request' = NoRequest
        /\ doing' = IF doing \in {"request", "wait"} THEN "broken" ELSE doing
        /\ UNCHANGED <<ver, epoch, logbase, paths, cookies, mirror, cookie, used, changes, toread,
                       found, asked, asks, nepoch>>
    BY <1>3 DEF Stop
  <2>2. queue' \in Seq(Event)
    BY <2>1
  <2>3. TypeOK'
    BY <1>0, <2>1, <2>2 DEF TypeOK, FolderType, LogType, AskerType, mirror
  <2>4. Turn'
    BY <1>0, <2>1 DEF Turn, AskerType
  <2>5. Order'
    BY <2>1 DEF Base, Order, Past, Now, mirror
  <2> QED BY <2>3, <2>4, <2>5 DEF Base
<1>4. ASSUME Deliver PROVE Base'
  <2>1. /\ queue # <<>> /\ queue' = Tail(queue) /\ UNCHANGED <<ver, running, request, mirror, asker>>
    BY <1>4 DEF Deliver
  <2>2. FolderType'
    BY <1>0, <2>1, Delivered DEF FolderType
  <2>3. /\ epoch' \in Nat /\ nepoch' \in Nat /\ logbase' \in Nat /\ paths' \in Seq(Path)
        /\ cookies' \subseteq Cookie /\ epoch' <= nepoch'
    <3>1. CASE Restart /\ UNCHANGED cookies
      BY <1>0, <3>1, Restarted DEF Base, Order, LogType
    <3>2. CASE Head(queue) \in Cookie /\ cookies' = cookies \union {Head(queue)}
               /\ UNCHANGED <<epoch, logbase, paths, nepoch>>
      BY <1>0, <3>2 DEF Base, Order, LogType
    <3>3. CASE Head(queue) \in Path /\ Push(Head(queue)) /\ UNCHANGED cookies
      BY <1>0, <3>3, Pushes DEF Base, Order, LogType
    <3> QED BY <1>4, <3>1, <3>2, <3>3 DEF Deliver, Path
  <2>4. LogType' /\ AskerType' /\ Turn'
    BY <1>0, <2>1, <2>3 DEF LogType, AskerType, Turn, Base, mirror, asker
  <2>5. Order'
    <3>1. ASSUME NEW m \in Mark, Past(m) PROVE Past(m)'
      <4>1. CASE Restart
        BY <1>0, <3>1, <4>1, Restarted
      <4>2. CASE UNCHANGED <<epoch, logbase, paths, nepoch>>
        BY <3>1, <4>2, SameLog
      <4>3. CASE Head(queue) \in Path /\ Push(Head(queue))
        <5>1. /\ epoch' = epoch /\ nepoch' = nepoch /\ Now.token <= Now.token'
          BY <1>0, <4>3, Pushes
        <5>2. Now.token \in Nat /\ Now.token' \in Nat /\ m.token \in Nat
          BY <1>0, <2>4, NowIsMark DEF Mark, Now, LogType
        <5> QED BY <3>1, <5>1, <5>2 DEF Past
      <4> QED BY <1>4, <4>1, <4>2, <4>3 DEF Deliver, Path
    <3>2. UNCHANGED <<mark, changes>>
      BY <2>1 DEF mirror, asker
    <3> QED BY <1>0, <2>3, <3>1, <3>2 DEF Base, Order
  <2> QED BY <2>2, <2>4, <2>5 DEF Base, TypeOK
<1>5. ASSUME Reply \/ TimeOut PROVE Base'
  <2>1. /\ cookies' \subseteq cookies /\ request' = NoRequest /\ doing' = "answered"
        /\ UNCHANGED <<ver, queue, running, epoch, logbase, paths, mirror, cookie, used, toread,
                       found, asked, asks, nepoch>>
    BY <1>5 DEF Reply, TimeOut
  <2>2. changes' \in Changed /\ changes'.now = Now
    <3>1. request.since \in Mark
      BY <1>0 DEF LogType, Request, NoRequest, Nowhere, Mark
    <3>2. CASE Reply
      BY <1>0, <3>1, <3>2, AnswerType DEF Reply
    <3>3. CASE TimeOut
      BY <1>0, <3>3, NowIsMark DEF TimeOut, Changed
    <3> QED BY <1>5, <3>2, <3>3
  <2>3. TypeOK'
    BY <1>0, <2>1, <2>2 DEF TypeOK, FolderType, LogType, AskerType, mirror
  <2>4. Turn'
    BY <2>1 DEF Turn
  <2>5. Order'
    <3>1. Past(Now) /\ Past(mark) /\ epoch <= nepoch
      BY <1>0, NowPast DEF Base, Order
    <3>2. \A m \in Mark : Past(m) => Past(m)'
      BY <2>1 DEF Past, Now
    <3>3. Now \in Mark
      BY <1>0, NowIsMark
    <3> QED BY <1>0, <2>1, <2>2, <3>1, <3>2, <3>3 DEF Order, mirror
  <2> QED BY <2>3, <2>4, <2>5 DEF Base
<1>6. ASSUME Connect PROVE Base'
  <2>1. PICK k \in Cookie : cookie' = k /\ used' = used \union {k} /\ queue' = Queued(k)
    BY <1>6 DEF Connect
  <2>2. /\ running /\ doing = "idle" /\ doing' = "request" /\ asked' = ver
        /\ UNCHANGED <<ver, monitor, mirror, changes, toread, found, nepoch>>
    BY <1>6 DEF Connect
  <2>3. k \in Event
    BY DEF Event
  <2>4. FolderType'
    BY <1>0, <2>1, <2>2, <2>3, Queues DEF FolderType
  <2>5. LogType' /\ AskerType'
    BY <1>0, <2>1, <2>2 DEF LogType, AskerType, FolderType, monitor, mirror
  <2>6. Turn'
    BY <2>1, <2>2 DEF Turn, Base, monitor
  <2>7. Order'
    BY <2>2 DEF Base, Order, Past, Now, monitor, mirror
  <2> QED BY <2>4, <2>5, <2>6, <2>7 DEF Base, TypeOK
<1>7. ASSUME Unwatched \/ Broken PROVE Base'
  <2>1. /\ doing \in {"idle", "broken"} /\ doing' = "answered" /\ changes' = NoChanges
        /\ UNCHANGED <<ver, queue, monitor, mirror, cookie, used, toread, found, nepoch>>
        /\ asked' \in {ver, asked}
    BY <1>7 DEF Unwatched, Broken
  <2>2. TypeOK'
    BY <1>0, <2>1, NoChangesType DEF TypeOK, FolderType, LogType, AskerType, monitor, mirror
  <2>3. Turn'
    BY <2>1 DEF Turn, Base, monitor
  <2>4. Order'
    <3>1. Past(Nowhere) /\ Past(mark) /\ epoch <= nepoch
      BY <1>0, NowhereBefore DEF Base, Order
    <3>2. \A m \in Mark : Past(m) => Past(m)'
      BY <2>1 DEF Past, Now, monitor
    <3>3. Nowhere \in Mark
      BY DEF Nowhere, Mark
    <3> QED BY <1>0, <2>1, <3>1, <3>2, <3>3, NoChangesType DEF Order, monitor, mirror
  <2> QED BY <2>2, <2>3, <2>4 DEF Base
<1>8. ASSUME Send PROVE Base'
  <2>1. cookie \in Cookie /\ running
    BY <1>8 DEF Send, Base, Turn
  <2>2. TypeOK'
    BY <1>0, <1>8, <2>1 DEF Send, TypeOK, FolderType, LogType, AskerType, Request, mirror
  <2>3. Turn'
    BY <1>8, <2>1 DEF Send, Turn, mirror
  <2>4. Order'
    BY <1>8 DEF Send, Base, Order, Past, Now, mirror
  <2> QED BY <2>2, <2>3, <2>4 DEF Base
<1>9. ASSUME Examine \/ ExamineFile PROVE Base'
  <2>1. /\ doing \in {"answered", "examine"} /\ doing' = "examine"
        /\ UNCHANGED <<ver, queue, monitor, mirror, cookie, used, changes, asked, asks, nepoch>>
    BY <1>9 DEF Examine, ExamineFile
  <2>2. toread' \subseteq File /\ found' \in [File -> Nat \union {-1}]
    <3>1. CASE Examine
      <4>1. changes.paths \subseteq Path
        BY <1>0 DEF AskerType, Changed
      <4> QED BY <3>1, <4>1 DEF Examine, NotFound, Path
    <3>2. CASE ExamineFile
      BY <1>0, <3>2 DEF ExamineFile, AskerType, FolderType, Path
    <3> QED BY <1>9, <3>1, <3>2
  <2>3. TypeOK'
    BY <1>0, <2>1, <2>2 DEF TypeOK, FolderType, LogType, AskerType, monitor, mirror
  <2>4. Turn'
    BY <2>1 DEF Turn, Base, monitor
  <2>5. Order'
    BY <2>1 DEF Base, Order, Past, Now, monitor, mirror
  <2> QED BY <2>3, <2>4, <2>5 DEF Base
<1>10. ASSUME Store PROVE Base'
  <2>1. /\ doing = "examine" /\ doing' = "stored" /\ mark' = changes.now
        /\ mver' = [p \in File |-> IF found[p] < 0 THEN mver[p] ELSE found[p]]
        /\ UNCHANGED <<ver, queue, monitor, cookie, used, changes, toread, found, asked, asks, nepoch>>
    BY <1>10 DEF Store
  <2>2. mver' \in [File -> Nat]
    <3> SUFFICES ASSUME NEW p \in File PROVE (IF found[p] < 0 THEN mver[p] ELSE found[p]) \in Nat
      BY <2>1
    <3>1. found[p] \in Nat \union {-1} /\ mver[p] \in Nat
      BY <1>0 DEF AskerType
    <3> QED BY <3>1
  <2>3. TypeOK'
    BY <1>0, <2>1, <2>2 DEF TypeOK, FolderType, LogType, AskerType, monitor
  <2>4. Turn'
    BY <2>1 DEF Turn, Base, monitor
  <2>5. Order'
    BY <2>1 DEF Base, Order, Past, Now, monitor
  <2> QED BY <2>3, <2>4, <2>5 DEF Base
<1>11. ASSUME Close \/ KillAsker PROVE Base'
  <2>1. /\ Forget /\ request' \in {request, NoRequest} /\ (Close => doing = "stored")
        /\ (KillAsker => request' = NoRequest)
        /\ UNCHANGED <<ver, queue, running, epoch, logbase, paths, cookies, mirror, used, nepoch>>
    BY <1>11 DEF Close, KillAsker, monitor
  <2>2. TypeOK'
    BY <1>0, <2>1, ForgetKeeps DEF TypeOK, FolderType, LogType, AskerType, mirror
  <2>3. request' = NoRequest
    BY <1>11, <2>1 DEF Base, Turn
  <2>4. Turn'
    BY <1>0, <2>1, <2>3, ForgetKeeps DEF Turn
  <2>5. Order'
    <3>1. Past(Nowhere) /\ Past(mark) /\ epoch <= nepoch
      BY <1>0, NowhereBefore DEF Base, Order
    <3>2. \A m \in Mark : Past(m) => Past(m)'
      BY <2>1 DEF Past, Now
    <3>3. Nowhere \in Mark /\ changes'.now = Nowhere
      BY <1>0, <2>1, ForgetKeeps DEF Nowhere, Mark
    <3> QED BY <1>0, <2>1, <3>1, <3>2, <3>3 DEF Order, mirror
  <2> QED BY <2>2, <2>4, <2>5 DEF Base
<1>12. ASSUME UNCHANGED monitorVars PROVE Base'
  BY <1>12 DEF monitorVars, monitor, mirror, asker, Base, TypeOK, FolderType, LogType, AskerType,
               Order, Past, Now, Turn
<1> QED BY <1>1, <1>2, <1>3, <1>4, <1>5, <1>6, <1>7, <1>8, <1>9, <1>10, <1>11, <1>12
       DEF MonitorNext, Serve, Ask, Path

-----------------------------------------------------------------------------
(* What changed is accounted for                                           *)

\* What is due since a mark stays due, whatever happens.
LEMMA DueStays ==
  ASSUME Base, MonitorNext \/ UNCHANGED monitorVars, NEW m \in Mark, Past(m), NEW p \in File,
         DueSince(m, p)
  PROVE  DueSince(m, p)'
<1>0. FolderType /\ LogType
  BY DEF Base, TypeOK
<1>1. CASE Start
  BY <1>0, <1>1, Restarted DEF Start, DueSince
<1>2. CASE Stop
  BY <1>2 DEF Stop, DueSince
<1>3. CASE Deliver
  BY <1>0, <1>3, DeliverKeepsDue
<1>4. CASE UNCHANGED <<epoch, logbase, paths, nepoch, running>> /\ ToSet(queue) \subseteq ToSet(queue')
  BY <1>4, SameLog
<1>5. ASSUME NEW e \in Event, queue' = Queued(e) PROVE ToSet(queue) \subseteq ToSet(queue')
  BY <1>0, <1>5, Queues DEF FolderType
<1>6. ASSUME NEW q \in Path, Change(q)
      PROVE  UNCHANGED <<epoch, logbase, paths, nepoch, running>> /\ ToSet(queue) \subseteq ToSet(queue')
  BY <1>5, <1>6 DEF Change, monitor, Event
<1>7. ASSUME Connect
      PROVE  UNCHANGED <<epoch, logbase, paths, nepoch, running>> /\ ToSet(queue) \subseteq ToSet(queue')
  BY <1>5, <1>7 DEF Connect, monitor, Event
<1>8. ASSUME \/ Reply \/ TimeOut \/ Unwatched \/ Send \/ Broken \/ Examine \/ ExamineFile
             \/ Store \/ Close \/ KillAsker \/ UNCHANGED monitorVars
      PROVE  UNCHANGED <<epoch, logbase, paths, nepoch, running>> /\ ToSet(queue) \subseteq ToSet(queue')
  BY <1>8 DEF Reply, TimeOut, Unwatched, Send, Broken, Examine, ExamineFile, Store, Close, KillAsker,
              monitorVars, monitor
<1> QED BY <1>1, <1>2, <1>3, <1>4, <1>6, <1>7, <1>8 DEF MonitorNext, Serve, Ask, Path

\* The asker will store what p is now, or the log since the mark it will store tells.
Held(p) ==
  /\ doing = "answered" =>
       \/ DueSince(changes.now, p)
       \/ changes.whole \/ {p, Other} \intersect changes.paths # {} \/ mver[p] = ver[p]
  /\ doing = "examine" =>
       \/ DueSince(changes.now, p)
       \/ p \in toread \/ found[p] = ver[p] \/ (found[p] = -1 /\ mver[p] = ver[p])
  /\ mver[p] = ver[p] \/ DueSince(mark, p)

Kept == Base /\ \A p \in File : Held(p)

\* An answer since the mark names what the mirror lacks, or it is still to come.
LEMMA AnswerHeld ==
  ASSUME Base, NEW p \in File, Held(p), request # NoRequest
  PROVE  \/ DueSince(Now, p)
         \/ Answer(mark).whole \/ {p, Other} \intersect Answer(mark).paths # {}
         \/ mver[p] = ver[p]
<1>1. running /\ LogType /\ mark \in Mark
  BY DEF Base, Turn, TypeOK, AskerType
<1>2. CASE ~Reaches(mark)
  BY <1>2 DEF Answer
<1>3. CASE Reaches(mark)
  BY <1>1, <1>3, AnswerSince DEF Held, DueSince
<1> QED BY <1>2, <1>3

LEMMA StepHeld ==
  ASSUME Kept, MonitorNext \/ UNCHANGED monitorVars, NEW p \in File
  PROVE  Held(p)'
<1>0. /\ Base /\ Held(p) /\ mark \in Mark /\ changes.now \in Mark /\ Past(mark) /\ Past(changes.now)
      /\ p \in Path /\ FolderType /\ LogType /\ AskerType
  BY DEF Kept, Base, TypeOK, AskerType, Changed, Order, Path
<1>1. DueSince(mark, p) => \A m : m = mark => DueSince(m, p)'
  BY <1>0, DueStays
<1>2. DueSince(changes.now, p) => \A m : m = changes.now => DueSince(m, p)'
  BY <1>0, DueStays
<1>3. CASE /\ UNCHANGED <<ver, mver, mark, changes, toread, found>>
           /\ doing' = doing \/ doing' \notin {"answered", "examine"}
  <2>1. DueSince(mark, p) => DueSince(mark, p)'
    BY <1>1, <1>3
  <2>2. DueSince(changes.now, p) => DueSince(changes.now, p)'
    BY <1>2, <1>3
  <2> QED BY <1>0, <1>3, <2>1, <2>2 DEF Held
<1>4. ASSUME NEW q \in Path, Change(q) PROVE Held(p)'
  <2>1. UNCHANGED <<monitor, mver, mark, doing, changes, toread, found>> /\ ver' = [ver EXCEPT ![q] = @ + 1]
        /\ queue' = Queued(q)
    BY <1>4 DEF Change, mirror, asker
  <2>2. DueSince(mark, p) => DueSince(mark, p)'
    BY <1>1, <2>1
  <2>3. DueSince(changes.now, p) => DueSince(changes.now, p)'
    BY <1>2, <2>1
  <2>4. CASE q # p
    <3>1. ver'[p] = ver[p]
      BY <1>0, <2>1, <2>4 DEF FolderType
    <3> QED BY <1>0, <2>1, <2>2, <2>3, <3>1 DEF Held
  <2>5. CASE q = p
    <3>1. \A m : DueSince(m, p)'
      <4>1. p \in Event
        BY <1>0 DEF Event
      <4>2. running => {p, Rescan} \intersect ToSet(queue') # {}
        BY <1>0, <2>1, <2>5, <4>1, Queues DEF FolderType
      <4>3. running' = running
        BY <2>1 DEF monitor
      <4> QED BY <4>2, <4>3 DEF DueSince
    <3> QED BY <3>1 DEF Held
  <2> QED BY <2>4, <2>5
<1>5. ASSUME Reply PROVE Held(p)'
  <2>1. request # NoRequest /\ request.since = mark
    <3>1. request.cookie \in Cookie /\ NoRequest.cookie \notin Cookie
      BY <1>0, <1>5, NameAssumption DEF Reply, LogType, NoRequest
    <3>2. request # NoRequest
      BY <3>1
    <3> QED BY <1>0, <3>2 DEF Base, Turn
  <2>2. /\ changes' = Answer(mark) /\ doing' = "answered"
        /\ UNCHANGED <<ver, queue, running, epoch, logbase, paths, nepoch, mver, mark>>
    BY <1>5, <2>1 DEF Reply, mirror
  <2>3. changes'.now = Now
    BY <1>0, <2>2, AnswerType
  <2>4. ASSUME NEW n, n = Now, DueSince(n, p) PROVE DueSince(n, p)'
    BY <2>2, <2>4, SameLog
  <2>5. DueSince(Now, p) => DueSince(changes.now, p)'
    BY <2>3, <2>4
  <2>6. DueSince(mark, p) => DueSince(mark, p)'
    BY <1>1, <2>2
  <2>7. mver[p] = ver[p] \/ DueSince(mark, p)'
    BY <1>0, <2>6 DEF Held
  <2> QED BY <1>0, <2>1, <2>2, <2>5, <2>7, AnswerHeld DEF Held
<1>6. ASSUME TimeOut \/ Unwatched \/ Broken PROVE Held(p)'
  <2>1. changes'.whole /\ doing' = "answered" /\ UNCHANGED <<ver, mver, mark>>
    BY <1>6, NoChangesType DEF TimeOut, Unwatched, Broken, mirror
  <2>2. DueSince(mark, p) => DueSince(mark, p)'
    BY <1>1, <2>1
  <2> QED BY <1>0, <2>1, <2>2 DEF Held
<1>7. ASSUME Examine PROVE Held(p)'
  <2>1. /\ doing = "answered" /\ doing' = "examine" /\ found' = NotFound
        /\ toread' = IF changes.whole \/ Other \in changes.paths THEN File ELSE changes.paths
        /\ UNCHANGED <<ver, mver, mark, changes>>
    BY <1>7 DEF Examine, mirror
  <2>2. DueSince(mark, p) => DueSince(mark, p)'
    BY <1>1, <2>1
  <2>3. DueSince(changes.now, p) => DueSince(changes.now, p)'
    BY <1>2, <2>1
  <2>4. found'[p] = -1
    BY <2>1 DEF NotFound
  <2> QED BY <1>0, <2>1, <2>2, <2>3, <2>4 DEF Held
<1>8. ASSUME ExamineFile PROVE Held(p)'
  <2>1. PICK q \in toread : toread' = toread \ {q} /\ found' = [found EXCEPT ![q] = ver[q]]
    BY <1>8 DEF ExamineFile
  <2>2. doing = "examine" /\ doing' = "examine" /\ UNCHANGED <<ver, mver, mark, changes>>
    BY <1>8 DEF ExamineFile, mirror
  <2>3. DueSince(mark, p) => DueSince(mark, p)'
    BY <1>1, <2>2
  <2>4. DueSince(changes.now, p) => DueSince(changes.now, p)'
    BY <1>2, <2>2
  <2>5. IF p = q THEN found'[p] = ver[p] ELSE found'[p] = found[p] /\ (p \in toread => p \in toread')
    BY <1>0, <2>1 DEF AskerType
  <2> QED BY <1>0, <2>2, <2>3, <2>4, <2>5 DEF Held
<1>9. ASSUME Store PROVE Held(p)'
  <2>1. /\ doing = "examine" /\ doing' = "stored" /\ mark' = changes.now /\ toread = {}
        /\ mver' = [r \in File |-> IF found[r] < 0 THEN mver[r] ELSE found[r]]
        /\ UNCHANGED <<ver, changes>>
    BY <1>9 DEF Store
  <2>2. DueSince(changes.now, p) => DueSince(mark, p)'
    BY <1>2, <2>1
  <2>3. found[p] = ver[p] => mver'[p] = ver[p]
    <3>1. ver[p] \in Nat
      BY <1>0 DEF FolderType
    <3> QED BY <2>1, <3>1
  <2>4. found[p] = -1 => mver'[p] = mver[p]
    BY <2>1
  <2> QED BY <1>0, <2>1, <2>2, <2>3, <2>4 DEF Held
<1>10. ASSUME Close \/ KillAsker PROVE Held(p)'
  <2>1. doing' = "idle" /\ UNCHANGED <<ver, mver, mark>>
    BY <1>10 DEF Close, KillAsker, Forget, mirror
  <2>2. DueSince(mark, p) => DueSince(mark, p)'
    BY <1>1, <2>1
  <2> QED BY <1>0, <2>1, <2>2 DEF Held
<1>11. ASSUME Start \/ Stop \/ Deliver \/ Connect \/ Send \/ UNCHANGED monitorVars
       PROVE  /\ UNCHANGED <<ver, mver, mark, changes, toread, found>>
              /\ doing' = doing \/ doing' \notin {"answered", "examine"}
  BY <1>11 DEF Start, Stop, Deliver, Connect, Send, monitorVars, mirror, asker
<1> QED BY <1>3, <1>4, <1>5, <1>6, <1>7, <1>8, <1>9, <1>10, <1>11 DEF MonitorNext, Serve, Ask, Path

LEMMA InitBase == MonitorInit => Base
<1> SUFFICES ASSUME MonitorInit PROVE Base
  OBVIOUS
<1>1. FolderType
  BY DEF MonitorInit, FolderType, Path
<1>2. LogType
  <2>1. paths \in Seq(Path)
    BY DEF MonitorInit
  <2>2. running \in BOOLEAN /\ epoch \in Nat /\ logbase \in Nat /\ nepoch \in Nat
    BY DEF MonitorInit
  <2>3. cookies \subseteq Cookie /\ request \in {NoRequest}
    BY DEF MonitorInit
  <2> QED BY <2>1, <2>2, <2>3 DEF LogType
<1>3. AskerType
  BY NoChangesType DEF MonitorInit, AskerType, NotFound, Unasked, Path, Nowhere, Mark
<1>4. Order
  BY <1>2, NoChangesType, NowhereBefore DEF MonitorInit, Order
<1>5. Turn
  BY DEF MonitorInit, Turn
<1> QED BY <1>1, <1>2, <1>3, <1>4, <1>5 DEF Base, TypeOK

\* Whatever the log has forgotten and the queue has lost, and whenever monitors and
\* askers are stopped, killed or started, a file that the mirror holds in an older
\* version will be examined (Log::push, Log::answer, Catalog::refresh).
THEOREM ChangesAreDue == MonitorSpec => []Accounted
<1>1. MonitorInit => Kept
  BY InitBase DEF MonitorInit, Kept, Held, Path
<1>2. Kept /\ [MonitorNext]_monitorVars => Kept'
  BY StepBase, StepHeld DEF Kept
<1>3. Kept => Accounted
  <2> SUFFICES ASSUME Kept, NEW p \in File, DueSince(mark, p), Reaches(mark)
               PROVE  \/ ~running
                      \/ {p, Other} \intersect Answer(mark).paths # {}
                      \/ {p, Rescan} \intersect ToSet(queue) # {}
    BY DEF Kept, Held, Accounted, Due
  <2>1. LogType /\ mark \in Mark
    BY DEF Kept, Base, TypeOK, AskerType
  <2> QED BY <2>1, AnswerSince DEF DueSince
<1> QED BY <1>1, <1>2, <1>3, PTL DEF MonitorSpec

-----------------------------------------------------------------------------
(* The answer waits for the cookie                                         *)

\* No process gets the number of an earlier one.
CookiesUnique == ~Reuse

\* The answer since m names p, or that it names nothing.
Told(m, p) == ~Reaches(m) \/ {p, Other} \intersect Since(m) # {}

\* What is queued before the asker's cookie tells of p.
Before(p) ==
  \E i \in 1..Len(queue) : /\ queue[i] \in {p, Rescan}
                           /\ \A j \in 1..Len(queue) : queue[j] = cookie => i < j

\* A cookie that is on its way or seen was used.
Fresh == cookies \subseteq used /\ ToSet(queue) \intersect Cookie \subseteq used
         /\ cookie \in used \union {"none"}

\* Whoever asked will have all that p was then.
Waits(p) ==
  /\ asked[p] <= ver[p]
  /\ doing \in {"request", "wait"} =>
       \/ mver[p] >= asked[p] \/ Told(mark, p)
       \/ cookie \notin cookies /\ Before(p)
  /\ doing = "answered" =>
       changes.whole \/ {p, Other} \intersect changes.paths # {} \/ mver[p] >= asked[p]
  /\ doing = "examine" =>
       p \in toread \/ found[p] >= asked[p] \/ (found[p] = -1 /\ mver[p] >= asked[p])
  /\ doing = "stored" => mver[p] >= asked[p]

Waiting == Kept /\ Fresh /\ \A p \in File : Waits(p)

LEMMA DeliverTold ==
  ASSUME FolderType, LogType, NEW m \in Mark, NEW p \in File, Past(m), Deliver
  PROVE  /\ Told(m, p) => Told(m, p)'
         /\ Head(queue) \in {p, Rescan} => Told(m, p)'
<1> DEFINE e == Head(queue)
<1>1. CASE e = Rescan /\ Restart
  BY <1>1, Restarted DEF Told
<1>2. CASE e \in Cookie /\ UNCHANGED <<epoch, logbase, paths, nepoch>>
  <2>1. e # p /\ e # Rescan
    BY <1>2, NameAssumption
  <2> QED BY <1>2, <2>1, SameLog DEF Told
<1>3. CASE e \in Path /\ Push(e)
  <2>1. /\ epoch' = epoch
        /\ Reaches(m)' /\ m.token <= Now.token =>
             Reaches(m) /\ Since(m) \union {e} \subseteq Since(m)'
    BY <1>3, Pushes
  <2>2. e # Rescan
    BY <1>3, NameAssumption DEF Path
  <2>3. CASE Reaches(m)'
    <3>1. Reaches(m) /\ Since(m) \union {e} \subseteq Since(m)'
      BY <2>1, <2>3 DEF Past, Reaches
    <3> QED BY <2>2, <3>1 DEF Told
  <2>4. CASE ~Reaches(m)'
    BY <2>4 DEF Told
  <2> QED BY <2>3, <2>4
<1> QED BY <1>1, <1>2, <1>3 DEF Deliver, Path

\* Another event is queued behind.
LEMMA QueuedBehind ==
  ASSUME FolderType, NEW p \in File, NEW e \in Event, e # cookie, Rescan # cookie,
         queue' = Queued(e), UNCHANGED cookie, Before(p)
  PROVE  Before(p)'
<1>1. PICK i \in 1..Len(queue) : /\ queue[i] \in {p, Rescan}
                                 /\ \A j \in 1..Len(queue) : queue[j] = cookie => i < j
  BY DEF Before
<1>2. ASSUME NEW f \in Event, f # cookie, queue' = Append(queue, f) PROVE Before(p)'
  <2>1. /\ Len(queue') = Len(queue) + 1 /\ queue'[Len(queue) + 1] = f /\ Len(queue) \in Nat
        /\ \A j \in 1..Len(queue) : queue'[j] = queue[j]
    BY <1>2, AppendProperties DEF FolderType
  <2>2. i \in 1..Len(queue')
    BY <2>1
  <2>3. \A j \in 1..Len(queue') : j \in 1..Len(queue) \/ j = Len(queue) + 1
    BY <2>1
  <2>4. \A j \in 1..Len(queue') : queue'[j] = cookie => i < j
    BY <1>1, <1>2, <2>1, <2>3
  <2> QED BY <1>1, <2>1, <2>2, <2>4 DEF Before
<1>3. CASE queue' = queue
  BY <1>3 DEF Before
<1>4. Rescan \in Event
  BY DEF Event
<1> QED BY <1>2, <1>3, <1>4, Queues DEF FolderType

\* The asker's cookie is queued behind everything.
LEMMA CookieBehind ==
  ASSUME FolderType, running, NEW p \in File, NEW k \in Cookie, k \notin ToSet(queue),
         queue' = Queued(k), cookie' = k, {p, Rescan} \intersect ToSet(queue) # {}
  PROVE  Before(p)'
<1>1. PICK i \in 1..Len(queue) : queue[i] \in {p, Rescan}
  BY DEF ToSet, FolderType
<1>2. ASSUME NEW f \in Event, queue' = Append(queue, f) PROVE Before(p)'
  <2>1. /\ Len(queue') = Len(queue) + 1 /\ Len(queue) \in Nat
        /\ \A j \in 1..Len(queue) : queue'[j] = queue[j]
    BY <1>2, AppendProperties DEF FolderType
  <2>2. i \in 1..Len(queue') /\ queue'[i] \in {p, Rescan}
    BY <1>1, <2>1
  <2>3. ASSUME NEW j \in 1..Len(queue'), queue'[j] = k PROVE i < j
    <3>1. CASE j \in 1..Len(queue)
      BY <2>1, <2>3, <3>1 DEF ToSet, FolderType
    <3>2. CASE j = Len(queue) + 1
      BY <2>1, <3>2
    <3> QED BY <2>1, <3>1, <3>2
  <2> QED BY <2>2, <2>3 DEF Before
<1>3. CASE queue' = queue
  <2>1. \A j \in 1..Len(queue') : queue'[j] # k
    BY <1>3 DEF ToSet, FolderType
  <2> QED BY <1>1, <1>3, <2>1 DEF Before
<1>4. Rescan \in Event /\ k \in Event
  BY DEF Event
<1> QED BY <1>2, <1>3, <1>4, Queues DEF FolderType

\* What is before the cookie is delivered before it.
LEMMA DeliveredBefore ==
  ASSUME FolderType, NEW p \in File, queue # <<>>, queue' = Tail(queue), UNCHANGED cookie, Before(p)
  PROVE  Head(queue) \in {p, Rescan} \/ (Head(queue) # cookie /\ Before(p)')
<1>1. PICK i \in 1..Len(queue) : /\ queue[i] \in {p, Rescan}
                                 /\ \A j \in 1..Len(queue) : queue[j] = cookie => i < j
  BY DEF Before
<1>2. /\ Head(queue) = queue[1] /\ Len(queue') = Len(queue) - 1 /\ Len(queue) \in Nat \ {0}
      /\ \A j \in 1..(Len(queue) - 1) : queue'[j] = queue[j + 1]
  BY Delivered DEF FolderType
<1>3. CASE i = 1
  BY <1>1, <1>2, <1>3
<1>4. CASE i # 1
  <2>1. i - 1 \in 1..Len(queue') /\ queue'[i - 1] = queue[i]
    BY <1>2, <1>4
  <2>2. ASSUME NEW j \in 1..Len(queue'), queue'[j] = cookie PROVE i - 1 < j
    <3>1. j + 1 \in 1..Len(queue) /\ queue[j + 1] = cookie
      BY <1>2, <2>2
    <3> QED BY <1>1, <3>1
  <2>3. Before(p)'
    BY <1>1, <2>1, <2>2 DEF Before
  <2>4. queue[1] # cookie
    <3>1. 1 \in 1..Len(queue) /\ ~(i < 1)
      BY <1>2
    <3> QED BY <1>1, <3>1
  <2> QED BY <1>2, <2>3, <2>4
<1> QED BY <1>3, <1>4

LEMMA StepFresh ==
  ASSUME Base, Fresh, MonitorNext \/ UNCHANGED monitorVars
  PROVE  Fresh'
<1>0. FolderType /\ LogType /\ AskerType
  BY DEF Base, TypeOK
<1>1. ASSUME NEW e \in Event, queue' = Queued(e)
      PROVE  ToSet(queue') \intersect Cookie \subseteq (ToSet(queue) \union {e}) \intersect Cookie
  <2>1. /\ ToSet(Append(queue, e)) = ToSet(queue) \union {e}
        /\ ToSet(Append(queue, Rescan)) = ToSet(queue) \union {Rescan}
    BY <1>0, Appended DEF FolderType, Event
  <2> QED BY <1>0, <1>1, <2>1, Queues, NameAssumption DEF FolderType
<1>2. CASE UNCHANGED <<cookies, queue, used>> /\ cookie' \in {cookie, "none"}
  BY <1>2 DEF Fresh
<1>3. ASSUME NEW q \in Path, Change(q) PROVE Fresh'
  <2>1. q \in Event /\ q \notin Cookie /\ queue' = Queued(q) /\ UNCHANGED <<cookies, used, cookie>>
    BY <1>3, NameAssumption DEF Change, Event, Path, monitor, asker
  <2> QED BY <1>1, <2>1 DEF Fresh
<1>4. CASE Start \/ Reply
  BY <1>4 DEF Start, Reply, asker, Fresh
<1>5. CASE Stop
  BY <1>5 DEF Stop, Fresh, ToSet
<1>6. CASE Deliver
  <2>1. UNCHANGED <<used, cookie>> /\ queue # <<>> /\ queue' = Tail(queue)
        /\ cookies' \subseteq cookies \union ({Head(queue)} \intersect Cookie)
    BY <1>6 DEF Deliver, asker
  <2>2. Head(queue) = queue[1] /\ Len(queue) \in Nat \ {0} /\ Len(Tail(queue)) = Len(queue) - 1
        /\ Tail(queue) \in Seq(Event)
        /\ \A i \in 1..(Len(queue) - 1) : Tail(queue)[i] = queue[i + 1]
    BY <1>0, <2>1, Delivered DEF FolderType
  <2>3. Head(queue) \in ToSet(queue)
    <3>1. 1 \in DOMAIN queue
      BY <1>0, <2>2 DEF FolderType
    <3> QED BY <2>2, <3>1 DEF ToSet
  <2>4. ToSet(queue') \subseteq ToSet(queue)
    <3>1. ASSUME NEW i \in DOMAIN Tail(queue) PROVE Tail(queue)[i] \in ToSet(queue)
      <4>1. i \in 1..(Len(queue) - 1)
        BY <2>2
      <4>2. i + 1 \in DOMAIN queue
        BY <1>0, <2>2, <4>1 DEF FolderType
      <4> QED BY <2>2, <4>1, <4>2 DEF ToSet
    <3> QED BY <2>1, <3>1 DEF ToSet
  <2> QED BY <2>1, <2>3, <2>4 DEF Fresh
<1>7. CASE Connect
  <2>1. PICK k \in Cookie : cookie' = k /\ used' = used \union {k} /\ queue' = Queued(k)
    BY <1>7 DEF Connect
  <2>2. UNCHANGED cookies /\ k \in Event
    BY <1>7 DEF Connect, monitor, Event
  <2> QED BY <1>1, <2>1, <2>2 DEF Fresh
<1>8. ASSUME TimeOut \/ Unwatched \/ Send \/ Broken \/ Examine \/ ExamineFile \/ Store
             \/ UNCHANGED monitorVars
      PROVE  UNCHANGED <<cookies, queue, used, cookie>>
  BY <1>8 DEF TimeOut, Unwatched, Send, Broken, Examine, ExamineFile, Store, monitorVars, monitor, asker
<1>9. ASSUME Close \/ KillAsker PROVE UNCHANGED <<cookies, queue, used>> /\ cookie' = "none"
  BY <1>9 DEF Close, KillAsker, Forget, monitor
<1> QED BY <1>2, <1>3, <1>4, <1>5, <1>6, <1>7, <1>8, <1>9 DEF MonitorNext, Serve, Ask, Path

LEMMA StepWaits ==
  ASSUME Waiting, CookiesUnique, MonitorNext \/ UNCHANGED monitorVars, NEW p \in File
  PROVE  Waits(p)'
<1>0. /\ Base /\ Held(p) /\ Fresh /\ Waits(p) /\ mark \in Mark /\ Past(mark) /\ p \in Path
      /\ FolderType /\ LogType /\ AskerType /\ Turn
  BY DEF Waiting, Kept, Base, TypeOK, AskerType, Order, Path
<1>n. /\ ver[p] \in Nat /\ asked[p] \in Nat /\ mver[p] \in Nat /\ found[p] \in Nat \union {-1}
  BY <1>0 DEF FolderType, AskerType
<1>1. CASE /\ UNCHANGED <<ver, mver, changes, toread, found, asked>>
           /\ doing' = doing \/ doing' = "broken"
           /\ doing \notin {"request", "wait"} \/ doing' = "broken"
  BY <1>0, <1>1 DEF Waits
<1>2. ASSUME UNCHANGED <<ver, mver, mark, asked, cookie, cookies, queue, epoch, logbase, paths>>,
             doing \in {"request", "wait"}, doing' \in {"request", "wait"}
      PROVE  Waits(p)'
  BY <1>0, <1>2 DEF Waits, Told, Before, Reaches, Since, Now
<1>3. ASSUME NEW q \in Path, Change(q) PROVE Waits(p)'
  <2>1. UNCHANGED <<monitor, mver, mark, doing, cookie, changes, toread, found, asked>>
        /\ ver' = [ver EXCEPT ![q] = @ + 1] /\ queue' = Queued(q)
    BY <1>3 DEF Change, mirror, asker
  <2>2. asked'[p] <= ver'[p]
    <3>1. CASE p = q
      <4>1. ver'[p] = ver[p] + 1
        BY <1>0, <2>1, <3>1 DEF FolderType
      <4> QED BY <1>0, <1>n, <2>1, <4>1 DEF Waits
    <3>2. CASE p # q
      <4>1. ver'[p] = ver[p]
        BY <1>0, <2>1, <3>2 DEF FolderType
      <4> QED BY <1>0, <1>n, <2>1, <4>1 DEF Waits
    <3> QED BY <3>1, <3>2
  <2>3. Told(mark, p) => Told(mark, p)'
    BY <2>1 DEF monitor, Told, Reaches, Since, Now
  <2>4. ASSUME doing \in {"request", "wait"}, Before(p) PROVE Before(p)'
    <3>1. cookie \in Cookie
      BY <1>0, <2>4 DEF Turn
    <3>2. q \in Event /\ q # cookie /\ Rescan # cookie
      BY <3>1, NameAssumption DEF Event, Path
    <3> QED BY <1>0, <2>1, <2>4, <3>2, QueuedBehind
  <2> QED BY <1>0, <2>1, <2>2, <2>3, <2>4 DEF Waits, monitor
<1>4. ASSUME Start PROVE Waits(p)'
  <2>1. /\ ~running /\ UNCHANGED <<ver, mver, mark, doing, changes, toread, found, asked>>
    BY <1>4 DEF Start, mirror, asker
  <2>2. doing \notin {"request", "wait"}
    BY <1>0, <2>1 DEF Turn
  <2> QED BY <1>1, <2>1, <2>2
<1>5. ASSUME Stop PROVE Waits(p)'
  BY <1>1, <1>5 DEF Stop, mirror
<1>6. ASSUME Deliver PROVE Waits(p)'
  <2>1. /\ UNCHANGED <<ver, mver, mark, doing, cookie, changes, toread, found, asked>>
        /\ queue # <<>> /\ queue' = Tail(queue)
        /\ cookies' \subseteq cookies \union {Head(queue)}
    BY <1>6 DEF Deliver, mirror, asker
  <2>2. Told(mark, p) => \A m : m = mark => Told(m, p)'
    BY <1>0, <1>6, DeliverTold
  <2>3. Head(queue) \in {p, Rescan} => \A m : m = mark => Told(m, p)'
    BY <1>0, <1>6, DeliverTold
  <2>4. Told(mark, p) \/ Head(queue) \in {p, Rescan} => Told(mark, p)'
    BY <2>1, <2>2, <2>3
  <2>5. Before(p) => Head(queue) \in {p, Rescan} \/ (Head(queue) # cookie /\ Before(p)')
    BY <1>0, <2>1, DeliveredBefore
  <2> QED BY <1>0, <2>1, <2>4, <2>5 DEF Waits
<1>7. ASSUME Reply PROVE Waits(p)'
  <2>1. request.cookie \in Cookie /\ NoRequest.cookie \notin Cookie
    BY <1>0, <1>7, NameAssumption DEF Reply, LogType, NoRequest
  <2>2. request # NoRequest
    BY <2>1
  <2>3. doing = "wait" /\ request.since = mark /\ cookie \in cookies
    BY <1>0, <1>7, <2>2 DEF Turn, Reply
  <2>4. doing' = "answered" /\ changes' = Answer(mark) /\ UNCHANGED <<ver, mver, asked>>
    BY <1>7, <2>3 DEF Reply, mirror
  <2>5. mver[p] >= asked[p] \/ Told(mark, p)
    BY <1>0, <2>3 DEF Waits
  <2>6. CASE Reaches(mark)
    <3>1. Answer(mark).paths = Since(mark)
      BY <1>0, <2>6, AnswerSince
    <3> QED BY <1>0, <2>4, <2>5, <2>6, <3>1 DEF Waits, Told
  <2>7. CASE ~Reaches(mark)
    <3>1. Answer(mark).whole
      BY <2>7 DEF Answer
    <3> QED BY <1>0, <2>4, <3>1 DEF Waits
  <2> QED BY <2>6, <2>7
<1>8. ASSUME TimeOut PROVE Waits(p)'
  <2>1. doing' = "answered" /\ changes'.whole /\ UNCHANGED <<ver, mver, asked>>
    BY <1>8 DEF TimeOut, mirror
  <2> QED BY <1>0, <2>1 DEF Waits
<1>9. ASSUME Unwatched \/ Broken PROVE Waits(p)'
  <2>1. doing' = "answered" /\ changes'.whole /\ UNCHANGED <<ver, mver>> /\ asked' \in {asked, ver}
    BY <1>9, NoChangesType DEF Unwatched, Broken, mirror
  <2> QED BY <1>0, <1>n, <2>1 DEF Waits
<1>10. ASSUME Connect PROVE Waits(p)'
  <2>1. PICK k \in Cookie : /\ k \notin used /\ cookie' = k /\ queue' = Queued(k)
    BY <1>10 DEF Connect, CookiesUnique
  <2>2. /\ running /\ doing' = "request" /\ asked' = ver
        /\ UNCHANGED <<ver, monitor, mver, mark>>
    BY <1>10 DEF Connect, mirror
  <2>3. k \notin cookies /\ k \notin ToSet(queue)
    BY <1>0, <2>1 DEF Fresh
  <2>4. Told(mark, p) => Told(mark, p)'
    BY <2>2 DEF monitor, Told, Reaches, Since, Now
  <2>5. {p, Rescan} \intersect ToSet(queue) # {} => Before(p)'
    BY <1>0, <2>1, <2>2, <2>3, CookieBehind
  <2>6. mver[p] = ver[p] \/ Told(mark, p) \/ {p, Rescan} \intersect ToSet(queue) # {}
    BY <1>0, <2>2 DEF Held, DueSince, Told
  <2> QED BY <1>n, <2>1, <2>2, <2>3, <2>4, <2>5, <2>6 DEF Waits, monitor
<1>11. ASSUME Send PROVE Waits(p)'
  BY <1>2, <1>11 DEF Send, mirror
<1>12. ASSUME Examine PROVE Waits(p)'
  <2>1. /\ doing = "answered" /\ doing' = "examine" /\ found' = NotFound
        /\ toread' = IF changes.whole \/ Other \in changes.paths THEN File ELSE changes.paths
        /\ UNCHANGED <<ver, mver, asked>>
    BY <1>12 DEF Examine, mirror
  <2>2. found'[p] = -1
    BY <2>1 DEF NotFound
  <2> QED BY <1>0, <2>1, <2>2 DEF Waits
<1>13. ASSUME ExamineFile PROVE Waits(p)'
  <2>1. PICK q \in toread : toread' = toread \ {q} /\ found' = [found EXCEPT ![q] = ver[q]]
    BY <1>13 DEF ExamineFile
  <2>2. doing = "examine" /\ doing' = "examine" /\ UNCHANGED <<ver, mver, asked>>
    BY <1>13 DEF ExamineFile, mirror
  <2>3. IF p = q THEN found'[p] = ver[p] ELSE found'[p] = found[p] /\ (p \in toread => p \in toread')
    BY <1>0, <2>1 DEF AskerType
  <2> QED BY <1>0, <1>n, <2>2, <2>3 DEF Waits
<1>14. ASSUME Store PROVE Waits(p)'
  <2>1. /\ doing = "examine" /\ doing' = "stored" /\ toread = {}
        /\ mver' = [r \in File |-> IF found[r] < 0 THEN mver[r] ELSE found[r]]
        /\ UNCHANGED <<ver, asked>>
    BY <1>14 DEF Store
  <2>2. mver'[p] = IF found[p] < 0 THEN mver[p] ELSE found[p]
    BY <2>1
  <2> QED BY <1>0, <1>n, <2>1, <2>2 DEF Waits
<1>15. ASSUME Close \/ KillAsker PROVE Waits(p)'
  <2>1. doing' = "idle" /\ asked'[p] = 0 /\ UNCHANGED ver
    BY <1>0, <1>15 DEF Close, KillAsker, Forget, Unasked, Path
  <2> QED BY <1>n, <2>1 DEF Waits
<1>16. CASE UNCHANGED monitorVars
  <2>1. UNCHANGED <<ver, mver, mark, asked, cookie, cookies, queue, epoch, logbase, paths, doing,
                    changes, toread, found>>
    BY <1>16 DEF monitorVars, monitor, mirror, asker
  <2> QED BY <1>1, <1>2, <2>1
<1> QED BY <1>3, <1>4, <1>5, <1>6, <1>7, <1>8, <1>9, <1>10, <1>11, <1>12, <1>13, <1>14, <1>15, <1>16
        DEF MonitorNext, Serve, Ask, Path

\* Whoever opened the database holds every change made before it asked: its cookie's
\* event comes after theirs, and no other's event is taken for it (Handle::changes,
\* serve.rs).
THEOREM AskersHaveAll ==
  ASSUME CookiesUnique
  PROVE  MonitorSpec => []HoldsWhatWasAsked
<1>1. MonitorInit => Waiting
  <2> SUFFICES ASSUME MonitorInit PROVE Waiting
    OBVIOUS
  <2>1. Kept
    BY InitBase DEF MonitorInit, Kept, Held, Path
  <2>2. Fresh
    BY DEF MonitorInit, Fresh, ToSet
  <2>3. ASSUME NEW p \in File PROVE Waits(p)
    BY DEF MonitorInit, Waits, Unasked, Path
  <2> QED BY <2>1, <2>2, <2>3 DEF Waiting
<1>2. Waiting /\ [MonitorNext]_monitorVars => Waiting'
  <2> SUFFICES ASSUME Waiting, MonitorNext \/ UNCHANGED monitorVars PROVE Waiting'
    BY DEF Waiting
  <2>1. Base' /\ \A p \in File : Held(p)'
    BY StepBase, StepHeld DEF Waiting, Kept
  <2>2. Fresh'
    BY StepFresh DEF Waiting, Kept
  <2>3. \A p \in File : Waits(p)'
    BY StepWaits
  <2> QED BY <2>1, <2>2, <2>3 DEF Waiting, Kept
<1>3. Waiting => HoldsWhatWasAsked
  BY DEF Waiting, Waits, HoldsWhatWasAsked
<1> QED BY <1>1, <1>2, <1>3, PTL DEF MonitorSpec

=============================================================================
