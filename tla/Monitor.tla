------------------------------- MODULE Monitor -------------------------------
(***************************************************************************)
(* The folder monitor: reldir/src/serve.rs, which keeps a log of the paths *)
(* that changed, and monitor.rs and catalog.rs, which ask it and examine   *)
(* only those paths.                                                       *)
(*                                                                         *)
(* The operating system queues an event for every change and drops some    *)
(* when the queue is full, saying so once.  A process that opens the       *)
(* database holds the writer lock, so one asks at a time; it writes a      *)
(* cookie file, and the monitor answers once it has seen the cookie's own  *)
(* event.  What is found is kept in the mirror with the log's position,    *)
(* the mark to ask from next time, in one SQLite transaction.              *)
(*                                                                         *)
(* ver[p] counts the changes of the file p, so that a change examined, one *)
(* missed and one still to be examined can be told apart.                  *)
(***************************************************************************)
EXTENDS Integers, Sequences, FiniteSets, SequencesExt

CONSTANTS
  File,       \* the row files
  Other,      \* a path that is no row file of a governed table, or of nothing
  Cookie,     \* names of cookie files
  Reuse,      \* whether a process may get the number of an earlier one
  LogLimit,   \* the most paths the log keeps
  QueueLimit, \* the most events the operating system queues
  MaxChanges, \* how often the folder changes
  MaxAsks,    \* how often somebody opens the database
  MaxEpochs   \* how often the log may start over

Rescan == "rescan"     \* events were lost

ASSUME LimitAssumption == LogLimit \in Nat \ {0} /\ QueueLimit \in Nat \ {0}
ASSUME BoundAssumption == MaxChanges \in Nat /\ MaxAsks \in Nat /\ MaxEpochs \in Nat
ASSUME NameAssumption ==
  /\ Reuse \in BOOLEAN /\ IsFiniteSet(Cookie)
  \* A cookie file is no row file, nor is the loss of events the change of a file.
  /\ Other \notin File /\ Cookie \intersect (File \union {Other, Rescan, "none"}) = {}
  /\ Rescan \notin File \union {Other}

Nowhere == [epoch |-> 0, token |-> 0]

VARIABLES
  ver,       \* ver[p]: how often p has changed
  queue,     \* the events on their way to the monitor
  \* the monitor
  running,   \* whether it runs, and its handle is in .db/serve.json
  epoch, logbase, paths, cookies,   \* its Log
  request,   \* the request being answered, or NoRequest
  \* the mirror
  mver,      \* mver[p]: the version of p it holds
  mark,      \* the log's position it is current with, or Nowhere
  \* the process that opens the database
  doing,
  cookie,    \* its cookie
  used,      \* the cookies used up to now
  changes,   \* what it was answered
  toread,    \* the paths it has still to examine
  found,     \* found[p]: the version it examined, or -1
  \* for the properties and the bounds
  asked,     \* asked[p]: the version of p when it began
  asks, nepoch

monitor == <<running, epoch, logbase, paths, cookies, request>>
mirror == <<mver, mark>>
asker == <<doing, cookie, used, changes, toread, found, asked, asks>>
monitorVars == <<ver, queue, monitor, mirror, asker, nepoch>>

NoRequest == [cookie |-> "none", since |-> Nowhere]
NotFound == [p \in File |-> -1]
Unasked == [p \in File \union {Other} |-> 0]
NoChanges == [now |-> Nowhere, whole |-> TRUE, paths |-> {}]

-----------------------------------------------------------------------------
(* The log: Log in serve.rs                                                *)

Now == [epoch |-> epoch, token |-> logbase + Len(paths)]

\* Log::restart: every mark from before means "examine everything".
Restart ==
  /\ nepoch' = nepoch + 1
  /\ epoch' = nepoch + 1
  /\ logbase' = 0
  /\ paths' = << >>

\* Mutant: the log forgets without moving its base.
PushUnbased(p) ==
  LET longer == Append(paths, p)
      forget == IF Len(longer) > LogLimit THEN Len(longer) \div 2 ELSE 0
  IN /\ paths' = SubSeq(longer, forget + 1, Len(longer))
     /\ UNCHANGED <<logbase, epoch, nepoch>>

\* Log::push: past its limit the log forgets its older half.
Push(p) ==
  LET longer == Append(paths, p)
      forget == IF Len(longer) > LogLimit THEN Len(longer) \div 2 ELSE 0
  IN /\ paths' = SubSeq(longer, forget + 1, Len(longer))
     /\ logbase' = logbase + forget
     /\ UNCHANGED <<epoch, nepoch>>

\* Log::answer: the paths since a mark the log still reaches back to.
Reaches(since) == since.epoch = epoch /\ since.token >= logbase /\ since.token <= Now.token
Answer(since) ==
  IF Reaches(since)
  THEN [now |-> Now, whole |-> FALSE,
        paths |-> ToSet(SubSeq(paths, since.token - logbase + 1, Len(paths)))]
  ELSE [now |-> Now, whole |-> TRUE, paths |-> {}]

-----------------------------------------------------------------------------
(* The folder, and the operating system's queue                            *)

\* An event for a monitor that watches; when the queue is full it is lost,
\* and the loss is told once, behind what is queued.
Queued(e) ==
  IF ~running THEN queue
  ELSE IF Len(queue) < QueueLimit THEN Append(queue, e)
  ELSE IF queue[Len(queue)] = Rescan THEN queue
  ELSE Append(queue, Rescan)

TotalChanges == ver[Other] + FoldFunctionOnSet(LAMBDA a, b : a + b, 0, ver, File)

Change(p) ==
  /\ TotalChanges < MaxChanges
  /\ ver' = [ver EXCEPT ![p] = @ + 1]
  /\ queue' = Queued(p)
  /\ UNCHANGED <<monitor, mirror, asker, nepoch>>

-----------------------------------------------------------------------------
(* The monitor: serve and answer                                           *)

Start ==
  /\ ~running
  /\ nepoch < MaxEpochs
  /\ running' = TRUE
  /\ Restart
  /\ cookies' = {} /\ request' = NoRequest
  /\ UNCHANGED <<ver, queue, mirror, asker>>

\* It is stopped, and removes its handle; or killed, and nothing answers at
\* the port its handle names: one and the same to who asks.  A connection it
\* had is broken.
Stop ==
  /\ running
  /\ running' = FALSE
  /\ queue' = << >> /\ request' = NoRequest
  /\ doing' = IF doing \in {"request", "wait"} THEN "broken" ELSE doing
  /\ UNCHANGED <<ver, epoch, logbase, paths, cookies, mirror, cookie, used, changes, toread, found,
                 asked, asks, nepoch>>

\* The watcher's callback.
Deliver ==
  /\ running
  /\ queue # << >>
  /\ queue' = Tail(queue)
  /\ LET e == Head(queue) IN
       \/ e = Rescan /\ nepoch < MaxEpochs /\ Restart /\ UNCHANGED cookies
       \/ /\ e \in Cookie
          /\ cookies' = cookies \union {e}
          /\ UNCHANGED <<epoch, logbase, paths, nepoch>>
       \/ e \in File \union {Other} /\ Push(e) /\ UNCHANGED cookies
  /\ UNCHANGED <<ver, running, request, mirror, asker>>

\* Mutant: the answer does not wait for the cookie.
ReplyAtOnce ==
  /\ request # NoRequest
  /\ cookies' = cookies \ {request.cookie}
  /\ changes' = Answer(request.since)
  /\ request' = NoRequest
  /\ doing' = "answered"
  /\ UNCHANGED <<ver, queue, running, epoch, logbase, paths, mirror, cookie, used, toread, found,
                 asked, asks, nepoch>>

\* The cookie has been seen: every change before it is in the log.
Reply ==
  /\ request.cookie \in cookies
  /\ cookies' = cookies \ {request.cookie}
  /\ changes' = Answer(request.since)
  /\ request' = NoRequest
  /\ doing' = "answered"
  /\ UNCHANGED <<ver, queue, running, epoch, logbase, paths, mirror, cookie, used, toread, found,
                 asked, asks, nepoch>>

\* It was not in time: what changed cannot be vouched for.
TimeOut ==
  /\ request # NoRequest /\ request.cookie \notin cookies
  /\ changes' = [now |-> Now, whole |-> TRUE, paths |-> {}]
  /\ request' = NoRequest
  /\ doing' = "answered"
  /\ UNCHANGED <<ver, queue, running, epoch, logbase, paths, cookies, mirror, cookie, used, toread,
                 found, asked, asks, nepoch>>

-----------------------------------------------------------------------------
(* Opening the database: Catalog::refresh                                  *)

\* Handle::changes: connect, then write the cookie file.
Connect ==
  /\ doing = "idle" /\ asks < MaxAsks
  /\ asks' = asks + 1
  /\ asked' = ver
  /\ running
  /\ \E k \in Cookie :
       /\ Reuse \/ k \notin used
       /\ cookie' = k
       /\ used' = used \union {k}
       /\ queue' = Queued(k)
  /\ doing' = "request"
  /\ UNCHANGED <<ver, monitor, mirror, changes, toread, found, nepoch>>

\* Nothing answers at the port.
Unwatched ==
  /\ doing = "idle" /\ asks < MaxAsks
  /\ asks' = asks + 1
  /\ asked' = ver
  /\ ~running
  /\ changes' = NoChanges
  /\ doing' = "answered"
  /\ UNCHANGED <<ver, queue, monitor, mirror, cookie, used, toread, found, nepoch>>

Send ==
  /\ doing = "request"
  /\ request' = [cookie |-> cookie, since |-> mark]
  /\ doing' = "wait"
  /\ UNCHANGED <<ver, queue, running, epoch, logbase, paths, cookies, mirror, cookie, used, changes,
                 toread, found, asked, asks, nepoch>>

\* The connection breaks: the folder is examined as it is without a monitor.
Broken ==
  /\ doing = "broken"
  /\ changes' = NoChanges
  /\ doing' = "answered"
  /\ UNCHANGED <<ver, queue, monitor, mirror, cookie, used, toread, found, asked, asks, nepoch>>

\* take_watched, when the answer names only row files; else every file.
Examine ==
  /\ doing = "answered"
  /\ toread' = IF changes.whole \/ Other \in changes.paths THEN File ELSE changes.paths
  /\ found' = NotFound
  /\ doing' = "examine"
  /\ UNCHANGED <<ver, queue, monitor, mirror, cookie, used, changes, asked, asks, nepoch>>

ExamineFile ==
  /\ doing = "examine"
  /\ \E p \in toread :
       /\ toread' = toread \ {p}
       /\ found' = [found EXCEPT ![p] = ver[p]]
  /\ UNCHANGED <<ver, queue, monitor, mirror, doing, cookie, used, changes, asked, asks, nepoch>>

\* Rows and mark are kept together.
Store ==
  /\ doing = "examine"
  /\ toread = {}
  /\ mver' = [p \in File |-> IF found[p] < 0 THEN mver[p] ELSE found[p]]
  /\ mark' = changes.now
  /\ doing' = "stored"
  /\ UNCHANGED <<ver, queue, monitor, cookie, used, changes, toread, found, asked, asks, nepoch>>

\* What the process knew is gone with it.
Forget ==
  /\ doing' = "idle"
  /\ cookie' = "none" /\ changes' = NoChanges /\ toread' = {}
  /\ found' = NotFound /\ asked' = Unasked

\* The command ends.
Close ==
  /\ doing = "stored"
  /\ Forget
  /\ UNCHANGED <<ver, queue, monitor, mirror, used, asks, nepoch>>

\* It is killed: SQLite takes back what was not stored.
KillAsker ==
  /\ doing \notin {"idle", "stored"}
  /\ Forget
  /\ request' = NoRequest
  /\ UNCHANGED <<ver, queue, running, epoch, logbase, paths, cookies, mirror, used, asks, nepoch>>

MonitorInit ==
  /\ ver = [p \in File \union {Other} |-> 0]
  /\ queue = << >>
  /\ running = FALSE /\ epoch = 0 /\ logbase = 0 /\ paths = << >> /\ cookies = {}
  /\ request = NoRequest
  /\ mver = [p \in File |-> 0] /\ mark = Nowhere
  /\ doing = "idle" /\ cookie = "none" /\ used = {} /\ changes = NoChanges /\ toread = {}
  /\ found = NotFound
  /\ asked = Unasked /\ asks = 0 /\ nepoch = 0

Ask == Connect \/ Unwatched \/ Send \/ Broken \/ Examine \/ ExamineFile \/ Store \/ Close
Serve == Deliver \/ Reply \/ TimeOut

MonitorNext ==
  \/ \E p \in File \union {Other} : Change(p)
  \/ Start \/ Stop \/ Serve
  \/ Ask \/ KillAsker

MonitorSpec == MonitorInit /\ [][MonitorNext]_monitorVars

-----------------------------------------------------------------------------
(* Properties                                                              *)

\* Whoever opened the database holds every change made before it asked: the
\* answer is given only after the asker's own cookie has been seen.
HoldsWhatWasAsked == doing = "stored" => \A p \in File : mver[p] >= asked[p]

\* The next answer from the mark names p, or is to examine everything, or the
\* event is still on its way.
Due(p) ==
  \/ ~running \/ ~Reaches(mark)
  \/ {p, Other} \intersect Answer(mark).paths # {}
  \/ {p, Rescan} \intersect ToSet(queue) # {}

\* A file that the mirror holds in an older version will be examined, whatever
\* the log has forgotten and the queue has lost (serve.rs:70, monitor.rs).
Accounted == \A p \in File : mver[p] = ver[p] \/ Due(p)

=============================================================================
