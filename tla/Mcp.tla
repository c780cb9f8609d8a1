--------------------------------- MODULE Mcp ---------------------------------
(***************************************************************************)
(* The server for agents: mcp/mod.rs, mcp/tools.rs, query::page.           *)
(*                                                                         *)
(* A tool that changes the database takes two calls: the first plans and   *)
(* is given a plan_id, the second names it and commits.  Between them the  *)
(* server keeps the plan in memory, asks the user if the plan removes      *)
(* rows, and other calls, other programs and a restart may come.  Calls    *)
(* run their commands on threads of their own, each from the opening of    *)
(* the database to its end; Database models what happens among commands,   *)
(* so that here a command is one step.  A query is answered in pages, each *)
(* read by a command of its own, under a cursor the client carries.        *)
(***************************************************************************)
EXTENDS Integers, Sequences, SequencesExt, FiniteSets, FiniteSetsExt

CONSTANTS Agent,        \* those who call tools, each one call at a time
          Key,          \* the row files of the one table, each named by its key
          PlansKept,    \* how many plans the server keeps
          MaxSerial,    \* how many plans it is asked for
          Outside,      \* what other programs do: "edit", "spoil", "reformat", "source"
          MaxOutside,   \* how often
          Restarts      \* whether the server is started again

ASSUME McpAssumption == /\ PlansKept \in Nat \ {0} /\ MaxSerial \in Nat /\ MaxOutside \in Nat
                        /\ Outside \subseteq {"edit", "spoil", "reformat", "source"}
                        /\ Restarts \in BOOLEAN

Gone == "gone"
Bad == "bad"                     \* a row that breaks a rule: one fix mends it, another deletes it
Sound == {"x", "y"}
Uris == {"row", "schema"}        \* the resources of the table that clients subscribe to
Untouched == [rows |-> FALSE, schemas |-> FALSE]

VARIABLES
  \* the folder
  row,           \* row[k]: what file k holds
  schema,        \* the table's contract, "narrow" or "wide"
  source,        \* the rows in the file that import reads
  \* what reldir keeps of it
  recorded,      \* the rows and schema of the newest revision
  head,          \* its number
  order,         \* the table's rows in the mirror, in the order of their rowids
  unread,        \* the files whose bytes differ from those it read
  \* the server
  plans,         \* the plans it keeps, the oldest first
  serial,        \* how many it has made
  legacy, peer,  \* the URIs subscribed with resources/subscribe, and whether by anyone
  listener,      \* the filter of the stream opened with subscriptions/listen
  elicits,       \* whether the client can ask its user
  \* a call that commits
  call,          \* call[a]: what it does next
  job,           \* job[a]: its plan
  touched,       \* touched[a]: whether it changed rows, and whether the schema
  tells,         \* tells[a]: the notifications it has still to send
  \* a query read in pages of one row
  page,          \* its cursor and what it got
  \* what only the properties need
  agreed,        \* agreed[a]: whether the user was asked, or the agent confirmed
  made,          \* the plans committed, and after how many changes by other programs
  owed,          \* owed[a]: who is to be told of the change that a committed
  outsides

folder == <<row, schema, source>>
kept == <<recorded, head, order, unread>>
server == <<plans, serial, legacy, peer, listener, elicits>>
mcpVars == <<folder, kept, server, call, job, touched, tells, page, agreed, made, owed, outsides>>

State == [row |-> row, schema |-> schema]

-----------------------------------------------------------------------------
(* A command opens the database: it reads the files that changed -- each of *)
(* which becomes the last row of its table -- and records what is valid.    *)

Valid(s) == \A k \in Key : s.row[k] # Bad
RowsPresent(s) == {k \in Key : s.row[k] # Gone}

\* Ingest::put removes the row of a file and inserts it again.
RowOrder(old, changed, s) ==
  SelectSeq(old, LAMBDA k : k \notin changed) \o SetToSeq(changed \cap RowsPresent(s))

\* A revision is recorded of a valid state that differs from the last one's, r, and
\* not of one that another program's change, undone, has brought back.
Revisions(s, r) == IF Valid(s) /\ s # r THEN 1 ELSE 0
Recording(s, r) == IF Valid(s) THEN s ELSE r
HeadAt(s) == head + Revisions(s, recorded)
RecordedAt(s) == Recording(s, recorded)

\* Database::state_token: the head, and what differs from it.
Token == <<HeadAt(State), State>>

Opens ==
  /\ head' = HeadAt(State) /\ recorded' = RecordedAt(State)
  /\ order' = RowOrder(order, unread, State) /\ unread' = {}

-----------------------------------------------------------------------------
(* The tools, and what each would make of a state                          *)

Tools == [tool : {"update"}, key : Key, to : Sound] \cup [tool : {"delete"}, key : Key]
           \cup [tool : {"import", "widen"}]
           \cup [tool : {"apply_fixes"}, only : {"FIX_REMOVE_REFERENCE", "FIX_ORPHAN_DELETE_ROW"}]

\* A change needs a valid database, except for a repair; one that changes nothing
\* is refused here, or answers that it does not name the state it is of.
Refused(t, s) ==
  \/ t.tool # "apply_fixes" /\ ~Valid(s)
  \/ t.tool \in {"update", "delete"} /\ s.row[t.key] = Gone
  \/ t.tool = "widen" /\ s.schema = "wide"
  \/ t.tool = "apply_fixes" /\ Valid(s)

\* import in the mode that leaves exactly the rows it reads.
After(t, s) ==
  CASE t.tool = "update" -> [s EXCEPT !.row[t.key] = t.to]
    [] t.tool = "delete" -> [s EXCEPT !.row[t.key] = Gone]
    [] t.tool = "import" -> [s EXCEPT !.row = source]
    [] t.tool = "widen" -> [s EXCEPT !.schema = "wide"]
    [] t.tool = "apply_fixes" ->
         LET mended == IF t.only = "FIX_REMOVE_REFERENCE" THEN "x" ELSE Gone
         IN  [s EXCEPT !.row = [k \in Key |-> IF s.row[k] = Bad THEN mended ELSE s.row[k]]]

Removed(s, t) == {k \in Key : s.row[k] # Gone /\ t.row[k] = Gone}
Written(s, t) == {k \in Key : s.row[k] # t.row[k]}

NoPlan == [id |-> 0]

-----------------------------------------------------------------------------
(* Planning: Server::plan, a dry run                                       *)

Plan(a, t) ==
  /\ call[a] = "idle" /\ serial < MaxSerial
  /\ Opens
  /\ IF Refused(t, State) THEN UNCHANGED <<plans, serial>>
     ELSE LET p == [id |-> serial + 1, tool |-> t, state |-> Token,
                    removes |-> Removed(State, After(t, State)), shows |-> After(t, State)]
              longer == Append(plans, p)
          IN  /\ serial' = serial + 1
              /\ plans' = IF Len(longer) > PlansKept THEN Tail(longer) ELSE longer
  /\ UNCHANGED <<folder, legacy, peer, listener, elicits, call, job, touched, tells, page, agreed,
                 made, owed, outsides>>

-----------------------------------------------------------------------------
(* Committing: planned, confirmed, forget, execute, announce               *)

ForgetPlan(p) ==
  \/ p \notin ToSet(plans) /\ UNCHANGED plans
  \/ \E i \in DOMAIN plans : plans[i] = p /\ plans' = RemoveAt(plans, i)

\* planned: the plan is found; confirmed: nobody needs to be asked, or the user is.
\* A client that cannot ask its user is refused unless the agent confirms.
NamePlan(a, p, confirm) ==
  /\ call[a] = "idle" /\ p \in ToSet(plans)
  /\ job' = [job EXCEPT ![a] = p]
  /\ agreed' = [agreed EXCEPT ![a] = confirm]
  /\ IF p.removes = {} \/ confirm
     THEN ForgetPlan(p) /\ call' = [call EXCEPT ![a] = "running"]
     ELSE elicits /\ call' = [call EXCEPT ![a] = "asking"] /\ UNCHANGED plans
  /\ UNCHANGED <<folder, kept, serial, legacy, peer, listener, elicits, touched, tells, page, made,
                 owed, outsides>>

Return(a) ==
  /\ call' = [call EXCEPT ![a] = "idle"] /\ job' = [job EXCEPT ![a] = NoPlan]
  /\ touched' = [touched EXCEPT ![a] = Untouched] /\ agreed' = [agreed EXCEPT ![a] = FALSE]

Decline(a) ==
  /\ call[a] = "asking" /\ Return(a)
  /\ UNCHANGED <<folder, kept, server, tells, page, made, owed, outsides>>

\* The plan was found before the user was asked, and is forgotten only now.
Agree(a) ==
  /\ call[a] = "asking" /\ ForgetPlan(job[a])
  /\ call' = [call EXCEPT ![a] = "running"] /\ agreed' = [agreed EXCEPT ![a] = TRUE]
  /\ UNCHANGED <<folder, kept, serial, legacy, peer, listener, elicits, job, touched, tells, page,
                 made, owed, outsides>>

\* Who is subscribed to what of the URIs in U, and to the list of resources if listed.
Subscribed(U, listed) ==
  {<<"peer", u>> : u \in IF peer THEN legacy \cap U ELSE {}}
    \cup {<<"listener", u>> : u \in listener \cap U}
    \cup (IF listed /\ peer THEN {<<"peer", "list">>} ELSE {})
    \cup (IF listed THEN {<<"listener", u>> : u \in listener \cap {"list"}} ELSE {})

\* What a change of rows, or of the schema, touches.
Affected(rows, schemas) ==
  (IF rows \/ schemas THEN {"row"} ELSE {}) \cup (IF schemas THEN {"schema"} ELSE {})

\* A row file written may leave the rows as the first page found them, and lies elsewhere.
NotesReturn ==
  page' = [page EXCEPT !.moved = @ \/ (page.at = "more" /\ State' = page.token[2])]

\* The tool runs again, in the state the plan was made against or not at all.
Commit(a, t) ==
  LET rows == Written(State, t) # {}
      schemas == t.schema # schema
  IN  /\ row' = t.row /\ schema' = t.schema
      /\ head' = HeadAt(State) + Revisions(t, RecordedAt(State))
      /\ recorded' = Recording(t, RecordedAt(State))
      /\ order' = RowOrder(RowOrder(order, unread, State), Written(State, t), t) /\ unread' = {}
      /\ call' = [call EXCEPT ![a] = "announcing"]
      /\ touched' = [touched EXCEPT ![a] = [rows |-> rows, schemas |-> schemas]]
      /\ made' = made \cup {[id |-> job[a].id, after |-> outsides]}
      /\ owed' = [owed EXCEPT ![a] = Subscribed(Affected(rows, schemas), schemas)]
      /\ NotesReturn /\ UNCHANGED <<job, agreed>>

\* Mutant: the change is made in whatever state the database is.
RunAnyway(a) ==
  /\ call[a] = "running"
  /\ LET t == After(job[a].tool, State) IN
     IF Refused(job[a].tool, State) \/ t = State
     THEN Opens /\ Return(a) /\ UNCHANGED <<row, schema, page, made, owed>>
     ELSE Commit(a, t)
  /\ UNCHANGED <<source, server, tells, outsides>>

Run(a) ==
  /\ call[a] = "running"
  /\ LET t == After(job[a].tool, State) IN
     IF Token # job[a].state \/ t = State
     THEN Opens /\ Return(a) /\ UNCHANGED <<row, schema, page, made, owed>>
     ELSE Commit(a, t)
  /\ UNCHANGED <<source, server, tells, outsides>>

\* Mutant: a row's resource is touched only by a change of rows.
AnnounceRows(a) ==
  /\ call[a] = "announcing" /\ call' = [call EXCEPT ![a] = "telling"]
  /\ tells' = [tells EXCEPT ![a] =
                  Subscribed((IF touched[a].rows THEN {"row"} ELSE {})
                               \cup (IF touched[a].schemas THEN {"schema"} ELSE {}),
                             touched[a].schemas)]
  /\ UNCHANGED <<folder, kept, server, job, touched, page, agreed, made, owed, outsides>>

\* The subscriptions are read once, when the change is made.
Announce(a) ==
  /\ call[a] = "announcing" /\ call' = [call EXCEPT ![a] = "telling"]
  /\ tells' = [tells EXCEPT ![a] =
                  Subscribed(Affected(touched[a].rows, touched[a].schemas), touched[a].schemas)]
  /\ UNCHANGED <<folder, kept, server, job, touched, page, agreed, made, owed, outsides>>

\* Each notification is awaited.
Tell(a) ==
  /\ call[a] = "telling"
  /\ \E n \in tells[a] : /\ tells' = [tells EXCEPT ![a] = @ \ {n}]
                         /\ owed' = [owed EXCEPT ![a] = @ \ {n}]
  /\ UNCHANGED <<folder, kept, server, call, job, touched, page, agreed, made, outsides>>

Answered(a) ==
  /\ call[a] = "telling" /\ tells[a] = {} /\ Return(a)
  /\ UNCHANGED <<folder, kept, server, tells, page, made, owed, outsides>>

-----------------------------------------------------------------------------
(* Subscriptions                                                           *)

Subscribe(u) ==
  /\ u \notin legacy /\ legacy' = legacy \cup {u} /\ peer' = TRUE
  /\ UNCHANGED <<folder, kept, plans, serial, listener, elicits, call, job, touched, tells, page,
                 agreed, made, owed, outsides>>

\* The client stays known, and is told of the list of resources all the same.
Unsubscribe(u) ==
  /\ u \in legacy /\ legacy' = legacy \ {u}
  /\ owed' = [a \in Agent |-> owed[a] \ {<<"peer", u>>}]
  /\ UNCHANGED <<folder, kept, plans, serial, peer, listener, elicits, call, job, touched, tells,
                 page, agreed, made, outsides>>

Listen(f) ==
  /\ listener = {} /\ f # {} /\ listener' = f
  /\ UNCHANGED <<folder, kept, plans, serial, legacy, peer, elicits, call, job, touched, tells, page,
                 agreed, made, owed, outsides>>

StopListening ==
  /\ listener # {} /\ listener' = {}
  /\ owed' = [a \in Agent |-> {n \in owed[a] : n[1] # "listener"}]
  /\ UNCHANGED <<folder, kept, plans, serial, legacy, peer, elicits, call, job, touched, tells, page,
                 agreed, made, outsides>>

-----------------------------------------------------------------------------
(* A query in pages of one row: query::page and its cursor                 *)

NoPage == [at |-> "none", ordered |-> FALSE, token |-> <<>>, got |-> <<>>, all |-> {}, moved |-> FALSE]

\* The rows a query answers: as they lie in the table, or as it orders them.
Answering(ordered) ==
  LET rows == RowOrder(order, unread, State) IN
  IF ordered THEN SetToSeq(ToSet(rows)) ELSE rows

More(n) == n < Cardinality(RowsPresent(State))
Page(ordered, n) == IF n > Cardinality(RowsPresent(State)) THEN <<>> ELSE <<Answering(ordered)[n]>>

FirstPage(ordered) ==
  /\ page.at = "none" /\ Opens /\ Valid(State)
  /\ page' = [at |-> IF More(1) THEN "more" ELSE "end", ordered |-> ordered, token |-> Token,
              got |-> Page(ordered, 1), all |-> RowsPresent(State),
              moved |-> FALSE]
  /\ UNCHANGED <<folder, server, call, job, touched, tells, agreed, made, owed, outsides>>

\* Mutant: the cursor is held to no state.
NextPageAnyway ==
  LET n == Len(page.got) IN
  /\ page.at = "more" /\ Opens
  /\ page' = IF ~Valid(State) THEN NoPage
             ELSE [page EXCEPT !.got = @ \o Page(page.ordered, n + 1),
                               !.at = IF More(n + 1) THEN "more" ELSE "end"]
  /\ UNCHANGED <<folder, server, call, job, touched, tells, agreed, made, owed, outsides>>

\* CURSOR_STALE in any other state than the first page's.
NextPage ==
  LET n == Len(page.got) IN
  /\ page.at = "more" /\ Opens
  /\ page' = IF ~Valid(State) \/ Token # page.token THEN NoPage
             ELSE [page EXCEPT !.got = @ \o Page(page.ordered, n + 1),
                               !.at = IF More(n + 1) THEN "more" ELSE "end"]
  /\ UNCHANGED <<folder, server, call, job, touched, tells, agreed, made, owed, outsides>>

EndOfPages ==
  /\ page.at \in {"more", "end"} /\ page' = NoPage
  /\ UNCHANGED <<folder, kept, server, call, job, touched, tells, agreed, made, owed, outsides>>

-----------------------------------------------------------------------------
(* The environment                                                         *)

Meddles(what) == what \in Outside /\ outsides < MaxOutside /\ outsides' = outsides + 1

\* Another program saves a row, removes it, or saves what the contract refuses.
Edit(k, v) ==
  /\ v # row[k] /\ Meddles(IF v = Bad THEN "spoil" ELSE "edit")
  /\ row' = [row EXCEPT ![k] = v] /\ unread' = unread \cup {k}
  /\ UNCHANGED <<schema, source, recorded, head, order, server, call, job, touched, tells, agreed,
                 made, owed>>
  /\ NotesReturn

\* The same row is written in another layout.
Reformat(k) ==
  /\ row[k] # Gone /\ Meddles("reformat") /\ unread' = unread \cup {k}
  /\ UNCHANGED <<folder, recorded, head, order, server, call, job, touched, tells, agreed, made,
                 owed>>
  /\ NotesReturn

\* The file that import reads is outside the database.
EditSource(k, v) ==
  /\ v # source[k] /\ Meddles("source") /\ source' = [source EXCEPT ![k] = v]
  /\ UNCHANGED <<row, schema, kept, server, call, job, touched, tells, page, agreed, made, owed>>

\* The client disconnects, or the server is killed: all it held is gone.
Reopen ==
  /\ Restarts /\ plans' = <<>> /\ legacy' = {} /\ peer' = FALSE /\ listener' = {}
  /\ elicits' \in BOOLEAN
  /\ call' = [a \in Agent |-> "idle"] /\ job' = [a \in Agent |-> NoPlan]
  /\ touched' = [a \in Agent |-> Untouched] /\ tells' = [a \in Agent |-> {}]
  /\ agreed' = [a \in Agent |-> FALSE] /\ owed' = [a \in Agent |-> {}]
  /\ UNCHANGED <<folder, kept, serial, page, made, outsides>>

-----------------------------------------------------------------------------

McpInit ==
  /\ row \in [Key -> {"x", Gone}] /\ schema = "narrow"
  /\ source \in {[k \in Key |-> IF k = l THEN Gone ELSE "y"] : l \in Key}
  /\ recorded = State /\ head = 1 /\ order = SetToSeq(RowsPresent(State)) /\ unread = {}
  /\ plans = <<>> /\ serial = 0 /\ legacy = {} /\ peer = FALSE /\ listener = {}
  /\ elicits \in BOOLEAN
  /\ call = [a \in Agent |-> "idle"] /\ job = [a \in Agent |-> NoPlan]
  /\ touched = [a \in Agent |-> Untouched] /\ tells = [a \in Agent |-> {}]
  /\ page = NoPage /\ agreed = [a \in Agent |-> FALSE]
  /\ made = {} /\ owed = [a \in Agent |-> {}] /\ outsides = 0

Call(a) ==
  \/ \E t \in Tools : Plan(a, t)
  \/ \E p \in ToSet(plans), confirm \in BOOLEAN : NamePlan(a, p, confirm)
  \/ Decline(a) \/ Agree(a) \/ Run(a) \/ Announce(a) \/ Tell(a) \/ Answered(a)

Subscribing ==
  \/ \E u \in Uris : Subscribe(u) \/ Unsubscribe(u)
  \/ \E f \in SUBSET (Uris \cup {"list"}) : Listen(f)
  \/ StopListening

Paging ==
  \/ \E ordered \in BOOLEAN : FirstPage(ordered)
  \/ NextPage \/ EndOfPages

Others ==
  \/ \E k \in Key, v \in Sound \cup {Gone, Bad} : Edit(k, v)
  \/ \E k \in Key : Reformat(k)
  \/ \E k \in Key, v \in Sound \cup {Gone} : EditSource(k, v)
  \/ Reopen

McpNext == (\E a \in Agent : Call(a)) \/ Subscribing \/ Paging \/ Others

McpSpec == McpInit /\ [][McpNext]_mcpVars

-----------------------------------------------------------------------------
(* Properties                                                              *)

\* Agent a's plan is committed.
Commits(a) == call[a] = "running" /\ call'[a] = "announcing"

\* A plan makes exactly the change it showed, and removes rows only if the user was
\* asked or the agent confirmed: however calls that name the same plan, answers of
\* users, other plans and other programs come between.  It is committed again only by
\* a call that was asking when it was committed, and only once another program has
\* brought back the state it is of (mcp/mod.rs, answer; Database::transact).
OnceAsPlanned ==
  [][\A a \in Agent : Commits(a) =>
       /\ State' = job[a].shows
       /\ Removed(State, State') # {} => agreed[a]
       /\ \A c \in made :
            c.id = job[a].id => job[a].removes # {} /\ agreed[a] /\ c.after < outsides]_mcpVars

\* "A plan commits once, only with the arguments it was made with; other arguments, a
\* plan already committed, [...] are PLAN_CHANGED" (docs/mcp.md:115).
CommittedOnce == \A c, d \in made : c.id = d.id => c = d

\* The pages of a query are together the rows of the state its first page was read
\* in, none twice and, at its end, none missing (tools.rs, query): if the query says
\* in which order, or nothing written meanwhile left the same rows: a save in another
\* layout, an edit undone, a repair that brings back what was recorded.
PagesContinue ==
  page.at # "none" /\ (page.ordered \/ ~page.moved) =>
    /\ ToSet(page.got) \subseteq page.all /\ Cardinality(ToSet(page.got)) = Len(page.got)
    /\ page.at = "end" => ToSet(page.got) = page.all

\* Whoever was subscribed to something a committed change touched, when it was made,
\* and still is, has been told before the call is answered.
SubscribersHear == \A a \in Agent : call[a] = "telling" => owed[a] \subseteq tells[a]

=============================================================================
