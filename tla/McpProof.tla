------------------------------ MODULE McpProof ------------------------------
(***************************************************************************)
(* The server for agents, whoever calls it and whatever comes between the  *)
(* two calls of a change: a plan makes what it showed, is committed again  *)
(* only where another program brought back the state it is of, and who is  *)
(* subscribed to what a change touched hears of it before the answer.      *)
(***************************************************************************)
EXTENDS Mcp, SequenceTheorems, TLAPS

-----------------------------------------------------------------------------
(* Types                                                                   *)

States == [row : [Key -> Sound \cup {Gone, Bad}], schema : {"narrow", "wide"}]
Proposal == [id : Nat, tool : Tools, state : Nat \X States, removes : SUBSET Key, shows : States]
Change == [id : Nat, after : Nat]
Note == {"peer", "listener"} \X (Uris \cup {"list"})

\* Every variable that decides about a call has its type, and a call under way has a plan.
TypeOK ==
  /\ row \in [Key -> Sound \cup {Gone, Bad}] /\ schema \in {"narrow", "wide"}
  /\ source \in [Key -> Sound \cup {Gone}] /\ head \in Nat /\ serial \in Nat
  /\ plans \in Seq(Proposal) /\ legacy \subseteq Uris /\ peer \in BOOLEAN
  /\ listener \subseteq Uris \cup {"list"}
  /\ call \in [Agent -> {"idle", "asking", "running", "announcing", "telling"}]
  /\ job \in [Agent -> Proposal \cup {NoPlan}] /\ agreed \in [Agent -> BOOLEAN]
  /\ touched \in [Agent -> [rows : BOOLEAN, schemas : BOOLEAN]]
  /\ tells \in [Agent -> SUBSET Note] /\ owed \in [Agent -> SUBSET Note]
  /\ made \subseteq Change /\ outsides \in Nat

Busy == \A a \in Agent : call[a] # "idle" => job[a] \in Proposal

-----------------------------------------------------------------------------
(* Forgetting plans                                                        *)

LEMMA RemoveAtIs ==
  ASSUME NEW S, NEW s \in Seq(S), NEW i \in 1..Len(s)
  PROVE  /\ RemoveAt(s, i) \in Seq(S) /\ DOMAIN RemoveAt(s, i) = 1..(Len(s) - 1)
         /\ \A j \in 1..(Len(s) - 1) : RemoveAt(s, i)[j] = IF j < i THEN s[j] ELSE s[j + 1]
<1> DEFINE b == SubSeq(s, 1, i - 1)
           e == SubSeq(s, i + 1, Len(s))
<1>1. /\ b \in Seq(S) /\ Len(b) = i - 1 /\ \A j \in 1..(i-1) : b[j] = s[j]
  BY SubSeqProperties
<1>2. /\ e \in Seq(S) /\ Len(e) = Len(s) - i /\ \A j \in 1..(Len(s) - i) : e[j] = s[i + j]
  BY SubSeqProperties
<1>3. RemoveAt(s, i) = b \o e
  BY DEF RemoveAt
<1> HIDE DEF b, e
<1>4. /\ b \o e \in Seq(S) /\ Len(b \o e) = Len(s) - 1
      /\ \A j \in 1..(Len(s) - 1) :
           (b \o e)[j] = IF j <= i - 1 THEN b[j] ELSE e[j - (i - 1)]
  <2>1. /\ b \o e \in Seq(S) /\ Len(b \o e) = Len(b) + Len(e)
        /\ \A j \in 1..(Len(b) + Len(e)) :
             (b \o e)[j] = IF j <= Len(b) THEN b[j] ELSE e[j - Len(b)]
    BY <1>1, <1>2, ConcatProperties
  <2>2. Len(b) + Len(e) = Len(s) - 1
    BY <1>1, <1>2
  <2> QED BY <1>1, <2>1, <2>2
<1>5. ASSUME NEW j \in 1..(Len(s) - 1)
      PROVE  (b \o e)[j] = IF j < i THEN s[j] ELSE s[j + 1]
  <2>0. (b \o e)[j] = IF j <= i - 1 THEN b[j] ELSE e[j - (i - 1)]
    BY <1>4
  <2>1. CASE j < i
    <3>1. j \in 1..(i - 1) /\ j <= i - 1
      BY <2>1
    <3> QED BY <1>1, <2>0, <2>1, <3>1
  <2>2. CASE ~(j < i)
    <3>1. j - (i - 1) \in 1..(Len(s) - i) /\ i + (j - (i - 1)) = j + 1 /\ ~(j <= i - 1)
      BY <2>2
    <3>2. e[j - (i - 1)] = s[i + (j - (i - 1))]
      BY <1>2, <3>1
    <3> QED BY <2>0, <2>2, <3>1, <3>2
  <2> QED BY <2>1, <2>2
<1> QED BY <1>3, <1>4, <1>5

\* No plan is kept twice.
Distinct(s) == \A i, j \in DOMAIN s : s[i] = s[j] => i = j

\* A plan that is forgotten is gone: it was kept once, or no more.
LEMMA ForgetKeeps ==
  ASSUME NEW p, plans \in Seq(Proposal), ForgetPlan(p)
  PROVE  /\ plans' \in Seq(Proposal) /\ ToSet(plans') \subseteq ToSet(plans)
         /\ Distinct(plans) => Distinct(plans') /\ p \notin ToSet(plans')
<1>1. CASE p \notin ToSet(plans) /\ UNCHANGED plans
  BY <1>1 DEF Distinct
<1>2. CASE \E i \in DOMAIN plans : plans[i] = p /\ plans' = RemoveAt(plans, i)
  <2>1. PICK i \in 1..Len(plans) : plans[i] = p /\ plans' = RemoveAt(plans, i)
    BY <1>2
  <2> DEFINE n == Len(plans)
             k(j) == IF j < i THEN j ELSE j + 1
  <2>2. n \in Nat /\ DOMAIN plans = 1..n /\ i \in 1..n
    BY <2>1
  <2>3. plans' \in Seq(Proposal) /\ DOMAIN plans' = 1..(n - 1)
    BY <2>1, RemoveAtIs
  <2>4. ASSUME NEW j \in 1..(n - 1) PROVE plans'[j] = plans[k(j)] /\ k(j) \in 1..n /\ k(j) # i
    <3>1. plans'[j] = IF j < i THEN plans[j] ELSE plans[j + 1]
      BY <2>1, RemoveAtIs
    <3> QED BY <2>2, <3>1
  <2>5. ToSet(plans') \subseteq ToSet(plans)
    BY <2>2, <2>3, <2>4 DEF ToSet
  <2>6. ASSUME Distinct(plans) PROVE Distinct(plans') /\ p \notin ToSet(plans')
    <3>1. p \notin ToSet(plans')
      BY <2>1, <2>2, <2>3, <2>4, <2>6 DEF Distinct, ToSet
    <3>2. ASSUME NEW j \in 1..(n - 1), NEW l \in 1..(n - 1), plans'[j] = plans'[l] PROVE j = l
      <4>1. k(j) = k(l)
        BY <2>2, <2>4, <2>6, <3>2 DEF Distinct
      <4> QED BY <2>2, <4>1
    <3> QED BY <2>3, <3>1, <3>2 DEF Distinct
  <2> QED BY <2>3, <2>5, <2>6
<1> QED BY <1>1, <1>2 DEF ForgetPlan

-----------------------------------------------------------------------------
(* What a command reads and what a tool makes                              *)

LEMMA Read ==
  ASSUME TypeOK
  PROVE  /\ State \in States /\ Token \in Nat \X States
         /\ \A s : HeadAt(s) \in Nat /\ head <= HeadAt(s)
         /\ \A t, r : Revisions(t, r) \in {0, 1}
         /\ Token[1] = HeadAt(State) /\ Token[2] = State
<1>1. State \in States
  BY DEF TypeOK, State, States
<1>2. \A t, r : Revisions(t, r) \in {0, 1}
  BY DEF Revisions
<1>3. \A s : HeadAt(s) \in Nat /\ head <= HeadAt(s)
  <2> SUFFICES ASSUME NEW s PROVE HeadAt(s) \in Nat /\ head <= HeadAt(s)
    OBVIOUS
  <2>1. Revisions(s, recorded) \in {0, 1} /\ head \in Nat
    BY <1>2 DEF TypeOK
  <2> QED BY <2>1 DEF HeadAt
<1> QED BY <1>1, <1>2, <1>3 DEF Token

LEMMA Makes ==
  ASSUME TypeOK, NEW t \in Tools, NEW s \in States
  PROVE  After(t, s) \in States
<1>1. CASE t.tool = "update"
  <2>1. t.key \in Key /\ t.to \in Sound
    BY <1>1 DEF Tools
  <2>2. After(t, s) = [s EXCEPT !.row[t.key] = t.to]
    BY <1>1 DEF After
  <2> QED BY <2>1, <2>2 DEF States
<1>2. CASE t.tool = "delete"
  <2>1. t.key \in Key
    BY <1>2 DEF Tools
  <2>2. After(t, s) = [s EXCEPT !.row[t.key] = Gone]
    BY <1>2 DEF After
  <2> QED BY <2>1, <2>2 DEF States
<1>3. CASE t.tool = "import"
  <2>1. After(t, s) = [s EXCEPT !.row = source]
    BY <1>3 DEF After
  <2> QED BY <2>1 DEF States, TypeOK
<1>4. CASE t.tool = "widen"
  <2>1. After(t, s) = [s EXCEPT !.schema = "wide"]
    BY <1>4 DEF After
  <2> QED BY <2>1 DEF States
<1>5. CASE t.tool = "apply_fixes"
  <2> DEFINE mended == IF t.only = "FIX_REMOVE_REFERENCE" THEN "x" ELSE Gone
             f == [k \in Key |-> IF s.row[k] = Bad THEN mended ELSE s.row[k]]
  <2>1. After(t, s) = [s EXCEPT !.row = f]
    BY <1>5, Zenon DEF After
  <2>2. f \in [Key -> Sound \cup {Gone, Bad}]
    BY DEF States, Sound
  <2> HIDE DEF f
  <2> QED BY <2>1, <2>2 DEF States
<1> QED BY <1>1, <1>2, <1>3, <1>4, <1>5 DEF Tools

LEMMA Notes ==
  ASSUME TypeOK, NEW U \in SUBSET Uris, NEW listed \in BOOLEAN
  PROVE  Subscribed(U, listed) \in SUBSET Note
BY DEF TypeOK, Subscribed, Note, Uris

LEMMA Touched ==
  ASSUME NEW rows \in BOOLEAN, NEW schemas \in BOOLEAN
  PROVE  Affected(rows, schemas) \in SUBSET Uris
BY DEF Affected, Uris

-----------------------------------------------------------------------------
(* Types are kept                                                          *)


LEMMA PlanKeepsType ==
  ASSUME TypeOK, NEW a \in Agent, NEW t \in Tools, Plan(a, t)
  PROVE  /\ TypeOK' /\ serial <= serial' /\ head <= head'
         /\ \/ UNCHANGED plans
            \/ \E p \in Proposal :
                 /\ p.id = serial + 1 /\ serial' = serial + 1 /\ p.state = Token /\ p.tool = t
                 /\ p.shows = After(t, State) /\ p.removes = Removed(State, p.shows)
                 /\ ToSet(plans') \subseteq ToSet(plans) \cup {p} /\ ~Refused(t, State)
                 /\ Distinct(plans) /\ p \notin ToSet(plans) => Distinct(plans')
<1>1. head' \in Nat /\ head <= head'
  BY Read DEF Plan, Opens
<1>2. CASE Refused(t, State)
  <2>1. UNCHANGED <<plans, serial>>
    BY <1>2 DEF Plan
  <2> QED BY <1>1, <2>1 DEF Plan, TypeOK, folder
<1>3. CASE ~Refused(t, State)
  <2> DEFINE p == [id |-> serial + 1, tool |-> t, state |-> Token,
                   removes |-> Removed(State, After(t, State)), shows |-> After(t, State)]
             longer == Append(plans, p)
  <2>1. /\ serial' = serial + 1
        /\ plans' = IF Len(longer) > PlansKept THEN Tail(longer) ELSE longer
    BY <1>3 DEF Plan
  <2>2. p \in Proposal
    <3>1. Removed(State, After(t, State)) \in SUBSET Key
      BY DEF Removed
    <3>2. serial + 1 \in Nat
      BY DEF TypeOK
    <3> QED BY <3>1, <3>2, Read, Makes DEF Proposal
  <2>3. p.id = serial + 1 /\ p.state = Token /\ p.tool = t
        /\ p.shows = After(t, State) /\ p.removes = Removed(State, p.shows)
    OBVIOUS
  <2> HIDE DEF p
  <2>4. /\ longer \in Seq(Proposal) /\ longer # <<>> /\ ToSet(longer) = ToSet(plans) \cup {p}
        /\ Distinct(plans) /\ p \notin ToSet(plans) => Distinct(longer)
    <3>1. plans \in Seq(Proposal)
      BY DEF TypeOK
    <3>2. /\ longer \in Seq(Proposal) /\ longer # <<>> /\ Len(longer) = Len(plans) + 1
          /\ \A i \in 1..Len(plans) : longer[i] = plans[i]
          /\ longer[Len(plans) + 1] = p
      BY <2>2, <3>1, AppendProperties
    <3> HIDE DEF longer
    <3>3. DOMAIN longer = 1..(Len(plans) + 1) /\ DOMAIN plans = 1..Len(plans) /\ Len(plans) \in Nat
      BY <3>1, <3>2
    <3>4. \A i \in 1..(Len(plans) + 1) : i \in 1..Len(plans) \/ i = Len(plans) + 1
      BY <3>3
    <3>5. \A i \in 1..Len(plans) : i \in 1..(Len(plans) + 1)
      BY <3>3
    <3>6. Len(plans) + 1 \in 1..(Len(plans) + 1)
      BY <3>3
    <3>7. ToSet(longer) = ToSet(plans) \cup {p}
      BY <3>2, <3>3, <3>4, <3>5, <3>6 DEF ToSet
    <3>8. ASSUME Distinct(plans), p \notin ToSet(plans),
                 NEW i \in DOMAIN longer, NEW j \in DOMAIN longer, longer[i] = longer[j]
          PROVE  i = j
      <4>1. \A n \in 1..Len(plans) : longer[n] # p
        BY <3>2, <3>3, <3>8 DEF ToSet
      <4>2. CASE i \in 1..Len(plans) /\ j \in 1..Len(plans)
        BY <3>2, <3>3, <3>8, <4>2 DEF Distinct
      <4> QED BY <3>2, <3>3, <3>4, <3>8, <4>1, <4>2
    <3> QED BY <3>2, <3>7, <3>8 DEF Distinct
  <2> HIDE DEF longer
  <2>5. /\ Tail(longer) \in Seq(Proposal) /\ ToSet(Tail(longer)) \subseteq ToSet(longer)
        /\ Distinct(longer) => Distinct(Tail(longer))
    <3>1. /\ Tail(longer) \in Seq(Proposal) /\ Len(Tail(longer)) = Len(longer) - 1
          /\ \A i \in 1..Len(Tail(longer)) : Tail(longer)[i] = longer[i + 1]
      BY <2>4, HeadTailProperties
    <3>2. DOMAIN Tail(longer) = 1..Len(Tail(longer)) /\ DOMAIN longer = 1..Len(longer)
      BY <2>4, <3>1
    <3>3. \A i \in DOMAIN Tail(longer) : i + 1 \in DOMAIN longer /\ Tail(longer)[i] = longer[i + 1]
      BY <2>4, <3>1, <3>2
    <3> DEFINE tail == Tail(longer)
    <3>4. tail \in Seq(Proposal) /\ DOMAIN tail \subseteq Nat
      BY <3>1, <3>2
    <3>5. \A i \in DOMAIN tail : i + 1 \in DOMAIN longer /\ tail[i] = longer[i + 1]
      BY <3>3
    <3> HIDE DEF tail
    <3>6. ToSet(tail) \subseteq ToSet(longer)
      BY <3>5 DEF ToSet
    <3>7. ASSUME Distinct(longer), NEW i \in DOMAIN tail, NEW j \in DOMAIN tail, tail[i] = tail[j]
          PROVE  i = j
      <4>1. i + 1 = j + 1
        BY <3>5, <3>7 DEF Distinct
      <4> QED BY <3>4, <4>1
    <3> QED BY <3>4, <3>6, <3>7 DEF tail, Distinct
  <2>6. /\ plans' \in Seq(Proposal) /\ ToSet(plans') \subseteq ToSet(plans) \cup {p}
        /\ Distinct(plans) /\ p \notin ToSet(plans) => Distinct(plans')
    BY <2>1, <2>4, <2>5
  <2>7. serial' \in Nat /\ serial <= serial'
    BY <2>1 DEF TypeOK
  <2>8. TypeOK'
    BY <1>1, <2>6, <2>7 DEF Plan, TypeOK, folder
  <2> QED BY <1>1, <1>3, <2>1, <2>2, <2>3, <2>6, <2>7, <2>8
<1> QED BY <1>2, <1>3

\* A call returns.
LEMMA Returns ==
  ASSUME TypeOK, NEW a \in Agent, Return(a)
  PROVE  /\ call' \in [Agent -> {"idle", "asking", "running", "announcing", "telling"}]
         /\ job' \in [Agent -> Proposal \cup {NoPlan}] /\ agreed' \in [Agent -> BOOLEAN]
         /\ touched' \in [Agent -> [rows : BOOLEAN, schemas : BOOLEAN]] /\ call'[a] = "idle"
         /\ \A b \in Agent : b # a => /\ call'[b] = call[b] /\ job'[b] = job[b]
                                     /\ agreed'[b] = agreed[b] /\ touched'[b] = touched[b]
BY DEF TypeOK, Return, Untouched

LEMMA RunKeepsType ==
  ASSUME TypeOK, Busy, NEW a \in Agent, Run(a)
  PROVE  /\ TypeOK' /\ head <= head'
         /\ \/ Return(a) /\ UNCHANGED <<row, schema, made, owed>>
            \/ /\ Token = job[a].state /\ After(job[a].tool, State) \in States
               /\ After(job[a].tool, State) # State /\ Commit(a, After(job[a].tool, State))
<1> DEFINE t == After(job[a].tool, State)
<1>1. job[a] \in Proposal /\ job[a].tool \in Tools /\ job[a].id \in Nat
  BY DEF Busy, Run, Proposal
<1>2. t \in States
  BY <1>1, Read, Makes
<1>r. Run(a) => \/ Opens /\ Return(a) /\ UNCHANGED <<row, schema, made, owed>>
                \/ Token = job[a].state /\ t # State /\ Commit(a, t)
  BY DEF Run
<1> HIDE DEF t
<1>3. CASE Opens /\ Return(a) /\ UNCHANGED <<row, schema, made, owed>>
  <2>1. head' \in Nat /\ head <= head'
    BY <1>3, Read DEF Opens
  <2> QED BY <1>3, <2>1, Returns DEF Run, TypeOK, server
<1>4. CASE Token = job[a].state /\ t # State /\ Commit(a, t)
  <2> DEFINE h == HeadAt(State)
             n == Revisions(t, RecordedAt(State))
             rows == Written(State, t) # {}
             schemas == t.schema # schema
             o == Subscribed(Affected(rows, schemas), schemas)
             m == [id |-> job[a].id, after |-> outsides]
             w == [rows |-> rows, schemas |-> schemas]
  <2>0. /\ row' = t.row /\ schema' = t.schema /\ head' = h + n
        /\ call' = [call EXCEPT ![a] = "announcing"] /\ made' = made \cup {m}
        /\ touched' = [touched EXCEPT ![a] = w] /\ owed' = [owed EXCEPT ![a] = o]
        /\ UNCHANGED <<job, agreed>>
    BY <1>4, Zenon DEF Commit
  <2>1. h \in Nat /\ head <= h /\ head \in Nat /\ n \in {0, 1}
    BY Read DEF TypeOK
  <2>2. o \in SUBSET Note
    BY Notes, Touched
  <2>3. m \in Change /\ w \in [rows : BOOLEAN, schemas : BOOLEAN]
    BY <1>1 DEF Change, TypeOK
  <2>4. t.row \in [Key -> Sound \cup {Gone, Bad}] /\ t.schema \in {"narrow", "wide"}
    BY <1>2 DEF States
  <2> HIDE DEF h, n, o, m, w
  <2>5. head' \in Nat /\ head <= head'
    BY <2>0, <2>1
  <2>6. UNCHANGED <<source, plans, serial, legacy, peer, listener, tells, outsides>>
    BY DEF Run, server
  <2>7. TypeOK'
    BY <2>0, <2>2, <2>3, <2>4, <2>5, <2>6 DEF TypeOK
  <2> QED BY <1>2, <1>4, <2>5, <2>7 DEF t
<1> QED BY <1>3, <1>4, <1>r

\* Who is subscribed to what a's change touched.
Hearers(a) ==
  Subscribed(Affected(touched[a].rows, touched[a].schemas), touched[a].schemas)

LEMMA AnnounceKeepsType ==
  ASSUME TypeOK, NEW a \in Agent, Announce(a)
  PROVE  TypeOK' /\ tells'[a] = Hearers(a)
<1> DEFINE n == Hearers(a)
<1>0. touched[a].rows \in BOOLEAN /\ touched[a].schemas \in BOOLEAN
  BY DEF TypeOK
<1>1. n \in SUBSET Note
  BY <1>0, Notes, Touched DEF Hearers
<1>2. tells' = [tells EXCEPT ![a] = n]
  BY DEF Announce, Hearers
<1> HIDE DEF n
<1>3. tells' \in [Agent -> SUBSET Note] /\ tells'[a] = n
  BY <1>1, <1>2 DEF TypeOK
<1> QED BY <1>3 DEF Announce, TypeOK, folder, kept, server, n

LEMMA CallKeepsType ==
  ASSUME TypeOK, Busy, NEW a \in Agent, Call(a)
  PROVE  TypeOK' /\ head <= head' /\ serial <= serial'
<1>0. head \in Nat /\ serial \in Nat
  BY DEF TypeOK
<1>1. ASSUME NEW t \in Tools, Plan(a, t) PROVE TypeOK' /\ head <= head' /\ serial <= serial'
  BY <1>1, PlanKeepsType
<1>2. ASSUME NEW p \in ToSet(plans), NEW confirm \in BOOLEAN, NamePlan(a, p, confirm)
      PROVE  TypeOK' /\ head <= head' /\ serial <= serial'
  <2>1. p \in Proposal
    BY DEF ToSet, TypeOK
  <2>2. plans' \in Seq(Proposal)
    BY <1>2, ForgetKeeps DEF NamePlan, TypeOK
  <2>3. /\ call' \in [Agent -> {"idle", "asking", "running", "announcing", "telling"}]
        /\ job' \in [Agent -> Proposal \cup {NoPlan}] /\ agreed' \in [Agent -> BOOLEAN]
    <3>1. /\ job' = [job EXCEPT ![a] = p] /\ agreed' = [agreed EXCEPT ![a] = confirm]
          /\ \E at \in {"running", "asking"} : call' = [call EXCEPT ![a] = at]
      BY <1>2 DEF NamePlan
    <3> QED BY <2>1, <3>1 DEF TypeOK
  <2>4. UNCHANGED <<folder, kept, serial, legacy, peer, listener, touched, tells, made, owed, outsides>>
    BY <1>2 DEF NamePlan
  <2> QED BY <1>0, <2>2, <2>3, <2>4 DEF TypeOK, folder, kept
<1>3. ASSUME Decline(a) PROVE TypeOK' /\ head <= head' /\ serial <= serial'
  BY <1>0, <1>3, Returns DEF Decline, TypeOK, folder, kept, server
<1>4. ASSUME Agree(a) PROVE TypeOK' /\ head <= head' /\ serial <= serial'
  <2>1. plans' \in Seq(Proposal)
    BY <1>4, ForgetKeeps DEF Agree, TypeOK
  <2> QED BY <1>0, <1>4, <2>1 DEF Agree, TypeOK, folder, kept
<1>5. ASSUME Run(a) PROVE TypeOK' /\ head <= head' /\ serial <= serial'
  <2>1. TypeOK' /\ head <= head'
    BY <1>5, RunKeepsType
  <2> QED BY <1>0, <1>5, <2>1 DEF Run, server
<1>6. ASSUME Announce(a) PROVE TypeOK' /\ head <= head' /\ serial <= serial'
  <2>1. head' = head /\ serial' = serial
    BY <1>6 DEF Announce, kept, server
  <2>2. TypeOK'
    BY <1>6, AnnounceKeepsType
  <2> QED BY <1>0, <2>1, <2>2
<1>7. ASSUME Tell(a) PROVE TypeOK' /\ head <= head' /\ serial <= serial'
  BY <1>0, <1>7 DEF Tell, TypeOK, folder, kept, server
<1>8. ASSUME Answered(a) PROVE TypeOK' /\ head <= head' /\ serial <= serial'
  BY <1>0, <1>8, Returns DEF Answered, TypeOK, folder, kept, server
<1> QED BY <1>1, <1>2, <1>3, <1>4, <1>5, <1>6, <1>7, <1>8 DEF Call

LEMMA OthersKeepType ==
  ASSUME TypeOK, Subscribing \/ Paging \/ Others \/ UNCHANGED mcpVars
  PROVE  TypeOK' /\ head <= head' /\ serial <= serial'
<1>0. head \in Nat /\ serial \in Nat
  BY DEF TypeOK
<1>1. CASE Subscribing
  <2>1. ASSUME NEW u \in Uris, Subscribe(u) PROVE TypeOK' /\ head <= head' /\ serial <= serial'
    BY <1>0, <2>1 DEF Subscribe, TypeOK, folder, kept
  <2>2. ASSUME NEW u \in Uris, Unsubscribe(u) PROVE TypeOK' /\ head <= head' /\ serial <= serial'
    BY <1>0, <2>2 DEF Unsubscribe, TypeOK, folder, kept
  <2>3. ASSUME NEW f \in SUBSET (Uris \cup {"list"}), Listen(f)
        PROVE  TypeOK' /\ head <= head' /\ serial <= serial'
    BY <1>0, <2>3 DEF Listen, TypeOK, folder, kept
  <2>4. ASSUME StopListening PROVE TypeOK' /\ head <= head' /\ serial <= serial'
    BY <1>0, <2>4 DEF StopListening, TypeOK, folder, kept
  <2> QED BY <1>1, <2>1, <2>2, <2>3, <2>4 DEF Subscribing
<1>2. CASE Paging
  <2>1. UNCHANGED <<folder, server, call, job, touched, tells, agreed, made, owed, outsides>>
    BY <1>2 DEF Paging, FirstPage, NextPage, EndOfPages
  <2>2. head' \in Nat /\ head <= head'
    BY <1>0, <1>2, Read DEF Paging, FirstPage, NextPage, EndOfPages, Opens, kept
  <2> QED BY <1>0, <2>1, <2>2 DEF TypeOK, folder, server
<1>3. CASE Others
  <2>1. ASSUME NEW k \in Key, NEW v \in Sound \cup {Gone, Bad}, Edit(k, v)
        PROVE  TypeOK' /\ head <= head' /\ serial <= serial'
    BY <1>0, <2>1 DEF Edit, Meddles, TypeOK, server
  <2>2. ASSUME NEW k \in Key, Reformat(k) PROVE TypeOK' /\ head <= head' /\ serial <= serial'
    BY <1>0, <2>2 DEF Reformat, Meddles, TypeOK, folder, server
  <2>3. ASSUME NEW k \in Key, NEW v \in Sound \cup {Gone}, EditSource(k, v)
        PROVE  TypeOK' /\ head <= head' /\ serial <= serial'
    BY <1>0, <2>3 DEF EditSource, Meddles, TypeOK, kept, server
  <2>4. ASSUME Reopen PROVE TypeOK' /\ head <= head' /\ serial <= serial'
    <3>1. plans' \in Seq(Proposal)
      BY <2>4 DEF Reopen
    <3>2. /\ call' \in [Agent -> {"idle", "asking", "running", "announcing", "telling"}]
          /\ touched' \in [Agent -> [rows : BOOLEAN, schemas : BOOLEAN]]
          /\ job' \in [Agent -> Proposal \cup {NoPlan}] /\ agreed' \in [Agent -> BOOLEAN]
      BY <2>4 DEF Reopen, Untouched
    <3>3. tells' \in [Agent -> SUBSET Note] /\ owed' \in [Agent -> SUBSET Note]
      BY <2>4 DEF Reopen
    <3>4. legacy' \subseteq Uris /\ peer' \in BOOLEAN /\ listener' \subseteq Uris \cup {"list"}
      BY <2>4 DEF Reopen
    <3>5. /\ UNCHANGED <<row, schema, source, head, serial, made, outsides>>
      BY <2>4 DEF Reopen, folder, kept
    <3> QED BY <1>0, <3>1, <3>2, <3>3, <3>4, <3>5 DEF TypeOK
  <2> QED BY <1>3, <2>1, <2>2, <2>3, <2>4 DEF Others
<1>4. CASE UNCHANGED mcpVars
  BY <1>0, <1>4 DEF mcpVars, TypeOK, folder, kept, server
<1> QED BY <1>1, <1>2, <1>3, <1>4

-----------------------------------------------------------------------------

-----------------------------------------------------------------------------
(* The steps there are                                                     *)

\* Nothing is planned, named or committed, and a call runs on or because its user agreed.
NothingNew ==
  /\ ToSet(plans') \subseteq ToSet(plans) /\ (Distinct(plans) => Distinct(plans'))
  /\ made' = made /\ head <= head' /\ serial <= serial' /\ outsides <= outsides'
  /\ outsides' = outsides => UNCHANGED <<row, schema>>

GoesOn(a) ==
  call'[a] # "idle" =>
    /\ call[a] # "idle" /\ job'[a] = job[a]
    /\ call'[a] \in {"asking", "announcing"} => call[a] = call'[a]
    /\ call'[a] = "running" => \/ call[a] = "running" /\ agreed'[a] = agreed[a]
                               \/ call[a] = "asking" /\ agreed'[a]

Quiet == NothingNew /\ \A a \in Agent : GoesOn(a)

\* A call makes its change.
Committing(a) ==
  /\ call[a] = "running" /\ Token = job[a].state
  /\ After(job[a].tool, State) \in States /\ After(job[a].tool, State) # State
  /\ Commit(a, After(job[a].tool, State)) /\ UNCHANGED <<source, server, outsides>>

LEMMA SamePlans ==
  ASSUME TypeOK, UNCHANGED <<plans, made, outsides, serial>>, UNCHANGED <<row, schema>>, head <= head'
  PROVE  NothingNew
<1>1. serial <= serial' /\ outsides <= outsides'
  BY DEF TypeOK
<1> QED BY <1>1 DEF NothingNew, Distinct

LEMMA QuietCalls ==
  ASSUME TypeOK, Busy, NEW a \in Agent,
         \/ Decline(a) \/ Agree(a) \/ Announce(a) \/ Tell(a) \/ Answered(a)
         \/ Run(a) /\ Return(a) /\ UNCHANGED <<row, schema, made, owed>>
  PROVE  Quiet
<1>0. head \in Nat /\ serial \in Nat /\ outsides \in Nat
  BY DEF TypeOK
<1>s. UNCHANGED head => head <= head'
  BY <1>0
<1>r. ASSUME Return(a), NEW b \in Agent PROVE GoesOn(b)
  BY <1>r, Returns DEF GoesOn
<1>1. CASE Decline(a)
  BY <1>s, <1>r, <1>1, SamePlans DEF Decline, folder, kept, server, Quiet
<1>2. CASE Agree(a)
  <2>1. ToSet(plans') \subseteq ToSet(plans) /\ (Distinct(plans) => Distinct(plans'))
    BY <1>2, ForgetKeeps DEF Agree, TypeOK
  <2>2. /\ call' = [call EXCEPT ![a] = "running"] /\ agreed' = [agreed EXCEPT ![a] = TRUE]
        /\ call[a] = "asking" /\ UNCHANGED <<row, schema, head, serial, job, made, outsides>>
    BY <1>2 DEF Agree, folder, kept
  <2>3. NothingNew
    BY <1>0, <2>1, <2>2 DEF NothingNew
  <2>4. ASSUME NEW b \in Agent PROVE GoesOn(b)
    <3>1. CASE b = a
      BY <2>2, <3>1 DEF GoesOn, TypeOK
    <3>2. CASE b # a
      BY <2>2, <3>2 DEF GoesOn, TypeOK
    <3> QED BY <3>1, <3>2
  <2> QED BY <2>3, <2>4 DEF Quiet
<1>3. CASE Run(a) /\ Return(a) /\ UNCHANGED <<row, schema, made, owed>>
  <2>1. head <= head' /\ UNCHANGED <<plans, serial, outsides>>
    BY <1>3, RunKeepsType DEF Run, server
  <2> QED BY <1>r, <1>3, <2>1, SamePlans DEF Quiet
<1>4. CASE Announce(a)
  <2>1. /\ call' = [call EXCEPT ![a] = "telling"] /\ UNCHANGED <<job, agreed>>
        /\ call[a] = "announcing" /\ NothingNew
    BY <1>s, <1>4, SamePlans DEF Announce, folder, kept, server
  <2>2. \A b \in Agent : GoesOn(b)
    BY <2>1 DEF GoesOn, TypeOK
  <2> QED BY <2>1, <2>2 DEF Quiet
<1>5. CASE Tell(a)
  <2>1. UNCHANGED <<call, job, agreed>> /\ NothingNew
    BY <1>s, <1>5, SamePlans DEF Tell, folder, kept, server
  <2>2. \A b \in Agent : GoesOn(b)
    BY <2>1 DEF GoesOn, TypeOK
  <2> QED BY <2>1, <2>2 DEF Quiet
<1>6. CASE Answered(a)
  BY <1>s, <1>r, <1>6, SamePlans DEF Answered, folder, kept, server, Quiet
<1> QED BY <1>1, <1>2, <1>3, <1>4, <1>5, <1>6

LEMMA QuietOthers ==
  ASSUME TypeOK, Subscribing \/ Paging \/ Others \/ UNCHANGED mcpVars
  PROVE  Quiet
<1>0. head \in Nat /\ serial \in Nat /\ outsides \in Nat
  BY DEF TypeOK
<1>1. head <= head' /\ serial <= serial'
  BY OthersKeepType
<1>2. CASE Reopen
  <2>1. ToSet(plans') = {} /\ Distinct(plans')
    BY <1>2 DEF Reopen, ToSet, Distinct
  <2>2. NothingNew
    BY <1>0, <1>1, <1>2, <2>1 DEF Reopen, folder, NothingNew
  <2> QED BY <1>2, <2>2 DEF Reopen, Quiet, GoesOn
<1>3. ASSUME ~Reopen PROVE Quiet
  <2>1. UNCHANGED <<plans, call, job, agreed, made>>
    BY <1>3 DEF Subscribing, Subscribe, Unsubscribe, Listen, StopListening, Paging, FirstPage,
                NextPage, EndOfPages, Others, Edit, Reformat, EditSource, mcpVars, server
  <2>2. UNCHANGED <<row, schema, outsides>> \/ outsides' = outsides + 1
    BY <1>3 DEF Subscribing, Subscribe, Unsubscribe, Listen, StopListening, Paging, FirstPage,
                NextPage, EndOfPages, Others, Edit, Reformat, EditSource, Meddles, mcpVars, folder
  <2>3. outsides <= outsides' /\ (outsides' = outsides => UNCHANGED <<row, schema>>)
    BY <1>0, <2>2
  <2>4. NothingNew
    BY <1>1, <2>1, <2>3 DEF NothingNew, Distinct
  <2>5. \A a \in Agent : GoesOn(a)
    BY <2>1 DEF GoesOn, TypeOK
  <2> QED BY <2>4, <2>5 DEF Quiet
<1> QED BY <1>2, <1>3

Steps ==
  \/ Quiet
  \/ \E a \in Agent, t \in Tools : Plan(a, t)
  \/ \E a \in Agent, p \in ToSet(plans), confirm \in BOOLEAN : NamePlan(a, p, confirm)
  \/ \E a \in Agent : Committing(a)

LEMMA StepsAre ==
  ASSUME TypeOK, Busy, McpNext \/ UNCHANGED mcpVars
  PROVE  TypeOK' /\ Steps
<1>1. ASSUME NEW a \in Agent, Run(a)
      PROVE  Committing(a) \/ (Return(a) /\ UNCHANGED <<row, schema, made, owed>>)
  <2>1. call[a] = "running" /\ UNCHANGED <<source, server, outsides>>
    BY <1>1 DEF Run
  <2>2. CASE After(job[a].tool, State) = State
    BY <1>1, <2>2, RunKeepsType
  <2> QED BY <1>1, <2>1, RunKeepsType DEF Committing
<1>2. ASSUME NEW a \in Agent, Call(a) PROVE TypeOK' /\ Steps
  BY <1>1, <1>2, CallKeepsType, QuietCalls DEF Call, Steps
<1>3. ASSUME Subscribing \/ Paging \/ Others \/ UNCHANGED mcpVars PROVE TypeOK' /\ Steps
  BY <1>3, OthersKeepType, QuietOthers DEF Steps
<1> QED BY <1>2, <1>3 DEF McpNext

\* A call under way is about a plan that was kept, or that it was about before.
LEMMA StepBusy ==
  ASSUME TypeOK, Busy, Steps
  PROVE  Busy'
<1>1. CASE Quiet
  BY <1>1 DEF Quiet, GoesOn, Busy
<1>2. ASSUME NEW a \in Agent, NEW t \in Tools, Plan(a, t) PROVE Busy'
  BY <1>2 DEF Plan, Busy
<1>3. ASSUME NEW a \in Agent, NEW p \in ToSet(plans), NEW confirm \in BOOLEAN,
             NamePlan(a, p, confirm)
      PROVE  Busy'
  <2>1. p \in Proposal
    BY DEF ToSet, TypeOK
  <2> QED BY <1>3, <2>1 DEF NamePlan, Busy, TypeOK
<1>4. ASSUME NEW a \in Agent, Committing(a) PROVE Busy'
  BY <1>4 DEF Committing, Commit, Busy, TypeOK
<1> QED BY <1>1, <1>2, <1>3, <1>4 DEF Steps

LEMMA InitTyped ==
  ASSUME McpInit
  PROVE  TypeOK /\ Busy
<1>1. source \in [Key -> Sound \cup {Gone}]
  BY DEF McpInit, Sound
<1>2. plans \in Seq(Proposal)
  BY DEF McpInit
<1>3. /\ call \in [Agent -> {"idle", "asking", "running", "announcing", "telling"}]
      /\ job \in [Agent -> Proposal \cup {NoPlan}] /\ agreed \in [Agent -> BOOLEAN]
      /\ touched \in [Agent -> [rows : BOOLEAN, schemas : BOOLEAN]]
      /\ tells \in [Agent -> SUBSET Note] /\ owed \in [Agent -> SUBSET Note]
  BY DEF McpInit, Untouched
<1>4. row \in [Key -> Sound \cup {Gone, Bad}] /\ schema \in {"narrow", "wide"}
  BY DEF McpInit, Sound
<1> QED BY <1>1, <1>2, <1>3, <1>4 DEF McpInit, TypeOK, Busy

-----------------------------------------------------------------------------
(* Subscribers hear                                                        *)

\* Who is still to be told is subscribed when it is announced, and then is told.
Hears(a) ==
  /\ call[a] = "announcing" => owed[a] \subseteq Hearers(a)
  /\ call[a] = "telling" => owed[a] \subseteq tells[a]

Hearing == TypeOK /\ Busy /\ \A a \in Agent : Hears(a)

\* The subscriptions stay.
LEMMA SameSubscriptions ==
  ASSUME NEW U, NEW listed, UNCHANGED <<legacy, peer, listener>>
  PROVE  Subscribed(U, listed)' = Subscribed(U, listed)
BY DEF Subscribed

\* Another call, another client, another program.
LEMMA StillHears ==
  ASSUME NEW a \in Agent, Hears(a), call'[a] = call[a], touched'[a] = touched[a],
         tells'[a] = tells[a], owed'[a] \subseteq owed[a],
         \A U, listed : owed'[a] \cap Subscribed(U, listed) \subseteq Subscribed(U, listed)'
  PROVE  Hears(a)'
<1>1. ASSUME NEW w, w = touched[a], call[a] = "announcing" PROVE owed'[a] \subseteq Hearers(a)'
  <2> DEFINE U == Affected(w.rows, w.schemas)
  <2>1. owed[a] \subseteq Subscribed(U, w.schemas)
    BY <1>1 DEF Hears, Hearers
  <2>2. owed'[a] \subseteq Subscribed(U, w.schemas)'
    BY <2>1
  <2> QED BY <1>1, <2>2 DEF Hearers
<1>2. call[a] = "announcing" => owed'[a] \subseteq Hearers(a)'
  BY <1>1
<1> QED BY <1>2 DEF Hears

\* What a call does is nothing to the others.
LEMMA OthersHear ==
  ASSUME Hearing, NEW a \in Agent, NEW b \in Agent, b # a, Call(a)
  PROVE  Hears(b)'
<1>1. /\ call'[b] = call[b] /\ touched'[b] = touched[b] /\ tells'[b] = tells[b]
      /\ owed'[b] = owed[b] /\ UNCHANGED <<legacy, peer, listener>>
  <2>0. TypeOK
    BY DEF Hearing
  <2>1. ASSUME NEW t \in Tools, Plan(a, t) PROVE <1>1!:
    BY <2>1 DEF Plan
  <2>2. ASSUME NEW p \in ToSet(plans), NEW confirm \in BOOLEAN, NamePlan(a, p, confirm) PROVE <1>1!:
    BY <2>0, <2>2 DEF NamePlan, TypeOK
  <2>3. ASSUME Decline(a) PROVE <1>1!:
    BY <2>0, <2>3, Returns DEF Decline, server
  <2>4. ASSUME Agree(a) PROVE <1>1!:
    BY <2>0, <2>4 DEF Agree, TypeOK
  <2>5. ASSUME Run(a) PROVE <1>1!:
    <3>1. UNCHANGED <<tells, legacy, peer, listener>>
      BY <2>5 DEF Run, server
    <3>2. CASE Return(a) /\ UNCHANGED <<row, schema, made, owed>>
      BY <2>0, <3>1, <3>2, Returns
    <3>3. CASE Commit(a, After(job[a].tool, State))
      BY <2>0, <3>1, <3>3 DEF Commit, TypeOK
    <3> QED BY <2>5, <3>2, <3>3, RunKeepsType DEF Hearing
  <2>6. ASSUME Announce(a) PROVE <1>1!:
    <3>1. /\ UNCHANGED <<touched, owed, legacy, peer, listener>>
          /\ call' = [call EXCEPT ![a] = "telling"] /\ \E n : tells' = [tells EXCEPT ![a] = n]
      BY <2>6 DEF Announce, server
    <3> QED BY <2>0, <3>1 DEF TypeOK
  <2>7. ASSUME Tell(a) PROVE <1>1!:
    BY <2>0, <2>7 DEF Tell, server, TypeOK
  <2>8. ASSUME Answered(a) PROVE <1>1!:
    BY <2>0, <2>8, Returns DEF Answered, server
  <2> QED BY <2>1, <2>2, <2>3, <2>4, <2>5, <2>6, <2>7, <2>8 DEF Call
<1>2. \A U, listed : Subscribed(U, listed)' = Subscribed(U, listed)
  BY <1>1, SameSubscriptions
<1>3. owed'[b] \subseteq owed[b] /\ \A U, listed : owed'[b] \cap Subscribed(U, listed) \subseteq Subscribed(U, listed)'
  BY <1>1, <1>2
<1> QED BY <1>1, <1>3, StillHears DEF Hearing

LEMMA RunHears ==
  ASSUME Hearing, NEW a \in Agent, Run(a)
  PROVE  Hears(a)'
<1>0. TypeOK /\ call[a] = "running" /\ UNCHANGED <<legacy, peer, listener>>
  BY DEF Hearing, Run, server
<1>1. CASE Return(a)
  BY <1>0, <1>1, Returns DEF Hears
<1>2. CASE Commit(a, After(job[a].tool, State))
  <2> DEFINE t == After(job[a].tool, State)
             rows == Written(State, t) # {}
             schemas == t.schema # schema
             n == Subscribed(Affected(rows, schemas), schemas)
  <2>1. owed'[a] = n /\ touched'[a] = [rows |-> rows, schemas |-> schemas] /\ call'[a] = "announcing"
    BY <1>0, <1>2 DEF Commit, TypeOK
  <2>2. PICK r, l : r = rows /\ l = schemas
    OBVIOUS
  <2>3. owed'[a] = Subscribed(Affected(r, l), l)
    BY <2>1, <2>2
  <2>4. Subscribed(Affected(r, l), l)' = Subscribed(Affected(r, l), l)
    BY <1>0, SameSubscriptions
  <2>5. touched'[a].rows = r /\ touched'[a].schemas = l
    BY <2>1, <2>2
  <2>6. owed'[a] \subseteq Hearers(a)'
    BY <2>3, <2>4, <2>5 DEF Hearers
  <2> QED BY <2>1, <2>6 DEF Hears
<1> QED BY <1>1, <1>2, RunKeepsType DEF Hearing

LEMMA CallHears ==
  ASSUME Hearing, NEW a \in Agent, Call(a)
  PROVE  Hears(a)'
<1>0. TypeOK
  BY DEF Hearing
<1>1. ASSUME NEW t \in Tools, Plan(a, t) PROVE Hears(a)'
  BY <1>1 DEF Plan, Hears
<1>2. ASSUME NEW p \in ToSet(plans), NEW confirm \in BOOLEAN, NamePlan(a, p, confirm)
      PROVE  Hears(a)'
  BY <1>0, <1>2 DEF NamePlan, Hears, TypeOK
<1>3. ASSUME Decline(a) PROVE Hears(a)'
  BY <1>0, <1>3, Returns DEF Decline, Hears
<1>4. ASSUME Agree(a) PROVE Hears(a)'
  BY <1>0, <1>4 DEF Agree, Hears, TypeOK
<1>5. ASSUME Announce(a) PROVE Hears(a)'
  <2>1. call[a] = "announcing" /\ call'[a] = "telling" /\ UNCHANGED owed
    BY <1>0, <1>5 DEF Announce, TypeOK
  <2>2. tells'[a] = Hearers(a)
    BY <1>0, <1>5, AnnounceKeepsType
  <2> QED BY <2>1, <2>2 DEF Hearing, Hears
<1>6. ASSUME Tell(a) PROVE Hears(a)'
  BY <1>0, <1>6 DEF Tell, Hearing, Hears, TypeOK
<1>7. ASSUME Answered(a) PROVE Hears(a)'
  BY <1>0, <1>7, Returns DEF Answered, Hears
<1> QED BY <1>1, <1>2, <1>3, <1>4, <1>5, <1>6, <1>7, RunHears DEF Call

\* Clients subscribe, leave, and come back.
LEMMA SubscribingHears ==
  ASSUME Hearing, Subscribing, NEW a \in Agent
  PROVE  Hears(a)'
<1>1. UNCHANGED <<call, touched, tells>> /\ owed'[a] \subseteq owed[a]
  <2>1. CASE UNCHANGED owed
    BY <2>1 DEF Subscribing, Subscribe, Unsubscribe, Listen, StopListening
  <2>2. CASE StopListening
    BY <2>2 DEF StopListening
  <2>3. CASE \E u \in Uris : Unsubscribe(u)
    BY <2>3 DEF Unsubscribe
  <2> QED BY <2>1, <2>2, <2>3 DEF Subscribing, Subscribe, Listen
<1>2. ASSUME NEW U, NEW listed
      PROVE  owed'[a] \cap Subscribed(U, listed) \subseteq Subscribed(U, listed)'
  <2>1. ASSUME NEW u \in Uris, Subscribe(u) PROVE Subscribed(U, listed) \subseteq Subscribed(U, listed)'
    BY <2>1 DEF Subscribe, Subscribed
  <2>2. ASSUME NEW u \in Uris, Unsubscribe(u)
        PROVE  Subscribed(U, listed) \ {<<"peer", u>>} \subseteq Subscribed(U, listed)'
    BY <2>2 DEF Unsubscribe, Subscribed
  <2>3. ASSUME NEW u \in Uris, Unsubscribe(u) PROVE <<"peer", u>> \notin owed'[a]
    BY <2>3 DEF Unsubscribe
  <2>4. ASSUME NEW f \in SUBSET (Uris \cup {"list"}), Listen(f)
        PROVE  Subscribed(U, listed) \subseteq Subscribed(U, listed)'
    BY <2>4 DEF Listen, Subscribed
  <2>5. ASSUME StopListening, NEW n \in owed'[a] \cap Subscribed(U, listed)
        PROVE  n \in Subscribed(U, listed)'
    <3>1. n[1] # "listener"
      BY <2>5 DEF StopListening
    <3>2. /\ n \notin {<<"listener", u>> : u \in listener \cap U}
          /\ n \notin {<<"listener", u>> : u \in listener \cap {"list"}}
      BY <3>1
    <3>3. UNCHANGED <<legacy, peer>>
      BY <2>5 DEF StopListening
    <3> QED BY <2>5, <3>2, <3>3 DEF Subscribed
  <2> QED BY <2>1, <2>2, <2>3, <2>4, <2>5 DEF Subscribing
<1> QED BY <1>1, <1>2, StillHears DEF Hearing

LEMMA StepHears ==
  ASSUME Hearing, McpNext \/ UNCHANGED mcpVars
  PROVE  Hearing'
<1>0. TypeOK' /\ Busy'
  BY StepsAre, StepBusy DEF Hearing
<1>1. ASSUME NEW a \in Agent PROVE Hears(a)'
  <2>1. ASSUME NEW b \in Agent, Call(b) PROVE Hears(a)'
    BY <2>1, OthersHear, CallHears
  <2>2. ASSUME Paging \/ Others \/ UNCHANGED mcpVars PROVE Hears(a)'
    <3>1. CASE Reopen
      BY <3>1 DEF Reopen, Hears
    <3>2. CASE UNCHANGED <<legacy, peer, listener, call, touched, tells, owed>>
      <4>1. \A U, listed : Subscribed(U, listed)' = Subscribed(U, listed)
        BY <3>2, SameSubscriptions
      <4>2. \A U, listed : owed'[a] \cap Subscribed(U, listed) \subseteq Subscribed(U, listed)'
        BY <4>1
      <4> QED BY <3>2, <4>2, StillHears DEF Hearing
    <3>3. UNCHANGED <<legacy, peer, listener, call, touched, tells, owed>> \/ Reopen
      BY <2>2 DEF Paging, FirstPage, NextPage, EndOfPages, Others, Edit, Reformat, EditSource,
                  mcpVars, server
    <3> QED BY <3>1, <3>2, <3>3
  <2> QED BY <2>1, <2>2, SubscribingHears DEF McpNext
<1> QED BY <1>0, <1>1 DEF Hearing

\* Whatever clients subscribe and leave while a change is committed and announced, who
\* was subscribed to what it touched, and still is, is told (Server::announce).
THEOREM AllHear == McpSpec => []SubscribersHear
<1>1. McpInit => Hearing
  BY InitTyped DEF McpInit, Hearing, Hears
<1>2. Hearing /\ [McpNext]_mcpVars => Hearing'
  BY StepHears
<1>3. Hearing => SubscribersHear
  BY DEF Hearing, Hears, SubscribersHear
<1> QED BY <1>1, <1>2, <1>3, PTL DEF McpSpec

-----------------------------------------------------------------------------
(* When a plan is committed again                                          *)

\* The plans the server keeps, and those that calls are about.
There == ToSet(plans) \cup {job[a] : a \in {b \in Agent : call[b] # "idle"}}

Named(p) == \E a \in Agent : call[a] # "idle" /\ job[a] = p
Made(p) == \E c \in made : c.id = p.id

\* A number is one plan's.
Numbered ==
  /\ \A p \in There : p.id \in 1..serial
  /\ \A p, q \in There : p.id = q.id => p = q
  /\ \A c \in made : c.id \in 1..serial /\ c.after <= outsides
  /\ Distinct(plans)

\* A plan nobody is asked about is named once, and forgotten then.
Forgotten ==
  /\ \A p \in ToSet(plans) : p.removes = {} => ~Named(p) /\ ~Made(p)
  /\ \A a \in Agent : call[a] # "idle" /\ job[a].removes = {} =>
       /\ call[a] # "asking" /\ (call[a] = "running" => ~Made(job[a]))
       /\ \A b \in Agent : call[b] # "idle" /\ job[b] = job[a] => b = a

Asked == \A a \in Agent : call[a] = "running" /\ job[a].removes # {} => agreed[a]

\* The state of a plan that was committed is past; or it was a broken one that the
\* commit, a repair, put back as it was recorded, and stays whole until another
\* program spoils it again.
Spent ==
  /\ \A p \in There : Valid(p.state[2]) \/ p.tool.tool = "apply_fixes"
  /\ \A c \in made, p \in There : c.id = p.id =>
       \/ p.state[1] < head
       \/ ~Valid(p.state[2]) /\ (c.after = outsides => Valid(State))

Held == TypeOK /\ Busy /\ Numbered /\ Forgotten /\ Asked /\ Spent

LEMMA ThereType ==
  ASSUME TypeOK, Busy
  PROVE  There \subseteq Proposal
BY DEF TypeOK, Busy, There, ToSet

\* A tool leaves a valid state, and apply_fixes makes one.
LEMMA MakesValid ==
  ASSUME TypeOK, NEW t \in Tools, NEW s \in States, Valid(s) \/ t.tool = "apply_fixes"
  PROVE  Valid(After(t, s))
<1> USE DEF Valid, Bad, Gone, Sound
<1>1. CASE t.tool = "update"
  <2>1. t.key \in Key /\ t.to \in Sound
    BY <1>1 DEF Tools
  <2>2. After(t, s) = [s EXCEPT !.row[t.key] = t.to]
    BY <1>1 DEF After
  <2> QED BY <1>1, <2>1, <2>2 DEF States
<1>2. CASE t.tool = "delete"
  <2>1. After(t, s) = [s EXCEPT !.row[t.key] = Gone]
    BY <1>2 DEF After
  <2> QED BY <1>2, <2>1 DEF States
<1>3. CASE t.tool = "import"
  BY <1>3 DEF After, States, TypeOK
<1>4. CASE t.tool = "widen"
  BY <1>4 DEF After, States
<1>5. CASE t.tool = "apply_fixes"
  <2> DEFINE mended == IF t.only = "FIX_REMOVE_REFERENCE" THEN "x" ELSE Gone
             f == [k \in Key |-> IF s.row[k] = Bad THEN mended ELSE s.row[k]]
  <2>1. After(t, s) = [s EXCEPT !.row = f]
    BY <1>5, Zenon DEF After
  <2>2. \A k \in Key : f[k] # Bad
    OBVIOUS
  <2> HIDE DEF f
  <2> QED BY <2>1, <2>2 DEF States
<1> QED BY <1>1, <1>2, <1>3, <1>4, <1>5 DEF Tools

LEMMA QuietThere ==
  ASSUME Quiet
  PROVE  There' \subseteq There
<1> SUFFICES ASSUME NEW p \in There' PROVE p \in There
  OBVIOUS
<1>1. CASE p \in ToSet(plans')
  BY <1>1 DEF There, Quiet, NothingNew
<1>2. CASE \E a \in Agent : call'[a] # "idle" /\ p = job'[a]
  BY <1>2 DEF There, Quiet, GoesOn
<1> QED BY <1>1, <1>2 DEF There

LEMMA QuietHeld ==
  ASSUME Held, Quiet, TypeOK', Busy'
  PROVE  Held'
<1>1. There' \subseteq There /\ NothingNew /\ (\A a \in Agent : GoesOn(a)) /\ TypeOK
  BY QuietThere DEF Quiet, Held
<1>2. /\ head \in Nat /\ serial \in Nat /\ outsides \in Nat
      /\ head' \in Nat /\ serial' \in Nat /\ outsides' \in Nat
      /\ head <= head' /\ serial <= serial' /\ outsides <= outsides' /\ made' = made
      /\ made \subseteq Change /\ There \subseteq Proposal
  BY <1>1, ThereType DEF TypeOK, NothingNew, Held
<1>3. Numbered'
  <2>1. \A n \in 1..serial : n \in 1..serial'
    BY <1>2
  <2>2. ASSUME NEW c \in made PROVE c.after <= outsides'
    <3>1. c.after \in Nat /\ c.after <= outsides
      BY <1>2 DEF Change, Held, Numbered
    <3> QED BY <1>2, <3>1
  <2> QED BY <1>1, <1>2, <2>1, <2>2 DEF Held, Numbered, NothingNew
<1>4. Forgotten'
  <2>1. ASSUME NEW p, Named(p)' PROVE Named(p)
    BY <1>1, <2>1 DEF Named, GoesOn
  <2>2. ASSUME NEW p, Made(p)' PROVE Made(p)
    BY <1>2, <2>2 DEF Made
  <2>3. ASSUME NEW p \in ToSet(plans)', p.removes = {} PROVE ~Named(p)' /\ ~Made(p)'
    BY <1>1, <2>1, <2>2, <2>3 DEF NothingNew, Held, Forgotten
  <2>4. ASSUME NEW a \in Agent, call'[a] # "idle", job'[a].removes = {}
        PROVE  /\ call'[a] # "asking" /\ (call'[a] = "running" => \A c \in made' : c.id # job'[a].id)
               /\ \A b \in Agent : call'[b] # "idle" /\ job'[b] = job'[a] => b = a
    <3>1. call[a] # "idle" /\ job'[a] = job[a] /\ job[a].removes = {} /\ call[a] # "asking"
      BY <1>1, <2>4 DEF GoesOn, Held, Forgotten
    <3>2. call'[a] # "asking" /\ (call'[a] = "running" => call[a] = "running")
      BY <1>1, <2>4, <3>1 DEF GoesOn
    <3>3. call'[a] = "running" => \A c \in made' : c.id # job'[a].id
      BY <1>2, <3>1, <3>2 DEF Held, Forgotten, Made
    <3>4. \A b \in Agent : call'[b] # "idle" /\ job'[b] = job'[a] => b = a
      BY <1>1, <3>1 DEF GoesOn, Held, Forgotten
    <3> QED BY <3>2, <3>3, <3>4
  <2> QED BY <2>3, <2>4 DEF Forgotten, Made
<1>5. Asked'
  BY <1>1 DEF Asked, GoesOn, Held
<1>6. Spent'
  <2>1. ASSUME NEW c \in made, NEW p \in There, c.id = p.id
        PROVE  \/ p.state[1] < head'
               \/ ~Valid(p.state[2]) /\ (c.after = outsides' => Valid(State)')
    <3>1. p.state[1] \in Nat /\ c.after \in Nat /\ c.after <= outsides
      BY <1>2 DEF Change, Proposal, Held, Numbered
    <3>2. CASE p.state[1] < head
      BY <1>2, <3>1, <3>2
    <3>3. CASE ~Valid(p.state[2]) /\ (c.after = outsides => Valid(State))
      <4>1. c.after = outsides' => outsides' = outsides
        BY <1>2, <3>1
      <4>2. outsides' = outsides => State' = State
        BY <1>1 DEF NothingNew, State
      <4> QED BY <3>3, <4>1, <4>2 DEF Valid
    <3> QED BY <2>1, <3>2, <3>3 DEF Held, Spent
  <2> QED BY <1>1, <1>2, <2>1 DEF Spent, Held, Valid
<1> QED BY <1>3, <1>4, <1>5, <1>6 DEF Held

LEMMA PlanHeld ==
  ASSUME Held, NEW a \in Agent, NEW t \in Tools, Plan(a, t), TypeOK', Busy'
  PROVE  Held'
<1>1. /\ UNCHANGED <<call, job, agreed, made, outsides, row, schema>> /\ head <= head'
      /\ TypeOK /\ serial <= serial'
  BY PlanKeepsType DEF Held, Plan, folder
<1>2. /\ head \in Nat /\ serial \in Nat /\ head' \in Nat /\ serial' \in Nat
      /\ There \subseteq Proposal /\ made \subseteq Change
  BY <1>1, ThereType DEF TypeOK, Held
<1>3. CASE UNCHANGED plans
  <2>1. NothingNew
    BY <1>1, <1>3 DEF NothingNew, TypeOK
  <2>2. ASSUME NEW b \in Agent PROVE GoesOn(b)
    BY <1>1 DEF GoesOn, TypeOK
  <2> QED BY <2>1, <2>2, QuietHeld DEF Quiet
<1>4. ASSUME NEW p \in Proposal, p.id = serial + 1, serial' = serial + 1, p.state = Token,
             p.tool = t, ToSet(plans') \subseteq ToSet(plans) \cup {p}, ~Refused(t, State),
             Distinct(plans) /\ p \notin ToSet(plans) => Distinct(plans')
      PROVE  Held'
  <2>1. There' \subseteq There \cup {p}
    BY <1>1, <1>4 DEF There
  <2>2. ASSUME NEW n \in 1..serial PROVE n \in 1..serial' /\ n # p.id
    BY <1>2, <1>4
  <2>3. p.id \in 1..serial'
    BY <1>2, <1>4
  <2>4. p \notin There /\ p \notin ToSet(plans) /\ \A c \in made : c.id # p.id
    BY <2>2 DEF Held, Numbered, There
  <2>5. Numbered'
    BY <1>1, <1>4, <2>1, <2>2, <2>3, <2>4 DEF Held, Numbered
  <2>6. Forgotten' /\ Asked'
    <3>1. \A b \in Agent : call[b] # "idle" => job[b] # p
      BY <2>4 DEF There
    <3>2. \A q : Named(q)' = Named(q) /\ Made(q)' = Made(q)
      BY <1>1 DEF Named, Made
    <3>3. ~Named(p) /\ ~Made(p)
      BY <2>4, <3>1 DEF Named, Made
    <3>4. \A q \in ToSet(plans') : q.removes = {} => ~Named(q)' /\ ~Made(q)'
      BY <1>4, <3>2, <3>3 DEF Held, Forgotten
    <3> QED BY <1>1, <3>4 DEF Held, Forgotten, Asked, Made
  <2>7. Spent'
    <3>1. Valid(p.state[2]) \/ p.tool.tool = "apply_fixes"
      BY <1>1, <1>4, Read DEF Refused
    <3>2. State' = State
      BY <1>1 DEF State
    <3>3. ASSUME NEW c \in made, NEW q \in There, c.id = q.id
          PROVE  \/ q.state[1] < head'
                 \/ ~Valid(q.state[2]) /\ (c.after = outsides' => Valid(State)')
      <4>1. q.state[1] \in Nat
        BY <1>2 DEF Proposal
      <4>2. q.state[1] < head => q.state[1] < head'
        BY <1>1, <1>2, <4>1
      <4> QED BY <1>1, <3>2, <3>3, <4>2 DEF Held, Spent, Valid
    <3> QED BY <1>1, <2>1, <2>4, <3>1, <3>3 DEF Held, Spent, Valid
  <2> QED BY <2>5, <2>6, <2>7 DEF Held
<1> QED BY <1>1, <1>3, <1>4, PlanKeepsType

LEMMA NameHeld ==
  ASSUME Held, NEW a \in Agent, NEW p \in ToSet(plans), NEW confirm \in BOOLEAN,
         NamePlan(a, p, confirm), TypeOK', Busy'
  PROVE  Held'
<1>0. TypeOK /\ p \in There
  BY DEF Held, There
<1>1. /\ call[a] = "idle" /\ job' = [job EXCEPT ![a] = p]
      /\ agreed' = [agreed EXCEPT ![a] = confirm]
      /\ UNCHANGED <<row, schema, head, serial, made, outsides>>
  BY DEF NamePlan, folder, kept
<1>2. \/ /\ p.removes = {} \/ confirm
         /\ call' = [call EXCEPT ![a] = "running"] /\ p \notin ToSet(plans')
      \/ p.removes # {} /\ call' = [call EXCEPT ![a] = "asking"]
  BY <1>0, ForgetKeeps DEF NamePlan, Held, Numbered, TypeOK
<1>3. ToSet(plans') \subseteq ToSet(plans) /\ Distinct(plans')
  BY <1>0, ForgetKeeps DEF NamePlan, Held, Numbered, TypeOK
<1>4. ASSUME NEW b \in Agent, b # a
      PROVE  call'[b] = call[b] /\ job'[b] = job[b] /\ agreed'[b] = agreed[b]
  BY <1>0, <1>1, <1>2, <1>4 DEF TypeOK
<1>5. job'[a] = p /\ agreed'[a] = confirm /\ call'[a] # "idle"
  BY <1>0, <1>1, <1>2 DEF TypeOK
<1>6. There' \subseteq There
  <2> SUFFICES ASSUME NEW b \in Agent, call'[b] # "idle" PROVE job'[b] \in There
    BY <1>3 DEF There
  <2> QED BY <1>0, <1>4, <1>5 DEF There
<1>7. Numbered'
  BY <1>1, <1>3, <1>6 DEF Held, Numbered
<1>8. Forgotten'
  <2>1. ASSUME NEW b \in Agent, b # a, call[b] # "idle", job[b].removes = {} PROVE job[b] # p
    BY <2>1 DEF Held, Forgotten, Named
  <2>2. ASSUME NEW b \in Agent, b # a, call[b] # "idle", p.removes = {} PROVE job[b] # p
    BY <2>2 DEF Held, Forgotten, Named
  <2>3. ASSUME NEW q \in ToSet(plans'), q.removes = {} PROVE ~Named(q)' /\ ~Made(q)'
    <3>1. ~Named(q) /\ ~Made(q)
      BY <1>3, <2>3 DEF Held, Forgotten
    <3>2. q # p
      BY <1>2, <2>3
    <3> QED BY <1>1, <1>4, <1>5, <3>1, <3>2 DEF Named, Made
  <2>4. ASSUME NEW b \in Agent, call'[b] # "idle", job'[b].removes = {}
        PROVE  /\ call'[b] # "asking" /\ (call'[b] = "running" => \A c \in made' : c.id # job'[b].id)
               /\ \A d \in Agent : call'[d] # "idle" /\ job'[d] = job'[b] => d = b
    <3>1. CASE b = a
      <4>1. p.removes = {} /\ call'[a] # "asking"
        BY <1>0, <1>2, <1>5, <2>4, <3>1 DEF TypeOK
      <4>2. \A c \in made : c.id # p.id
        BY <4>1 DEF Held, Forgotten, Made
      <4>3. \A d \in Agent : call'[d] # "idle" /\ job'[d] = p => d = a
        BY <1>4, <2>2, <4>1
      <4> QED BY <1>1, <1>5, <3>1, <4>1, <4>2, <4>3
    <3>2. CASE b # a
      BY <1>1, <1>4, <1>5, <2>1, <2>4, <3>2 DEF Held, Forgotten, Made
    <3> QED BY <3>1, <3>2
  <2> QED BY <2>3, <2>4 DEF Forgotten, Made
<1>9. Asked'
  <2> SUFFICES ASSUME NEW b \in Agent, call'[b] = "running", job'[b].removes # {} PROVE agreed'[b]
    BY DEF Asked
  <2>1. CASE b = a
    BY <1>0, <1>2, <1>5, <2>1 DEF TypeOK
  <2>2. CASE b # a
    BY <1>4, <2>2 DEF Held, Asked
  <2> QED BY <2>1, <2>2
<1>10. Spent'
  BY <1>1, <1>6 DEF Held, Spent, Valid, State
<1> QED BY <1>7, <1>8, <1>9, <1>10 DEF Held

\* What a commit does to the state, its number and the changes made.
LEMMA CommitDoes ==
  ASSUME TypeOK, Busy, NEW a \in Agent, Committing(a),
         Valid(State) \/ job[a].tool.tool = "apply_fixes"
  PROVE  /\ State' = After(job[a].tool, State) /\ Valid(State)'
         /\ job[a].state[1] = HeadAt(State) /\ job[a].state[2] = State
         /\ head <= head' /\ (Valid(State) => job[a].state[1] < head')
         /\ made' = made \cup {[id |-> job[a].id, after |-> outsides]}
         /\ call' = [call EXCEPT ![a] = "announcing"]
         /\ UNCHANGED <<plans, serial, job, agreed, outsides>>
<1> DEFINE t == After(job[a].tool, State)
           n == Revisions(t, RecordedAt(State))
           h == HeadAt(State)
<1>1. /\ t \in States /\ t # State /\ row' = t.row /\ schema' = t.schema /\ head' = h + n
      /\ made' = made \cup {[id |-> job[a].id, after |-> outsides]}
      /\ call' = [call EXCEPT ![a] = "announcing"] /\ UNCHANGED <<job, agreed>>
  BY Zenon DEF Committing, Commit
<1>2. Valid(t)
  <2>1. job[a].tool \in Tools /\ State \in States
    BY Read DEF Committing, Busy, Proposal
  <2> QED BY <2>1, MakesValid
<1>3. State' = t
  <2>1. t = [row |-> t.row, schema |-> t.schema]
    BY <1>1 DEF States
  <2> HIDE DEF t
  <2> QED BY <1>1, <2>1 DEF State
<1>4. Valid(State) => n = 1
  BY <1>1, <1>2 DEF Revisions, RecordedAt, Recording
<1>5. job[a].state[1] = h /\ job[a].state[2] = State
  BY Read DEF Committing
<1>6. h \in Nat /\ head <= h /\ n \in {0, 1} /\ head \in Nat
  BY Read DEF TypeOK
<1>7. UNCHANGED <<plans, serial, outsides>>
  BY DEF Committing, server
<1>8. Valid(State)'
  BY <1>2, <1>3 DEF Valid
<1> HIDE DEF h, n, t
<1>9. head <= head' /\ (Valid(State) => h < head')
  BY <1>1, <1>4, <1>6
<1> QED BY <1>1, <1>3, <1>5, <1>7, <1>8, <1>9 DEF t, h

LEMMA CommitHeld ==
  ASSUME Held, NEW a \in Agent, Committing(a), TypeOK', Busy'
  PROVE  Held'
<1> DEFINE m == [id |-> job[a].id, after |-> outsides]
<1>1. /\ TypeOK /\ Busy /\ call[a] = "running" /\ job[a] \in There
      /\ Valid(State) \/ job[a].tool.tool = "apply_fixes"
  <2>1. call[a] = "running" /\ job[a] \in There
    BY DEF Committing, There
  <2>2. job[a].state[2] = State
    BY Read DEF Committing, Held
  <2> QED BY <2>1, <2>2 DEF Held, Spent
<1>2. /\ State' = After(job[a].tool, State) /\ Valid(State)'
      /\ job[a].state[1] = HeadAt(State) /\ job[a].state[2] = State
      /\ head <= head' /\ (Valid(State) => job[a].state[1] < head')
      /\ made' = made \cup {m}
      /\ call' = [call EXCEPT ![a] = "announcing"]
      /\ UNCHANGED <<plans, serial, job, agreed, outsides>>
  BY <1>1, CommitDoes
<1>3. /\ head \in Nat /\ head' \in Nat /\ outsides \in Nat /\ There \subseteq Proposal
      /\ call \in [Agent -> {"idle", "asking", "running", "announcing", "telling"}]
      /\ m.id = job[a].id /\ m.after = outsides
  BY <1>1, ThereType DEF TypeOK, Held
<1> HIDE DEF m
<1>4. There' = There
  BY <1>1, <1>2, <1>3 DEF There
<1>5. Numbered'
  BY <1>1, <1>2, <1>3, <1>4 DEF Held, Numbered
<1>6. Forgotten'
  <2>1. \A q : Named(q)' = Named(q)
    BY <1>1, <1>2, <1>3 DEF Named
  <2>2. ASSUME NEW q, Made(q)' PROVE Made(q) \/ q.id = job[a].id
    BY <1>2, <1>3, <2>2 DEF Made
  <2>3. ASSUME NEW q \in ToSet(plans'), q.removes = {} PROVE ~Named(q)' /\ ~Made(q)'
    <3>1. q \in There /\ ~Named(q) /\ ~Made(q)
      BY <1>2, <2>3 DEF Held, Forgotten, There
    <3>2. q.id # job[a].id
      BY <1>1, <3>1 DEF Held, Numbered, Named
    <3> QED BY <2>1, <2>2, <3>1, <3>2
  <2>4. ASSUME NEW b \in Agent, call'[b] # "idle", job'[b].removes = {}
        PROVE  /\ call'[b] # "asking" /\ (call'[b] = "running" => \A c \in made' : c.id # job'[b].id)
               /\ \A d \in Agent : call'[d] # "idle" /\ job'[d] = job'[b] => d = b
    <3>1. call[b] # "idle" /\ job[b].removes = {}
      BY <1>1, <1>2, <1>3, <2>4
    <3>2. call'[b] # "asking"
      BY <1>2, <1>3, <3>1 DEF Held, Forgotten
    <3>3. ASSUME NEW d \in Agent, call'[d] # "idle", job'[d] = job'[b] PROVE d = b
      <4>1. call[d] # "idle" /\ job[d] = job[b]
        BY <1>1, <1>2, <1>3, <3>3
      <4> QED BY <3>1, <4>1 DEF Held, Forgotten
    <3>4. ASSUME call'[b] = "running" PROVE \A c \in made' : c.id # job'[b].id
      <4>1. call[b] = "running" /\ b # a
        BY <1>2, <1>3, <3>4
      <4>2. job[b] \in There /\ job[b] # job[a]
        BY <1>1, <3>1, <4>1 DEF There, Held, Forgotten
      <4>3. job[b].id # job[a].id
        BY <1>1, <4>2 DEF Held, Numbered
      <4>4. ~Made(job[b])
        BY <3>1, <4>1 DEF Held, Forgotten
      <4> QED BY <1>2, <1>3, <4>3, <4>4 DEF Made
    <3> QED BY <3>2, <3>3, <3>4
  <2> QED BY <2>3, <2>4 DEF Forgotten, Made
<1>7. Asked'
  BY <1>2, <1>3 DEF Held, Asked
<1>8. Spent'
  <2>1. ASSUME NEW c \in made', NEW p \in There, c.id = p.id
        PROVE  p.state[1] < head' \/ ~Valid(p.state[2])
    <3>1. CASE c \in made
      <4>1. p.state[1] \in Nat
        BY <1>3 DEF Proposal
      <4>2. p.state[1] < head => p.state[1] < head'
        BY <1>2, <1>3, <4>1
      <4> QED BY <2>1, <3>1, <4>2 DEF Held, Spent
    <3>2. CASE c = m
      <4>1. p = job[a]
        BY <1>1, <1>3, <2>1, <3>2 DEF Held, Numbered
      <4> QED BY <1>2, <4>1
    <3> QED BY <1>2, <3>1, <3>2
  <2> QED BY <1>2, <1>4, <2>1 DEF Held, Spent, Valid
<1> QED BY <1>5, <1>6, <1>7, <1>8 DEF Held

LEMMA InitHeld ==
  ASSUME McpInit
  PROVE  Held /\ There = {}
<1>1. There = {} /\ made = {} /\ ToSet(plans) = {} /\ \A a \in Agent : call[a] = "idle"
  BY DEF McpInit, There, ToSet
<1>2. Distinct(plans)
  BY DEF McpInit, Distinct
<1> QED BY <1>1, <1>2, InitTyped DEF Held, Numbered, Forgotten, Asked, Spent

LEMMA StepHeld ==
  ASSUME Held, McpNext \/ UNCHANGED mcpVars
  PROVE  Held'
<1>1. TypeOK' /\ Busy' /\ Steps
  BY StepsAre, StepBusy DEF Held
<1> QED BY <1>1, QuietHeld, PlanHeld, NameHeld, CommitHeld DEF Steps

\* Only Run commits.
LEMMA CommitsBy ==
  ASSUME TypeOK, Steps, NEW a \in Agent, Commits(a)
  PROVE  Committing(a)
<1>0. call[a] = "running" /\ call'[a] = "announcing"
  BY DEF Commits
<1>1. ~Quiet
  BY <1>0 DEF Quiet, GoesOn
<1>2. ASSUME NEW b \in Agent, NEW t \in Tools, Plan(b, t) PROVE FALSE
  BY <1>0, <1>2 DEF Plan
<1>3. ASSUME NEW b \in Agent, NEW p \in ToSet(plans), NEW confirm \in BOOLEAN,
             NamePlan(b, p, confirm)
      PROVE  FALSE
  BY <1>0, <1>3 DEF NamePlan, TypeOK
<1>4. ASSUME NEW b \in Agent, Committing(b) PROVE b = a
  BY <1>0, <1>4 DEF Committing, Commit, TypeOK
<1> QED BY <1>1, <1>2, <1>3, <1>4 DEF Steps

LEMMA RepeatsIf ==
  ASSUME Held, NEW a \in Agent, Committing(a), NEW c \in made, c.id = job[a].id
  PROVE  job[a].removes # {} /\ agreed[a] /\ c.after < outsides /\ ~Valid(State)
<1>1. /\ call[a] = "running" /\ job[a] \in There
      /\ job[a].state[1] = HeadAt(State) /\ job[a].state[2] = State
  BY Read DEF Committing, There, Held
<1>2. job[a].removes # {} /\ agreed[a]
  BY <1>1 DEF Held, Forgotten, Asked, Made
<1>3. head \in Nat /\ HeadAt(State) \in Nat /\ head <= HeadAt(State)
      /\ c.after \in Nat /\ outsides \in Nat /\ c.after <= outsides
  BY Read DEF Held, TypeOK, Change, Numbered
<1>4. ~(job[a].state[1] < head)
  BY <1>1, <1>3
<1>5. ~Valid(State) /\ c.after # outsides
  BY <1>1, <1>4 DEF Held, Spent
<1> QED BY <1>2, <1>3, <1>5

\* However calls that name one plan, answers of users and other programs come between, a
\* plan is committed again only by a call its user agreed to, and only of a broken state
\* that another program has brought back since (Database::transact, Server::answer).
THEOREM BroughtBack ==
  McpSpec => [][\A a \in Agent : Commits(a) =>
                  \A c \in made : c.id = job[a].id =>
                    job[a].removes # {} /\ agreed[a] /\ c.after < outsides /\ ~Valid(State)]_mcpVars
<1> DEFINE Again == \A a \in Agent : Commits(a) =>
                      \A c \in made : c.id = job[a].id =>
                        job[a].removes # {} /\ agreed[a] /\ c.after < outsides /\ ~Valid(State)
<1>1. McpInit => Held
  BY InitHeld
<1>2. Held /\ [McpNext]_mcpVars => Held'
  BY StepHeld
<1>3. Held /\ [McpNext]_mcpVars => [Again]_mcpVars
  <2> SUFFICES ASSUME Held, McpNext PROVE Again
    OBVIOUS
  <2>1. TypeOK /\ Steps
    BY StepsAre DEF Held
  <2> QED BY <2>1, CommitsBy, RepeatsIf
<1> HIDE DEF Again
<1>4. McpSpec => [][Again]_mcpVars
  BY <1>1, <1>2, <1>3, PTL DEF McpSpec
<1> QED BY <1>4 DEF Again

-----------------------------------------------------------------------------
(* A plan makes what it showed                                             *)

\* Nobody saves the file an import reads between its plan and its commit.
SourceSpared == "source" \notin Outside

\* What a plan showed is what its tool makes of its state, and removes what it said.
IsShown(p) ==
  p.shows = After(p.tool, p.state[2]) /\ p.removes = Removed(p.state[2], p.shows)

Shown == \A p \in There : IsShown(p)

AsPlanned == Held /\ Shown

LEMMA SourceStays ==
  ASSUME SourceSpared, McpNext \/ UNCHANGED mcpVars
  PROVE  UNCHANGED source
<1>1. ASSUME NEW a \in Agent, Call(a) PROVE UNCHANGED source
  <2>1. ASSUME NEW t \in Tools, Plan(a, t) PROVE UNCHANGED source
    BY <2>1 DEF Plan, folder
  <2>2. ASSUME Run(a) PROVE UNCHANGED source
    BY <2>2 DEF Run
  <2> QED BY <1>1, <2>1, <2>2
         DEF Call, NamePlan, Decline, Agree, Announce, Tell, Answered, folder
<1>2. ASSUME Subscribing \/ Paging \/ UNCHANGED mcpVars PROVE UNCHANGED source
  BY <1>2 DEF Subscribing, Subscribe, Unsubscribe, Listen, StopListening, Paging, FirstPage,
              NextPage, EndOfPages, mcpVars, folder
<1>3. ASSUME Others PROVE UNCHANGED source
  BY <1>3 DEF Others, Edit, Reformat, EditSource, Meddles, Reopen, folder, SourceSpared
<1> QED BY <1>1, <1>2, <1>3 DEF McpNext

LEMMA StillShown ==
  ASSUME NEW p, IsShown(p), UNCHANGED source
  PROVE  IsShown(p)'
BY DEF IsShown, After

\* Nothing new is planned, nothing committed, and no call begins to run.
\* What a step adds to the plans there are.
LEMMA StepThere ==
  ASSUME Held, Steps, NEW p \in There'
  PROVE  \/ p \in There
         \/ \E a \in Agent, t \in Tools :
              /\ Plan(a, t) /\ p.state = Token /\ p.tool = t /\ ~Refused(t, State)
              /\ p.shows = After(t, State) /\ p.removes = Removed(State, p.shows)
<1>0. TypeOK
  BY DEF Held
<1>1. CASE Quiet
  BY <1>1, QuietThere
<1>2. ASSUME NEW a \in Agent, NEW t \in Tools, Plan(a, t), p \notin There
      PROVE  /\ p.state = Token /\ p.tool = t /\ ~Refused(t, State)
             /\ p.shows = After(t, State) /\ p.removes = Removed(State, p.shows)
  <2>1. UNCHANGED <<call, job>>
    BY <1>2 DEF Plan
  <2>2. p \in ToSet(plans') /\ p \notin ToSet(plans)
    BY <1>2, <2>1 DEF There
  <2> QED BY <1>0, <1>2, <2>2, PlanKeepsType
<1>3. ASSUME NEW a \in Agent, NEW q \in ToSet(plans), NEW confirm \in BOOLEAN,
             NamePlan(a, q, confirm)
      PROVE  p \in There
  <2>1. ToSet(plans') \subseteq ToSet(plans)
    BY <1>0, <1>3, ForgetKeeps DEF NamePlan, TypeOK
  <2>2. job' = [job EXCEPT ![a] = q] /\ \E at \in {"running", "asking"} : call' = [call EXCEPT ![a] = at]
    BY <1>3 DEF NamePlan
  <2>3. ASSUME NEW b \in Agent, call'[b] # "idle" PROVE job'[b] \in There
    <3>1. CASE b = a
      BY <1>0, <2>2, <3>1 DEF TypeOK, There
    <3>2. CASE b # a
      BY <1>0, <2>2, <2>3, <3>2 DEF TypeOK, There
    <3> QED BY <3>1, <3>2
  <2> QED BY <2>1, <2>3 DEF There
<1>4. ASSUME NEW a \in Agent, Committing(a) PROVE p \in There
  <2>1. UNCHANGED <<plans, job>> /\ call' = [call EXCEPT ![a] = "announcing"] /\ call[a] = "running"
    BY <1>4 DEF Committing, Commit, server
  <2> QED BY <1>0, <2>1 DEF TypeOK, There
<1> QED BY <1>1, <1>2, <1>3, <1>4 DEF Steps

LEMMA StepShown ==
  ASSUME SourceSpared, AsPlanned, McpNext \/ UNCHANGED mcpVars
  PROVE  AsPlanned'
<1>0. UNCHANGED source /\ Held' /\ Steps
  BY SourceStays, StepHeld, StepsAre DEF AsPlanned, Held
<1>1. ASSUME NEW p \in There' PROVE IsShown(p)'
  <2>1. CASE p \in There
    BY <1>0, <2>1, StillShown DEF AsPlanned, Shown
  <2>2. CASE \E t \in Tools : /\ p.state = Token /\ p.tool = t /\ p.shows = After(t, State)
                              /\ p.removes = Removed(State, p.shows)
    <3>1. p.state[2] = State
      BY <2>2, Read DEF AsPlanned, Held
    <3>2. IsShown(p)
      BY <2>2, <3>1 DEF IsShown
    <3> QED BY <1>0, <3>2, StillShown
  <2> QED BY <1>0, <2>1, <2>2, StepThere DEF AsPlanned
<1> QED BY <1>0, <1>1 DEF AsPlanned, Shown

\* However calls that name the same plan, answers of users, other plans and other programs
\* come between, a plan makes exactly the change it showed, removes rows only if the user
\* was asked or the agent confirmed, and is committed again only as BroughtBack says -- if
\* the file an import reads is not saved meanwhile.
THEOREM PlansAreKept ==
  ASSUME SourceSpared
  PROVE  McpSpec => OnceAsPlanned
<1> DEFINE Kept == \A a \in Agent : Commits(a) =>
                     /\ State' = job[a].shows
                     /\ Removed(State, State') # {} => agreed[a]
                     /\ \A c \in made : c.id = job[a].id =>
                          job[a].removes # {} /\ agreed[a] /\ c.after < outsides
<1>1. McpInit => AsPlanned
  BY InitHeld DEF AsPlanned, Shown
<1>2. AsPlanned /\ [McpNext]_mcpVars => AsPlanned'
  BY StepShown
<1>3. AsPlanned /\ [McpNext]_mcpVars => [Kept]_mcpVars
  <2> SUFFICES ASSUME AsPlanned, McpNext, NEW a \in Agent, Commits(a)
               PROVE  /\ State' = job[a].shows
                      /\ Removed(State, State') # {} => agreed[a]
                      /\ \A c \in made : c.id = job[a].id =>
                           job[a].removes # {} /\ agreed[a] /\ c.after < outsides
    OBVIOUS
  <2>1. Held /\ Committing(a)
    BY StepsAre, CommitsBy DEF AsPlanned, Held
  <2>2. job[a] \in There /\ call[a] = "running" /\ job[a].state[2] = State
    BY <2>1, Read DEF Committing, There, Held
  <2>3. IsShown(job[a]) /\ (Valid(State) \/ job[a].tool.tool = "apply_fixes")
    BY <2>2 DEF AsPlanned, Shown, Held, Spent
  <2>4. State' = After(job[a].tool, State)
    BY <2>1, <2>3, CommitDoes DEF Held
  <2>5. State' = job[a].shows /\ Removed(State, State') = job[a].removes
    BY <2>2, <2>3, <2>4 DEF IsShown
  <2>6. Removed(State, State') # {} => agreed[a]
    BY <2>1, <2>2, <2>5 DEF Held, Asked
  <2> QED BY <2>1, <2>5, <2>6, RepeatsIf
<1> HIDE DEF Kept
<1>4. McpSpec => [][Kept]_mcpVars
  BY <1>1, <1>2, <1>3, PTL DEF McpSpec
<1> QED BY <1>4 DEF Kept, OnceAsPlanned

-----------------------------------------------------------------------------
(* Where no other program breaks a rule                                    *)

Whole == Valid(State) /\ \A p \in There : Valid(p.state[2])

Unspoilt == Held /\ Whole /\ CommittedOnce

LEMMA StaysValid ==
  ASSUME "spoil" \notin Outside, Held, Valid(State), McpNext \/ UNCHANGED mcpVars
  PROVE  Valid(State)'
<1>1. ASSUME UNCHANGED <<row, schema>> PROVE Valid(State)'
  BY <1>1 DEF Valid, State
<1>2. ASSUME NEW a \in Agent, Call(a) PROVE Valid(State)'
  <2>1. CASE Run(a)
    <3>1. CASE UNCHANGED <<row, schema>>
      BY <1>1, <3>1
    <3>2. CASE ~UNCHANGED <<row, schema>>
      <4>1. Committing(a)
        BY <2>1, <3>2, RunKeepsType DEF Run, Committing, Held
      <4> QED BY <4>1, CommitDoes DEF Held
    <3> QED BY <3>1, <3>2
  <2>2. CASE \E t \in Tools : Plan(a, t)
    BY <1>1, <2>2 DEF Plan, folder
  <2> QED BY <1>1, <1>2, <2>1, <2>2
         DEF Call, NamePlan, Decline, Agree, Announce, Tell, Answered, folder
<1>3. ASSUME Subscribing \/ Paging \/ UNCHANGED mcpVars PROVE Valid(State)'
  BY <1>1, <1>3 DEF Subscribing, Subscribe, Unsubscribe, Listen, StopListening, Paging, FirstPage,
                    NextPage, EndOfPages, mcpVars, folder
<1>4. CASE Others
  <2>1. ASSUME NEW k \in Key, NEW v \in Sound \cup {Gone, Bad}, Edit(k, v) PROVE Valid(State)'
    <3>1. v # Bad /\ row' = [row EXCEPT ![k] = v]
      BY <2>1 DEF Edit, Meddles
    <3> QED BY <2>1, <3>1 DEF Valid, State, Held, TypeOK
  <2> QED BY <1>1, <1>4, <2>1 DEF Others, Reformat, EditSource, Reopen, folder
<1> QED BY <1>2, <1>3, <1>4 DEF McpNext

\* Unless another program saves what breaks a rule, a plan commits once, as docs/mcp.md
\* says of every plan (Server::forget, the state that a commit expects).
THEOREM CommitsOnce ==
  ASSUME "spoil" \notin Outside
  PROVE  McpSpec => []CommittedOnce
<1>1. McpInit => Unspoilt
  BY InitHeld DEF McpInit, Unspoilt, Whole, CommittedOnce, Valid, State, Gone, Bad
<1>2. Unspoilt /\ [McpNext]_mcpVars => Unspoilt'
  <2> SUFFICES ASSUME Unspoilt, McpNext \/ UNCHANGED mcpVars PROVE Unspoilt'
    OBVIOUS
  <2>1. Held' /\ Steps /\ Valid(State)' /\ Held /\ TypeOK /\ Busy
    BY StepHeld, StepsAre, StaysValid DEF Unspoilt, Whole, Held
  <2>2. ASSUME NEW p \in There' PROVE Valid(p.state[2])
    <3>1. p \in There \/ p.state = Token
      BY <2>1, StepThere
    <3> QED BY <2>1, <3>1, Read DEF Unspoilt, Whole
  <2>3. Whole'
    BY <2>1, <2>2 DEF Whole, Valid
  <2>4. CommittedOnce'
    <3>1. CASE UNCHANGED made
      BY <3>1 DEF Unspoilt, CommittedOnce
    <3>2. CASE \E a \in Agent : Committing(a)
      <4>1. PICK a \in Agent : Committing(a)
        BY <3>2
      <4>2. \A c \in made : c.id # job[a].id
        BY <2>1, <4>1, RepeatsIf DEF Unspoilt, Whole
      <4>3. made' = made \cup {[id |-> job[a].id, after |-> outsides]}
        BY <4>1, Zenon DEF Committing, Commit
      <4> QED BY <4>2, <4>3 DEF Unspoilt, CommittedOnce
    <3>3. UNCHANGED made \/ \E a \in Agent : Committing(a)
      BY <2>1 DEF Steps, Quiet, NothingNew, Plan, NamePlan
    <3> QED BY <3>1, <3>2, <3>3
  <2> QED BY <2>1, <2>3, <2>4 DEF Unspoilt
<1>3. Unspoilt => CommittedOnce
  BY DEF Unspoilt
<1> QED BY <1>1, <1>2, <1>3, PTL DEF McpSpec

=============================================================================
