------------------------------- MODULE Naming -----------------------------
(***************************************************************************)
(* How the names of a table's files spell the keys of its rows: naming.rs, *)
(* with infer.rs's choice of a convention, catalog.rs's check of a file's  *)
(* name, and plan.rs's choice of the file a changed row goes to.           *)
(*                                                                         *)
(* A table found on disk is adopted: its convention is inferred from its   *)
(* files, or the key asked for is tried.  Then rows are inserted and       *)
(* updated through reldir, and files added by other programs.              *)
(*                                                                         *)
(* Texts are sequences of symbols, of which each stands for a kind of      *)
(* character: what a convention tells apart.  The two digits of an escape  *)
(* are one symbol.                                                         *)
(***************************************************************************)
EXTENDS Integers, FiniteSets, SequencesExt

CONSTANTS
  FileTables,     \* the tables there may be: stem -> body, which is column -> value
  Columns,    \* the columns, in the order of the members
  Conventional, \* the column named for the table's singular
  Asked,      \* the keys that may be asked for: sequences of columns, or <<>>
  Spellings,  \* the values that may be written
  Strays,     \* the files other programs may add: <<stem, body>>
  MaxWrites   \* how many changes are made

VARIABLES
  files,      \* the files of the table: stem -> body
  identity,   \* where a row's key comes from, once adopted
  strays,     \* the stems other programs added since
  writes

namingVars == <<files, identity, strays, writes>>

Unadopted == [source |-> "none", columns |-> <<>>, int |-> FALSE, rule |-> <<>>]

\* Symbols: a letter; a device name's first letter and the rest of it; digits;
\* pairs of hexadecimal digits; and what needs care.
Digits == {"0", "1", "61", "63", "25", "20"}
HexOf == ("a" :> "61") @@ ("c" :> "63") @@ ("%" :> "25") @@ (" " :> "20") @@ ("," :> "2C")
           @@ ("." :> "2E") @@ ("/" :> "2F")
CharOf == [hex \in {HexOf[s] : s \in DOMAIN HexOf} |-> CHOOSE s \in DOMAIN HexOf : HexOf[s] = hex]
Alphanumeric == Digits \union {"a", "c", "on", "2C", "2E", "2F"}
\* The classes an observed alphabet admits for having seen a symbol.
Classes(s) ==
  CASE s \in Digits -> {"digit"} [] s \in {"2C", "2E", "2F"} -> {"digit", "upper"}
    [] s \in {"a", "c", "on"} -> {"lower"} [] OTHER -> {s}

\* What no text is: the answer that there is none.
NoText == <<"refused">>

\* windows_device_name: what comes before the first dot decides.
Device(text) ==
  LET base == {n \in 0..Len(text) : \A i \in 1..n : text[i] # "."}
  IN SubSeq(text, 1, CHOOSE n \in base : \A m \in base : m <= n) = <<"c", "on">>

\* Mutant: the comma that separates the members of a key is not escaped in one.
EncodeNoComma(text, single) ==
  FlattenSeq([i \in DOMAIN text |->
    IF /\ text[i] \in Alphanumeric \union {","} \/ (text[i] = "." /\ i \notin {1, Len(text)})
       /\ ~(single /\ i = 1 /\ Device(text))
    THEN <<text[i]>> ELSE <<"%", HexOf[text[i]]>>])

\* reldir_encode: everything but letters, digits and inner dots is escaped, and
\* the first letter of a device name.
Encode(text, single) ==
  FlattenSeq([i \in DOMAIN text |->
    IF /\ text[i] \in Alphanumeric \/ (text[i] = "." /\ i \notin {1, Len(text)})
       /\ ~(single /\ i = 1 /\ Device(text))
    THEN <<text[i]>> ELSE <<"%", HexOf[text[i]]>>])

\* percent_decode
Decode(text) ==
  LET from[i \in 1..Len(text) + 2] ==
        IF i > Len(text) THEN <<>>
        ELSE IF text[i] # "%" THEN <<text[i]>> \o from[i+1]
        ELSE IF i < Len(text) /\ text[i+1] \in DOMAIN CharOf THEN <<CharOf[text[i+1]]>> \o from[i+2]
        ELSE NoText \o from[i+2]
  IN IF Contains(from[1], NoText[1]) THEN NoText ELSE from[1]

\* The components of a stem, between commas.
Components(stem) ==
  LET commas == {0, Len(stem) + 1} \union {i \in DOMAIN stem : stem[i] = ","}
      bounds == SetToSortSeq(commas, <)
  IN [k \in 1..Cardinality(commas) - 1 |-> SubSeq(stem, bounds[k] + 1, bounds[k+1] - 1)]

-----------------------------------------------------------------------------
(* Rules                                                                   *)

Reldir == [rule |-> "reldir", alphabet |-> {}, prefix |-> <<>>, suffix |-> <<>>]
Verbatim(texts) ==
  [Reldir EXCEPT !.rule = "verbatim",
                 !.alphabet = UNION {Classes(s) : s \in UNION {Range(t) : t \in texts}}]
\* A template is its inner rule between a prefix and a suffix.
Template(inner, prefix, suffix) == [inner EXCEPT !.prefix = prefix, !.suffix = suffix]

\* render: the stem some key texts name under a rule.  A name no portable file
\* could have is refused.
RenderPart(rule, texts) ==
  IF rule.rule = "reldir"
  THEN FoldLeft(LAMBDA stem, i : stem \o (IF i = 1 THEN <<>> ELSE <<",">>)
                                      \o Encode(texts[i], Len(texts) = 1),
                <<>>, [i \in DOMAIN texts |-> i])
  ELSE IF Len(texts) # 1 \/ \E s \in Range(texts[1]) : s = "/" \/ ~(Classes(s) \subseteq rule.alphabet)
  THEN NoText ELSE texts[1]
Portable(stem) == stem # <<>> /\ stem[1] # "." /\ ~Device(stem)
Render(rule, texts) ==
  LET part == RenderPart(rule, texts)
      stem == rule.prefix \o part \o rule.suffix
  IN IF part = NoText \/ ~Portable(stem) THEN NoText ELSE stem

\* parse: the key texts whose name a stem is.
Middle(rule, stem) ==
  LET after == Len(rule.prefix)
      upto == Len(stem) - Len(rule.suffix)
  IN IF after <= upto /\ IsPrefix(rule.prefix, stem) /\ IsSuffix(rule.suffix, stem)
     THEN SubSeq(stem, after + 1, upto) ELSE NoText
Parse(rule, stem) ==
  LET middle == Middle(rule, stem)
      texts == IF rule.rule = "verbatim" THEN <<middle>>
               ELSE [k \in DOMAIN Components(middle) |-> Decode(Components(middle)[k])]
  IN IF stem # <<>> /\ middle # NoText /\ NoText \notin Range(texts) /\ Render(rule, texts) = stem
     THEN texts ELSE NoText

\* KeyText::of: strings and integers name files.
TextOf(value) == IF value.is \in {"string", "int"} THEN value.text ELSE NoText
NoValue == [is |-> "none", text |-> <<>>]
MemberOf(body, column) == IF column \in DOMAIN body THEN body[column] ELSE NoValue

-----------------------------------------------------------------------------
(* Whose names they are                                                    *)

\* The integer a stem spells, as it is spelled: without leading zeros.
IsInt(stem) == stem # <<>> /\ Range(stem) \subseteq Digits
Canonical(stem) ==
  LET zeros == {n \in 0..Len(stem) - 1 : \A i \in 1..n : stem[i] = "0"}
  IN SubSeq(stem, 1 + CHOOSE n \in zeros : \A m \in zeros : m <= n, Len(stem))

\* stem_value: what a stem gives the column that holds it.
StemValue(id, stem) ==
  IF ~id.int THEN [is |-> "string", text |-> stem]
  ELSE IF IsInt(stem) THEN [is |-> "int", text |-> Canonical(stem)] ELSE NoValue

\* A row as the database sees it, with the name as its key if it is.
View(id, stem, body) ==
  IF id.source = "filename" THEN (id.columns[1] :> StemValue(id, stem)) @@ body ELSE body

\* Identity::stem: the file a row's key names.
Stem(id, row) ==
  LET texts == [k \in DOMAIN id.columns |-> TextOf(MemberOf(row, id.columns[k]))]
  IN IF NoText \in Range(texts) THEN NoText
     ELSE IF id.source = "body" THEN Render(id.rule, texts)
     ELSE IF "/" \in Range(texts[1]) \/ ~Portable(texts[1]) THEN NoText ELSE texts[1]

\* What the catalog says of a file's name: nothing, or that it is not its row's.
WellNamed(id, stem, body) ==
  IF id.source = "filename" THEN StemValue(id, stem) # NoValue ELSE Stem(id, body) = stem

KeyOf(id, row) == [k \in DOMAIN id.columns |-> MemberOf(row, id.columns[k])]
\* integrity::validate, as far as names go: no change may leave a table in which
\* a file is named for another row, or two rows have one key.
Sound(fs) ==
  /\ \A stem \in DOMAIN fs : WellNamed(identity, stem, fs[stem])
  /\ \A one, two \in DOMAIN fs :
       KeyOf(identity, View(identity, one, fs[one])) = KeyOf(identity, View(identity, two, fs[two]))
         => one = two

\* naming_rule: the rule by which a column's texts are the stems of its rows,
\* preferably verbatim, then reldir's, then a template read off the first row,
\* with the longest prefix.
NamesAll(rule, rows, texts) == \A i \in DOMAIN rows : Render(rule, <<texts[i]>>) = rows[i].stem
Templates(rows, texts, encoded) ==
  LET first == rows[1].stem
      needle == IF encoded THEN Encode(texts[1], TRUE) ELSE texts[1]
      starts == {n \in 0..Len(first) - Len(needle) :
                   needle # <<>> /\ SubSeq(first, n + 1, n + Len(needle)) = needle}
      At(n) ==
        LET outer == Template(Reldir, SubSeq(first, 1, n), SubSeq(first, n + Len(needle) + 1, Len(first)))
            middles == {Middle(outer, rows[i].stem) : i \in DOMAIN rows}
        IN IF encoded THEN {outer}
           ELSE IF NoText \in middles \/ middles = {<<>>} THEN {}
           ELSE {Template(Verbatim(middles), outer.prefix, outer.suffix)}
      fitting == {n \in starts : \E rule \in At(n) :
                    rule.prefix \o rule.suffix # <<>> /\ NamesAll(rule, rows, texts)}
  IN IF fitting = {} THEN {} ELSE At(CHOOSE n \in fitting : \A m \in fitting : m <= n)
Foremost(choices) == IF choices = <<>> THEN {} ELSE choices[1]
NamingRule(rows, texts) ==
  LET fit == {rule \in {Verbatim({rows[i].stem : i \in DOMAIN rows}), Reldir} : NamesAll(rule, rows, texts)}
      templates == <<Templates(rows, texts, FALSE), Templates(rows, texts, TRUE)>>
  IN IF fit # {} THEN IF fit = {Reldir} THEN fit ELSE fit \ {Reldir}
     ELSE Foremost(SelectSeq(templates, LAMBDA found : found # {}))
RuleOf(rows, column) ==
  LET texts == [i \in DOMAIN rows |-> TextOf(MemberOf(rows[i].body, column))]
  IN IF rows = <<>> \/ NoText \in Range(texts) THEN {} ELSE NamingRule(rows, texts)

\* infer_identity: the columns tried are those asked for, or all of them.
Body(columns, rule) == [source |-> "body", columns |-> columns, int |-> FALSE, rule |-> rule]
FileStem(rows) ==
  LET used == UNION {DOMAIN rows[i].body : i \in DOMAIN rows}
  IN [source |-> "filename", columns |-> <<IF "id" \notin used THEN "id" ELSE "_file">>,
      int |-> rows # <<>> /\ \A i \in DOMAIN rows :
                IsInt(rows[i].stem) /\ Canonical(rows[i].stem) = rows[i].stem,
      rule |-> <<>>]
\* Of the columns some rule fits: id, the conventional one, or the first; if
\* none, the file's name.
Preferred(bodies, file) ==
  LET Of(column) == SelectSeq(bodies, LAMBDA id : id.columns = <<column>>)
  IN Head(Of("id") \o Of(Conventional) \o bodies \o <<file>>)
Inferred(rows, columns) ==
  LET bodies == FlattenSeq([k \in DOMAIN columns |->
                  SetToSeq({Body(<<columns[k]>>, rule) : rule \in RuleOf(rows, columns[k])})])
  IN Preferred(bodies, FileStem(rows))

\* requested_identity: the key asked for, by the convention its files follow,
\* or by reldir's own; nothing, if their names are not made of it.
Requested(rows, key) ==
  LET own == Body(key, Reldir)
      inferred == IF Len(key) # 1 THEN {} ELSE {Body(key, rule) : rule \in RuleOf(rows, key[1])}
      choices == <<inferred, {id \in {own} : \A i \in DOMAIN rows : Stem(id, rows[i].body) = rows[i].stem}>>
  IN IF \E i \in DOMAIN rows, c \in Range(key) : MemberOf(rows[i].body, c).is = "none" THEN {}
     ELSE Foremost(SelectSeq(choices, LAMBDA found : found # {}))

-----------------------------------------------------------------------------
(* Adopting a table, and changing it                                       *)

NamingIdle == files = <<>> /\ identity = Unadopted /\ strays = {} /\ writes = 0
NamingInit == files \in FileTables /\ identity = Unadopted /\ strays = {} /\ writes = 0

\* The rows of the table in the order of their paths, which may be any.
Ordered == {[i \in DOMAIN stems |-> [stem |-> stems[i], body |-> files[stems[i]]]] :
              stems \in SetToSeqs(DOMAIN files)}

Adopt(key) ==
  /\ identity = Unadopted
  /\ \E rows \in Ordered : identity' \in IF key = <<>> THEN {Inferred(rows, Columns)}
                                          ELSE Requested(rows, key)
  /\ UNCHANGED <<files, strays, writes>>

\* A change made through reldir: what it leaves must be sound.
Write(fs) == /\ identity # Unadopted /\ writes < MaxWrites /\ Sound(fs)
             /\ files' = fs /\ writes' = writes + 1
             /\ strays' = strays \intersect DOMAIN fs
             /\ UNCHANGED identity
BodyOf(row) ==
  IF identity.source = "filename" THEN Restrict(row, DOMAIN row \ Range(identity.columns)) ELSE row

InsertRow(row) ==
  LET target == Stem(identity, row)
  IN /\ identity # Unadopted /\ target \notin {NoText} \union DOMAIN files
     /\ Write((target :> BodyOf(row)) @@ files)

\* row_path and render: an updated row goes to the file its key names, which
\* must be its own or free.
UpdateRow(stem, column, value) ==
  LET after == (column :> value) @@ View(identity, stem, files[stem])
      target == Stem(identity, after)
  IN /\ identity # Unadopted /\ target \notin {NoText} \union (DOMAIN files \ {stem})
     /\ Write((target :> BodyOf(after)) @@ Restrict(files, DOMAIN files \ {stem}))

\* Another program adds a file.
Add(stem, body) ==
  /\ identity # Unadopted /\ stem \notin DOMAIN files /\ writes < MaxWrites
  /\ files' = (stem :> body) @@ files
  /\ strays' = strays \union {stem} /\ writes' = writes + 1
  /\ UNCHANGED identity

NamingNext ==
  \/ \E key \in Asked : Adopt(key)
  \/ \E row \in [Range(identity.columns) -> Spellings] : InsertRow(row)
  \/ \E stem \in DOMAIN files, column \in Range(Columns), value \in Spellings : UpdateRow(stem, column, value)
  \/ \E stray \in Strays : Add(stray[1], stray[2])

-----------------------------------------------------------------------------
(* Properties                                                              *)

\* Adopting a table renames no file and no two rows get one: every row reldir
\* adopted or wrote is named by its key; a file whose name passes the catalog's
\* check is the one an update of its row writes, or the update is refused; and
\* its name spells its key and no other row's.
NamedByKey ==
  identity # Unadopted =>
    LET row == [stem \in DOMAIN files |-> View(identity, stem, files[stem])]
        named == {stem \in DOMAIN files : WellNamed(identity, stem, files[stem])}
    IN /\ DOMAIN files \ strays \subseteq named
       /\ \A stem \in named :
            /\ Stem(identity, row[stem]) \in {stem, NoText}
            /\ identity.source = "body" =>
                 Parse(identity.rule, stem) =
                   [k \in DOMAIN identity.columns |-> row[stem][identity.columns[k]].text]
       /\ \A one, two \in named :
            KeyOf(identity, row[one]) = KeyOf(identity, row[two]) => one = two

=============================================================================
