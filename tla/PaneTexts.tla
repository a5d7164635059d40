------------------------------- MODULE PaneTexts -------------------------------
(***************************************************************************)
(* What the panes compute of the things they list: the order, the filters,  *)
(* the sizes, dates and modes of files, the trail of a path, the identities *)
(* of an inventory, the lines of known_hosts, the names of imported keys    *)
(* and the log; and the templates of snippets.                             *)
(***************************************************************************)
EXTENDS Integers, Sequences, SequencesExt, FiniteSets, FiniteSetsExt

CONSTANTS
  Unit,      \* 1024: a unit of size is so many of the one before it
  Units,     \* how many units there are
  MaxEntries \* entries the log keeps

\* A sort that keeps the order of what it does not tell apart.
StableSort(items, Before(_, _)) ==
  FoldLeft(LAMBDA sorted, item :
             LET fore == SelectSeq(sorted, LAMBDA x : ~Before(item, x))
             IN Append(fore, item) \o SubSeq(sorted, Len(fore) + 1, Len(sorted)),
           <<>>, items)

Contained(query, text) == \E i \in 1 .. Len(text) + 1 : IsPrefix(query, SubSeq(text, i, Len(text)))

-----------------------------------------------------------------------------
(* Listings *)

Unknown == -1

\* Times in either direction; an entry whose time is not known comes last.
ModifiedBefore(a, b, asc) ==
  /\ a # Unknown
  /\ b = Unknown \/ (IF asc THEN a < b ELSE b < a)

SortByModified(entries, asc) ==
  StableSort(entries, LAMBDA a, b : ModifiedBefore(a.modified, b.modified, asc))

\* A local directory: what can be read of it and is not hidden, directories
\* first, then by name whatever its case.
ReadLocalDir(found) ==
  LET Shown(e) == e.readable /\ ~e.hidden
      Item(e) == [e EXCEPT !.size = IF e.dir THEN 0 ELSE @]
      items == SelectSeq(found, Shown)
      Before(a, b) == (a.dir /\ ~b.dir) \/ (a.dir = b.dir /\ a.lower < b.lower)
  IN StableSort([i \in DOMAIN items |-> Item(items[i])], Before)

\* The names that hold what is typed, blanks around it aside.
Trimmed(query) ==
  LET ink == {i \in DOMAIN query : query[i] # " "}
  IN IF ink = {} THEN <<>> ELSE SubSeq(query, Min(ink), Max(ink))

MatchesFilter(name, query) == Contained(Trimmed(query), name)

\* Snippets, identities and entries of the log: those that hold the query in some
\* field, by name when the list is sorted.
Visible(entries, query, alpha) ==
  LET kept == SelectSeq(entries, LAMBDA e : \E f \in e.fields : MatchesFilter(f, query))
  IN IF alpha THEN StableSort(kept, LAMBDA a, b : a.rank < b.rank) ELSE kept

-----------------------------------------------------------------------------
(* Sizes, modes and dates *)

\* A tenth of a unit, rounded to the nearest and, between two, to the even one.
Tenths(amount, unit) ==
  LET down == (amount * 10) \div unit
      rest == 2 * ((amount * 10) % unit)
  IN IF rest > unit \/ (rest = unit /\ down % 2 = 1) THEN down + 1 ELSE down

\* The largest unit that is not above the size, and the size in its tenths.
HumanSize(bytes) ==
  LET n == Max({k \in 0 .. Units - 1 : k = 0 \/ bytes >= Unit ^ k})
  IN [unit |-> n, tenths |-> IF n = 0 THEN 10 * bytes ELSE Tenths(bytes, Unit ^ n)]

ModeBits == {<<who, what>> : who \in 1 .. 3, what \in 1 .. 3}

\* A directory's "d" and nine places.
FormatUnixMode(mode, dir) ==
  <<IF dir THEN "d" ELSE "-">>
    \o [i \in 1 .. 9 |->
          LET what == ((i - 1) % 3) + 1
          IN IF <<((i - 1) \div 3) + 1, what>> \in mode THEN <<"r", "w", "x">>[what] ELSE "-"]

\* The date of a day counted from 1970; eras are 400 years from a March.
CivilFromDays(days) ==
  LET z == days + 719468
      era == (IF z >= 0 THEN z ELSE z - 146096) \div 146097
      doe == z - era * 146097
      yoe == (doe - doe \div 1460 + doe \div 36524 - doe \div 146096) \div 365
      doy == doe - (365 * yoe + yoe \div 4 - yoe \div 100)
      mp == (5 * doy + 2) \div 153
      month == IF mp < 10 THEN mp + 3 ELSE mp - 9
  IN [year |-> yoe + era * 400 + (IF month <= 2 THEN 1 ELSE 0), month |-> month,
      day |-> doy - ((153 * mp + 2) \div 5) + 1]

\* A time by its day and its minute in the day.
FormatModified(day, minute) ==
  LET hour == minute \div 60
  IN [date |-> CivilFromDays(day), minute |-> minute % 60,
      hour |-> IF hour = 0 THEN 12 ELSE IF hour <= 12 THEN hour ELSE hour - 12,
      half |-> IF hour < 12 THEN "AM" ELSE "PM"]

-----------------------------------------------------------------------------
(* Paths: what stands between the slashes, as in RemotePaths *)

\* Empty parts at the end are slashes that are trimmed.
ParentPath(path) ==
  LET named == {i \in DOMAIN path : path[i] # ""}
      trimmed == IF named = {} THEN <<"">> ELSE SubSeq(path, 1, Max(named))
  IN IF Len(trimmed) = 1 THEN {}
     ELSE IF Len(trimmed) = 2 /\ trimmed[1] = "" THEN {<<"", "">>}
     ELSE {Front(trimmed)}

Segments(path) == SelectSeq(path, LAMBDA part : part # "")

Breadcrumbs(path) ==
  LET parts == Segments(path)
      root == IF Len(path) > 1 /\ path[1] = ""
              THEN <<[label |-> "/", path |-> <<"", "">>]>> ELSE <<>>
  IN root \o [i \in DOMAIN parts |-> [label |-> parts[i], path |-> <<"">> \o SubSeq(parts, 1, i)]]

\* The trail that is drawn begins at the first directory, if there is one.
BreadcrumbCrumbs(path) ==
  LET crumbs == Breadcrumbs(path)
  IN IF Len(crumbs) > 1 THEN SelectSeq(crumbs, LAMBDA c : c.label # "/") ELSE crumbs

-----------------------------------------------------------------------------
(* Identities, known hosts and keys *)

\* One identity for each login that some host has, by name, with the labels of
\* its hosts and the way the first of them signs in.
LoadIdentities(hosts, Names) ==
  LET used == SelectSeq(Names, LAMBDA n : \E i \in DOMAIN hosts : hosts[i].user = n)
      Of(n) == {i \in DOMAIN hosts : hosts[i].user = n}
  IN [k \in DOMAIN used |->
        [name |-> used[k], hosts |-> {hosts[i].label : i \in Of(used[k])},
         auth |-> hosts[Min(Of(used[k]))].auth]]

\* A line is its words; one that begins with "#" is a comment; words that begin
\* with "@" before the hosts are marks.
IsMark(word) == word \in {"@revoked", "@cert-authority"}

ParseKnownHostsLine(words) ==
  LET unmarked == {i \in DOMAIN words : ~IsMark(words[i])}
      fields == IF unmarked = {} THEN <<>> ELSE SubSeq(words, Min(unmarked), Len(words))
      marks == SubSeq(words, 1, Len(words) - Len(fields))
  IN IF words = <<>> \/ Head(words) = "#" \/ Len(fields) < 3 THEN [ok |-> FALSE]
     ELSE [ok |-> TRUE, hosts |-> fields[1], kind |-> fields[2], key |-> fields[3],
           revoked |-> Contains(marks, "@revoked")]

\* The name of a file in the directory of keys for whatever name was typed.
SafeComponent(name) ==
  LET cleaned == [i \in DOMAIN name |-> IF name[i] \in {"a", "."} THEN name[i] ELSE "_"]
  IN IF \A i \in DOMAIN cleaned : cleaned[i] = "." THEN <<"imported_key">> ELSE cleaned

-----------------------------------------------------------------------------
(* The log *)

NewLog == [entries |-> <<>>, next |-> 1]

PushEntry(log, what) ==
  LET kept == IF Len(log.entries) >= MaxEntries THEN Tail(log.entries) ELSE log.entries
  IN [entries |-> Append(kept, [id |-> log.next, what |-> what]), next |-> log.next + 1]

Clear(log) == [log EXCEPT !.entries = <<>>]

-----------------------------------------------------------------------------
(* Snippet templates (sshdeck-snippets/src/lib.rs): text with {{name}}      *)
(* placeholders.  A text is a sequence of "{", "}", " " and letters.       *)

(* str::find of a two-character mark, from a position on; 0 if there is none. *)
Find(text, mark, from) ==
  LET at == {i \in from..(Len(text) - 1) : text[i] = mark /\ text[i + 1] = mark}
  IN IF at = {} THEN 0 ELSE Min(at)

Trim(text) ==
  LET solid == {i \in 1..Len(text) : text[i] # " "}
  IN IF solid = {} THEN <<>> ELSE SubSeq(text, Min(solid), Max(solid))

Literal(text) == [kind |-> "literal", text |-> text]
Placeholder(name) == [kind |-> "placeholder", text |-> name]

(* One turn of Template::parse(): the next placeholder, and the text before. *)
ParseNext(s, raw) ==
  LET start == Find(raw, "{", s.at)
      end == Find(raw, "}", start + 2)
      name == Trim(SubSeq(raw, start + 2, end - 1))
      before == IF start > s.at THEN <<Literal(SubSeq(raw, s.at, start - 1))>> ELSE <<>>
      rest == SubSeq(raw, s.at, Len(raw))
  IN CASE s.done -> s
       [] ~s.done /\ start = 0 ->
            [s EXCEPT !.done = TRUE,
                      !.tokens = @ \o (IF rest = <<>> THEN <<>> ELSE <<Literal(rest)>>)]
       [] ~s.done /\ start # 0 ->
            IF end = 0 \/ name = <<>> \/ Find(name, "{", 1) # 0
            THEN [s EXCEPT !.done = TRUE,
                           !.error = IF end # 0 /\ name = <<>> THEN "EmptyPlaceholder"
                                     ELSE "UnbalancedDelimiter"]
            ELSE [s EXCEPT !.at = end + 2, !.tokens = @ \o before \o <<Placeholder(name)>>]

Parse(raw) ==
  FoldLeft(LAMBDA s, i : ParseNext(s, raw), [at |-> 1, tokens |-> <<>>, error |-> "none", done |-> FALSE],
           [i \in 1..(Len(raw) \div 2 + 2) |-> i])

Placeholders(tokens) == {tokens[i].text : i \in {j \in 1..Len(tokens) : tokens[j].kind = "placeholder"}}

(* Mutant: what was substituted is looked at again. *)
ExpandAgain(tokens, declared, values) ==
  LET Value(name) == IF name \in DOMAIN values THEN values[name] ELSE declared[name].default
      Text(t) == IF t.kind = "literal" THEN t.text ELSE Value(t.text)
      once == FoldLeft(LAMBDA out, t : out \o Text(t), <<>>, tokens)
      again == Parse(once)
  IN IF ~Placeholders(tokens) \subseteq DOMAIN declared THEN [ok |-> FALSE, text |-> <<>>]
     ELSE [ok |-> TRUE, text |-> FoldLeft(LAMBDA out, t : out \o t.text, <<>>, again.tokens)]

(* Template::expand(): a value, else the default, else an error. *)
Expand(tokens, declared, values) ==
  LET names == Placeholders(tokens)
      Known(name) == name \in DOMAIN values \/ declared[name].given
      Value(name) == IF name \in DOMAIN values THEN values[name] ELSE declared[name].default
      Text(t) == IF t.kind = "literal" THEN t.text ELSE Value(t.text)
  IN IF ~(names \subseteq DOMAIN declared) \/ \E n \in names : ~Known(n)
     THEN [ok |-> FALSE, text |-> <<>>]
     ELSE [ok |-> TRUE, text |-> FoldLeft(LAMBDA out, t : out \o Text(t), <<>>, tokens)]

------------------------------------------------------------------------------
(* The fields of the snippet form, and the history it draws from            *)
(* (sshdeck-app/src/snippets_pane.rs).  The separators are "," and "="; a   *)
(* history line may start with ":" and hold a ";".                         *)

Pieces(text, mark) ==
  FoldLeft(LAMBDA out, c : IF c = mark THEN Append(out, <<>>) ELSE Append(Front(out), Append(Last(out), c)),
           << <<>> >>, text)

(* parse_tags(): the pieces that are not blank. *)
ParseTags(raw) ==
  LET pieces == Pieces(raw, ",")
  IN SelectSeq([i \in 1..Len(pieces) |-> Trim(pieces[i])], LAMBDA tag : tag # <<>>)

Joined(texts) ==
  FoldLeft(LAMBDA out, t : IF out = <<>> THEN t ELSE out \o <<",", " ">> \o t, <<>>, texts)

(* An entry "name=default", whose default may be blank, or "name". *)
Declaration(entry) ==
  LET at == {i \in 1..Len(entry) : entry[i] = "="}
  IN IF at = {} THEN [name |-> entry, default |-> <<>>]
     ELSE [name |-> Trim(SubSeq(entry, 1, Min(at) - 1)),
           default |-> Trim(SubSeq(entry, Min(at) + 1, Len(entry)))]

(* parse_variables_raw(): the first declaration of each name; a nameless one  *)
(* is an error.                                                              *)
ParseVariables(raw) ==
  LET entries == ParseTags(raw)
      all == [i \in 1..Len(entries) |-> Declaration(entries[i])]
      Keep(out, v) == IF \E i \in 1..Len(out) : out[i].name = v.name THEN out ELSE Append(out, v)
  IN IF \E i \in 1..Len(all) : all[i].name = <<>> THEN [ok |-> FALSE, variables |-> <<>>]
     ELSE [ok |-> TRUE, variables |-> FoldLeft(Keep, <<>>, all)]

(* variables_to_string() *)
ShowVariables(variables) ==
  Joined([i \in 1..Len(variables) |->
            LET v == variables[i]
            IN v.name \o (IF v.default = <<>> THEN <<>> ELSE <<"=">> \o v.default)])

(* A line of a shell's history: zsh writes ": time;" before the command. *)
CommandOf(line) ==
  LET text == Trim(line)
      at == {i \in 1..Len(text) : text[i] = ";"}
  IN IF text # <<>> /\ text[1] = ":" /\ at # {} THEN Trim(SubSeq(text, Min(at) + 1, Len(text))) ELSE text

(* read_recent_shell_history(): each command once, the latest first. *)
RecentHistory(lines, limit) ==
  LET Keep(out, line) ==
        LET command == CommandOf(line)
        IN IF command = <<>> \/ Contains(out, command) \/ Len(out) >= limit THEN out
           ELSE Append(out, command)
  IN FoldLeft(Keep, <<>>, Reverse(lines))
=============================================================================
