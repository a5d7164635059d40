------------------------------ MODULE CommandLine ------------------------------
(***************************************************************************)
(* What the user types to get at a host: the arguments of the program and  *)
(* the quick-connect field (sshdeck-app/src/main.rs), and the identifier   *)
(* an inventory gives a new host (sshdeck-core/src/lib.rs); and how mosh   *)
(* is found and called for one (sshdeck-mosh/src/binary.rs and             *)
(* invocation.rs): the first executable on the path, the version its       *)
(* banner tells, and the arguments it is given.                            *)
(*                                                                         *)
(* A word is a sequence of "@", ":", ".", "-", ports and letters; a port   *)
(* stands in it as one member of Ports.  A name is a sequence of "@",      *)
(* "NUL", spaces and letters; a banner is a sequence of tokens made of      *)
(* digits, "." and other characters.                                       *)
(*                                                                         *)
(* And what the user is offered while typing.  Shell completion            *)
(* (sshdeck-autocomplete/src/lib.rs): the candidates for a command line, a *)
(* cursor and one command's specification.  There a word is a sequence of  *)
(* characters, "-" being the one a flag starts with, and a buffer is a     *)
(* sequence of characters in which " " divides.  A command is [names,      *)
(* subs, flags], a flag [names, values, takes]; subs, flags, names and     *)
(* values are sequences, in the order of the spec.                         *)
(*                                                                         *)
(* The command palette (sshdeck-app/src/palette.rs), and how the window    *)
(* opens it and closes it again (sshdeck-app/src/main.rs).  A command of   *)
(* the palette has texts (its label and its keywords, each a sequence of   *)
(* letters and " ") and a kind: "Builtin" commands the palette runs        *)
(* itself, "Host" commands the window runs, "Unavailable" ones nobody.     *)
(***************************************************************************)
EXTENDS Integers, Sequences, SequencesExt, FiniteSetsExt

CONSTANTS
  Ports,     (* the texts that are a port                                     *)
  Digits,    (* the characters of a number                                     *)
  Commands   (* the registry of the palette, in display order                  *)

DefaultPort == "22"

(* parse_args(): a flag takes the word behind it, whatever it is. *)
ParseArgs(args) ==
  LET Take(s, arg) ==
        CASE s.error # "none" -> s
          [] s.error = "none" /\ s.flag # "none" -> [s EXCEPT ![s.flag] = <<arg>>, !.flag = "none"]
          [] s.error = "none" /\ s.flag = "none" /\ arg \in {"connect", "exec"} -> [s EXCEPT !.flag = arg]
          [] OTHER -> [s EXCEPT !.error = "unexpected"]
      end == FoldLeft(Take, [connect |-> <<>>, exec |-> <<>>, flag |-> "none", error |-> "none"], args)
  IN CASE end.error # "none" \/ end.flag # "none" -> [mode |-> "usage"]
       [] end.error = "none" /\ end.flag = "none" /\ end.connect = <<>> /\ end.exec = <<>> ->
            [mode |-> "gui"]
       [] OTHER -> IF end.connect = <<>> \/ end.exec = <<>> THEN [mode |-> "usage"]
                   ELSE [mode |-> "exec", host |-> end.connect[1], command |-> end.exec[1]]

At(text, c) == {i \in 1..Len(text) : text[i] = c}
Before(text, i) == SubSeq(text, 1, i - 1)
After(text, i) == SubSeq(text, i + 1, Len(text))

(* split_once('@') *)
SplitUser(text) ==
  IF At(text, "@") = {} THEN [user |-> <<>>, rest |-> text]
  ELSE [user |-> Before(text, Min(At(text, "@"))), rest |-> After(text, Min(At(text, "@")))]

(* rsplit_once(':'), if what follows is a port. *)
SplitPort(text) ==
  LET at == At(text, ":")
      end == IF at = {} THEN <<>> ELSE After(text, Max(at))
  IN IF Len(end) = 1 /\ end[1] \in Ports
     THEN [address |-> Before(text, Max(at)), port |-> end[1], split |-> TRUE]
     ELSE [address |-> text, port |-> DefaultPort, split |-> FALSE]

NoHost == [ok |-> FALSE]

(* Mutant: a label that has a user says no port. *)
HostAtUserOnly(user, address, port) ==
  IF address = <<>> THEN NoHost
  ELSE [ok |-> TRUE, user |-> user, address |-> address, port |-> port,
        label |-> IF user # <<>> THEN user \o <<"@">> \o address
                  ELSE address \o (IF port # DefaultPort THEN <<":", port>> ELSE <<>>)]

(* The host of the parts, labelled with what is not a default. *)
HostAt(user, address, port) ==
  IF address = <<>> THEN NoHost
  ELSE [ok |-> TRUE, user |-> user, address |-> address, port |-> port,
        label |-> (IF user # <<>> THEN user \o <<"@">> ELSE <<>>) \o address
                  \o (IF port # DefaultPort THEN <<":", port>> ELSE <<>>)]

(* The options of "ssh ...": the first word that is none is the target. *)
SshOptions(words) ==
  LET Take(s, i) ==
        LET word == words[i]
            more == i < Len(words)
        IN CASE s.skip -> [s EXCEPT !.skip = FALSE]
             [] ~s.skip /\ word = <<"-p">> /\ more ->
                  [s EXCEPT !.skip = TRUE,
                            !.port = IF Len(words[i + 1]) = 1 /\ words[i + 1][1] \in Ports
                                     THEN words[i + 1][1] ELSE @]
             [] ~s.skip /\ word = <<"-l">> /\ more -> [s EXCEPT !.skip = TRUE, !.user = words[i + 1]]
             [] ~s.skip /\ word[1] \notin {"-p", "-l", "-"} /\ s.target = <<>> -> [s EXCEPT !.target = word]
             [] OTHER -> s
  IN FoldLeft(Take, [user |-> <<>>, port |-> DefaultPort, target |-> <<>>, skip |-> FALSE],
              [i \in 1..Len(words) |-> i])

(* parse_quick_connect() *)
QuickConnect(words) ==
  IF words[1] = <<"ssh">> /\ Len(words) > 1 THEN
    LET options == SshOptions(Tail(words))
        who == SplitUser(options.target)
        where == SplitPort(who.rest)
    IN IF options.target = <<>> THEN NoHost
       ELSE HostAt(IF options.user # <<>> THEN options.user ELSE who.user, where.address,
                   IF where.split THEN where.port ELSE options.port)
  ELSE IF Len(words) > 1 THEN NoHost
  ELSE
    LET word == words[1]
        who == SplitUser(word)
        where == SplitPort(who.rest)
    IN CASE Contains(word, "@") -> HostAt(who.user, where.address, where.port)
         [] ~Contains(word, "@") /\ Contains(word, ":") ->
              IF where.split THEN HostAt(<<>>, where.address, where.port) ELSE NoHost
         [] OTHER -> IF word = <<"localhost">> \/ Contains(word, ".")
                     THEN HostAt(<<>>, word, DefaultPort) ELSE NoHost

------------------------------------------------------------------------------
(* An id is a slug, "web" or "web-2", and a suffix where that is taken: a     *)
(* sequence of what stands between its dashes.                               *)
Suffixed(slug, n) == IF n = 1 THEN slug ELSE Append(slug, n)

(* Mutant: the suffix counts the hosts of that label. *)
InsertCounted(ids, slug) ==
  Append(ids, Suffixed(slug, 1 + Len(SelectSeq(ids, LAMBDA id : IsPrefix(slug, id)))))

(* Inventory::insert() *)
InsertId(ids, slug) ==
  Append(ids, Suffixed(slug, Min({n \in 1..(Len(ids) + 1) : ~Contains(ids, Suffixed(slug, n))})))

------------------------------------------------------------------------------
(* Mosh: the program.                                                      *)

Missing == [found |-> FALSE]

\* A path given must be executable; else the first directory that has one.
Detect(explicit, directories, executable) ==
  LET Executable(path) == path \in executable
      found == SelectSeq(IF explicit # <<>> THEN explicit ELSE directories, Executable)
  IN IF found = <<>> THEN Missing ELSE [found |-> TRUE, path |-> found[1]]

-----------------------------------------------------------------------------
(* The version.                                                            *)

NoVersion == <<>>
OfNumber(ch) == ch \in Digits \cup {"."}

Trimmed(token) ==
  LET numeric == {i \in 1..Len(token) : OfNumber(token[i])}
  IN IF numeric = {} THEN <<>> ELSE SubSeq(token, Min(numeric), Max(numeric))

Parts(text) ==
  FoldLeft(LAMBDA parts, ch : IF ch = "." THEN Append(parts, <<>>)
                              ELSE Append(Front(parts), Append(Last(parts), ch)),
           << <<>> >>, text)

IsNumber(part) == part # <<>> /\ ToSet(part) \subseteq Digits

\* major.minor or major.minor.patch, without what surrounds it.
ParseToken(token) ==
  LET parts == Parts(Trimmed(token))
  IN IF Len(parts) \in 2..3 /\ \A i \in 1..Len(parts) : IsNumber(parts[i])
     THEN IF Len(parts) = 2 THEN Append(parts, <<"0">>) ELSE parts
     ELSE NoVersion

ParseVersion(tokens) ==
  LET read == SelectSeq([i \in 1..Len(tokens) |-> ParseToken(tokens[i])],
                        LAMBDA version : version # NoVersion)
  IN IF read = <<>> THEN NoVersion ELSE read[1]

\* What the program prints, else what it complains.
ProbeVersion(stdout, stderr) ==
  IF ParseVersion(stdout) # NoVersion THEN ParseVersion(stdout) ELSE ParseVersion(stderr)

-----------------------------------------------------------------------------
(* The arguments.  An invocation is [host, user, port, ssh, sshPort,        *)
(* command]; user, port, ssh and sshPort are sequences of at most one.      *)

Ssh(call) ==
  IF call.ssh # <<>> THEN call.ssh[1]
  ELSE IF call.sshPort # <<>> THEN <<"ssh", "-p", call.sshPort[1]>> ELSE <<"ssh">>

Target(call) == IF call.user # <<>> THEN call.user[1] \o <<"@">> \o call.host ELSE call.host

Options(call) ==
  << <<"--ssh=">> \o Ssh(call) >>
    \o (IF call.port # <<>> THEN << <<"-p">>, call.port >> ELSE <<>>)

\* The target is an operand even if it looks like an option, and so is the command.
Argv(call) == Options(call) \o << <<"--">>, Target(call) >> \o call.command

Blank(text) == ToSet(text) \subseteq {" "}

Valid(call) ==
  /\ ~Blank(call.host) /\ ~Contains(call.host, "NUL")
  /\ call.user # <<>> => /\ ~Blank(call.user[1]) /\ ~Contains(call.user[1], "NUL")
                         /\ ~Contains(call.host, "@")
  /\ \A i \in 1..Len(call.command) : ~Contains(call.command[i], "NUL")

------------------------------------------------------------------------------
(* Completion, and the palette *)

(* tokenize(): the words of a text, with the span each stands on. *)
Tokenize(head) ==
  LET Ended(s) == IF s.start = 0 THEN s.tokens
                  ELSE Append(s.tokens, [from |-> s.start, to |-> s.at - 1,
                                         text |-> SubSeq(head, s.start, s.at - 1)])
      Step(s, ch) ==
        IF ch = " " THEN [tokens |-> Ended(s), start |-> 0, at |-> s.at + 1]
        ELSE [s EXCEPT !.start = IF @ = 0 THEN s.at ELSE @, !.at = @ + 1]
  IN Ended(FoldLeft(Step, [tokens |-> <<>>, start |-> 0, at |-> 1], head))

IsFlag(word) == word # <<>> /\ word[1] = "-"

First(s, Is(_)) ==
  LET found == SelectSeq(s, Is) IN IF found = <<>> THEN [found |-> FALSE] ELSE [found |-> TRUE, it |-> found[1]]

FindSubcommand(node, word) == First(node.subs, LAMBDA c : Contains(c.names, word))
FindFlag(node, word) == First(node.flags, LAMBDA f : Contains(f.names, word))

(* resolve(): from the command into its subcommands, past the flags and the  *)
(* values they take; a word that is neither ends it.                         *)
Resolve(root, words) ==
  LET Step(s, word) ==
        LET flag == FindFlag(s.node, word)
            sub == FindSubcommand(s.node, word)
        IN CASE ~s.ok -> s
             [] s.ok /\ s.value -> [s EXCEPT !.value = FALSE]
             [] s.ok /\ ~s.value /\ IsFlag(word) ->
                  [s EXCEPT !.value = flag.found /\ flag.it.takes]
             [] s.ok /\ ~s.value /\ ~IsFlag(word) ->
                  IF sub.found THEN [s EXCEPT !.node = sub.it] ELSE [s EXCEPT !.ok = FALSE]
  IN FoldLeft(Step, [ok |-> TRUE, node |-> root, value |-> FALSE], words)

(* score(): 0 for a prefix, 1 for a part, 2 for no match. *)
Score(name, partial) ==
  IF IsPrefix(partial, name) THEN 0
  ELSE IF \E i \in 1..Len(name) : IsPrefix(partial, SubSeq(name, i, Len(name))) THEN 1
  ELSE 2

Candidate(name, kind, partial) == [name |-> name, kind |-> kind, score |-> Score(name, partial)]

(* One candidate for a subcommand: the alias that matches best, the first of them. *)
BestAlias(sub, partial) ==
  LET Scored(n) == SelectSeq(sub.names, LAMBDA name : Score(name, partial) = n)
  IN Candidate((Scored(0) \o Scored(1) \o sub.names)[1], "Subcommand", partial)

(* Mutant: the spellings of a flag are present one by one. *)
FlagPresentAsSpelled(flag, name, words) == Contains(words, name)

FlagPresent(flag, name, words) == \E i \in 1..Len(flag.names) : Contains(words, flag.names[i])

FlagSpellings(flag, words, partial) ==
  LET left == SelectSeq(flag.names, LAMBDA name : ~FlagPresent(flag, name, words))
  IN [i \in 1..Len(left) |-> Candidate(left[i], "Flag", partial)]

(* gather(): flags once a "-" is typed, subcommands before. *)
Gather(node, words, partial) ==
  IF IsFlag(partial)
  THEN FoldLeft(LAMBDA out, f : out \o FlagSpellings(f, words, partial), <<>>, node.flags)
  ELSE [i \in 1..Len(node.subs) |-> BestAlias(node.subs[i], partial)]

ArgumentCandidates(flag, partial) ==
  [i \in 1..Len(flag.values) |-> Candidate(flag.values[i], "FlagArgument", partial)]

(* rank(): prefixes before parts, each name once. *)
Rank(scored) ==
  LET byScore == SelectSeq(scored, LAMBDA c : c.score = 0) \o SelectSeq(scored, LAMBDA c : c.score = 1)
      Add(out, c) == IF \E i \in 1..Len(out) : out[i].name = c.name THEN out ELSE Append(out, c)
  IN FoldLeft(Add, <<>>, byScore)

(* complete(): what is left of the cursor decides, and is replaced. *)
Complete(root, buffer, cursor) ==
  LET head == SubSeq(buffer, 1, cursor)
      tokens == Tokenize(head)
      boundary == head = <<>> \/ Last(head) = " "
      resolved == IF boundary THEN tokens ELSE Front(tokens)
      words == [i \in 1..Len(resolved) |-> resolved[i].text]
      partial == IF boundary THEN <<>> ELSE Last(tokens).text
      from == IF boundary THEN cursor + 1 ELSE Last(tokens).from
      node == Resolve(root, Tail(words))
      flag == FindFlag(node.node, Last(words))
      none == [from |-> from, candidates |-> <<>>]
  IN IF words = <<>> THEN none
     ELSE IF ~Contains(root.names, words[1]) \/ ~node.ok THEN none
     ELSE IF flag.found /\ flag.it.takes
     THEN [from |-> from, candidates |-> Rank(ArgumentCandidates(flag.it, partial))]
     ELSE [from |-> from, candidates |-> Rank(Gather(node.node, words, partial))]

(* What the caller makes of a candidate: the text it replaces ends at the    *)
(* cursor.                                                                   *)
Splice(buffer, from, cursor, name) ==
  SubSeq(buffer, 1, from - 1) \o name \o SubSeq(buffer, cursor + 1, Len(buffer))

------------------------------------------------------------------------------
(* The palette's commands *)

(* field_score(): exact, prefix, the prefix of a word, a part, or no match.   *)
NoMatch == 4
FieldScore(field, query) ==
  LET Here(i) == IsPrefix(query, SubSeq(field, i, Len(field)))
  IN CASE field = query -> 0
       [] field # query /\ Here(1) -> 1
       [] ~Here(1) /\ \E i \in 2..Len(field) : field[i - 1] = " " /\ Here(i) -> 2
       [] OTHER -> IF \E i \in 2..Len(field) : Here(i) THEN 3 ELSE NoMatch

MatchScore(command, query) == Min({FieldScore(t, query) : t \in command.texts})

(* filter_commands(): the matches, the best first, and then in their order.   *)
FilterCommands(query) ==
  LET Rating(i) == IF query = <<>> THEN 0 ELSE MatchScore(Commands[i], query)
      matches == {i \in 1..Len(Commands) : Rating(i) # NoMatch}
  IN SetToSortSeq(matches, LAMBDA i, j : Rating(i) < Rating(j) \/ (Rating(i) = Rating(j) /\ i < j))

IsEnabled(command, wired) == command.kind = "Builtin" \/ (command.kind = "Host" /\ wired)

------------------------------------------------------------------------------
(* The palette: what is listed, the position of the highlight in it (0 for    *)
(* none), whether the window is wired to it, and the commands it ran.        *)

Closed == [open |-> FALSE, wired |-> FALSE, listed |-> <<>>, selected |-> 0, ran |-> <<>>]

EnabledAt(p, position) == IsEnabled(Commands[p.listed[position]], p.wired)

FirstEnabled(p) ==
  LET enabled == {i \in 1..Len(p.listed) : EnabledAt(p, i)}
  IN IF enabled = {} THEN 0 ELSE Min(enabled)

Refilter(p, query) ==
  LET q == [p EXCEPT !.listed = FilterCommands(query)]
  IN [q EXCEPT !.selected = FirstEnabled(q)]

SetOnSelect(p) ==
  LET q == [p EXCEPT !.wired = TRUE]
  IN [q EXCEPT !.selected = FirstEnabled(q)]

(* The window makes a palette and wires itself to it; one that is open it     *)
(* leaves as it is.                                                          *)
OpenPalette(p) ==
  IF p.open THEN p ELSE SetOnSelect(Refilter([p EXCEPT !.open = TRUE, !.wired = FALSE], <<>>))

(* move_selection(): the next enabled one, around the end.                    *)
MoveSelection(p, delta) ==
  LET len == Len(p.listed)
      start == IF p.selected = 0 /\ delta < 0 THEN 1 ELSE p.selected
      Nth(step) == ((start - 1 + delta * step) % len) + 1
      hits == {step \in 1..len : EnabledAt(p, Nth(step))}
  IN CASE len = 0 -> [p EXCEPT !.selected = 0]
       [] len > 0 /\ hits = {} -> p
       [] OTHER -> [p EXCEPT !.selected = Nth(Min(hits))]

(* The window closes the palette before it runs the command; a command the    *)
(* palette runs itself leaves it open.                                       *)
Confirm(p) ==
  IF p.selected = 0 \/ ~EnabledAt(p, p.selected) THEN p
  ELSE LET command == p.listed[p.selected]
       IN IF Commands[command].kind = "Builtin" THEN [p EXCEPT !.ran = Append(@, command)]
          ELSE [Closed EXCEPT !.ran = Append(p.ran, command)]

Cancel(p) == [Closed EXCEPT !.ran = p.ran]

(* What the user does: a key, a query, the pointer on a row that is enabled.  *)
Handle(p, event) ==
  CASE event.do = "open" -> OpenPalette(p)
    [] ~p.open /\ event.do # "open" -> p
    [] p.open /\ event.do = "query" -> Refilter(p, event.text)
    [] p.open /\ event.do = "up" -> MoveSelection(p, -1)
    [] p.open /\ event.do = "down" -> MoveSelection(p, 1)
    [] p.open /\ event.do = "enter" -> Confirm(p)
    [] p.open /\ event.do = "escape" -> Cancel(p)
    [] p.open /\ event.do \in {"hover", "click"} ->
         IF event.row \notin 1..Len(p.listed) \/ ~EnabledAt(p, event.row) THEN p
         ELSE LET q == [p EXCEPT !.selected = event.row]
              IN IF event.do = "hover" THEN q ELSE Confirm(q)
==============================================================================
