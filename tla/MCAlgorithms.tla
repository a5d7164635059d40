----------------------------- MODULE MCAlgorithms -----------------------------
(***************************************************************************)
(* The pure algorithms over bounded inputs: each behaviour picks one       *)
(* algorithm and one input and stops; an invariant compares what the code  *)
(* computes with a reference definition.                                   *)
(***************************************************************************)
EXTENDS Streams, Integers, FiniteSetsExt

CONSTANT Depth

vars == <<task, in>>

Records == INSTANCE HostRecords WITH MaxJumpDepth <- Depth, Patterns <- {"*"}, Ports <- {"80"}
Registry == << [texts |-> {<<"a", "b">>}, kind |-> "Builtin"],
               [texts |-> {<<"b", " ", "a">>, <<"b">>}, kind |-> "Host"],
               [texts |-> {<<"a">>}, kind |-> "Unavailable"],
               [texts |-> {<<"b", "a">>}, kind |-> "Host"] >>
Cli == INSTANCE CommandLine
         WITH Ports <- {"22", "80"}, Digits <- {"0", "1"}, Commands <- Registry
Tree == INSTANCE WorkspaceTree
Screen == INSTANCE TerminalGrid
Texts == INSTANCE PaneTexts WITH Unit <- 4, Units <- 3, MaxEntries <- 2

\* The tiling of the window as a sequence of tiles: only its pure functions.
Flat == INSTANCE Workspace
          WITH MaxSessions <- 4, sessions <- <<>>, opened <- 0, tab <- [kind |-> "Vaults", index |-> 0],
               closing <- <<>>, active <- 0, ws <- <<>>, focus <- 1, dragged <- 0, overlay <- FALSE,
               nav <- FALSE, sftpPane <- FALSE, attached <- 0, client <- 0, attempts <- {},
               forwardPane <- FALSE, forwardOf <- 0

Strings(S, n) == UNION {[1..k -> S] : k \in 0..n}
Words(S, n) == Strings(S, n) \ {<<>>}
Concat(ss) == FoldLeft(LAMBDA out, s : out \o s, <<>>, ss)

------------------------------------------------------------------------------
(* The inputs *)

Init == task = "none" /\ in = <<>>

Choose(t, S) == task = "none" /\ task' = t /\ in' \in S

DecodeTelnet == Choose("telnet", Words({"IAC", "SB", "SE", "WILL", "DO", "a"}, 4)
                                 \cup {<<"IAC", "SB", "a">> \o s : s \in Words({"IAC", "SE", "a"}, 4)})

Codecs == {[local |-> l, remote |-> r, pending |-> <<>>] :
             l \in SUBSET AllowLocal, r \in SUBSET AllowRemote}
Commands == Negotiations \X {"a", "b"}
NegotiateTelnet ==
  Choose("negotiation", [mine : Codecs, yours : Codecs, toMe : {<<c, d>> : c \in Commands, d \in Commands}])

Directories == {<<"a", "b", "c">>, <<"a", "a", "a">>}
JoinPath == Choose("path", [base : Words({"", "a", ".."}, 3), child : Words({"", ".", "..", "a", "b"}, 3)])

Entries == [dir : BOOLEAN, lower : 1..2, exact : 1..2]
Sort == Choose("sort", {s \in [1..3 -> Entries] : Cardinality(ToSet(s)) = 3})
Permissions == Choose("mode", SUBSET Paths!ModeBits)

Item(name) == [host |-> name, user |-> "none", port |-> "none"]
Jumps == {[form |-> f, items |-> <<>>] : f \in {"nothing", "none", "command"}}
         \cup {[form |-> "list", items |-> <<Item(n)>>] : n \in {"a", "b", "c", "x"}}
         \cup {[form |-> "list", items |-> <<Item("x"), [Item("a") EXCEPT !.user = u]>>] : u \in {"none", "w"}}
HostsOf(j) == [i \in 1..3 |-> LET n == <<"a", "b", "c">>[i]
                              IN [id |-> n, label |-> n, address |-> n, user |-> "u", port |-> "22",
                                  auth |-> "agent", jump |-> j[i]]]
Chain == Choose("chain", [1..3 -> Jumps])

Jump == Choose("jump", Strings({"@", "[", "]", ":", " ", "1", "h"}, 5))
Hop == Choose("hop", [host : Words({":", "h", "1"}, 3), user : {<<>>, <<"h">>, <<"1", "h">>, <<":">>},
                      port : {<<>>, <<"1">>, <<"1", "0">>}])

Banner == Choose("banner", Words(Words({"1", ".", "v"}, 4) \cup {<<"1", ".", "1", ".", "0">>,
                                  <<"[", "1", ".", "1", "]">>, <<"1", ".", "1", ".", "1", ".", "1">>}, 2))
CallNames == {<<"h">>, <<"-", "h">>, <<"u", "@", "h">>, <<" ">>, <<>>, <<"NUL">>}
Call == Choose("call", [host : CallNames, user : {<<>>} \cup {<<n>> : n \in CallNames}, port : {<<>>, <<"1">>},
                        ssh : {<<>>, << <<"bridge">> >>}, sshPort : {<<>>, <<"1">>},
                        command : Strings({<<"-p">>, <<"--">>, <<"w">>, <<"NUL">>}, 2)])
Installed == Choose("installed", [given : {<<>>, <<"a">>, <<"b">>}, path : Strings({"a", "b", "c"}, 3),
                                  programs : SUBSET {"a", "b", "c"}])

ForwardText == Choose("forward", [bind : Strings({":", "h"}, 3), port : {<<"1">>, <<"1", "1">>},
                                  host : Words({":", "h"}, 3), hostport : {<<"1">>}])
Brackets == Choose("brackets", Strings({"[", "]", ":", "1", "h"}, 5))

Greetings == {<<5, 1, 0>>, <<5, 2, 1, 0>>, <<5, 1, 1>>, <<4, 1, 0>>, <<5, 0>>, <<5, 3, 0>>}
Requests == {<<5, 1, 0, 3, 1, 9, 0, 7>>, <<5, 1, 0, 1, 9, 9, 9, 9, 0, 7>>, <<5, 1, 0, 3, 0, 0, 7>>,
             <<5, 2, 0, 1>>, <<5, 1, 0, 9>>, <<>>}
Socks == Choose("socks", [greeting : Greetings, request : Requests])

Key == Choose("key", [key : Screen!Keys, mods : SUBSET {"shift", "alt", "ctrl"}, application : BOOLEAN])
Paste == Choose("paste", Strings({"CR", "LF", "x"}, 4))

Template == Choose("template", Strings({"{", "}", " ", "n"}, 6))
Field == Choose("field", Strings({",", "=", " ", "n", "m"}, 5))
HistoryLines == {<<>>, <<"n">>, <<" ", "m">>, <<":", "0", ";", "n">>, <<":", "0", ";">>, <<":", "m">>}
History == Choose("history", Strings(HistoryLines, 4))

Root ==
  [names |-> << <<"c">> >>, flags |-> << >>, subs |->
    << [names |-> << <<"s", "a">>, <<"s">> >>, subs |-> << >>,
        flags |-> << [names |-> << <<"-", "f">>, <<"-", "g">> >>, values |-> << <<"f">> >>, takes |-> FALSE],
                     [names |-> << <<"-", "v">> >>, values |-> << <<"s">>, <<"a">> >>, takes |-> TRUE] >>],
       [names |-> << <<"a">> >>, subs |-> << >>, flags |-> << >>] >>]
TypedWords == { <<"s">>, <<"a">>, <<"-", "f">>, <<"-", "g">>, <<"-", "v">>, <<"-">> }
Line(ws, open) ==
  FoldLeft(LAMBDA out, w : out \o <<" ">> \o w, <<"c">>, ws) \o (IF open THEN <<" ">> ELSE <<>>)
Typed == Choose("typed", [words : Strings(TypedWords, 3), open : BOOLEAN, back : 0..2])

Lines == [kw : {"host"}, value : {<<"a">>, <<"b", "*">>}]
         \cup [kw : {"user"}, value : {<<"u">>, <<"v">>}] \cup [kw : {"port"}, value : {<<"80">>, <<"x">>}]
         \cup [kw : {"match", "include"}, value : {<<"z">>}]
Configuration == Choose("config", Strings(Lines, 4))
QuotedWord == Choose("quoted", Words({"\"", "\\", " ", "#", "w"}, 4))
Fields == <<"address", "host", "label", "name", "proxy", "password">>
Exported == Choose("entry", [1..6 -> {"absent", "", "object", "v"}])
EntryOf(e) ==
  LET given == {i \in 1..6 : e[i] # "absent"}
  IN [f \in {Fields[i] : i \in given} |->
        LET i == CHOOSE j \in given : Fields[j] = f
        IN IF e[i] = "v" THEN "v-" \o f ELSE e[i]]

Wildcard == Choose("wildcard", [name : Strings({"a", "b"}, 4), pattern : Strings({"a", "?", "*"}, 4)])
Certificate ==
  Choose("certificate",
         [cert : [use : {"Host", "User"}, ca : {"ca1", "ca2"}, genuine : BOOLEAN, after : 1..2,
                  before : 1..3, principals : {<<>>, << <<"*">> >>, << <<"a">>, <<"b">> >>}],
          use : {"Host", "User"}, principal : {<<"a">>, <<"b", "b">>}, now : 0..3])

Arguments == Choose("arguments", Strings({"connect", "exec", "w"}, 5))
Quick == Choose("quick", [word : Words({"@", ":", ".", "h", "80", "22"}, 5)])
Inserted == Choose("ids", Words({<<"web">>, <<"web", 2>>, <<"web", 2, 2>>}, 5))

Events == [do : {"open", "up", "down", "enter"}] \cup [do : {"click"}, row : {1, 2}]
          \cup [do : {"query"}, text : {<<"a">>, <<"a", "b">>, <<"z">>}]
Steered == Choose("palette", Strings(Events, 4))

\* Trees of up to three panes: the tabs of the panes, and how they are split.
Tabs == Words(1..3, 2)
Tabbings == UNION {[1..n -> Tabs] : n \in 1..3}
Panes(tabs, shown) == [p \in DOMAIN tabs |-> Tree!Pane(tabs[p], Min({shown, Len(tabs[p])}))]
Trees(ps) ==
  CASE Len(ps) = 1 -> {ps[1]}
    [] Len(ps) = 2 -> {Tree!Split("Row", ps)}
    [] OTHER -> {Tree!Split("Row", ps),
                 Tree!Split("Col", <<ps[1], Tree!Split("Row", <<ps[2], ps[3]>>)>>),
                 Tree!Split("Row", <<Tree!Split("Col", <<ps[1], ps[2]>>), ps[3]>>)}
Tiling == Choose("tiling", {Tree!Empty} \cup UNION {Trees(Panes(t, k)) :
                    t \in {u \in Tabbings : Len(Concat(u)) <= 4}, k \in 1..2})

\* Cells of a terminal: one never written, a blank, a letter and one with a mark.
Scheme == [fg |-> "ink", bg |-> "paper"]
Plain == [fg |-> "Default", bg |-> "Default", inverse |-> FALSE]
CellsOf(texts, styles) == [text : texts, style : styles]
Written(text) == [text |-> text, style |-> Plain]
Row == Choose("row", Strings(CellsOf({<<>>, <<" ">>, <<"a">>}, {Plain, [Plain EXCEPT !.bg = "red"],
                                                            [Plain EXCEPT !.inverse = TRUE]}), 3))
Places == {Screen!At(r, c) : r \in 0..2, c \in 0..2}
Drag == Choose("drag", [grid : [1..2 -> [1..2 -> CellsOf({<<>>, <<" ">>, <<"a">>}, {Plain})]],
                        drag : [anchor : Places, head : Places], cols : 0..2])
Query == Choose("query", [cells : Strings(CellsOf({<<>>, <<"a">>, <<"b">>, <<"a", "b">>}, {Plain}), 4),
                          query : Strings({"a", "b"}, 2)])
Wheel == Choose("wheel", [offset : 0..2, lines : Words(-3..3, 3)])
Point == Choose("point", [x : -2..5, y : -1..5, w : 0..2, h : {2}, cols : 0..3, rows : 0..2])
Sizes == Choose("sizes", [live : BOOLEAN, paints : Strings([w : {0, 3, 160, 165}, h : {48, 50}], 4)])
SessionEvents == {"Connecting", "Authenticating", "Connected", "Data", "Closed", "Exited", "Error", "Failed"}
Told == Choose("told", Strings(SessionEvents, 4))
Indexes == Choose("indexes", {16..255})

Listed == Choose("listed", [times : Strings({Texts!Unknown, 1, 2}, 4), asc : BOOLEAN])
Fields2 == {{<<"a">>, <<"b">>}, {<<"a", " ", "b">>}, {<<"b", "a">>}}
Filtered == Choose("filtered", [entries : Strings([fields : Fields2, rank : 1..2], 3), query : Strings({"a", "b", " "}, 3)])
Local == Choose("local", Strings([dir : BOOLEAN, lower : 1..2, hidden : BOOLEAN, readable : BOOLEAN, size : {5}], 3))
Numbers == Choose("numbers", {0..130})
\* A day in each of the years from 1970 to 2110.
Days == Choose("days", {y * 365 : y \in 0..140})
Trail == Choose("trail", {<<"">> \o p : p \in Words({"", "a", "b"}, 4)})
Logins == Choose("logins", Strings([label : {"web", "db"}, user : {"", "u", "v"}, auth : {"Key", "Agent"}], 3))
KnownLine == Choose("known", Strings({"@revoked", "@cert-authority", "#", "h", "k"}, 5))
FileName == Choose("file", Strings({"a", ".", "/", "_"}, 4))
Logged == Choose("log", Strings({"clear", "a", "b"}, 6))

Next ==
  \/ DecodeTelnet \/ NegotiateTelnet \/ JoinPath \/ Sort \/ Permissions \/ Chain
  \/ Jump \/ Hop \/ Banner \/ Call \/ Installed
  \/ ForwardText \/ Brackets \/ Socks \/ Key \/ Paste \/ Template \/ Field \/ History \/ Typed
  \/ Configuration \/ QuotedWord \/ Exported \/ Wildcard \/ Certificate
  \/ Arguments \/ Quick \/ Inserted \/ Steered \/ Tiling
  \/ Row \/ Drag \/ Query \/ Wheel \/ Point \/ Sizes \/ Told \/ Indexes
  \/ Listed \/ Filtered \/ Local \/ Numbers \/ Days \/ Trail \/ Logins \/ KnownLine \/ FileName \/ Logged

Spec == Init /\ [][Next]_vars

------------------------------------------------------------------------------
(* Texts: what is written is what is read *)

(* The text a forward is shown as parses to that forward, and a text that     *)
(* parses is shown as one that parses to the same.                           *)
Shown(f) == Forwards!FormatBind(f.bind, f.port) \o <<":">> \o Forwards!FormatBind(f.host, f.hostport)

ForwardsReadBack ==
  /\ task = "forward" =>
       LET read == Forwards!ParseForwardSpec(Shown(in))
       IN /\ read.ok
          /\ read = [ok |-> TRUE, bind |-> Forwards!NormaliseBind(in.bind), port |-> in.port,
                     host |-> in.host, hostport |-> in.hostport]
  /\ task = "brackets" =>
       LET read == Forwards!ParseDynamic(in)
       IN (read.ok /\ ~Contains(read.bind, "[") /\ ~Contains(read.bind, "]"))
            => Forwards!ParseDynamic(Forwards!FormatBind(read.bind, read.port)) = read

(* Two keys, or one key with other modifiers, are never the same bytes; only  *)
(* Enter, Tab, Backspace and Escape do not tell shift and control apart.     *)
Pressed(k) == <<k.key, IF k.key \in DOMAIN Screen!Plain THEN k.mods \cap {"alt"} ELSE k.mods>>
KeysAreDistinct ==
  task = "key" =>
    \A key \in Screen!Keys, mods \in SUBSET {"shift", "alt", "ctrl"} :
      Screen!EncodeKey(key, mods, in.application) = Screen!EncodeKey(in.key, in.mods, in.application)
        => Pressed([key |-> key, mods |-> mods]) = Pressed(in)

(* A paste that is not framed holds one Return for each line break and no     *)
(* line feed, which a shell would run.                                       *)
PasteHasNoLineFeed ==
  task = "paste" =>
    LET sent == Screen!EncodePaste(in, FALSE)
        Breaks == {i \in 1..Len(in) : in[i] = "CR" \/ (in[i] = "LF" /\ (i = 1 \/ in[i - 1] # "CR"))}
        Solid(s) == SelectSeq(s, LAMBDA c : c = "x")
    IN /\ ~Contains(sent, "LF")
       /\ Len(SelectSeq(sent, LAMBDA c : c = "CR")) = Cardinality(Breaks)
       /\ Solid(sent) = Solid(in)

(* A template is the text of its tokens, spaces around names aside, and to    *)
(* expand it with each name's own placeholder gives that text back.          *)
Braced(name) == <<"{", "{">> \o name \o <<"}", "}">>
NoSpaces(text) == SelectSeq(text, LAMBDA c : c # " ")
TemplatesReadBack ==
  task = "template" =>
    LET parsed == Texts!Parse(in)
        names == Texts!Placeholders(parsed.tokens)
        Whole(t) == IF t.kind = "literal" THEN t.text ELSE Braced(t.text)
        text == Concat([i \in 1..Len(parsed.tokens) |-> Whole(parsed.tokens[i])])
        unset == [n \in names |-> [given |-> FALSE, default |-> <<>>]]
    IN /\ parsed.done
       /\ parsed.error = "none" =>
            /\ NoSpaces(text) = NoSpaces(in)
            /\ Texts!Expand(parsed.tokens, unset, [n \in names |-> Braced(n)]) = [ok |-> TRUE, text |-> text]
            /\ names # {} => ~Texts!Expand(parsed.tokens, unset, << >>).ok

(* The fields of a snippet are shown as text that reads back as they are; a   *)
(* variable is declared once, and with the first default written for it.     *)
FieldsReadBack ==
  task = "field" =>
    LET tags == Texts!ParseTags(in)
        read == Texts!ParseVariables(in)
        names == [i \in 1..Len(read.variables) |-> read.variables[i].name]
    IN /\ Texts!ParseTags(Texts!Joined(tags)) = tags
       /\ read.ok => Texts!ParseVariables(Texts!ShowVariables(read.variables)) = read
       /\ Cardinality(ToSet(names)) = Len(names)
       /\ read.ok => \A tag \in ToSet(tags) :
            \E i \in 1..Len(names) : IsPrefix(names[i], tag)

(* The history a snippet is made from holds the last commands, each once, the *)
(* one used last first.                                                      *)
HistoryIsRecent ==
  task = "history" =>
    LET commands == [i \in 1..Len(in) |-> Texts!CommandOf(in[i])]
        last == {i \in 1..Len(in) : commands[i] # <<>> /\ \A j \in (i + 1)..Len(in) : commands[j] # commands[i]}
        recent == Texts!RecentHistory(in, 2)
    IN /\ Len(recent) = Min({2, Cardinality(last)})
       /\ \A k \in 1..Len(recent) :
            \E i \in last : commands[i] = recent[k] /\ Cardinality({j \in last : j > i}) = k - 1

(* A word in quotes is read back whole, with a comment behind it or none.     *)
QuotesReadBack ==
  task = "quoted" =>
    /\ Records!Tokenize(Records!StripComment(Records!Quoted(in))) = <<in>>
    /\ Records!Tokenize(Records!StripComment(Records!Quoted(in) \o <<" ", "#", "w">>)) = <<in>>

(* A host that quick connect made for a user is labelled with text that makes *)
(* it again, unless colons of the address are taken for the port it left out. *)
QuickConnectReadsBack ==
  task = "quick" =>
    LET host == Cli!QuickConnect(<<in.word>>)
    IN (host.ok /\ host.user # <<>> /\ (Contains(host.address, ":") => host.port # "22"))
         => Cli!QuickConnect(<<host.label>>) = host

(* A jump is read as the host, the user and the port that its text spells, and *)
(* every host with any user and port can be spelled.                         *)
Spellings(hop) ==
  {u \o h \o p :
     u \in {IF hop.user = <<>> THEN <<>> ELSE Append(hop.user, "@")},
     h \in {<<"[">> \o hop.host \o <<"]">>}
           \cup (IF Contains(hop.host, ":") \/ hop.host[1] = "[" THEN {} ELSE {hop.host}),
     p \in {IF hop.port = <<>> THEN <<>> ELSE <<":">> \o hop.port}}
JumpsReadBack ==
  /\ task = "jump" =>
       LET hop == Records!ParseJump(in, {"1"})
       IN hop # Records!Invalid =>
            Records!Trimmed(in) \in Spellings(hop) /\ ~Contains(hop.user \o hop.host, "@")
  /\ task = "hop" =>
       \A text \in Spellings(in) :
         /\ Records!ParseJump(text, {"1", "0"}) = in
         /\ Records!ParseJump(<<" ">> \o text \o <<" ">>, {"1", "0"}) = in

(* Mosh takes options up to "--" and then its target and command: for every   *)
(* call that is let through it finds the ones that were meant, whatever they  *)
(* look like, and the port; and a target says its user only once.             *)
MoshReadsBack ==
  (task = "call" /\ Cli!Valid(in)) =>
    LET argv == Cli!Argv(in)
        operands == {i \in 1..Len(argv) : argv[i] = <<"--">>}
        options == SubSeq(argv, 1, Min(operands) - 1)
        target == argv[Min(operands) + 1]
    IN /\ options \in {<<argv[1]>>, <<argv[1], <<"-p">>, in.port>>}
       /\ (Len(options) = 3) = (in.port # <<>>)
       /\ SubSeq(argv, Min(operands) + 2, Len(argv)) = in.command
       /\ in.user # <<>> =>
            LET at == Max({i \in 1..Len(target) : target[i] = "@"})
            IN SubSeq(target, 1, at - 1) = in.user[1] /\ SubSeq(target, at + 1, Len(target)) = in.host
       /\ in.user = <<>> => target = in.host

TextsReadBack ==
  /\ JumpsReadBack /\ MoshReadsBack
  /\ ForwardsReadBack /\ KeysAreDistinct /\ PasteHasNoLineFeed /\ TemplatesReadBack /\ FieldsReadBack /\ HistoryIsRecent
  /\ QuotesReadBack /\ QuickConnectReadsBack

------------------------------------------------------------------------------
(* Resolution: what a name or a text stands for *)

(* The version of a banner is the first number of two or three parts, in      *)
(* brackets or not, and no part of a longer one; it is asked of a program     *)
(* that can be run: the one that was given, or the first on the path.         *)
Version(token) ==
  {v \in {<< <<"1">>, <<"1">>, <<"1">> >>, << <<"1">>, <<"1">>, <<"0">> >>,
          << <<"1", "1">>, <<"1">>, <<"0">> >>, << <<"1">>, <<"1", "1">>, <<"0">> >>} :
     \E text \in {v[1] \o <<".">> \o v[2], v[1] \o <<".">> \o v[2] \o <<".">> \o v[3]} :
       \E around \in {<<>>, <<"v">>, <<"[">>}, behind \in {<<>>, <<"v">>, <<"]">>} :
         /\ token = around \o text \o behind
         /\ Len(text) < 5 => v[3] = <<"0">>}
MoshIsFound ==
  /\ task = "banner" =>
       LET known == SelectSeq(in, LAMBDA token : Version(token) # {})
       IN /\ known = <<>> => Cli!ParseVersion(in) = Cli!NoVersion
          /\ known # <<>> => Cli!ParseVersion(in) \in Version(known[1])
          /\ Cli!ProbeVersion(<<in[1]>>, Tail(in)) = Cli!ParseVersion(in)
  /\ task = "installed" =>
       LET Runs(dir) == dir \in in.programs
           found == Cli!Detect(in.given, in.path, in.programs)
       IN /\ found.found => Runs(found.path)
          /\ in.given # <<>> => found.found = Runs(in.given[1])
          /\ (in.given = <<>> /\ found.found) =>
               \A i \in 1..Len(in.path) :
                 Runs(in.path[i]) => \E j \in 1..i : in.path[j] = found.path

(* The order of a listing is that of its entries, not that of their arrival.  *)
ListingsAreOrdered ==
  task = "sort" =>
    \A p \in {<<2, 1, 3>>, <<3, 2, 1>>, <<2, 3, 1>>} :
      Paths!SortEntries([i \in 1..3 |-> in[p[i]]]) = Paths!SortEntries(in)

(* The permission string tells every bit of the mode.                        *)
PermissionsTell ==
  task = "mode" =>
    LET text == Paths!FormatPermissions(in)
    IN in = {<<c, "r">> : c \in {d \in Paths!Classes : text[d][1] = "r"}}
            \cup {<<c, "w">> : c \in {d \in Paths!Classes : text[d][2] = "w"}}
            \cup {<<c, "x">> : c \in {d \in Paths!Classes : text[d][3] \in {"x", "s", "t"}}}
            \cup {<<c, "set">> : c \in {d \in Paths!Classes : text[d][3] \in {"s", "S", "t", "T"}}}

(* A chain ends at its target, is no longer than the limit, goes through no   *)
(* host twice where it is made of names alone (a cycle is told as one, and    *)
(* not as a chain too deep), keeps what is written of a hop, and reaches a    *)
(* jump host as if that host were the target.                                *)
ChainsAreSound ==
  task = "chain" =>
    LET inventory == HostsOf(in)
        Ids(hops) == [i \in 1..Len(hops) |-> hops[i].id]
        ByName(h) == h.jump.form = "list" /\ Len(h.jump.items) = 1 /\ h.jump.items[1].host # "x"
        Via(h) == Records!FindHost(h.jump.items[1].host, inventory)
    IN \A t \in 1..3 :
         LET host == inventory[t]
             chain == Records!Resolve(host, inventory)
             Names == \A i \in 1..3 : in[i].form # "list" \/ ByName(inventory[i])
         IN /\ Names => chain.error # "TooDeep"
            /\ (chain.error = "none" /\ host.jump.form = "list" /\ ~ByName(host)) =>
                 \A i \in 1..Len(host.jump.items) :
                   LET item == host.jump.items[i]
                   IN /\ chain.hops[i].address = item.host
                      /\ item.user # "none" => chain.hops[i].user = item.user
            /\ chain.error = "none" =>
              /\ Last(chain.hops).id = host.id
              /\ Len(chain.hops) <= Depth + 1
              /\ Names => Cardinality(ToSet(Ids(chain.hops))) = Len(chain.hops)
              /\ ByName(host) => Records!Resolve(Via(host), inventory).hops = Front(chain.hops)

(* A completion replaces the word that ends at the cursor and keeps it as a   *)
(* part; a subcommand that is taken is understood on the next word; a flag   *)
(* that stands before the cursor is not offered again, in any spelling; and  *)
(* no name is offered twice.                                                 *)
CompletionsFit ==
  task = "typed" =>
    LET buffer == Line(in.words, in.open)
        cursor == IF in.back >= Len(buffer) THEN 0 ELSE Len(buffer) - in.back
        head == SubSeq(buffer, 1, cursor)
        Spelled(f, w) == Contains(f.names, w)
        Understood(words) == Cli!Resolve(Root, Tail([j \in 1..Len(words) |-> words[j].text])).ok
        Taken(c, from) == Cli!Tokenize(Cli!Splice(head, from, cursor, c.name) \o <<" ">>)
        Unused(flag, before) == \A j \in 1..Len(before) : ~Spelled(flag, before[j].text)
        Fit(got) ==
          LET partial == SubSeq(buffer, got.from, cursor)
          IN /\ ~Contains(partial, " ")
             /\ got.from = 1 \/ got.from > cursor \/ buffer[got.from - 1] = " "
             /\ \A i \in 1..Len(got.candidates) :
                  LET c == got.candidates[i]
                  IN /\ \E a \in 1..(Len(c.name) + 1) : IsPrefix(partial, SubSeq(c.name, a, Len(c.name)))
                     /\ c.kind = "Subcommand" => Understood(Taken(c, got.from))
                     /\ c.kind = "Flag" =>
                          \A k \in 1..Len(Root.subs) : \A l \in 1..Len(Root.subs[k].flags) :
                            Spelled(Root.subs[k].flags[l], c.name)
                              => Unused(Root.subs[k].flags[l], Cli!Tokenize(SubSeq(buffer, 1, got.from - 1)))
                     /\ \A j \in 1..Len(got.candidates) : got.candidates[j].name = c.name => i = j
    IN Fit(Cli!Complete(Root, buffer, cursor))

(* Every alias of a configuration is a host or is skipped, in order; and a    *)
(* host has the first value of each option that stands between its own Host  *)
(* line and the next Host or Match, and nothing of any other block.          *)
BlocksDoNotLeak ==
  task = "config" =>
    LET result == Records!ImportSshConfig(in)
        Ends(i) == {j \in (i + 1)..Len(in) : in[j].kw \in {"host", "match"}} \cup {Len(in) + 1}
        Block(i) == {j \in (i + 1)..Len(in) : \A e \in Ends(i) : j < e}
        FirstOf(i, kw, default) ==
          LET at == {j \in Block(i) : in[j].kw = kw}
          IN IF at = {} THEN default ELSE in[CHOOSE j \in at : \A l \in at : j <= l].value[1]
        HostLines == SelectSeq([i \in 1..Len(in) |-> i], LAMBDA i : in[i].kw = "host")
        Expected == [n \in 1..Len(HostLines) |->
                       LET i == HostLines[n]
                           port == FirstOf(i, "port", "22")
                       IN [label |-> in[i].value[1], user |-> FirstOf(i, "user", ""),
                           port |-> IF port = "80" THEN "80" ELSE "22"]]
    IN /\ [n \in 1..Len(result.hosts) |->
             [label |-> result.hosts[n].label, user |-> result.hosts[n].user, port |-> result.hosts[n].port]]
            = Expected
       /\ Len(result.skipped) = Len(SelectSeq(HostLines, LAMBDA i : in[i].value = <<"b", "*">>))

(* An exported entry becomes a host or is skipped; its secrets reach no field *)
(* of the host, and are noted.                                               *)
SecretsStayOut ==
  task = "entry" =>
    LET entry == EntryOf(in)
        read == Records!ImportEntry(entry)
    IN /\ read.skipped <=> \A f \in {"address", "host"} \cap DOMAIN entry : entry[f] \in {"", "object"}
       /\ ~read.skipped => /\ \A f \in DOMAIN read.host : read.host[f] # "v-password"
                           /\ "password" \in DOMAIN entry => "password" \in read.noted

(* The loop of wildcard_match() that goes back to its last star decides what  *)
(* the recursive reading of the pattern does.                                *)
RECURSIVE Globs(_, _)
Globs(name, pattern) ==
  IF pattern = <<>> THEN name = <<>>
  ELSE IF Head(pattern) = "*"
  THEN Globs(name, Tail(pattern)) \/ (name # <<>> /\ Globs(Tail(name), pattern))
  ELSE name # <<>> /\ Head(pattern) \in {"?", Head(name)} /\ Globs(Tail(name), Tail(pattern))

(* A certificate is accepted only for its use, in its window, by its          *)
(* authority and for a principal it names; a user's never by a pattern; and  *)
(* one that is signed here is accepted from its first second to its last.    *)
CertificatesBind ==
  /\ task = "wildcard" => Records!WildcardMatch(in.name, in.pattern) = Globs(in.name, in.pattern)
  /\ task = "certificate" =>
       LET c == in.cert
           Names == \E i \in 1..Len(c.principals) :
                      \/ c.principals[i] = in.principal
                      \/ in.use = "Host" /\ Globs(in.principal, c.principals[i])
           fresh == Records!Sign(c, "ca1")
           Window == {n \in 0..3 : c.after <= n /\ n < c.before}
       IN /\ (Records!Validate(c, in.use, in.principal, in.now, {"ca1"}) = "ok")
               <=> (c.use = in.use /\ c.ca = "ca1" /\ c.genuine /\ in.now \in Window /\ Names)
          /\ fresh.ok <=> c.principals # <<>>
          /\ (fresh.ok /\ c.use = in.use /\ Names)
               => Window = {n \in 0..3 : Records!Validate(fresh.cert, in.use, in.principal, n, {"ca1"}) = "ok"}

(* Every host of an inventory has its own id, whatever the labels look like;  *)
(* and the order of the two options of the command line does not matter.     *)
NamesAreTheirOwn ==
  /\ task = "ids" =>
       LET ids == FoldLeft(Cli!InsertId, <<>>, in)
       IN Cardinality(ToSet(ids)) = Len(in)
  /\ (task = "arguments" /\ Len(in) = 4 /\ Cli!ParseArgs(in).mode = "exec" /\ in[1] # in[3])
       => Cli!ParseArgs(<<in[3], in[4], in[1], in[2]>>) = Cli!ParseArgs(in)

(* The palette highlights a command that can be run whenever one is listed;    *)
(* down and up lead back, and around past every such command once; and what  *)
(* Enter runs is the highlighted command, which matches the query: of the    *)
(* commands that match, the first is as good a match as any.                 *)
PaletteRunsWhatItShows ==
  task = "palette" =>
    LET p == FoldLeft(Cli!Handle, Cli!Closed, in)
        enabled == {i \in 1..Len(p.listed) : Cli!EnabledAt(p, i)}
        Down(n) == FoldLeft(LAMBDA q, i : Cli!MoveSelection(q, 1), p, [i \in 1..n |-> i])
        queries == SelectSeq(in, LAMBDA e : e.do = "query")
    IN /\ (p.selected = 0) <=> (enabled = {})
       /\ p.selected # 0 =>
            /\ p.selected \in enabled
            /\ Cli!MoveSelection(Cli!MoveSelection(p, 1), -1) = p
            /\ {Down(n).selected : n \in 1..Cardinality(enabled)} = enabled
            /\ Last(Cli!Confirm(p).ran) = p.listed[p.selected]
       /\ (p.open /\ queries # <<>> /\ in[Len(in)].do = "query") =>
            LET q == Last(queries).text
                Scores == [i \in 1..Len(Registry) |-> Cli!MatchScore(Registry[i], q)]
            IN /\ ToSet(p.listed) = {i \in DOMAIN Scores : Scores[i] < Cli!NoMatch}
               /\ \A i, j \in 1..Len(p.listed) : i < j => Scores[p.listed[i]] <= Scores[p.listed[j]]

(* The functions on the tree of tiles, which count panes as they descend, do   *)
(* to its leaves what module Workspace does to its sequence of tiles; and a   *)
(* tree keeps no empty pane, no split of fewer than two, and no session twice *)
(* once the workspace has been shown.                                        *)
RECURSIVE WellFormed(_)
WellFormed(node) ==
  CASE node.kind = "Pane" -> node.tabs # <<>> /\ node.shown \in DOMAIN node.tabs
    [] node.kind = "Split" -> /\ Len(node.children) > 1
                              /\ \A i \in DOMAIN node.children : WellFormed(node.children[i])
    [] OTHER -> FALSE
Proper(node) == node = Tree!Empty \/ WellFormed(node)

TilingsAreTheirLeaves ==
  task = "tiling" =>
    LET w == Tree!Tiles(in)
        panes == DOMAIN w
        leaves == Tree!Leaves(in)
        Same(node, tiles) == Proper(node) /\ Tree!Tiles(node) = tiles
        once == Cardinality(ToSet(leaves)) = Len(leaves)
        unique == Tree!Unique(in, 3)
    IN /\ Proper(in)
       /\ Proper(unique) /\ Cardinality(ToSet(Tree!Leaves(unique))) = Len(leaves)
       /\ once => unique = in
       /\ once => \A s \in 1..4 :
            /\ Same(Tree!WithoutSession(in, s), Flat!WithoutSession(w, s))
            /\ Same(Tree!RemoveSession(in, s), Flat!RemoveSession(w, s))
            /\ LET inserted == Tree!Insert(in, 2, s)
               IN /\ WellFormed(inserted.tree)
                  /\ LET tile == Tree!GetPane(inserted.tree, inserted.pane)
                     IN tile.tabs[tile.shown] = s
                  /\ s \in ToSet(leaves) => Tree!Leaves(inserted.tree) = leaves
                  /\ s \notin ToSet(leaves) =>
                       Tree!Tiles(inserted.tree) = InsertAt(w, inserted.pane, [tabs |-> <<s>>, shown |-> 1])
            /\ \A p \in panes :
                 /\ Same(Tree!InsertTabIntoPane(in, p, s), Flat!InsertTab(w, p, s))
                 /\ \A after \in BOOLEAN :
                      Same(Tree!SplitPaneWithSession(in, p, s, "Col", after), Flat!SplitBeside(w, p, s, after))
                 /\ LET split == Tree!SplitPaneNewSession(in, p, s, "Col", TRUE)
                    IN Same(split.tree, InsertAt(w, p + 1, Flat!Tile(<<s>>, 1))) /\ split.focus = p + 1
       /\ once => \A p, q \in panes : \A t \in DOMAIN w[p].tabs :
            /\ Same(Tree!SwitchTab(in, p, t), [w EXCEPT ![p].shown = t])
            /\ \A pos \in 1..3 : Same(Tree!MoveTab(in, p, t, q, pos), Flat!MoveTab(w, p, t, q, pos))

(* A row is drawn whole: its runs lie side by side and are as long as they    *)
(* can be, each glyph is in the run of its own cell and on top of every fill, *)
(* and no layer is outside the grid; two of the indexed colours are never the *)
(* same.                                                                     *)
RowsAreDrawnWhole ==
  /\ task = "row" =>
       LET runs == Screen!CoalesceRow(in)
           Cols(r) == (r.start + 1)..(r.start + r.len)
           span == Screen!SelectionSpan([anchor |-> Screen!At(0, 1), head |-> Screen!At(0, 9)], 0, Len(in))
           found == Screen!MatchesOf(0, in, <<"a">>)
           layers == Screen!RenderRow(0, runs, Scheme, span, found, 1, -1)
       IN /\ Concat([i \in DOMAIN runs |-> [k \in 1..runs[i].len |-> runs[i].start + k]])
               = [c \in DOMAIN in |-> c]
          /\ \A i \in DOMAIN runs :
               /\ runs[i].text = Screen!Texts(SubSeq(in, runs[i].start + 1, runs[i].start + runs[i].len))
               /\ \A c \in Cols(runs[i]) : in[c].style = runs[i].style
               /\ i > 1 => runs[i].style # runs[i - 1].style
          /\ \A i, j \in DOMAIN layers :
               /\ layers[i].start + layers[i].len <= Len(in) /\ layers[i].len > 0
               /\ (layers[i].kind = "text" /\ layers[j].kind # "text") => j < i
               /\ (layers[i].kind = "text" /\ layers[j].kind = "background" /\ layers[i].start = layers[j].start)
                    => layers[i].what.fg # layers[j].what
  /\ task = "indexes" => \A i, j \in in : Screen!ColorToRgb(i) = Screen!ColorToRgb(j) => i = j

(* A drag selects the cells between its ends, whichever end it began at, and *)
(* copies their characters in order, a line for a row, with no blank at the  *)
(* end of one; the grid may have become smaller since.                       *)
DragsCopyWhatTheyCover ==
  task = "drag" =>
    LET ends == Screen!Normalized(in.drag)
        rows == ends.start.row..ends.end.row
        Span(r) == Screen!SelectionSpan(in.drag, r, in.cols)
        Covered == {Screen!At(r, c) : r \in 0..2, c \in 0..(in.cols - 1)}
        Clipped(p) == IF in.cols = 0 THEN p ELSE [p EXCEPT !.col = Min({@, in.cols - 1})]
        copied == Screen!SelectionText(in.grid, in.cols, in.drag)
        Cells == [n \in 1..6 |-> Screen!At((n - 1) \div 2, (n - 1) % 2)]
        covered == SelectSeq(Cells, LAMBDA p : /\ p \in Covered /\ p.row < 2
                                               /\ Screen!NotAfter(Clipped(ends.start), p)
                                               /\ Screen!NotAfter(p, Clipped(ends.end)))
        Ink(text) == SelectSeq(text, LAMBDA c : c = "a")
        Swapped == [anchor |-> in.drag.head, head |-> in.drag.anchor]
    IN /\ {p \in Covered : \E s \in Span(p.row) : p.col \in s.first..s.last}
            = {p \in Covered : /\ Screen!NotAfter(Clipped(ends.start), p)
                               /\ Screen!NotAfter(p, Clipped(ends.end))}
       /\ copied = Screen!SelectionText(in.grid, in.cols, Swapped)
       /\ Ink(copied) = Concat([i \in DOMAIN covered |->
                                  Ink(in.grid[covered[i].row + 1][covered[i].col + 1].text)])
       /\ in.cols > 0 => Len(SelectSeq(copied, LAMBDA c : c = "LF")) = Cardinality(rows) - 1
       /\ \A i \in DOMAIN copied : copied[i] = " " => i < Len(copied) /\ copied[i + 1] # "LF"

(* A match is a place where the query reads; matches do not share a character *)
(* and no more could be had; cells that were never written do not part them. *)
MatchesRead ==
  task = "query" =>
    LET text == Screen!Texts(in.cells)
        found == Screen!FindMatches(<<in.cells>>, in.query)
        n == Len(in.query)
        Reads(i) == IsPrefix(in.query, SubSeq(text, i, Len(text)))
        places == {i \in 1..Len(text) : Reads(i)}
        Disjoint(S) == \A i, j \in S : i = j \/ i + n <= j \/ j + n <= i
    IN IF n = 0 THEN found = <<>>
       ELSE /\ Len(found) = Max({Cardinality(S) : S \in {T \in SUBSET places : Disjoint(T)}})
            /\ \A i \in DOMAIN found :
                 LET shown == Screen!Texts(SubSeq(in.cells, found[i].col + 1, found[i].col + found[i].len))
                 IN /\ \E k \in DOMAIN shown : IsPrefix(in.query, SubSeq(shown, k, Len(shown)))
                    /\ i > 1 => found[i - 1].col + found[i - 1].len <= found[i].col + 1

(* Fractions of a line add up: a wheel turned one way, in however many parts, *)
(* moves the view as if it were turned at once. A point inside the grid is in *)
(* the cell that is drawn there, one outside in the nearest.                 *)
PointersAreExact ==
  /\ task = "wheel" =>
       LET View(offset) == [offset |-> offset, pending |-> 0]
           total == FoldLeft(LAMBDA n, l : n + l, 0, in.lines)
           OneWay == \A i, j \in DOMAIN in.lines : in.lines[i] * in.lines[j] >= 0
           Turned(offset) == FoldLeft(Screen!FoldScroll, View(offset), in.lines)
       IN /\ OneWay => Turned(in.offset) = Screen!FoldScroll(View(in.offset), total)
          /\ 2 * Turned(9).offset + Turned(9).pending = 18 + total
          /\ Turned(in.offset).pending \in -1..1
  /\ task = "point" =>
       LET p == Screen!CellAt(in.x, in.y, [w |-> in.w, h |-> in.h], in.cols, in.rows)
           w == Max({in.w, 1})
           Dist(at, cell, size) == IF at < cell * size THEN cell * size - at
                                   ELSE IF at >= (cell + 1) * size THEN at - (cell + 1) * size + 1 ELSE 0
       IN /\ \A c \in 0..(in.cols - 1) : Dist(in.x, p.col, w) <= Dist(in.x, c, w)
          /\ \A r \in 0..(in.rows - 1) : Dist(in.y, p.row, in.h) <= Dist(in.y, r, in.h)
          /\ p.col \in 0..Max({in.cols - 1, 0}) /\ p.row \in 0..Max({in.rows - 1, 0})

(* The shell was last asked for the size the grid has, was never asked twice  *)
(* for the same, and learns nothing of a size when it connects. Whatever a   *)
(* session tells, a pane whose session is over says why: what the session    *)
(* told, if it told it.                                                      *)
PanesFollowSessions ==
  /\ task = "sizes" =>
       LET pane == FoldLeft(LAMBDA p, place : Screen!Paint(p, place, [w |-> 2, h |-> 2]),
                            Screen!NewGrid(in.live), in.paints)
           sizes == <<Screen!Placeholder>> \o pane.asked
       IN /\ in.live => Last(sizes) = pane.size
          /\ \A i \in 1..(Len(sizes) - 1) : sizes[i] # sizes[i + 1]
          /\ Screen!SyncSize(pane) = pane
          /\ pane.size.col > 0 /\ pane.size.row > 0
          /\ in.paints # <<>> => pane.size.col * 2 <= Max({Last(in.paints).w, 2})
  /\ task = "told" =>
       LET pane == Screen!Watch(Screen!NewPane(TRUE), in)
           reasons == {i \in DOMAIN in : in[i] \in {"Closed", "Exited", "Error"}}
           unexplained == {i \in DOMAIN in : in[i] = "Failed" /\ \A j \in reasons : i < j}
       IN /\ pane.status \in Screen!Terminal /\ pane.ended # ""
          /\ (unexplained = {} /\ reasons # {}) => pane.ended = in[Min(reasons)]

(* A sorted listing has every entry once, those without a time at its end in *)
(* either direction; turning the direction twice changes nothing; and what   *)
(* the order does not tell apart stays as it was. A local listing hides what *)
(* is hidden and nothing else.                                               *)
ListingsKeepTheirEntries ==
  /\ task = "listed" =>
       LET entries == [i \in DOMAIN in.times |-> [id |-> i, modified |-> in.times[i]]]
           sorted == Texts!SortByModified(entries, in.asc)
           Turned == Texts!SortByModified(Texts!SortByModified(sorted, ~in.asc), in.asc)
       IN /\ Len(sorted) = Len(entries) /\ ToSet(sorted) = ToSet(entries)
          /\ Turned = sorted
          /\ \A i, j \in DOMAIN sorted : i < j =>
               LET m == sorted[i].modified n == sorted[j].modified
               IN /\ m = Texts!Unknown => n = Texts!Unknown
                  /\ (m # Texts!Unknown /\ n # Texts!Unknown) => IF in.asc THEN m <= n ELSE n <= m
                  /\ m = n => sorted[i].id < sorted[j].id
  /\ task = "local" =>
       LET found == [i \in DOMAIN in |-> [id |-> i, dir |-> in[i].dir, lower |-> in[i].lower, size |-> in[i].size,
                                         hidden |-> in[i].hidden, readable |-> in[i].readable]]
           listing == Texts!ReadLocalDir(found)
       IN /\ {listing[i].id : i \in DOMAIN listing} = {i \in DOMAIN in : in[i].readable /\ ~in[i].hidden}
          /\ \A i, j \in DOMAIN listing : i < j =>
               /\ listing[j].dir => listing[i].dir
               /\ listing[i].dir = listing[j].dir => listing[i].lower <= listing[j].lower

(* What a filter keeps does not depend on the order of the list, on blanks     *)
(* around what is typed or on what was typed before; typing on only narrows   *)
(* the list, and no query keeps it all.                                      *)
FiltersNarrow ==
  task = "filtered" =>
    LET Found(query) == ToSet(Texts!Visible(in.entries, query, FALSE))
        sorted == Texts!Visible(in.entries, in.query, TRUE)
    IN /\ ToSet(sorted) = Found(in.query) /\ Len(sorted) = Len(Texts!Visible(in.entries, in.query, FALSE))
       /\ \A i, j \in DOMAIN sorted : i < j => sorted[i].rank <= sorted[j].rank
       /\ Found(<<" ">> \o in.query \o <<" ">>) = Found(in.query)
       /\ Found(<<" ">>) = ToSet(in.entries)
       /\ \A c \in {"a", "b"} : Found(Append(in.query, c)) \subseteq Found(in.query)

(* A size is told in order and to half a tenth of its unit; two modes never   *)
(* read alike; and a day's date is the one after that of the day before, with *)
(* leap days, and every minute of it reads differently.                      *)
Leap(y) == y % 4 = 0 /\ (y % 100 # 0 \/ y % 400 = 0)
MonthLength(y, m) == CASE m = 2 -> (IF Leap(y) THEN 29 ELSE 28) [] m \in {4, 6, 9, 11} -> 30 [] OTHER -> 31
NextDay(d) ==
  IF d.day < MonthLength(d.year, d.month) THEN [d EXCEPT !.day = @ + 1]
  ELSE IF d.month < 12 THEN [d EXCEPT !.day = 1, !.month = @ + 1]
  ELSE [year |-> d.year + 1, month |-> 1, day |-> 1]

FiguresTell ==
  /\ task = "numbers" =>
       LET Shown10(n) == LET s == Texts!HumanSize(n) IN s.tenths * (4 ^ s.unit)
           Off(n) == LET d == Shown10(n) - 10 * n IN IF d < 0 THEN -d ELSE d
       IN \A n \in in : /\ Texts!HumanSize(n).unit < 2 => n < 4 ^ (Texts!HumanSize(n).unit + 1)
                        /\ 2 * Off(n) <= 4 ^ Texts!HumanSize(n).unit
                        /\ n > 0 => Shown10(n - 1) <= Shown10(n)
  /\ task = "days" =>
       /\ Texts!CivilFromDays(0) = [year |-> 1970, month |-> 1, day |-> 1]
       /\ \A d \in in..(in + 365) : Texts!CivilFromDays(d + 1) = NextDay(Texts!CivilFromDays(d))
       /\ in = 0 => LET times == {Texts!FormatModified(in, m) : m \in 0..1439}
                    IN Cardinality(times) = 1440 /\ \A t \in times : t.hour \in 1..12
  /\ task = "mode" =>
       LET Places9(mode) == {<<CASE b[1] = "user" -> 1 [] b[1] = "group" -> 2 [] OTHER -> 3,
                            CASE b[2] = "r" -> 1 [] b[2] = "w" -> 2 [] OTHER -> 3>> : b \in {c \in mode : c[2] # "set"}}
           text == Texts!FormatUnixMode(Places9(in), FALSE)
       IN (\A b \in in : b[2] # "set") => Tail(text) = Concat([c \in 1..3 |->
                            Paths!FormatPermissions(in)[<<"user", "group", "other">>[c]]])

(* Each step of a trail is in the step before it, the last is the directory   *)
(* that is shown, and every directory but the root has a parent.             *)
TrailsLead ==
  task = "trail" =>
    LET crumbs == Texts!Breadcrumbs(in)
        drawn == Texts!BreadcrumbCrumbs(in)
        Same(p, q) == Texts!Segments(p) = Texts!Segments(q)
    IN /\ Same(Last(crumbs).path, in) /\ Last(drawn) = Last(crumbs)
       /\ \A i \in 2..Len(crumbs) : \A up \in Texts!ParentPath(crumbs[i].path) : Same(up, crumbs[i - 1].path)
       /\ (Texts!ParentPath(in) = {}) <=> (Texts!Segments(in) = <<>>)
       /\ \A i \in DOMAIN crumbs : crumbs[i].label = "/" => Texts!Segments(crumbs[i].path) = <<>>

(* Every host that has a login is linked from one identity, its own; a line   *)
(* of known_hosts that is marked as revoked is listed as such, wherever the  *)
(* mark stands; and an imported key gets a name that is a file's of its own  *)
(* directory.                                                                *)
ListsNameTheirThings ==
  /\ task = "logins" =>
       LET identities == Texts!LoadIdentities(in, <<"u", "v">>)
       IN /\ \A i \in DOMAIN in : in[i].user # "" =>
               Cardinality({k \in DOMAIN identities : identities[k].name = in[i].user
                                                      /\ in[i].label \in identities[k].hosts}) = 1
          /\ \A k, l \in DOMAIN identities : identities[k].name = identities[l].name => k = l
          /\ \A k \in DOMAIN identities : identities[k].hosts # {} /\ identities[k].name # ""
  /\ task = "known" =>
       LET read == Texts!ParseKnownHostsLine(in)
           rest == SelectSeq(in, LAMBDA w : ~Texts!IsMark(w))
           Leading(i) == \A j \in 1..i : Texts!IsMark(in[j])
       IN read.ok => /\ read.hosts = rest[1] /\ Head(in) # "#"
                     /\ read.revoked <=> \E i \in DOMAIN in : Leading(i) /\ in[i] = "@revoked"
  /\ task = "file" =>
       LET name == Texts!SafeComponent(in)
       IN /\ name # <<>> /\ ~Contains(name, "/") /\ name \notin {<<".">>, <<".", ".">>}
          /\ Texts!SafeComponent(name) = name \/ name = <<"imported_key">>

(* The log holds what happened last since it was cleared, in order, no more   *)
(* than it keeps, and no two entries of it ever had one number.              *)
LogIsRecent ==
  task = "log" =>
    LET Step(log, what) == IF what = "clear" THEN Texts!Clear(log) ELSE Texts!PushEntry(log, what)
        log == FoldLeft(Step, Texts!NewLog, in)
        cleared == {i \in DOMAIN in : in[i] = "clear"}
        since == SubSeq(in, (IF cleared = {} THEN 0 ELSE Max(cleared)) + 1, Len(in))
        n == Min({Len(since), 2})
        pushed == Len(in) - Cardinality(cleared)
    IN /\ [i \in DOMAIN log.entries |-> log.entries[i].what] = SubSeq(since, Len(since) - n + 1, Len(since))
       /\ [i \in DOMAIN log.entries |-> log.entries[i].id] = [i \in 1..n |-> pushed - n + i]

ResolutionIsSound ==
  /\ ListingsKeepTheirEntries /\ FiltersNarrow /\ FiguresTell /\ TrailsLead /\ ListsNameTheirThings /\ LogIsRecent
  /\ RowsAreDrawnWhole /\ DragsCopyWhatTheyCover /\ MatchesRead /\ PointersAreExact /\ PanesFollowSessions
  /\ ListingsAreOrdered /\ PermissionsTell /\ ChainsAreSound /\ CompletionsFit
  /\ BlocksDoNotLeak /\ SecretsStayOut /\ CertificatesBind /\ NamesAreTheirOwn
  /\ MoshIsFound /\ PaletteRunsWhatItShows /\ TilingsAreTheirLeaves
===============================================================================
