----------------------------- MODULE HostRecords -----------------------------
(***************************************************************************)
(* Host records: the hops one is reached through, and where they are        *)
(* imported from; and the certificates that vouch for a host or a user.    *)
(*                                                                         *)
(* Jump chains (sshdeck-core/src/jump.rs): what Host::proxy_jump stands    *)
(* for, as the list of hops that is dialled from the first to the target.  *)
(* A host is [id, label, address, user, port, auth, jump].  A reference is *)
(* [form |-> "none"], "command" (a ProxyCommand), "malformed", or "list",  *)
(* a sequence of [host, user, port] in which user and port may be "none".  *)
(* Where an item is read from a text, its parts are texts, empty if absent. *)
(* Names are compared whatever their case: a name here is one spelling.    *)
(*                                                                         *)
(* The importers (sshdeck-import/src/openssh.rs and termius.rs): an OpenSSH *)
(* configuration, or a JSON export, becomes hosts, what was skipped, and   *)
(* notes.  A configuration is a sequence of lines [kw, value]: a keyword   *)
(* in lower case and the words of its value.  An imported host is [label,  *)
(* address, user, port, auth, jump], an exported entry maps field names to *)
(* values.                                                                 *)
(*                                                                         *)
(* OpenSSH certificates (sshdeck-certificates/src/lib.rs): what is signed, *)
(* and what is accepted for a principal, a use, and a time.  A certificate *)
(* is [use, ca, genuine, after, before, principals]: genuine is what the   *)
(* cryptography of the external crate says of the signature.  A principal  *)
(* is a sequence of characters; "*" and "?" are the wildcards.             *)
(***************************************************************************)
EXTENDS Naturals, Sequences, SequencesExt, FiniteSetsExt

CONSTANTS
  MaxJumpDepth, (* MAX_JUMP_DEPTH, 4 in the code                             *)
  Patterns,     (* the aliases that hold a wildcard or a negation            *)
  Ports         (* the values that are a port                                *)

------------------------------------------------------------------------------
(* Jump chains *)

Nobody == [id |-> "nobody"]
Invalid == [host |-> <<>>]

First(text, c) == Min({i \in 1..Len(text) : text[i] = c})

(* parse_port(): a number other than zero. *)
IsPort(text, digits) == text # <<>> /\ ToSet(text) \subseteq digits /\ ToSet(text) # {"0"}

(* The host and the port of an element, as they are divided: an IPv6 address *)
(* is in brackets.                                                           *)
Divide(rest) ==
  IF rest # <<>> /\ rest[1] = "["
  THEN IF ~Contains(rest, "]") THEN [host |-> <<>>, tail |-> <<>>]
       ELSE [host |-> SubSeq(rest, 2, First(rest, "]") - 1),
             tail |-> SubSeq(rest, First(rest, "]") + 1, Len(rest))]
  ELSE IF Contains(rest, ":")
       THEN [host |-> SubSeq(rest, 1, First(rest, ":") - 1),
             tail |-> SubSeq(rest, First(rest, ":"), Len(rest))]
       ELSE [host |-> rest, tail |-> <<>>]

Trimmed(text) ==
  LET solid == {i \in 1..Len(text) : text[i] # " "}
  IN IF solid = {} THEN <<>> ELSE SubSeq(text, Min(solid), Max(solid))

(* JumpSpec::parse(): [user@]host[:port], without spaces. *)
ParseJump(written, digits) ==
  LET spec == Trimmed(written)
      named == Contains(spec, "@")
      user == IF named THEN SubSeq(spec, 1, First(spec, "@") - 1) ELSE <<>>
      rest == IF named THEN SubSeq(spec, First(spec, "@") + 1, Len(spec)) ELSE spec
      parts == Divide(rest)
      port == SubSeq(parts.tail, 2, Len(parts.tail))
  IN IF /\ ~Contains(spec, " ") /\ ~Contains(rest, "@") /\ parts.host # <<>>
        /\ named => user # <<>>
        /\ parts.tail # <<>> => parts.tail[1] = ":" /\ IsPort(port, digits)
     THEN [host |-> parts.host, user |-> user, port |-> port]
     ELSE Invalid

(* find_host(): a label goes before every address. *)
FindHost(name, inventory) ==
  LET labels == SelectSeq(inventory, LAMBDA h : h.label = name)
      addresses == SelectSeq(inventory, LAMBDA h : h.address = name)
  IN IF labels # <<>> THEN labels[1]
     ELSE IF addresses # <<>> THEN addresses[1]
     ELSE Nobody

(* The host a whole reference names, if it is one bare name. *)
Named(ref, inventory) ==
  IF ref.form = "list" /\ Len(ref.items) = 1 /\ ref.items[1].user = "none" /\ ref.items[1].port = "none"
  THEN FindHost(ref.items[1].host, inventory)
  ELSE Nobody

FromHost(host) ==
  [id |-> host.id, address |-> host.address, user |-> host.user, port |-> host.port,
   auth |-> host.auth]

(* Mutant: the user of a known host wins over the one that is written. *)
FromSpecKnownUser(spec, inventory, defaultUser) ==
  LET known == FindHost(spec.host, inventory)
  IN [id |-> IF known = Nobody THEN "unknown" ELSE known.id,
      address |-> spec.host,
      user |-> IF known # Nobody THEN known.user ELSE IF spec.user # "none" THEN spec.user ELSE defaultUser,
      port |-> IF spec.port # "none" THEN spec.port ELSE IF known # Nobody THEN known.port ELSE "22",
      auth |-> IF known = Nobody THEN "agent" ELSE known.auth]

(* ChainHop::from_spec(): what is written, then what is known, then default. *)
FromSpec(spec, inventory, defaultUser) ==
  LET hop == FromSpecKnownUser(spec, inventory, defaultUser)
  IN IF spec.user # "none" THEN [hop EXCEPT !.user = spec.user] ELSE hop

(* Mutant: a host that was visited already is followed once more. *)
FollowAgain(s, host) ==
  IF s.depth + 1 > MaxJumpDepth THEN [s EXCEPT !.next = "done", !.error = "TooDeep"]
  ELSE [s EXCEPT !.seen = @ \cup {host.id}, !.depth = @ + 1, !.hops = <<FromHost(host)>> \o @,
                 !.next = IF host.jump.form = "nothing" THEN "done" ELSE "follow",
                 !.ref = host.jump]

Follow(s, host) ==
  IF host.id \in s.seen THEN [s EXCEPT !.next = "done", !.error = "Cycle"] ELSE FollowAgain(s, host)

(* collect_jumps(), one reference: its hops are dialled before those that    *)
(* were collected from whoever names it.                                     *)
Collect(s, inventory, defaultUser) ==
  LET ref == s.ref
      host == Named(ref, inventory)
  IN CASE s.next = "done" -> s
       [] s.next # "done" /\ ref.form = "none" -> [s EXCEPT !.next = "done"]
       [] s.next # "done" /\ ref.form = "command" -> [s EXCEPT !.next = "done", !.error = "ProxyCommand"]
       [] s.next # "done" /\ ref.form = "malformed" -> [s EXCEPT !.next = "done", !.error = "InvalidJump"]
       [] s.next # "done" /\ ref.form = "list" /\ host # Nobody -> Follow(s, host)
       [] s.next # "done" /\ ref.form = "list" /\ host = Nobody ->
            IF s.depth + Len(ref.items) > MaxJumpDepth
            THEN [s EXCEPT !.next = "done", !.error = "TooDeep"]
            ELSE [s EXCEPT !.next = "done", !.depth = @ + Len(ref.items),
                           !.hops = [i \in 1..Len(ref.items) |->
                                       FromSpec(ref.items[i], inventory, defaultUser)] \o @]

(* HostChain::resolve(): every turn but the last adds a hop, so the depth    *)
(* limit bounds the turns.                                                   *)
Resolve(host, inventory) ==
  LET start == [seen |-> {host.id}, depth |-> 0, hops |-> <<>>, error |-> "none",
                next |-> IF host.jump.form = "nothing" THEN "done" ELSE "follow",
                ref |-> host.jump]
      end == FoldLeft(LAMBDA s, i : Collect(s, inventory, host.user), start,
                      [i \in 1..(MaxJumpDepth + 2) |-> i])
  IN [error |-> end.error, hops |-> Append(end.hops, FromHost(host))]

------------------------------------------------------------------------------
(* OpenSSH configurations *)

Options == {"hostname", "user", "port", "identityfile", "proxyjump", "proxycommand"}

NoBlock == [aliases |-> <<>>, set |-> << >>]

Put(f, k, v) == [x \in DOMAIN f \cup {k} |-> IF x = k THEN v ELSE f[x]]
Given(set, option) == option \in DOMAIN set /\ set[option] # "none"

(* Block::flush(), for one alias that is a name. *)
HostOf(alias, set) ==
  [label |-> alias,
   address |-> IF "hostname" \in DOMAIN set THEN set["hostname"] ELSE alias,
   user |-> IF "user" \in DOMAIN set THEN set["user"] ELSE "",
   port |-> IF "port" \in DOMAIN set /\ set["port"] \in Ports THEN set["port"] ELSE "22",
   auth |-> IF Given(set, "identityfile") THEN set["identityfile"] ELSE "agent",
   jump |-> IF Given(set, "proxyjump") THEN set["proxyjump"] ELSE ""]

(* The directives of the block that the host cannot hold, once per host. *)
Unmapped(set) ==
  (IF "port" \in DOMAIN set /\ set["port"] \notin Ports THEN 1 ELSE 0)
  + (IF "proxycommand" \in DOMAIN set THEN 1 ELSE 0)

Flush(s) ==
  LET names == SelectSeq(s.block.aliases, LAMBDA a : a \notin Patterns)
      hosts == [i \in 1..Len(names) |-> HostOf(names[i], s.block.set)]
  IN [s EXCEPT !.hosts = @ \o hosts,
               !.skipped = @ \o SelectSeq(s.block.aliases, LAMBDA a : a \in Patterns),
               !.notes = @ + Len(names) * Unmapped(s.block.set),
               !.block = NoBlock]

Note(s) == [s EXCEPT !.notes = @ + 1]

(* Mutant: a Match block goes on with the Host block before it. *)
ReadLineThroughMatch(s, line) ==
  CASE line.kw = "host" -> [Flush(s) EXCEPT !.block = [aliases |-> line.value, set |-> << >>]]
    [] line.kw \in {"match", "include"} -> Note(s)
    [] line.kw \notin {"host", "match", "include"} ->
         IF s.block.aliases = <<>> THEN Note(s)
         ELSE IF line.kw \notin Options THEN s
         ELSE IF line.kw \in DOMAIN s.block.set THEN Note(s)
         ELSE [s EXCEPT !.block.set = Put(@, line.kw, line.value[1])]

(* One line of import_ssh_config(): the first value of an option stays. *)
ReadLine(s, line) ==
  CASE line.kw = "host" ->
         LET f == Flush(s)
         IN IF line.value = <<>> THEN Note(f)
            ELSE [f EXCEPT !.block = [aliases |-> line.value, set |-> << >>]]
    [] line.kw = "match" -> Note(Flush(s))
    [] line.kw = "include" -> Note(s)
    [] line.kw \notin {"host", "match", "include"} ->
         IF s.block.aliases = <<>> THEN Note(s)
         ELSE IF line.kw \notin Options THEN s
         ELSE IF line.kw \in DOMAIN s.block.set THEN Note(s)
         ELSE [s EXCEPT !.block.set = Put(@, line.kw, line.value[1])]

ImportSshConfig(lines) ==
  Flush(FoldLeft(ReadLine, [hosts |-> <<>>, skipped |-> <<>>, notes |-> 0, block |-> NoBlock], lines))

------------------------------------------------------------------------------
(* Words: quotes, escapes and comments, of which strip_comment() and          *)
(* tokenize() have each their own reading.  A text is a sequence of '"', "\\", *)
(* " ", "#" and letters.                                                     *)

(* Mutant: a comment starts at a mark, wherever it stands. *)
StripCommentAnywhere(line) ==
  LET marks == {i \in 1..Len(line) : line[i] = "#"}
  IN IF marks = {} THEN line ELSE SubSeq(line, 1, (CHOOSE i \in marks : \A j \in marks : i <= j) - 1)

StripComment(line) ==
  LET Step(s, c) ==
        CASE s.cut     -> s
          [] ~s.cut /\ s.escaped -> [s EXCEPT !.escaped = FALSE, !.kept = @ + 1]
          [] ~s.cut /\ ~s.escaped /\ c = "\\" -> [s EXCEPT !.escaped = TRUE, !.kept = @ + 1]
          [] ~s.cut /\ ~s.escaped /\ c = "\"" -> [s EXCEPT !.quote = ~@, !.kept = @ + 1]
          [] ~s.cut /\ ~s.escaped /\ c = "#" /\ ~s.quote -> [s EXCEPT !.cut = TRUE]
          [] OTHER -> [s EXCEPT !.kept = @ + 1]
      end == FoldLeft(Step, [quote |-> FALSE, escaped |-> FALSE, cut |-> FALSE, kept |-> 0], line)
  IN SubSeq(line, 1, end.kept)

Tokenize(value) ==
  LET Closed(s) == IF s.word = <<>> THEN s.words ELSE Append(s.words, s.word)
      Step(s, c) ==
        CASE s.escaped -> [s EXCEPT !.escaped = FALSE, !.word = Append(@, c)]
          [] ~s.escaped /\ c = "\\" -> [s EXCEPT !.escaped = TRUE]
          [] ~s.escaped /\ c = "\"" -> [s EXCEPT !.quote = ~@]
          [] ~s.escaped /\ c = " " /\ ~s.quote -> [s EXCEPT !.words = Closed(s), !.word = <<>>]
          [] OTHER -> [s EXCEPT !.word = Append(@, c)]
  IN Closed(FoldLeft(Step, [quote |-> FALSE, escaped |-> FALSE, words |-> <<>>, word |-> <<>>], value))

(* How a configuration writes a word so that it is read back. *)
Quoted(word) ==
  <<"\"">> \o FoldLeft(LAMBDA out, c : out \o (IF c \in {"\"", "\\"} THEN <<"\\", c>> ELSE <<c>>), <<>>, word)
    \o <<"\"">>

------------------------------------------------------------------------------
(* import_termius_json(), one entry: the fields it reads, in the order in     *)
(* which they win, and those it knows and leaves.                            *)

LabelKeys   == <<"label", "name">>
AddressKeys == <<"address", "host">>
KeyKeys     == <<"identity", "key">>
ProxyKeys   == <<"proxy_jump", "proxy">>
SecretKeys  == {"password", "passphrase"}
IgnoredKeys == {"id"}

Known == ToSet(LabelKeys) \cup ToSet(AddressKeys) \cup ToSet(KeyKeys) \cup ToSet(ProxyKeys)
         \cup SecretKeys \cup IgnoredKeys

(* first_string(): "" and an object are no text. *)
FirstString(entry, keys) ==
  LET usable == SelectSeq(keys, LAMBDA k : k \in DOMAIN entry /\ entry[k] \notin {"", "object"})
  IN IF usable = <<>> THEN "" ELSE entry[usable[1]]

ImportEntry(entry) ==
  LET address == FirstString(entry, AddressKeys)
      label == FirstString(entry, LabelKeys)
      key == FirstString(entry, KeyKeys)
  IN IF address = "" THEN [skipped |-> TRUE]
     ELSE [skipped |-> FALSE,
           host |-> [label |-> IF label = "" THEN address ELSE label, address |-> address,
                     auth |-> IF key = "" THEN "agent" ELSE key,
                     jump |-> FirstString(entry, ProxyKeys)],
           noted |-> {k \in DOMAIN entry : k \in SecretKeys \/ k \notin Known}]

------------------------------------------------------------------------------
(* Certificates *)

(* Mutant: a star is never widened. *)
MatchStepOnce(s, name, pattern) ==
  LET at(c) == s.p <= Len(pattern) /\ pattern[s.p] = c
  IN CASE s.n > Len(name) \/ s.failed -> s
       [] s.n <= Len(name) /\ ~s.failed /\ (at("?") \/ at(name[s.n])) ->
            [s EXCEPT !.n = @ + 1, !.p = @ + 1]
       [] s.n <= Len(name) /\ ~s.failed /\ ~at("?") /\ ~at(name[s.n]) /\ at("*") ->
            [s EXCEPT !.star = s.p, !.mark = s.n, !.p = @ + 1]
       [] OTHER -> [s EXCEPT !.failed = TRUE]

(* One turn of the loop of wildcard_match(): on a mismatch the last star     *)
(* takes one more character.                                                 *)
MatchStep(s, name, pattern) ==
  LET Widened(next) ==
        IF next.failed /\ ~s.failed /\ s.star # 0
        THEN [s EXCEPT !.p = s.star + 1, !.mark = @ + 1, !.n = s.mark + 1]
        ELSE next
  IN Widened(MatchStepOnce(s, name, pattern))

(* Each star restarts at most once for each character of the name. *)
Turns(name, pattern) == (Len(name) + 1) * (Len(name) + Len(pattern) + 2)

WildcardMatch(name, pattern) ==
  LET Matched(end) == ~end.failed /\ \A i \in end.p..Len(pattern) : pattern[i] = "*"
  IN Matched(FoldLeft(LAMBDA s, i : MatchStep(s, name, pattern),
                      [n |-> 1, p |-> 1, star |-> 0, mark |-> 0, failed |-> FALSE],
                      [i \in 1..Turns(name, pattern) |-> i]))

(* validate_principal() *)
ValidatePrincipal(cert, use, principal) ==
  CASE cert.principals = <<>> -> "NoPrincipals"
    [] cert.principals # <<>> /\
       \E i \in 1..Len(cert.principals) :
         IF use = "Host" THEN WildcardMatch(principal, cert.principals[i])
                         ELSE cert.principals[i] = principal -> "ok"
    [] OTHER -> "WrongPrincipal"

(* Mutant: the second at which a certificate ends is still its own. *)
ValidateThroughEnd(cert, use, principal, now, trusted) ==
  CASE cert.use # use                     -> "WrongType"
    [] cert.use = use /\ cert.ca \notin trusted -> "UntrustedCa"
    [] cert.use = use /\ cert.ca \in trusted /\ now < cert.after -> "NotYetValid"
    [] cert.use = use /\ cert.ca \in trusted /\ now >= cert.after /\ now > cert.before -> "Expired"
    [] OTHER -> IF cert.genuine THEN ValidatePrincipal(cert, use, principal) ELSE "BadSignature"

(* Certificate::validate(), in the order of its checks: the first that fails *)
(* is the one reported.                                                      *)
Validate(cert, use, principal, now, trusted) ==
  IF cert.use # use THEN "WrongType"
  ELSE IF cert.ca \notin trusted THEN "UntrustedCa"
  ELSE IF now < cert.after THEN "NotYetValid"
  ELSE IF now >= cert.before THEN "Expired"
  ELSE IF ~cert.genuine THEN "BadSignature"
  ELSE ValidatePrincipal(cert, use, principal)

(* SignRequest::sign(): a certificate for anybody is not signed. *)
Sign(request, ca) ==
  IF request.principals = <<>> THEN [ok |-> FALSE, error |-> "MissingPrincipals"]
  ELSE [ok |-> TRUE,
        cert |-> [use |-> request.use, ca |-> ca, genuine |-> TRUE, after |-> request.after,
                  before |-> request.before, principals |-> request.principals]]
==============================================================================
