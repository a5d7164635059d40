------------------------------- MODULE Streams -------------------------------
(***************************************************************************)
(* The byte streams that sshdeck decodes itself.  TelnetCodec of           *)
(* sshdeck-telnet/src/protocol.rs is modelled here: the decoder of a       *)
(* stream that the network cuts where it likes, and the option             *)
(* negotiation whose answers must not keep two peers busy for ever.  The   *)
(* SOCKS5 handshake of a dynamic forward is that of ForwardSpec, and a     *)
(* remote path, read from left to right too, that of RemotePaths.  The     *)
(* last sections state what they promise of an input, whatever it is.      *)
(*                                                                         *)
(* A byte is a member of Byte; "a" and "b" stand for bytes that are no     *)
(* command, and any byte may name an option.  A codec is a record: the     *)
(* options enabled on either side and the bytes kept for the next call.    *)
(***************************************************************************)
EXTENDS Naturals, Sequences, FiniteSets, SequencesExt

CONSTANTS
  AllowLocal,         (* TelnetPolicy::allow_local                           *)
  AllowRemote,        (* TelnetPolicy::allow_remote                          *)
  MaxSubnegotiation,  (* MAX_SUBNEGOTIATION                                  *)
  Digits,             (* of ForwardSpec: the characters of a port            *)
  MaxGreeting,        (* of ForwardSpec: MAX_GREETING, 512                   *)
  MaxRequest,         (* of ForwardSpec: MAX_REQUEST, 4096                   *)
  Components,         (* what stands between the slashes of a path           *)
  WorkingDirs         (* where an SFTP session may stand                     *)

ASSUME OptionsAssumption == IsFiniteSet(AllowLocal) /\ IsFiniteSet(AllowRemote)
ASSUME SubnegotiationAssumption == MaxSubnegotiation \in Nat

\* The longest greeting has 2 + 255 bytes, the longest request 4 + 1 + 255 + 2.
ASSUME HandshakeAssumption ==
  MaxGreeting \in Nat /\ MaxGreeting >= 257 /\ MaxRequest \in Nat /\ MaxRequest >= 262

Forwards == INSTANCE ForwardSpec
Paths == INSTANCE RemotePaths

\* A working directory is the names that lead to it from the root.
ASSUME NamesAssumption == {Paths!Blank, ".", ".."} \subseteq Components
ASSUME WorkingDirsAssumption == WorkingDirs \subseteq Seq(Components)

Negotiations == {"WILL", "WONT", "DO", "DONT"}
Byte == {"IAC", "SE", "SB", "NOP", "a", "b"} \cup Negotiations

NewCodec == [local |-> {}, remote |-> {}, pending |-> <<>>]

(* frame(), subnegotiate() *)
Frame(command, option) == <<"IAC", command, option>>

Escape(payload) ==
  FoldLeft(LAMBDA out, b : out \o (IF b = "IAC" THEN <<b, b>> ELSE <<b>>), <<>>, payload)

Subnegotiate(option, payload) ==
  <<"IAC", "SB", option>> \o Escape(payload) \o <<"IAC", "SE">>

(* negotiate(): the options that are enabled after a command, and its answer. *)
Agree(local, remote, command, option) ==
  LET Settle(mine, theirs, replies) == [local |-> mine, remote |-> theirs, replies |-> replies]
  IN CASE command = "WILL" ->
            IF option \in remote THEN Settle(local, remote, <<>>)
            ELSE IF option \in AllowRemote
            THEN Settle(local, remote \cup {option}, Frame("DO", option))
            ELSE Settle(local, remote, Frame("DONT", option))
       [] command = "DO" ->
            IF option \in local THEN Settle(local, remote, <<>>)
            ELSE IF option \in AllowLocal
            THEN Settle(local \cup {option}, remote, Frame("WILL", option))
            ELSE Settle(local, remote, Frame("WONT", option))
       [] command = "WONT" -> Settle(local, remote \ {option}, <<>>)
       [] command = "DONT" -> Settle(local \ {option}, remote, <<>>)

Negotiate(c, command, option) ==
  LET agreed == Agree(c.local, c.remote, command, option)
  IN [c EXCEPT !.local = agreed.local, !.remote = agreed.remote, !.replies = @ \o agreed.replies]

(* The inner loop of receive(): the payload of a subnegotiation from byte 4 on. *)
ScanStep(input, s) ==
  IF s.out # "more" THEN s
  ELSE IF s.at > Len(input) THEN [s EXCEPT !.out = "pending"]
  ELSE LET b == input[s.at]
           width == IF b = "IAC" THEN 2 ELSE 1
           taken == [s EXCEPT !.at = @ + width, !.payload = Append(@, b)]
       IN CASE b = "IAC" /\ s.at = Len(input) -> [s EXCEPT !.out = "pending"]
            [] b = "IAC" /\ s.at < Len(input) /\ input[s.at + 1] = "SE" ->
                 [s EXCEPT !.out = "complete", !.at = @ + 2]
            [] b = "IAC" /\ s.at < Len(input) /\ input[s.at + 1] \notin {"SE", "IAC"} ->
                 [s EXCEPT !.out = "malformed"]
            [] OTHER -> IF Len(taken.payload) > MaxSubnegotiation
                        THEN [taken EXCEPT !.out = "tooLarge"] ELSE taken

Scan(input) ==
  FoldLeft(LAMBDA s, i : ScanStep(input, s), [at |-> 4, payload |-> <<>>, out |-> "more"],
           [i \in 1..Len(input) |-> i])

(* One turn of the outer loop, on what is left of the input; a turn that     *)
(* needs more bytes, or that finds an error, halts.                          *)
Turn(c) ==
  LET input == c.input
      command == input[2]
      Skip(d, n) == [d EXCEPT !.input = SubSeq(input, n + 1, Len(input))]
  IN CASE c.halted \/ input = <<>> -> c
       [] ~c.halted /\ input # <<>> /\ input[1] # "IAC" ->
            Skip([c EXCEPT !.data = Append(@, input[1])], 1)
       [] ~c.halted /\ input # <<>> /\ input[1] = "IAC" ->
            IF Len(input) < 2 THEN [c EXCEPT !.halted = TRUE]
            ELSE IF command = "IAC" THEN Skip([c EXCEPT !.data = Append(@, "IAC")], 2)
            ELSE IF command \in Negotiations THEN
              IF Len(input) < 3 THEN [c EXCEPT !.halted = TRUE]
              ELSE Skip(Negotiate(c, command, input[3]), 3)
            ELSE IF command = "SB" THEN
              LET scan == Scan(input)
              IN IF Len(input) < 3 \/ scan.out \in {"pending", "more"} THEN [c EXCEPT !.halted = TRUE]
                 ELSE IF scan.out = "complete"
                 THEN Skip([c EXCEPT !.subs = Append(@, <<input[3], scan.payload>>)], scan.at - 1)
                 ELSE [c EXCEPT !.halted = TRUE, !.error = scan.out]
            ELSE IF command = "NOP" THEN Skip(c, 2)
            ELSE [c EXCEPT !.halted = TRUE, !.error = "command"]

(* Mutant: a command that is cut off is dropped. *)
KeptNothing(c) == <<>>

(* What the next call starts with: the command that is cut off, or nothing   *)
(* once the stream is out of step.                                           *)
Kept(c) == IF c.error = "none" THEN c.input ELSE <<>>

(* receive(): what is kept, what is shown, what is answered. *)
Begin(codec, bytes) ==
  [local |-> codec.local, remote |-> codec.remote, input |-> codec.pending \o bytes,
   data |-> <<>>, replies |-> <<>>, subs |-> <<>>, halted |-> FALSE, error |-> "none"]

Outcome(end) ==
  [codec |-> [local |-> end.local, remote |-> end.remote, pending |-> Kept(end)],
   data |-> end.data, replies |-> end.replies, subs |-> end.subs, error |-> end.error]

Decoded(start) ==
  FoldLeft(LAMBDA c, i : Turn(c), start, [i \in 1..Len(start.input) |-> i])

Receive(codec, bytes) == Outcome(Decoded(Begin(codec, bytes)))

(* What a caller has of two calls in a row. *)
Both(one, two) ==
  [codec |-> two.codec, data |-> one.data \o two.data, replies |-> one.replies \o two.replies,
   subs |-> one.subs \o two.subs, error |-> IF one.error = "none" THEN two.error ELSE one.error]

(* Two calls, for an input the network cut after k bytes. *)
ReceiveCut(codec, bytes, k) ==
  LET Then(one) == Both(one, Receive(one.codec, SubSeq(bytes, k + 1, Len(bytes))))
  IN Then(Receive(codec, SubSeq(bytes, 1, k)))

(* Two peers that both run this codec answer each other: each turn, one peer *)
(* reads the oldest command it was sent.  A command is <<command, option>>;  *)
(* what is left is what is still in flight.                                  *)
Enabled(codec) == [local |-> codec.local, remote |-> codec.remote]

Answer(options, command) == Agree(options.local, options.remote, command[1], command[2])

AsCommand(replies) == IF replies = <<>> THEN <<>> ELSE << <<replies[2], replies[3]>> >>

ExchangeStep(s) ==
  IF s.toMe # <<>> THEN
    LET d == Answer(s.mine, Head(s.toMe))
    IN [mine |-> Enabled(d), yours |-> s.yours,
        toMe |-> Tail(s.toMe), toYou |-> s.toYou \o AsCommand(d.replies)]
  ELSE IF s.toYou # <<>> THEN
    LET d == Answer(s.yours, Head(s.toYou))
    IN [mine |-> s.mine, yours |-> Enabled(d),
        toMe |-> s.toMe \o AsCommand(d.replies), toYou |-> Tail(s.toYou)]
  ELSE s

Exchange(mine, yours, toMe, turns) ==
  LET end == FoldLeft(LAMBDA s, i : ExchangeStep(s),
                      [mine |-> Enabled(mine), yours |-> Enabled(yours), toMe |-> toMe, toYou |-> <<>>],
                      [i \in 1..turns |-> i])
  IN end.toMe \o end.toYou

------------------------------------------------------------------------------
(* Streams: what is read does not depend on how it is sent *)

VARIABLES
  task,   (* the stream looked at                                            *)
  in      (* its input                                                       *)

(* A telnet stream means the same whole or cut in two: data, answers and      *)
(* subnegotiations come out once, an error is the same error, and no more is *)
(* kept than the limit allows.                                               *)
ChunksDoNotMatter ==
  task = "telnet" =>
    LET Same(cut, whole) == IF whole.error = "none" THEN cut = whole ELSE cut.error = whole.error
        Uncut(whole) == /\ Len(whole.codec.pending) <= 4 + 2 * MaxSubnegotiation
                        /\ \A k \in 0..Len(in) : Same(ReceiveCut(NewCodec, in, k), whole)
    IN Uncut(Receive(NewCodec, in))

(* Two peers that both answer by this policy fall silent, whatever either     *)
(* has enabled and whatever is in flight: after at most three turns for each *)
(* command and one for each option that either may enable.                   *)
NegotiationEnds ==
  task = "negotiation" =>
    Exchange(in.mine, in.yours, in.toMe,
             3 * Len(in.toMe) + 2 * Cardinality(AllowLocal) + 2 * Cardinality(AllowRemote)) = <<>>

(* A SOCKS client that sends its greeting and its request in one piece, in    *)
(* two or in three, waiting or not, is answered the same and reaches the     *)
(* same target.                                                              *)
Answered(chunks) ==
  LET s == FoldLeft(Forwards!Negotiate, Forwards!NewClient, chunks)
  IN <<s.phase, s.replies, s.target>>

SocksChunksDoNotMatter ==
  task = "socks" =>
    LET bytes == in.greeting \o in.request
    IN \A i \in 0..Len(bytes) : \A j \in i..Len(bytes) :
         Answered(<<bytes>>)
           = Answered(<<SubSeq(bytes, 1, i), SubSeq(bytes, i + 1, j), SubSeq(bytes, j + 1, Len(bytes))>>)

------------------------------------------------------------------------------
(* Paths: a join leads where its parts lead, and not out of the base *)

(* A step of a walk: at is the directory, from the root; c is a component. *)
WalkStep(at, c) ==
  CASE c \in {Paths!Blank, "."} -> at
    [] c = ".." -> IF at = <<>> THEN at ELSE Front(at)
    [] OTHER -> Append(at, c)

Walk(at, parts) == FoldLeft(WalkStep, at, parts)

(* Where a path leads from a working directory. *)
Walked(cwd, path) == Walk(IF Paths!Absolute(path) THEN <<>> ELSE cwd, path)

(* What join() returns leads where the child leads from the base; a path that *)
(* it accepts is inside the base, wherever the session stands; normalising   *)
(* changes nothing of where a path leads; and each directory that ancestors() *)
(* lists is in the one before it, the first in the base.                     *)
(* The base has no leading "..", and a relative base no absolute child.      *)
PathsStayInside ==
  task = "path" =>
    LET base == Paths!Normalize(in.base)
        joined == Paths!Join(in.base, in.child)
        made == Paths!Ancestors(in.base, in.child)
        Bound == base[1] # ".." /\ (Paths!Absolute(in.base) \/ ~Paths!Absolute(in.child))
    IN /\ Paths!Normalize(Paths!Normalize(in.child)) = Paths!Normalize(in.child)
       /\ \A cwd \in WorkingDirs :
            /\ Walked(cwd, Paths!Normalize(in.child)) = Walked(cwd, in.child)
            /\ Walked(cwd, joined.path) = Walked(Walked(cwd, in.base), in.child)
            /\ joined.ok /\ Bound =>
                 /\ IsPrefix(Walked(cwd, in.base), Walked(cwd, joined.path))
                 /\ \A i \in 1..Len(made) :
                      Front(Walked(cwd, made[i])) = Walked(cwd, IF i = 1 THEN base ELSE made[i - 1])

(* What is read means the same however it is sent, and what is joined however *)
(* it is written.                                                             *)
InputsMeanTheSame == ChunksDoNotMatter /\ NegotiationEnds /\ SocksChunksDoNotMatter /\ PathsStayInside
==============================================================================
