----------------------------- MODULE ForwardSpec -----------------------------
(***************************************************************************)
(* What a port forward reads: the -L/-R/-D arguments a user types, and the *)
(* SOCKS5 bytes a client of a dynamic forward sends (both in               *)
(* sshdeck-core/src/forward.rs).                                           *)
(*                                                                         *)
(* A text is a sequence of "[", "]", ":", digits and letters; a number is  *)
(* kept as its digits.                                                     *)
(***************************************************************************)
EXTENDS Naturals, Sequences, SequencesExt

CONSTANTS
  Digits,       (* the characters a port may be made of                      *)
  MaxGreeting,  (* MAX_GREETING, 512 in the code                             *)
  MaxRequest    (* MAX_REQUEST, 4096 in the code                             *)

Localhost == <<"localhost">>
Refused == [ok |-> FALSE]

(* Mutant: every colon divides, inside brackets too. *)
SplitEverywhere(spec) ==
  LET Step(s, ch) ==
        IF ch = ":" THEN [s EXCEPT !.parts = Append(@, s.part), !.part = <<>>]
        ELSE [s EXCEPT !.part = Append(@, ch)]
      end == FoldLeft(Step, [ok |-> TRUE, deep |-> FALSE, parts |-> <<>>, part |-> <<>>], spec)
  IN [ok |-> TRUE, parts |-> Append(end.parts, end.part)]

(* split_outside_brackets(): brackets do not nest, and must close. *)
SplitOutsideBrackets(spec) ==
  LET Step(s, ch) ==
        CASE ch = "[" -> [s EXCEPT !.ok = @ /\ ~s.deep, !.deep = TRUE, !.part = Append(@, ch)]
          [] ch = "]" -> [s EXCEPT !.ok = @ /\ s.deep, !.deep = FALSE, !.part = Append(@, ch)]
          [] ch = ":" /\ ~s.deep -> [s EXCEPT !.parts = Append(@, s.part), !.part = <<>>]
          [] OTHER -> [s EXCEPT !.part = Append(@, ch)]
      end == FoldLeft(Step, [ok |-> TRUE, deep |-> FALSE, parts |-> <<>>, part |-> <<>>], spec)
  IN [ok |-> end.ok /\ ~end.deep, parts |-> Append(end.parts, end.part)]

Unbracket(part) ==
  IF Len(part) >= 2 /\ part[1] = "[" /\ Last(part) = "]" THEN Tail(Front(part)) ELSE part

NormaliseBind(part) == IF Unbracket(part) = <<>> THEN Localhost ELSE Unbracket(part)

IsPort(part) == part # <<>> /\ \A i \in 1..Len(part) : part[i] \in Digits

(* parse_forward_spec(): [bind_address:]port:host:hostport *)
ParseForwardSpec(spec) ==
  LET split == SplitOutsideBrackets(spec)
      parts == IF Len(split.parts) = 3 THEN <<Localhost>> \o split.parts ELSE split.parts
  IN IF split.ok /\ Len(parts) = 4 /\ IsPort(parts[2]) /\ IsPort(parts[4])
     THEN [ok |-> TRUE,
           bind |-> IF Len(split.parts) = 3 THEN Localhost ELSE NormaliseBind(parts[1]),
           port |-> parts[2], host |-> Unbracket(parts[3]), hostport |-> parts[4]]
     ELSE Refused

(* parse_dynamic(): [bind_address:]port *)
ParseDynamic(spec) ==
  LET split == SplitOutsideBrackets(spec)
      parts == split.parts
  IN IF split.ok /\ Len(parts) \in {1, 2} /\ IsPort(Last(parts))
     THEN [ok |-> TRUE, bind |-> IF Len(parts) = 1 THEN Localhost ELSE NormaliseBind(parts[1]),
           port |-> Last(parts)]
     ELSE Refused

(* format_bind() *)
FormatBind(address, port) ==
  (IF Contains(address, ":") THEN <<"[">> \o address \o <<"]">> ELSE address) \o <<":">> \o port

(* validate(): what is not served (a port that is 0 is left out here). *)
Served(config) == config.bind # <<>> /\ config.host # <<>>

------------------------------------------------------------------------------
(* socks5: bytes are numbers; 5 is the version, 1 is CONNECT, 0 is "no        *)
(* authentication" and the reserved byte, 1, 3 and 4 are the address types.  *)

More == [ready |-> FALSE, ok |-> TRUE]
Bad  == [ready |-> TRUE, ok |-> FALSE]

DecodeGreeting(buf) ==
  IF Len(buf) < 2 THEN More
  ELSE IF buf[1] # 5 THEN Bad
  ELSE IF Len(buf) < 2 + buf[2] THEN More
  ELSE [ready |-> TRUE, ok |-> TRUE, method |-> Contains(SubSeq(buf, 3, 2 + buf[2]), 0),
        consumed |-> 2 + buf[2]]

(* The bytes of the address: its length is that of its type, or is told. *)
AddressSpan(buf) ==
  CASE buf[4] = 1 -> [at |-> 5, width |-> 4]
    [] buf[4] = 4 -> [at |-> 5, width |-> 16]
    [] OTHER      -> [at |-> 6, width |-> IF Len(buf) < 5 THEN 1 ELSE buf[5]]

DecodeConnect(buf) ==
  LET span == AddressSpan(buf)
      port == span.at + span.width
  IN IF Len(buf) < 4 THEN More
     ELSE IF buf[1] # 5 \/ buf[2] # 1 \/ buf[3] # 0 \/ buf[4] \notin {1, 3, 4} THEN Bad
     ELSE IF Len(buf) < port + 1 THEN More
     ELSE [ready |-> TRUE, ok |-> TRUE, host |-> SubSeq(buf, span.at, port - 1),
           port |-> SubSeq(buf, port, port + 1)]

NewClient == [phase |-> "greeting", buf |-> <<>>, replies |-> 0, target |-> <<>>]

(* Mutant: the bytes that came with the greeting are dropped. *)
ReadGreetingAlone(s) ==
  LET greeting == DecodeGreeting(s.buf)
  IN IF ~greeting.ready THEN IF Len(s.buf) > MaxGreeting THEN [s EXCEPT !.phase = "refused"] ELSE s
     ELSE IF ~greeting.ok THEN [s EXCEPT !.phase = "refused"]
     ELSE [s EXCEPT !.replies = @ + 1, !.buf = <<>>,
                    !.phase = IF greeting.method THEN "request" ELSE "refused"]

ReadGreeting(s) ==
  LET greeting == DecodeGreeting(s.buf)
  IN IF ~greeting.ready THEN IF Len(s.buf) > MaxGreeting THEN [s EXCEPT !.phase = "refused"] ELSE s
     ELSE IF ~greeting.ok THEN [s EXCEPT !.phase = "refused"]
     ELSE [s EXCEPT !.replies = @ + 1,
                    !.buf = SubSeq(@, greeting.consumed + 1, Len(@)),
                    !.phase = IF greeting.method THEN "request" ELSE "refused"]

ReadRequest(s) ==
  LET connect == DecodeConnect(s.buf)
  IN IF ~connect.ready THEN IF Len(s.buf) > MaxRequest THEN [s EXCEPT !.phase = "refused"] ELSE s
     ELSE IF ~connect.ok THEN [s EXCEPT !.phase = "refused"]
     ELSE [s EXCEPT !.phase = "connect", !.target = <<connect.host, connect.port>>]

(* negotiate(): one read, and all that it lets happen. *)
Negotiate(s, chunk) ==
  LET read == [s EXCEPT !.buf = @ \o chunk]
      greeted == IF read.phase = "greeting" THEN ReadGreeting(read) ELSE read
  IN IF s.phase \notin {"greeting", "request"} THEN s
     ELSE IF greeted.phase = "request" THEN ReadRequest(greeted) ELSE greeted
==============================================================================
