-------------------------- MODULE SshSessionProofs --------------------------
(***************************************************************************)
(* What SshSession guarantees for chains of any length, any number of      *)
(* tries, and channels of any capacity: the hops are dialled, verified and *)
(* authenticated in order, the interface sees the events in an order       *)
(* SessionLifecycle allows, and what the server sent is told in whole      *)
(* before the end of the session is.                                       *)
(*                                                                         *)
(* None of it is inductive.  HopsInOrder needs to know how many hops *)
(* are verified and authenticated at every step of the thread, and that a  *)
(* Connected on its way to the interface tells the truth.  The lifecycle   *)
(* speaks of the event taken last; the events in the channel and the ones  *)
(* the thread is about to emit have to continue it, up to the event that   *)
(* the step of the thread stands for.                                      *)
(***************************************************************************)
EXTENDS SshSession, FiniteSetTheorems, TLAPS

Threads ==
  [pc : {"dial", "auth", "open", "drive", "input", "disconnect", "ending", "over"},
   hop : 1..Hops, try : 1..MaxTries, exit : {None, Status, Signal},
   cause : {"none", "user", "server", "error", "start"}]

(* The types the argument needs; what the thread has to emit is at most two *)
(* events, and two of them only when it fails.                              *)
Types ==
  /\ thread \in Threads
  /\ out \in Seq(EventNames)
  /\ out = <<>> \/ Len(out) = 1 \/ (Len(out) = 2 /\ out[1] = "Error" /\ out[2] = "Failed")
  /\ events \in Seq(EventNames)
  /\ reading \in BOOLEAN
  /\ seen \in EventNames \cup {"nothing"}
  /\ thread.cause = "start" => thread.pc \in {"ending", "over"}

(* Which hops are verified and which are authenticated at each step; a      *)
(* thread that failed stopped at any of them.                               *)
HopInv ==
  /\ thread.pc = "dial" => verified = 1..(thread.hop - 1) /\ authed = 1..(thread.hop - 1)
  /\ thread.pc = "auth" => verified = 1..thread.hop /\ authed = 1..(thread.hop - 1)
  /\ thread.pc \in {"open", "drive", "input", "disconnect"} => verified = 1..Hops /\ authed = 1..Hops
  /\ authed \subseteq verified
  /\ \A h \in verified : 1..(h - 1) \subseteq authed

(* Connected is emitted, sent or seen only after every hop authenticated.   *)
ConnectedInv ==
  /\ \A i \in 1..Len(out) : out[i] = "Connected" => authed = 1..Hops
  /\ \A i \in 1..Len(events) : events[i] = "Connected" => authed = 1..Hops
  /\ seen = "Connected" => authed = 1..Hops

(* The last event sent, and the last one sent or about to be.               *)
Sent   == IF events = <<>> THEN seen ELSE events[Len(events)]
Latest == IF out = <<>> THEN Sent ELSE out[Len(out)]

(* The events that can be the latest at each step of the thread.            *)
Stage ==
  CASE thread.pc = "dial" -> {"Connecting"}
    [] thread.pc = "auth" -> IF thread.hop = Hops THEN {"Authenticating"} ELSE {"Connecting"}
    [] thread.pc = "open" -> {"Connected"}
    [] thread.pc \in {"drive", "input", "disconnect"} -> {"Connected", "Data"}
    [] OTHER -> IF thread.cause = "start" THEN {"Error"} ELSE {"Closed", "Failed"}

(* While somebody reads, the channel and what is about to be emitted        *)
(* continue the event taken last.                                           *)
Continues ==
  /\ events # <<>> => events[1] \in LC!Follows(seen)
  /\ \A i \in 1..Len(events) : i + 1 \in 1..Len(events) => events[i + 1] \in LC!Follows(events[i])
  /\ out # <<>> => out[1] \in LC!Follows(Sent)
  /\ Latest \in Stage

TrailInv == reading => Continues

SessionInv == Types /\ HopInv /\ ConnectedInv /\ TrailInv

------------------------------------------------------------------------------
(* Lemmas about sequences *)

(* The first event leaves, and what was next is the first. *)
LEMMA TailFacts ==
  ASSUME NEW s \in Seq(EventNames), s # <<>>
  PROVE  /\ Len(s) \in Nat \ {0} /\ Head(s) = s[1] /\ Head(s) \in EventNames
         /\ Tail(s) \in Seq(EventNames) /\ Len(Tail(s)) = Len(s) - 1
         /\ \A i \in 1..Len(Tail(s)) : Tail(s)[i] = s[i + 1]
         /\ Tail(s) = <<>> <=> Len(s) = 1
<1>1. Len(s) \in Nat \ {0} /\ Head(s) = s[1] /\ Head(s) \in EventNames
  OBVIOUS
<1>2. Tail(s) \in Seq(EventNames) /\ Len(Tail(s)) = Len(s) - 1
  OBVIOUS
<1>3. \A i \in 1..Len(Tail(s)) : Tail(s)[i] = s[i + 1]
  BY <1>2
<1>4. Tail(s) = <<>> <=> Len(Tail(s)) = 0
  BY <1>2
<1> QED
  BY <1>1, <1>2, <1>3, <1>4

(* An event is added at the end. *)
LEMMA AppendFacts ==
  ASSUME NEW s \in Seq(EventNames), NEW e \in EventNames
  PROVE  /\ Append(s, e) \in Seq(EventNames) /\ Append(s, e) # <<>>
         /\ Len(s) \in Nat /\ Len(Append(s, e)) = Len(s) + 1
         /\ \A i \in 1..Len(s) : Append(s, e)[i] = s[i]
         /\ Append(s, e)[Len(s) + 1] = e
         /\ s = <<>> <=> Len(s) = 0
OBVIOUS

(* A sequence of one event. *)
LEMMA SingleFacts ==
  ASSUME NEW e \in EventNames
  PROVE  <<e>> \in Seq(EventNames) /\ Len(<<e>>) = 1 /\ <<e>>[1] = e /\ <<e>> # <<>>
OBVIOUS

(* What a failure may follow, and what follows at each stage. *)
LEMMA FollowsFacts ==
  /\ LC!Follows("nothing") = {"Connecting", "Error"}
  /\ LC!Follows("Connecting") = {"Authenticating", "Error"}
  /\ LC!Follows("Authenticating") = {"Connected", "Error"}
  /\ LC!Follows("Connected") = {"Data", "Closed", "Error"}
  /\ LC!Follows("Data") = {"Data", "Closed", "Error"}
  /\ LC!Follows("Error") = {"Failed"}
BY DEF LC!Follows

------------------------------------------------------------------------------
(* Kinds of steps *)

(* Nothing the argument looks at changes but the counters of the thread. *)
LEMMA QuietStep ==
  ASSUME SessionInv, UNCHANGED <<out, dialVars, events, reading, seen>>,
         thread' \in Threads, thread'.pc = thread.pc, thread'.hop = thread.hop,
         thread'.cause = thread.cause
  PROVE  SessionInv'
BY DEF SessionInv, Types, HopInv, ConnectedInv, TrailInv, Continues, Sent, Latest, Stage, dialVars

(* The thread goes on without a word. *)
LEMMA SilentStep ==
  ASSUME SessionInv, UNCHANGED <<out, dialVars, events, reading, seen>>,
         thread' \in Threads,
         \/ thread.pc = "open" /\ thread'.pc = "drive"
         \/ thread.pc = "drive" /\ thread'.pc = "input"
         \/ thread.pc = "input" /\ thread'.pc = "drive"
         \/ thread.pc = "drive" /\ thread'.pc = "disconnect"
         \/ thread.pc = "ending" /\ thread'.pc = "over" /\ thread'.cause = thread.cause,
         thread.pc # "ending" => thread'.cause # "start"
  PROVE  SessionInv'
<1>1. HopInv'
  BY DEF SessionInv, HopInv, dialVars
<1>2. Latest' = Latest /\ Sent' = Sent
  BY DEF Latest, Sent
<1>3. Latest \in Stage => Latest \in Stage'
  BY DEF Stage
<1>4. TrailInv'
  BY <1>2, <1>3 DEF SessionInv, TrailInv, Continues
<1> QED
  BY <1>1, <1>4 DEF SessionInv, Types, ConnectedInv, dialVars, Threads

(* The thread goes on with an event that may follow any event of its stage. *)
LEMMA SpeakingStep ==
  ASSUME NEW e \in EventNames, SessionInv, out = <<>>, out' = <<e>>,
         UNCHANGED <<events, reading, seen>>, thread' \in Threads, HopInv',
         authed = 1..Hops => authed' = 1..Hops,
         e = "Connected" => authed' = 1..Hops,
         \A x \in Stage : e \in LC!Follows(x),
         e \in Stage', thread'.cause # "start"
  PROVE  SessionInv'
<1>1. out' \in Seq(EventNames) /\ Len(out') = 1 /\ out'[1] = e /\ out' # <<>>
  BY SingleFacts
<1>2. Sent' = Sent /\ Latest = Sent /\ Latest' = e
  BY <1>1 DEF Sent, Latest
<1>3. Types'
  BY <1>1 DEF SessionInv, Types
<1>4. ConnectedInv'
  <2>1. \A i \in 1..Len(out') : out'[i] = e
    BY <1>1
  <2> QED
    BY <2>1 DEF SessionInv, ConnectedInv
<1>5. TrailInv'
  BY <1>1, <1>2 DEF SessionInv, TrailInv, Continues
<1> QED
  BY <1>3, <1>4, <1>5 DEF SessionInv

(* A failure may come at any stage up to the end of the session. *)
LEMMA FailingStep ==
  ASSUME SessionInv, out = <<>>, Fail, UNCHANGED <<events, reading, seen>>,
         thread.pc \in {"dial", "auth", "open", "drive", "input"}
  PROVE  SessionInv'
<1>1. thread' \in Threads /\ thread'.pc = "ending" /\ thread'.cause = "error"
  BY DEF Fail, SessionInv, Types, Threads
<1>2. /\ out' \in Seq(EventNames) /\ Len(out') = 2 /\ out' # <<>>
      /\ out'[1] = "Error" /\ out'[2] = "Failed"
  BY DEF Fail, EventNames
<1>3. Types'
  BY <1>1, <1>2 DEF SessionInv, Types
<1>4. HopInv'
  BY <1>1 DEF Fail, SessionInv, HopInv
<1>5. ConnectedInv'
  <2>1. \A i \in 1..Len(out') : out'[i] # "Connected"
    BY <1>2
  <2> QED
    BY <2>1 DEF Fail, SessionInv, ConnectedInv
<1>6. TrailInv'
  <2>1. Sent' = Sent /\ Latest = Sent /\ Latest' = "Failed"
    BY <1>2 DEF Sent, Latest
  <2>2. \A x \in Stage : "Error" \in LC!Follows(x)
    BY FollowsFacts DEF Stage
  <2>3. "Failed" \in Stage'
    BY <1>1 DEF Stage
  <2> QED
    BY <1>2, <2>1, <2>2, <2>3 DEF SessionInv, TrailInv, Continues
<1> QED
  BY <1>3, <1>4, <1>5, <1>6 DEF SessionInv

------------------------------------------------------------------------------
(* The steps *)

(* Emitting an event moves it to the end of the channel, where it follows   *)
(* the last one; with no receiver it is dropped and nobody looks any more.  *)
LEMMA EmitStep == SessionInv /\ Emit => SessionInv'
<1> SUFFICES ASSUME SessionInv, Emit PROVE SessionInv'
  OBVIOUS
<1> DEFINE e == out[1]
<1>1. /\ out \in Seq(EventNames) /\ events \in Seq(EventNames) /\ out # <<>>
      /\ UNCHANGED <<thread, dialVars, reading, seen>>
      /\ out' = Tail(out) /\ Head(out) = e /\ e \in EventNames
  BY TailFacts DEF Emit, SessionInv, Types
<1>2. /\ Len(out) \in Nat \ {0} /\ out' \in Seq(EventNames) /\ Len(out') = Len(out) - 1
      /\ \A i \in 1..Len(out') : out'[i] = out[i + 1]
      /\ out' = <<>> <=> Len(out) = 1
  BY <1>1, TailFacts
<1>3. out' = <<>> \/ Len(out') = 1
  BY <1>2 DEF SessionInv, Types
<1>4. \A i \in 1..Len(out') : out'[i] = "Connected" => authed' = 1..Hops
  <2>1. \A i \in 1..Len(out') : i + 1 \in 1..Len(out)
    BY <1>2
  <2> QED
    BY <1>1, <1>2, <2>1 DEF SessionInv, ConnectedInv, dialVars
<1>5. HopInv'
  BY <1>1 DEF SessionInv, HopInv, dialVars
<1>6. CASE ~ reading
  <2>1. UNCHANGED events
    BY <1>6 DEF Emit
  <2>2. ConnectedInv'
    BY <1>1, <1>4, <2>1 DEF SessionInv, ConnectedInv, dialVars
  <2> QED
    BY <1>1, <1>2, <1>3, <1>5, <1>6, <2>1, <2>2 DEF SessionInv, Types, TrailInv
<1>7. CASE reading
  <2>1. events' = Append(events, e)
    BY <1>1, <1>7 DEF Emit
  <2>2. /\ events' \in Seq(EventNames) /\ events' # <<>>
        /\ Len(events) \in Nat /\ Len(events') = Len(events) + 1
        /\ \A i \in 1..Len(events) : events'[i] = events[i]
        /\ events'[Len(events) + 1] = e
        /\ events = <<>> <=> Len(events) = 0
    BY <1>1, <2>1, AppendFacts
  <2>3. \A i \in 1..Len(events') : i \in 1..Len(events) \/ i = Len(events) + 1
    BY <2>2
  <2>4. Sent' = e
    BY <2>2 DEF Sent
  <2>5. ConnectedInv'
    <3>1. e = "Connected" => authed = 1..Hops
      BY <1>2 DEF SessionInv, ConnectedInv
    <3> QED
      BY <1>1, <1>4, <2>2, <2>3, <3>1 DEF SessionInv, ConnectedInv, dialVars
  <2>6. e \in LC!Follows(Sent)
    BY <1>1, <1>7 DEF SessionInv, TrailInv, Continues
  <2>7. events' # <<>> => events'[1] \in LC!Follows(seen')
    <3>1. CASE events = <<>>
      BY <1>1, <2>2, <2>6, <3>1 DEF Sent
    <3>2. CASE events # <<>>
      <4>1. 1 \in 1..Len(events)
        BY <2>2, <3>2
      <4> QED
        BY <1>1, <1>7, <2>2, <3>2, <4>1 DEF SessionInv, TrailInv, Continues
    <3> QED
      BY <3>1, <3>2
  <2>8. \A i \in 1..Len(events') : i + 1 \in 1..Len(events') =>
          events'[i + 1] \in LC!Follows(events'[i])
    <3> SUFFICES ASSUME NEW i \in 1..Len(events'), i + 1 \in 1..Len(events')
                 PROVE  events'[i + 1] \in LC!Follows(events'[i])
      OBVIOUS
    <3>1. i \in 1..Len(events)
      BY <2>2
    <3>2. CASE i + 1 \in 1..Len(events)
      BY <1>7, <2>2, <3>1, <3>2 DEF SessionInv, TrailInv, Continues
    <3>3. CASE i = Len(events)
      <4>1. Sent = events[i]
        BY <2>2, <3>1, <3>3 DEF Sent
      <4> QED
        BY <2>2, <2>6, <3>1, <3>3, <4>1
    <3> QED
      BY <2>2, <3>1, <3>2, <3>3
  <2>9. out' # <<>> => out'[1] \in LC!Follows(Sent')
    <3> SUFFICES ASSUME out' # <<>> PROVE out'[1] \in LC!Follows(e)
      BY <2>4
    <3>1. Len(out) = 2 /\ out[1] = "Error" /\ out[2] = "Failed"
      BY <1>2 DEF SessionInv, Types
    <3>2. out'[1] = "Failed"
      BY <1>2, <3>1
    <3> QED
      BY <3>1, <3>2, FollowsFacts
  <2>10. Latest' \in Stage'
    <3>1. Latest = out[Len(out)]
      BY <1>1 DEF Latest
    <3>2. Latest' = Latest
      <4>1. CASE out' = <<>>
        BY <1>2, <2>4, <3>1, <4>1 DEF Latest
      <4>2. CASE out' # <<>>
        <5>1. Len(out') \in 1..Len(out') /\ Len(out') + 1 = Len(out)
          BY <1>2, <1>3, <4>2
        <5> QED
          BY <1>2, <3>1, <4>2, <5>1 DEF Latest
      <4> QED
        BY <4>1, <4>2
    <3> QED
      BY <1>1, <1>7, <3>2 DEF SessionInv, TrailInv, Continues, Stage
  <2> QED
    BY <1>1, <1>2, <1>3, <1>5, <2>2, <2>5, <2>7, <2>8, <2>9, <2>10
    DEF SessionInv, Types, TrailInv, Continues
<1> QED
  BY <1>6, <1>7 DEF SessionInv, Types

(* A key that matched: one more hop is verified, the one being dialled.     *)
LEMMA DialStep == SessionInv /\ Dial => SessionInv'
<1> SUFFICES ASSUME SessionInv, Dial PROVE SessionInv'
  OBVIOUS
<1>1. out = <<>> /\ thread.pc = "dial" /\ UNCHANGED <<events, reading, seen>>
  BY DEF Dial, At, eventVars
<1>2. CASE Fail
  BY <1>1, <1>2, FailingStep
<1>3. CASE /\ verified' = verified \cup {thread.hop}
           /\ Goto("auth")
           /\ out' = IF thread.hop = Hops THEN <<"Authenticating">> ELSE <<>>
           /\ UNCHANGED authed
  <2>1. /\ thread \in Threads /\ thread' \in Threads
        /\ thread'.pc = "auth" /\ thread'.hop = thread.hop
        /\ thread.hop \in 1..Hops /\ thread'.cause # "start"
    BY <1>1, <1>3 DEF Goto, SessionInv, Types, Threads
  <2>2. verified' = 1..thread.hop /\ authed' = 1..(thread.hop - 1)
    <3>1. verified = 1..(thread.hop - 1) /\ authed = 1..(thread.hop - 1)
      BY <1>1 DEF SessionInv, HopInv
    <3>2. 1..thread.hop = 1..(thread.hop - 1) \cup {thread.hop}
      BY <2>1, HopsAssumption
    <3> QED
      BY <1>3, <3>1, <3>2
  <2>3. HopInv'
    BY <2>1, <2>2, HopsAssumption DEF HopInv
  <2>4. CASE thread.hop = Hops
    <3>1. "Authenticating" \in EventNames /\ out' = <<"Authenticating">>
      BY <1>3, <2>4 DEF EventNames
    <3>2. \A x \in Stage : "Authenticating" \in LC!Follows(x)
      BY <1>1, FollowsFacts DEF Stage
    <3>3. "Authenticating" \in Stage'
      BY <2>1, <2>4 DEF Stage
    <3> QED
      BY <1>1, <1>3, <2>1, <2>3, <3>1, <3>2, <3>3, SpeakingStep
  <2>5. CASE thread.hop # Hops
    <3>1. out' = out
      BY <1>1, <1>3, <2>5
    <3>2. Latest' = Latest /\ Sent' = Sent
      BY <1>1, <3>1 DEF Latest, Sent
    <3>3. Latest \in Stage => Latest \in Stage'
      BY <1>1, <2>1, <2>5 DEF Stage
    <3>4. TrailInv'
      BY <1>1, <3>1, <3>2, <3>3 DEF SessionInv, TrailInv, Continues
    <3> QED
      BY <1>1, <1>3, <2>1, <2>3, <3>1, <3>4 DEF SessionInv, Types, ConnectedInv
  <2> QED
    BY <2>4, <2>5
<1> QED
  BY <1>2, <1>3 DEF Dial

(* Credentials that are accepted: the next hop, or Connected at the last.   *)
LEMMA AuthenticateStep == SessionInv /\ Authenticate => SessionInv'
<1> SUFFICES ASSUME SessionInv, Authenticate PROVE SessionInv'
  OBVIOUS
<1>1. out = <<>> /\ thread.pc = "auth" /\ UNCHANGED <<events, reading, seen>>
  BY DEF Authenticate, At, eventVars
<1>2. thread \in Threads /\ thread.hop \in 1..Hops /\ thread.cause # "start"
  BY <1>1 DEF SessionInv, Types, Threads
<1>3. CASE Fail
  BY <1>1, <1>3, FailingStep
<1>4. CASE /\ thread.try < MaxTries
           /\ thread' = [thread EXCEPT !.try = @ + 1]
           /\ UNCHANGED <<out, dialVars>>
  <2>1. /\ thread' \in Threads /\ thread'.pc = thread.pc /\ thread'.hop = thread.hop
        /\ thread'.cause = thread.cause
    <3>1. thread.try \in 1..MaxTries /\ thread.try + 1 \in 1..MaxTries
      BY <1>2, <1>4, TriesAssumption DEF Threads
    <3> QED
      BY <1>2, <1>4, <3>1 DEF Threads
  <2> QED
    BY <1>1, <1>4, <2>1, QuietStep
<1>5. CASE /\ authed' = authed \cup {thread.hop}
           /\ IF thread.hop = Hops
                THEN Goto("open") /\ out' = <<"Connected">>
                ELSE /\ thread' = [thread EXCEPT !.pc = "dial", !.hop = @ + 1, !.try = 1]
                     /\ out' = <<>>
           /\ UNCHANGED verified
  <2>1. verified' = 1..thread.hop /\ authed' = 1..thread.hop
    <3>1. verified = 1..thread.hop /\ authed = 1..(thread.hop - 1)
      BY <1>1 DEF SessionInv, HopInv
    <3>2. 1..thread.hop = 1..(thread.hop - 1) \cup {thread.hop}
      BY <1>2, HopsAssumption
    <3> QED
      BY <1>5, <3>1, <3>2
  <2>2. CASE thread.hop = Hops
    <3>1. /\ thread' \in Threads /\ thread'.pc = "open" /\ out' = <<"Connected">>
          /\ thread'.cause # "start"
      BY <1>2, <1>5, <2>2 DEF Goto, Threads
    <3>2. HopInv'
      BY <2>1, <2>2, <3>1, HopsAssumption DEF HopInv
    <3>3. \A x \in Stage : "Connected" \in LC!Follows(x)
      BY <1>1, <2>2, FollowsFacts DEF Stage
    <3>4. "Connected" \in Stage' /\ "Connected" \in EventNames
      BY <3>1 DEF Stage, EventNames
    <3> QED
      BY <1>1, <2>1, <2>2, <3>1, <3>2, <3>3, <3>4, SpeakingStep
  <2>3. CASE thread.hop # Hops
    <3>1. /\ thread' = [thread EXCEPT !.pc = "dial", !.hop = @ + 1, !.try = 1]
          /\ out' = out
      BY <1>1, <1>5, <2>3
    <3>2. /\ thread' \in Threads /\ thread'.pc = "dial" /\ thread'.hop = thread.hop + 1
          /\ thread'.cause # "start"
      <4>1. thread.hop + 1 \in 1..Hops /\ 1 \in 1..MaxTries
        BY <1>2, <2>3, HopsAssumption, TriesAssumption
      <4> QED
        BY <1>2, <3>1, <4>1 DEF Threads
    <3>3. HopInv'
      <4>1. 1..(thread'.hop - 1) = 1..thread.hop
        BY <1>2, <3>2
      <4>2. \A h \in 1..thread.hop : 1..(h - 1) \subseteq 1..thread.hop
        BY <1>2
      <4> QED
        BY <2>1, <3>2, <4>1, <4>2 DEF HopInv
    <3>4. authed # 1..Hops
      <4>1. authed = 1..(thread.hop - 1) /\ Hops \in 1..Hops /\ Hops \notin 1..(thread.hop - 1)
        BY <1>1, <1>2, HopsAssumption DEF SessionInv, HopInv
      <4> QED
        BY <4>1
    <3>5. ConnectedInv'
      BY <1>1, <3>1, <3>4 DEF SessionInv, ConnectedInv
    <3>6. Latest' = Latest /\ Sent' = Sent
      BY <1>1, <3>1 DEF Latest, Sent
    <3>7. Latest \in Stage => Latest \in Stage'
      BY <1>1, <2>3, <3>2 DEF Stage
    <3>8. TrailInv'
      BY <1>1, <3>1, <3>6, <3>7 DEF SessionInv, TrailInv, Continues
    <3> QED
      BY <1>1, <3>1, <3>2, <3>3, <3>5, <3>8 DEF SessionInv, Types
  <2> QED
    BY <2>2, <2>3
<1> QED
  BY <1>3, <1>4, <1>5 DEF Authenticate

(* What drive() does with one command, or when every sender is gone.        *)
LEMMA TakeCommandStep == SessionInv /\ TakeCommand => SessionInv'
<1> SUFFICES ASSUME SessionInv, TakeCommand PROVE SessionInv'
  OBVIOUS
<1>1. /\ out = <<>> /\ thread.pc = "drive" /\ UNCHANGED <<events, reading, seen>>
      /\ thread \in Threads /\ thread.cause # "start"
  BY DEF TakeCommand, At, eventVars, SessionInv, Types
<1>2. CASE UNCHANGED <<thread, out, dialVars>>
  BY <1>1, <1>2, QuietStep
<1>3. CASE Goto("input") /\ UNCHANGED <<out, dialVars>>
  <2>1. thread' \in Threads /\ thread'.pc = "input" /\ thread'.cause # "start"
    BY <1>1, <1>3 DEF Goto, Threads
  <2> QED
    BY <1>1, <1>3, <2>1, SilentStep
<1>4. CASE Leave("user") /\ UNCHANGED <<out, dialVars>>
  <2>1. thread' \in Threads /\ thread'.pc = "disconnect" /\ thread'.cause # "start"
    BY <1>1, <1>4 DEF Leave, Threads
  <2> QED
    BY <1>1, <1>4, <2>1, SilentStep
<1> QED
  BY <1>2, <1>3, <1>4 DEF TakeCommand

(* Input is written, or the write fails.                                    *)
LEMMA WriteStep == SessionInv /\ (WriteInput \/ WriteFails) => SessionInv'
<1> SUFFICES ASSUME SessionInv, WriteInput \/ WriteFails PROVE SessionInv'
  OBVIOUS
<1>1. /\ out = <<>> /\ thread.pc = "input" /\ UNCHANGED <<events, reading, seen>>
      /\ thread \in Threads /\ thread.cause # "start"
  BY DEF WriteInput, WriteFails, At, eventVars, SessionInv, Types
<1>2. CASE Fail
  BY <1>1, <1>2, FailingStep
<1>3. CASE Goto("drive") /\ UNCHANGED <<out, dialVars>>
  <2>1. thread' \in Threads /\ thread'.pc = "drive" /\ thread'.cause # "start"
    BY <1>1, <1>3 DEF Goto, Threads
  <2> QED
    BY <1>1, <1>3, <2>1, SilentStep
<1> QED
  BY <1>2, <1>3 DEF WriteInput, WriteFails

(* What drive() does with one message of the server. *)
LEMMA TakeMessageStep == SessionInv /\ TakeMessage => SessionInv'
<1> SUFFICES ASSUME SessionInv, TakeMessage PROVE SessionInv'
  OBVIOUS
<1>1. /\ out = <<>> /\ thread.pc = "drive" /\ UNCHANGED <<dialVars, events, reading, seen>>
      /\ thread \in Threads /\ thread.cause # "start"
  BY DEF TakeMessage, At, eventVars, SessionInv, Types
<1>2. CASE out' = <<"Data">> /\ UNCHANGED thread
  <2>1. HopInv'
    BY <1>1, <1>2 DEF SessionInv, HopInv, dialVars
  <2>2. "Data" \in EventNames /\ "Data" \in Stage' /\ \A x \in Stage : "Data" \in LC!Follows(x)
    BY <1>1, <1>2, FollowsFacts DEF Stage, EventNames
  <2> QED
    BY <1>1, <1>2, <2>1, <2>2, SpeakingStep DEF dialVars
<1>3. CASE /\ \E x \in {None, Status, Signal} : thread' = [thread EXCEPT !.exit = x]
           /\ UNCHANGED out
  <2>1. /\ thread' \in Threads /\ thread'.pc = thread.pc /\ thread'.hop = thread.hop
        /\ thread'.cause = thread.cause
    BY <1>1, <1>3 DEF Threads
  <2> QED
    BY <1>1, <1>3, <2>1, QuietStep
<1>4. CASE Leave("server") /\ UNCHANGED out
  <2>1. thread' \in Threads /\ thread'.pc = "disconnect" /\ thread'.cause # "start"
    BY <1>1, <1>4 DEF Leave, Threads
  <2> QED
    BY <1>1, <1>4, <2>1, SilentStep
<1>5. thread.exit \in {None, Status, Signal}
  BY <1>1 DEF Threads
<1>6. ASSUME thread' = [thread EXCEPT !.exit = IF @ = None THEN Signal ELSE @]
      PROVE  \E x \in {None, Status, Signal} : thread' = [thread EXCEPT !.exit = x]
  <2>1. CASE thread.exit = None
    BY <1>6, <2>1
  <2>2. CASE thread.exit # None
    BY <1>5, <1>6, <2>2
  <2> QED
    BY <2>1, <2>2
<1>7. ASSUME thread' = [thread EXCEPT !.exit = Status]
      PROVE  \E x \in {None, Status, Signal} : thread' = [thread EXCEPT !.exit = x]
  BY <1>7
<1> QED
  BY <1>2, <1>3, <1>4, <1>6, <1>7 DEF TakeMessage

(* The rest of the thread: the channel opens, closes, and the thread ends.  *)
LEMMA EndStep ==
  SessionInv /\ (OpenChannel \/ Disconnect \/ Exit) => SessionInv'
<1> SUFFICES ASSUME SessionInv, OpenChannel \/ Disconnect \/ Exit PROVE SessionInv'
  OBVIOUS
<1>1. thread \in Threads
  BY DEF SessionInv, Types
<1>2. CASE OpenChannel
  <2>1. out = <<>> /\ thread.pc = "open" /\ UNCHANGED <<events, reading, seen>>
    BY <1>2 DEF OpenChannel, At, eventVars
  <2>2. CASE Fail
    BY <2>1, <2>2, FailingStep
  <2>3. CASE Goto("drive") /\ UNCHANGED <<out, dialVars>>
    <3>1. thread' \in Threads /\ thread'.pc = "drive" /\ thread'.cause # "start"
      BY <1>1, <2>1, <2>3 DEF Goto, Threads, SessionInv, Types
    <3> QED
      BY <2>1, <2>3, <3>1, SilentStep
  <2> QED
    BY <1>2, <2>2, <2>3 DEF OpenChannel
<1>3. CASE Disconnect
  <2>1. /\ out = <<>> /\ thread.pc = "disconnect" /\ out' = <<"Closed">>
        /\ UNCHANGED <<events, reading, seen, verified, authed>>
    BY <1>3 DEF Disconnect, At, eventVars, dialVars
  <2>2. thread' \in Threads /\ thread'.pc = "ending" /\ thread'.cause # "start"
    BY <1>1, <1>3, <2>1 DEF Disconnect, Goto, Threads, SessionInv, Types
  <2>3. HopInv'
    BY <2>1, <2>2 DEF SessionInv, HopInv
  <2>4. "Closed" \in EventNames /\ "Closed" \in Stage' /\ \A x \in Stage : "Closed" \in LC!Follows(x)
    BY <2>1, <2>2, FollowsFacts DEF Stage, EventNames
  <2> QED
    BY <2>1, <2>2, <2>3, <2>4, SpeakingStep
<1>4. CASE Exit
  <2>1. thread.pc = "ending" /\ UNCHANGED <<out, dialVars, events, reading, seen>>
    BY <1>4 DEF Exit, At, eventVars
  <2>2. thread' \in Threads /\ thread'.pc = "over" /\ thread'.cause = thread.cause
    BY <1>1, <1>4 DEF Exit, Goto, Threads
  <2> QED
    BY <2>1, <2>2, SilentStep
<1> QED
  BY <1>2, <1>3, <1>4

(* The interface takes the first event, which follows the one before.       *)
LEMMA ConsumeStep == SessionInv /\ Consume => SessionInv'
<1> SUFFICES ASSUME SessionInv, Consume PROVE SessionInv'
  OBVIOUS
<1>1. /\ events \in Seq(EventNames) /\ events # <<>> /\ reading
      /\ events' = Tail(events) /\ seen' = Head(events)
      /\ UNCHANGED <<thread, out, verified, authed, reading>>
  BY DEF Consume, SessionInv, Types, dialVars
<1>2. /\ Len(events) \in Nat \ {0} /\ seen' = events[1] /\ seen' \in EventNames
      /\ events' \in Seq(EventNames) /\ Len(events') = Len(events) - 1
      /\ \A i \in 1..Len(events') : events'[i] = events[i + 1]
      /\ events' = <<>> <=> Len(events) = 1
  BY <1>1, TailFacts
<1>3. \A i \in 1..Len(events') : i + 1 \in 1..Len(events)
  BY <1>2
<1>4. ConnectedInv'
  BY <1>1, <1>2, <1>3 DEF SessionInv, ConnectedInv
<1>5. HopInv'
  BY <1>1 DEF SessionInv, HopInv
<1>6. Sent' = Sent
  <2>1. CASE Len(events) = 1
    BY <1>1, <1>2, <2>1 DEF Sent
  <2>2. CASE Len(events) # 1
    <3>1. Len(events') \in 1..Len(events') /\ Len(events') + 1 = Len(events)
      BY <1>2, <2>2
    <3> QED
      BY <1>1, <1>2, <2>2, <3>1 DEF Sent
  <2> QED
    BY <2>1, <2>2
<1>7. Latest' = Latest
  BY <1>1, <1>6 DEF Latest
<1>8. Continues
  BY <1>1 DEF SessionInv, TrailInv
<1>9. events' # <<>> => events'[1] \in LC!Follows(seen')
  <2> SUFFICES ASSUME events' # <<>> PROVE events'[1] \in LC!Follows(seen')
    OBVIOUS
  <2>1. 1 \in 1..Len(events') /\ 1 \in 1..Len(events) /\ 1 + 1 \in 1..Len(events)
    BY <1>2
  <2> QED
    BY <1>2, <1>8, <2>1 DEF Continues
<1>10. \A i \in 1..Len(events') : i + 1 \in 1..Len(events') =>
         events'[i + 1] \in LC!Follows(events'[i])
  <2> SUFFICES ASSUME NEW i \in 1..Len(events'), i + 1 \in 1..Len(events')
               PROVE  events'[i + 1] \in LC!Follows(events'[i])
    OBVIOUS
  <2>1. i + 1 \in 1..Len(events) /\ (i + 1) + 1 \in 1..Len(events)
    BY <1>3
  <2> QED
    BY <1>2, <1>8, <2>1 DEF Continues
<1>11. Continues'
  BY <1>1, <1>6, <1>7, <1>8, <1>9, <1>10 DEF Continues, Stage
<1> QED
  BY <1>1, <1>2, <1>4, <1>5, <1>11 DEF SessionInv, Types, TrailInv

(* Everything else: tasks, commands, the server, and a receiver that goes.  *)
LEMMA OtherStep ==
  SessionInv /\ (DropReceiver \/ UNCHANGED <<thread, out, dialVars, events, reading, seen>>)
    => SessionInv'
<1> SUFFICES ASSUME SessionInv,
                    DropReceiver \/ UNCHANGED <<thread, out, dialVars, events, reading, seen>>
             PROVE  SessionInv'
  OBVIOUS
<1>1. CASE DropReceiver
  <2>1. /\ events' = <<>> /\ ~ reading' /\ reading' \in BOOLEAN
        /\ UNCHANGED <<thread, out, verified, authed, seen>>
    BY <1>1 DEF DropReceiver, dialVars
  <2>2. events' \in Seq(EventNames) /\ Len(events') = 0
    BY <2>1
  <2>3. Types' /\ TrailInv'
    BY <2>1, <2>2 DEF SessionInv, Types, TrailInv
  <2>4. HopInv' /\ ConnectedInv'
    BY <2>1, <2>2 DEF SessionInv, HopInv, ConnectedInv
  <2> QED
    BY <2>3, <2>4 DEF SessionInv
<1>2. CASE UNCHANGED <<thread, out, dialVars, events, reading, seen>>
  BY <1>2, QuietStep DEF SessionInv, Types
<1> QED
  BY <1>1, <1>2

(* Every step keeps the invariant of the path through the lifecycle.       *)
LEMMA SessionStep == SessionInv /\ [Next]_vars => SessionInv'
<1> SUFFICES ASSUME SessionInv, [Next]_vars PROVE SessionInv'
  OBVIOUS
<1>1. CASE ThreadStep
  BY <1>1, EmitStep, DialStep, AuthenticateStep, TakeMessageStep, WriteStep, EndStep
     DEF ThreadStep, OwnStep
<1>2. CASE TakeCommand
  BY <1>2, TakeCommandStep
<1>3. CASE Consume
  BY <1>3, ConsumeStep
<1>4. CASE DropReceiver
  BY <1>4, OtherStep
<1>5. CASE \E t \in Tasks : TakeLock(t) \/ Answered(t) \/ SendTask(t)
  BY <1>5, OtherStep DEF TakeLock, Answered, SendTask, dialVars, eventVars
<1>6. CASE SendInput \/ SendClose \/ DropHandle
  BY <1>6, OtherStep DEF SendInput, SendClose, DropHandle, dialVars, eventVars
<1>7. CASE ServeData \/ ServeExit \/ ServeEof \/ ServeClose \/ Widen
  BY <1>7, OtherStep DEF ServeData, ServeExit, ServeEof, ServeClose, Serve, Widen, dialVars, eventVars
<1>8. CASE UNCHANGED vars
  BY <1>8, OtherStep DEF vars, dialVars
<1> QED
  BY <1>1, <1>2, <1>3, <1>4, <1>5, <1>6, <1>7, <1>8 DEF Next

------------------------------------------------------------------------------
(* The theorems *)

(* SessionInv holds in every reachable state. *)
THEOREM Invariant == Spec => []SessionInv
<1>1. Init => SessionInv
  <2> SUFFICES ASSUME Init PROVE SessionInv
    OBVIOUS
  <2>1. "Connecting" \in EventNames /\ "Error" \in EventNames
    BY DEF EventNames
  <2>2. PICK pc, cause, e :
          /\ thread = [pc |-> pc, hop |-> 1, try |-> 1, exit |-> None, cause |-> cause]
          /\ out = <<e>>
          /\ \/ pc = "dial" /\ cause = "none" /\ e = "Connecting"
             \/ pc = "ending" /\ cause = "start" /\ e = "Error"
    BY DEF Init, Started
  <2>3. /\ out \in Seq(EventNames) /\ Len(out) = 1 /\ out[1] = e /\ out # <<>>
        /\ events = <<>> /\ events \in Seq(EventNames) /\ Len(events) = 0
    BY <2>1, <2>2, SingleFacts DEF Init
  <2>4. Types
    BY <2>2, <2>3, HopsAssumption, TriesAssumption DEF Init, Types, Threads
  <2>5. HopInv
    BY <2>2, HopsAssumption DEF Init, HopInv
  <2>6. ConnectedInv
    BY <2>2, <2>3 DEF Init, ConnectedInv
  <2>7. TrailInv
    BY <2>2, <2>3, FollowsFacts DEF Init, TrailInv, Continues, Sent, Latest, Stage
  <2> QED
    BY <2>4, <2>5, <2>6, <2>7 DEF SessionInv
<1> QED
  BY <1>1, SessionStep, PTL DEF Spec

(* No hop is dialled before the one it is reached through has shown its     *)
(* known key and accepted the credentials, and Connected is seen only after *)
(* the last one has, for a chain of any length.                             *)
THEOREM HopsAlwaysInOrder == Spec => []HopsInOrder
<1>1. SessionInv => HopsInOrder
  BY DEF SessionInv, HopInv, ConnectedInv, HopsInOrder
<1> QED
  BY <1>1, Invariant, PTL

(* The interface sees the events of a session in an order SessionLifecycle  *)
(* allows, however full the channels are and whoever goes first.            *)
THEOREM LifecycleKept == Spec => Lifecycle
<1>1. Init => LC!Init
  BY DEF Init, LC!Init
<1>2. SessionInv /\ [Next]_vars => [LC!Next]_seen
  <2> SUFFICES ASSUME SessionInv, [Next]_vars, seen' # seen PROVE LC!Next
    OBVIOUS
  <2>1. Consume
    BY DEF Next, ThreadStep, OwnStep, Emit, Dial, Authenticate, OpenChannel, TakeMessage,
           WriteInput, WriteFails, Widen, Disconnect, Exit, TakeCommand, TakeLock, Answered, SendTask, SendInput, SendClose, DropHandle,
           DropReceiver, ServeData, ServeExit, ServeEof, ServeClose, Serve, eventVars, vars
  <2>2. events # <<>> /\ seen' = events[1]
    BY <2>1, TailFacts DEF Consume, SessionInv, Types
  <2> QED
    BY <2>1, <2>2 DEF Consume, SessionInv, TrailInv, Continues, LC!Next
<1> QED
  BY <1>1, <1>2, Invariant, PTL DEF Spec, Lifecycle, LC!Spec

------------------------------------------------------------------------------
(* The end of a session: its output and its exit status *)

Messages == {"Data", "Status", "Signal", "Eof", "Close"}

(* How many chunks of output a queue holds. *)
Chunks(s)  == {i \in 1..Len(s) : s[i] = "Data"}
Count(s) == Cardinality(Chunks(s))

ServerTypes ==
  /\ server \in [data : Nat, exit : {None, Status, Signal}, eof : BOOLEAN,
                 closed : BOOLEAN, early : BOOLEAN]
  /\ inbox \in Seq(Messages)
  /\ heard \in Nat

(* A session that goes on has no cause to end, and a message on its way was *)
(* sent.                                                                    *)
MessageInv ==
  /\ thread.pc \in {"dial", "auth", "open", "drive", "input"} => thread.cause = "none"
  /\ \A i \in 1..Len(inbox) :
       /\ inbox[i] = "Status" => server.exit = Status
       /\ inbox[i] = "Signal" => server.exit = Signal
       /\ inbox[i] = "Eof" => server.eof
       /\ inbox[i] = "Close" => server.closed

(* A status sent before the end of file was taken, or is on its way before  *)
(* anything that ends the session.                                          *)
StatusInv ==
  /\ thread.exit # None => thread.exit = server.exit
  /\ server.early /\ thread.cause = "none" =>
       \/ thread.exit = server.exit
       \/ \E i \in 1..Len(inbox) :
            /\ inbox[i] \in {"Status", "Signal"}
            /\ \A j \in 1..(i - 1) : inbox[j] \notin {"Eof", "Close"}
  /\ server.early /\ thread.cause = "server" => thread.exit = server.exit

(* While the session goes on, an end of file that was sent is on its way,   *)
(* with all the output and no close before it.                              *)
EofAhead ==
  \E j \in 1..Len(inbox) :
    /\ inbox[j] = "Eof"
    /\ \A i \in j..Len(inbox) : inbox[i] # "Data"
    /\ \A i \in 1..(j - 1) : inbox[i] \notin {"Eof", "Close"}

(* Every chunk the server sent was heard, or is in exactly one of the       *)
(* queues; past the end of file none is left in the inbox.  A receiver that *)
(* was dropped after Closed had heard them all.                             *)
OutputInv ==
  /\ server.eof /\ thread.cause = "none" => EofAhead
  /\ server.eof /\ thread.cause = "server" => Count(inbox) = 0
  /\ reading /\ thread.cause \in {"none", "server"} =>
       heard + Count(events) + Count(out) + Count(inbox) = server.data
  /\ ~ reading /\ seen = "Closed" => thread.pc \in {"ending", "over"} /\ OutputComplete

EndInv == ServerTypes /\ MessageInv /\ StatusInv /\ OutputInv

(* Lemmas about counting *)

(* The chunks of data in a sequence are finitely many.                     *)
LEMMA CountType ==
  ASSUME NEW s, Len(s) \in Nat
  PROVE  IsFiniteSet(Chunks(s)) /\ Count(s) \in Nat
<1>1. IsFiniteSet(1..Len(s)) /\ Chunks(s) \in SUBSET (1..Len(s))
  BY FS_Interval DEF Chunks
<1>2. IsFiniteSet(Chunks(s))
  BY <1>1, FS_Subset
<1> QED
  BY <1>2, FS_CardinalityType DEF Count

(* No output in a queue that holds none. *)
LEMMA CountNone ==
  ASSUME NEW s, \A i \in 1..Len(s) : s[i] # "Data"
  PROVE  Count(s) = 0
<1>1. Chunks(s) = {}
  BY DEF Chunks
<1> QED
  BY <1>1, FS_EmptySet DEF Count

(* One chunk of data counts as one.                                        *)
LEMMA CountOne == Count(<<"Data">>) = 1
<1>1. Chunks(<<"Data">>) = {1}
  BY DEF Chunks
<1> QED
  BY <1>1, FS_Singleton DEF Count

(* Nothing counts as none.                                                 *)
LEMMA CountEmpty == Count(<<>>) = 0
BY CountNone

(* What is added at the end counts as one chunk or as none. *)
LEMMA CountAppend ==
  ASSUME NEW S, NEW s \in Seq(S), NEW e \in S
  PROVE  Count(Append(s, e)) = Count(s) + (IF e = "Data" THEN 1 ELSE 0)
<1> DEFINE t == Append(s, e)
<1>1. /\ Len(s) \in Nat /\ Len(t) = Len(s) + 1
      /\ \A i \in 1..Len(s) : t[i] = s[i]
      /\ t[Len(s) + 1] = e
  OBVIOUS
<1>2. IsFiniteSet(Chunks(s)) /\ Len(s) + 1 \notin Chunks(s)
  BY <1>1, CountType DEF Chunks
<1>3. CASE e = "Data"
  <2>1. Chunks(t) = Chunks(s) \cup {Len(s) + 1}
    <3>1. 1..Len(t) = 1..Len(s) \cup {Len(s) + 1}
      BY <1>1
    <3>2. \A i : i \in Chunks(t) <=> i \in Chunks(s) \/ i = Len(s) + 1
      BY <1>1, <1>3, <3>1 DEF Chunks
    <3> QED
      BY <3>2
  <2> QED
    BY <1>2, <1>3, <2>1, FS_AddElement DEF Count
<1>4. CASE e # "Data"
  <2>1. Chunks(t) = Chunks(s)
    <3>1. 1..Len(t) = 1..Len(s) \cup {Len(s) + 1}
      BY <1>1
    <3>2. \A i : i \in Chunks(t) <=> i \in Chunks(s)
      BY <1>1, <1>4, <3>1 DEF Chunks
    <3> QED
      BY <3>2
  <2> QED
    BY <1>1, <1>4, <2>1, CountType DEF Count
<1> QED
  BY <1>3, <1>4

(* What leaves at the front was one chunk or none. *)
LEMMA CountTail ==
  ASSUME NEW S, NEW s \in Seq(S), s # <<>>
  PROVE  Count(s) = Count(Tail(s)) + (IF Head(s) = "Data" THEN 1 ELSE 0)
<1> DEFINE t == Tail(s)
<1> DEFINE Rest == Chunks(s) \ {1}
<1>1. /\ Len(s) \in Nat \ {0} /\ Len(t) = Len(s) - 1 /\ Head(s) = s[1]
      /\ \A i \in 1..Len(t) : t[i] = s[i + 1]
  OBVIOUS
<1>2. IsFiniteSet(Chunks(s)) /\ IsFiniteSet(Chunks(t))
  BY <1>1, CountType
<1>3. Cardinality(Rest) = Count(t)
  <2> DEFINE f == [i \in Chunks(t) |-> i + 1]
  <2>1. \A i \in Chunks(t) : i + 1 \in Rest
    BY <1>1 DEF Chunks
  <2>2. \A j \in Rest : j - 1 \in Chunks(t) /\ (j - 1) + 1 = j
    <3> SUFFICES ASSUME NEW j \in Rest PROVE j - 1 \in Chunks(t) /\ (j - 1) + 1 = j
      OBVIOUS
    <3>1. j \in 2..Len(s) /\ s[j] = "Data"
      BY <1>1 DEF Chunks
    <3>2. j - 1 \in 1..Len(t) /\ (j - 1) + 1 = j
      BY <1>1, <3>1
    <3> QED
      BY <1>1, <3>1, <3>2 DEF Chunks
  <2>3. f \in [Chunks(t) -> Rest]
    BY <2>1
  <2>4. \A i, j \in Chunks(t) : f[i] = f[j] => i = j
    BY <1>1 DEF Chunks
  <2>5. \A j \in Rest : \E i \in Chunks(t) : f[i] = j
    BY <2>2
  <2>6. f \in Bijection(Chunks(t), Rest)
    BY <2>3, <2>4, <2>5 DEF Bijection, Injection, Surjection, IsInjective
  <2> QED
    BY <1>2, <2>6, FS_Bijection DEF ExistsBijection, Count
<1>4. CASE s[1] = "Data"
  <2>1. 1 \in Chunks(s)
    BY <1>1, <1>4 DEF Chunks
  <2>2. Cardinality(Rest) = Count(s) - 1
    BY <1>2, <2>1, FS_RemoveElement DEF Count
  <2> QED
    BY <1>1, <1>3, <1>4, <2>2, CountType
<1>5. CASE s[1] # "Data"
  <2>1. Rest = Chunks(s)
    BY <1>5 DEF Chunks
  <2>2. Count(s) = Count(t)
    BY <1>3, <2>1 DEF Count
  <2>3. Count(t) \in Nat
    BY <1>1, CountType
  <2> QED
    BY <1>1, <1>5, <2>2, <2>3
<1> QED
  BY <1>4, <1>5

(* Kinds of steps *)

(* Steps that leave the queues, the server and what was heard alone, and    *)
(* whose cause, if the session now ends, is not the server.                 *)
LEMMA CalmStep ==
  ASSUME EndInv, UNCHANGED <<server, inbox, events, reading, seen, heard>>,
         Count(out') = Count(out),
         thread'.exit = thread.exit,
         thread'.cause = thread.cause \/ thread'.cause \in {"user", "error"},
         thread'.pc \in {"dial", "auth", "open", "drive", "input"} => thread'.cause = "none",
         thread.pc \in {"ending", "over"} =>
           thread'.pc \in {"ending", "over"} /\ thread'.cause = thread.cause
  PROVE  EndInv'
<1>1. ServerTypes' /\ MessageInv'
  BY DEF EndInv, ServerTypes, MessageInv
<1>2. StatusInv'
  <2>1. thread'.cause = "none" => thread.cause = "none"
    OBVIOUS
  <2>2. thread'.cause = "server" => thread.cause = "server"
    OBVIOUS
  <2> QED
    BY <2>1, <2>2 DEF EndInv, StatusInv
<1>3. OutputInv'
  <2>1. thread'.cause = "none" => thread.cause = "none"
    OBVIOUS
  <2>2. thread'.cause = "server" => thread.cause = "server"
    OBVIOUS
  <2>3. EofAhead' = EofAhead /\ Count(inbox') = Count(inbox) /\ Count(events') = Count(events)
    BY DEF EofAhead
  <2>4. server'.eof /\ thread'.cause = "none" => EofAhead'
    BY <2>1, <2>3 DEF EndInv, OutputInv
  <2>5. server'.eof /\ thread'.cause = "server" => Count(inbox') = 0
    BY <2>2, <2>3 DEF EndInv, OutputInv
  <2>6. reading' /\ thread'.cause \in {"none", "server"} =>
          heard' + Count(events') + Count(out') + Count(inbox') = server'.data
    BY <2>1, <2>2, <2>3 DEF EndInv, OutputInv
  <2>7. ~ reading' /\ seen' = "Closed" => thread'.pc \in {"ending", "over"} /\ OutputComplete'
    BY DEF EndInv, OutputInv, OutputComplete
  <2> QED
    BY <2>4, <2>5, <2>6, <2>7 DEF OutputInv
<1> QED
  BY <1>1, <1>2, <1>3 DEF EndInv

(* An event that is not output counts as nothing. *)
LEMMA CountOthers ==
  /\ Count(<<"Authenticating">>) = 0 /\ Count(<<"Connected">>) = 0
  /\ Count(<<"Closed">>) = 0 /\ Count(<<"Error", "Failed">>) = 0
  /\ Count(<<"Connecting">>) = 0 /\ Count(<<"Error">>) = 0
<1>1. Count(<<"Authenticating">>) = 0
  BY CountNone
<1>2. Count(<<"Connected">>) = 0
  BY CountNone
<1>3. Count(<<"Closed">>) = 0
  BY CountNone
<1>4. Count(<<"Error", "Failed">>) = 0
  <2>1. \A i \in 1..Len(<<"Error", "Failed">>) : <<"Error", "Failed">>[i] # "Data"
    OBVIOUS
  <2> QED
    BY <2>1, CountNone
<1>5. Count(<<"Connecting">>) = 0
  BY CountNone
<1>6. Count(<<"Error">>) = 0
  BY CountNone
<1> QED
  BY <1>1, <1>2, <1>3, <1>4, <1>5, <1>6

(* A failure ends the session for a cause that promises nothing. *)
LEMMA FailingEnd ==
  ASSUME SessionInv, EndInv, out = <<>>, Fail, thread.pc \notin {"ending", "over"},
         UNCHANGED <<server, inbox, events, reading, seen, heard>>
  PROVE  EndInv'
<1>1. thread'.exit = thread.exit /\ thread'.cause = "error" /\ thread'.pc = "ending"
  BY DEF Fail, SessionInv, Types, Threads
<1>2. Count(out') = Count(out)
  BY CountEmpty, CountOthers DEF Fail
<1> QED
  BY <1>1, <1>2, CalmStep

(* While the thread connects, the server has sent nothing and no end is due. *)
LEMMA DialingEnd ==
  SessionInv /\ EndInv /\ (Dial \/ Authenticate \/ OpenChannel) => EndInv'
<1> SUFFICES ASSUME SessionInv, EndInv, Dial \/ Authenticate \/ OpenChannel PROVE EndInv'
  OBVIOUS
<1>1. /\ out = <<>> /\ thread.pc \in {"dial", "auth", "open"} /\ thread.cause = "none"
      /\ UNCHANGED <<server, inbox, events, reading, seen, heard>>
      /\ thread \in Threads
  BY DEF Dial, Authenticate, OpenChannel, At, eventVars, serverVars, EndInv, MessageInv,
         SessionInv, Types
<1>2. CASE Fail
  BY <1>1, <1>2, FailingEnd
<1>3. CASE ~ Fail
  <2>1. /\ thread'.exit = thread.exit /\ thread'.cause = thread.cause
        /\ thread'.pc \in {"dial", "auth", "open", "drive"}
    BY <1>1, <1>3 DEF Dial, Authenticate, OpenChannel, Goto, Threads
  <2>2. out' \in {<<>>, <<"Authenticating">>, <<"Connected">>}
    BY <1>1, <1>3 DEF Dial, Authenticate, OpenChannel
  <2>3. Count(out') = Count(out)
    BY <1>1, <2>2, CountEmpty, CountOthers
  <2> QED
    BY <1>1, <2>1, <2>3, CalmStep
<1> QED
  BY <1>2, <1>3

(* A command of the interface does not touch what the server sent.         *)
LEMMA CommandEnd == SessionInv /\ EndInv /\ TakeCommand => EndInv'
<1> SUFFICES ASSUME SessionInv, EndInv, TakeCommand PROVE EndInv'
  OBVIOUS
<1>1. /\ out = <<>> /\ thread.pc = "drive" /\ thread.cause = "none"
      /\ UNCHANGED <<server, inbox, events, reading, seen, heard>>
      /\ thread \in Threads
  BY DEF TakeCommand, At, eventVars, serverVars, EndInv, MessageInv, SessionInv, Types
<1>2. /\ thread'.exit = thread.exit
      /\ \/ thread'.cause = thread.cause /\ thread'.pc \in {"drive", "input"}
         \/ thread'.cause = "user" /\ thread'.pc = "disconnect"
      /\ UNCHANGED out
  BY <1>1 DEF TakeCommand, Goto, Leave, Threads
<1> QED
  BY <1>1, <1>2, CalmStep

(* Nor does writing its input, whether it is written or fails.              *)
LEMMA WriteEnd == SessionInv /\ EndInv /\ (WriteInput \/ WriteFails) => EndInv'
<1> SUFFICES ASSUME SessionInv, EndInv, WriteInput \/ WriteFails PROVE EndInv'
  OBVIOUS
<1>1. /\ out = <<>> /\ thread.pc = "input" /\ thread.cause = "none"
      /\ UNCHANGED <<server, inbox, events, reading, seen, heard>>
      /\ thread \in Threads
  BY DEF WriteInput, WriteFails, At, eventVars, serverVars, EndInv, MessageInv, SessionInv, Types
<1>2. CASE Fail
  BY <1>1, <1>2, FailingEnd
<1>3. CASE Goto("drive") /\ UNCHANGED out
  <2>1. thread'.exit = thread.exit /\ thread'.cause = thread.cause /\ thread'.pc = "drive"
    BY <1>1, <1>3 DEF Goto, Threads
  <2> QED
    BY <1>1, <1>3, <2>1, CalmStep
<1> QED
  BY <1>2, <1>3 DEF WriteInput, WriteFails

(* The channel is closed, the thread ends: what was promised stays.         *)
LEMMA ClosingEnd == SessionInv /\ EndInv /\ (Disconnect \/ Exit) => EndInv'
<1> SUFFICES ASSUME SessionInv, EndInv, Disconnect \/ Exit PROVE EndInv'
  OBVIOUS
<1>1. /\ out = <<>> /\ UNCHANGED <<server, inbox, events, reading, seen, heard>>
      /\ thread \in Threads
  BY DEF Disconnect, Exit, At, eventVars, serverVars, SessionInv, Types
<1>2. /\ thread'.exit = thread.exit /\ thread'.cause = thread.cause
      /\ thread'.pc \in {"ending", "over"}
      /\ out' \in {<<>>, <<"Closed">>}
  BY <1>1 DEF Disconnect, Exit, Goto, Threads
<1>3. Count(out') = Count(out)
  BY <1>1, <1>2, CountEmpty, CountOthers
<1> QED
  BY <1>1, <1>2, <1>3, CalmStep

(* The messages behind the first one keep their order. *)
LEMMA InboxTail ==
  ASSUME EndInv, inbox # <<>>, inbox' = Tail(inbox)
  PROVE  /\ inbox' \in Seq(Messages) /\ Head(inbox) = inbox[1] /\ Head(inbox) \in Messages
         /\ Len(inbox) \in Nat \ {0} /\ Len(inbox') = Len(inbox) - 1
         /\ \A i \in 1..Len(inbox') : i + 1 \in 1..Len(inbox) /\ inbox'[i] = inbox[i + 1]
         /\ Count(inbox) = Count(inbox') + (IF Head(inbox) = "Data" THEN 1 ELSE 0)
         /\ Count(inbox') \in Nat
<1>1. inbox \in Seq(Messages) /\ inbox # <<>>
  BY DEF EndInv, ServerTypes
<1>2. /\ Tail(inbox) \in Seq(Messages) /\ Head(inbox) = inbox[1] /\ Head(inbox) \in Messages
      /\ Len(inbox) \in Nat \ {0} /\ Len(Tail(inbox)) = Len(inbox) - 1
      /\ \A i \in 1..Len(Tail(inbox)) : i + 1 \in 1..Len(inbox) /\ Tail(inbox)[i] = inbox[i + 1]
  BY <1>1
<1>3. Count(inbox) = Count(Tail(inbox)) + (IF Head(inbox) = "Data" THEN 1 ELSE 0)
  BY <1>1, CountTail
<1>4. Count(Tail(inbox)) \in Nat
  BY <1>2, CountType
<1> QED
  BY <1>2, <1>3, <1>4

(* One message is taken: output goes on its way, a status is kept, and an   *)
(* end of file or a close leaves nothing of value behind it.                *)
LEMMA MessageEnd == SessionInv /\ EndInv /\ TakeMessage => EndInv'
<1> SUFFICES ASSUME SessionInv, EndInv, TakeMessage PROVE EndInv'
  OBVIOUS
<1> DEFINE m == Head(inbox)
<1>1. /\ out = <<>> /\ thread.pc = "drive" /\ thread.cause = "none"
      /\ inbox # <<>> /\ inbox' = Tail(inbox)
      /\ UNCHANGED <<server, events, reading, seen, heard>>
      /\ thread \in Threads
  BY DEF TakeMessage, At, eventVars, serverVars, EndInv, MessageInv, SessionInv, Types
<1>2. /\ inbox' \in Seq(Messages) /\ m = inbox[1] /\ m \in Messages
      /\ Len(inbox) \in Nat \ {0} /\ Len(inbox') = Len(inbox) - 1
      /\ \A i \in 1..Len(inbox') : i + 1 \in 1..Len(inbox) /\ inbox'[i] = inbox[i + 1]
      /\ Count(inbox) = Count(inbox') + (IF m = "Data" THEN 1 ELSE 0)
      /\ Count(inbox') \in Nat
  BY <1>1, InboxTail
<1>3. /\ m = "Status" => server.exit = Status
      /\ m = "Signal" => server.exit = Signal
      /\ m = "Eof" => server.eof
      /\ m = "Close" => server.closed
  BY <1>2 DEF EndInv, MessageInv
<1>4. /\ m = "Data" => out' = <<"Data">> /\ thread' = thread
      /\ m \in {"Status", "Signal"} =>
           /\ out' = out /\ thread'.pc = "drive" /\ thread'.cause = "none"
           /\ thread'.exit = server.exit
      /\ m \in {"Eof", "Close"} =>
           /\ out' = out /\ thread'.pc = "disconnect" /\ thread'.cause = "server"
           /\ thread'.exit = thread.exit
  <2>1. m = "Data" => out' = <<"Data">> /\ thread' = thread
    BY DEF TakeMessage
  <2>2. m \in {"Eof", "Close"} =>
          /\ out' = out /\ thread'.pc = "disconnect" /\ thread'.cause = "server"
          /\ thread'.exit = thread.exit
    BY <1>1 DEF TakeMessage, Leave, Threads
  <2>3. m = "Status" =>
          /\ out' = out /\ thread'.pc = "drive" /\ thread'.cause = "none"
          /\ thread'.exit = server.exit
    BY <1>1, <1>3 DEF TakeMessage, Threads
  <2>4. m = "Signal" =>
          /\ out' = out /\ thread'.pc = "drive" /\ thread'.cause = "none"
          /\ thread'.exit = IF thread.exit = None THEN Signal ELSE thread.exit
    BY <1>1 DEF TakeMessage, Threads
  <2>5. thread.exit # None => thread.exit = server.exit
    BY DEF EndInv, StatusInv
  <2> QED
    BY <1>3, <2>1, <2>2, <2>3, <2>4, <2>5
<1>5. ServerTypes'
  BY <1>1, <1>2 DEF EndInv, ServerTypes
<1>6. MessageInv'
  BY <1>1, <1>2, <1>4 DEF EndInv, MessageInv, Messages
<1>7. StatusInv'
  <2>1. thread'.exit # None => thread'.exit = server'.exit
    BY <1>1, <1>2, <1>4 DEF EndInv, StatusInv, Messages
  <2>2. ASSUME server'.early, m \in {"Eof", "Close"} PROVE thread'.exit = server'.exit
    <3>1. \A i \in 1..Len(inbox) : inbox[i] \in {"Status", "Signal"} =>
            \E j \in 1..(i - 1) : inbox[j] \in {"Eof", "Close"}
      <4> SUFFICES ASSUME NEW i \in 1..Len(inbox), inbox[i] \in {"Status", "Signal"}
                   PROVE  \E j \in 1..(i - 1) : inbox[j] \in {"Eof", "Close"}
        OBVIOUS
      <4>1. i # 1 /\ 1 \in 1..(i - 1)
        BY <1>2, <2>2
      <4> QED
        BY <1>2, <2>2, <4>1
    <3> QED
      BY <1>1, <1>4, <2>2, <3>1 DEF EndInv, StatusInv
  <2>3. ASSUME server'.early, m \notin {"Eof", "Close"}, thread'.exit # server'.exit
        PROVE  \E i \in 1..Len(inbox') :
                 /\ inbox'[i] \in {"Status", "Signal"}
                 /\ \A j \in 1..(i - 1) : inbox'[j] \notin {"Eof", "Close"}
    <3>1. m = "Data" /\ thread' = thread
      BY <1>1, <1>2, <1>4, <2>3 DEF Messages
    <3>2. PICK i \in 1..Len(inbox) :
            /\ inbox[i] \in {"Status", "Signal"}
            /\ \A j \in 1..(i - 1) : inbox[j] \notin {"Eof", "Close"}
      BY <1>1, <2>3, <3>1 DEF EndInv, StatusInv
    <3>3. i # 1
      BY <1>2, <3>1, <3>2
    <3>4. i - 1 \in 1..Len(inbox') /\ (i - 1) + 1 = i
      BY <1>2, <3>3
    <3>5. inbox'[i - 1] = inbox[i]
      BY <1>2, <3>4
    <3>6. \A j \in 1..((i - 1) - 1) : inbox'[j] \notin {"Eof", "Close"}
      <4> SUFFICES ASSUME NEW j \in 1..((i - 1) - 1) PROVE inbox'[j] \notin {"Eof", "Close"}
        OBVIOUS
      <4>1. j \in 1..Len(inbox') /\ j + 1 \in 1..(i - 1)
        BY <3>4
      <4> QED
        BY <1>2, <3>2, <4>1
    <3> QED
      BY <3>2, <3>4, <3>5, <3>6
  <2>4. thread'.cause = "server" <=> m \in {"Eof", "Close"}
    BY <1>1, <1>2, <1>4 DEF Messages
  <2>5. thread'.cause = "none" => m \notin {"Eof", "Close"}
    BY <1>4
  <2> QED
    BY <2>1, <2>2, <2>3, <2>4, <2>5 DEF StatusInv
<1>8. OutputInv'
  <2>1. ASSUME server.eof, m \in {"Eof", "Close"} PROVE Count(inbox') = 0
    <3>1. PICK j \in 1..Len(inbox) :
            /\ inbox[j] = "Eof"
            /\ \A i \in j..Len(inbox) : inbox[i] # "Data"
            /\ \A i \in 1..(j - 1) : inbox[i] \notin {"Eof", "Close"}
      BY <1>1, <2>1 DEF EndInv, OutputInv, EofAhead
    <3>2. j = 1
      <4> SUFFICES ASSUME j # 1 PROVE FALSE
        OBVIOUS
      <4>1. 1 \in 1..(j - 1)
        BY <1>2
      <4> QED
        BY <1>2, <2>1, <3>1, <4>1
    <3>3. \A i \in 1..Len(inbox') : inbox'[i] # "Data"
      BY <1>2, <3>1, <3>2
    <3> QED
      BY <3>3, CountNone
  <2>2. ASSUME server.eof, m \notin {"Eof", "Close"} PROVE EofAhead'
    <3>1. PICK j \in 1..Len(inbox) :
            /\ inbox[j] = "Eof"
            /\ \A i \in j..Len(inbox) : inbox[i] # "Data"
            /\ \A i \in 1..(j - 1) : inbox[i] \notin {"Eof", "Close"}
      BY <1>1, <2>2 DEF EndInv, OutputInv, EofAhead
    <3>2. j # 1
      BY <1>2, <2>2, <3>1
    <3>3. j - 1 \in 1..Len(inbox') /\ (j - 1) + 1 = j
      BY <1>2, <3>2
    <3>4. inbox'[j - 1] = "Eof"
      BY <1>2, <3>1, <3>3
    <3>5. \A i \in (j - 1)..Len(inbox') : inbox'[i] # "Data"
      <4> SUFFICES ASSUME NEW i \in (j - 1)..Len(inbox') PROVE inbox'[i] # "Data"
        OBVIOUS
      <4>1. i \in 1..Len(inbox') /\ i + 1 \in j..Len(inbox)
        BY <1>2, <3>3
      <4> QED
        BY <1>2, <3>1, <4>1
    <3>6. \A i \in 1..((j - 1) - 1) : inbox'[i] \notin {"Eof", "Close"}
      <4> SUFFICES ASSUME NEW i \in 1..((j - 1) - 1) PROVE inbox'[i] \notin {"Eof", "Close"}
        OBVIOUS
      <4>1. i \in 1..Len(inbox') /\ i + 1 \in 1..(j - 1)
        BY <1>2, <3>3
      <4> QED
        BY <1>2, <3>1, <4>1
    <3> QED
      BY <3>3, <3>4, <3>5, <3>6 DEF EofAhead
  <2>3. reading => heard + Count(events) + Count(out') + Count(inbox') = server.data
    <3>1. reading => heard + Count(events) + Count(out) + Count(inbox) = server.data
      BY <1>1 DEF EndInv, OutputInv
    <3>2. Count(out) = 0 /\ Count(<<"Data">>) = 1
      BY <1>1, CountEmpty, CountOne
    <3>3. CASE m = "Data"
      <4>1. Count(out') = 1 /\ Count(inbox) = Count(inbox') + 1
        BY <1>2, <1>4, <3>2, <3>3
      <4>2. reading => heard \in Nat /\ Count(events) \in Nat /\ Count(inbox') \in Nat
        BY <1>2, CountType DEF EndInv, ServerTypes, SessionInv, Types
      <4> QED
        BY <3>1, <3>2, <4>1, <4>2
    <3>4. CASE m # "Data"
      <4>1. out' = out /\ Count(inbox) = Count(inbox')
        BY <1>2, <1>4, <3>4 DEF Messages
      <4> QED
        BY <3>1, <4>1
    <3> QED
      BY <3>3, <3>4
  <2>4. ~ reading /\ seen = "Closed" => FALSE
    BY <1>1 DEF EndInv, OutputInv
  <2>5. thread'.cause = "server" <=> m \in {"Eof", "Close"}
    BY <1>1, <1>2, <1>4 DEF Messages
  <2>6. thread'.cause = "none" => m \notin {"Eof", "Close"}
    BY <1>4
  <2> QED
    BY <1>1, <2>1, <2>2, <2>3, <2>4, <2>5, <2>6 DEF OutputInv
<1> QED
  BY <1>5, <1>6, <1>7, <1>8 DEF EndInv

(* An event moves from the thread to the channel: no chunk is lost on the   *)
(* way while somebody reads.                                                *)
LEMMA EmitEnd == SessionInv /\ EndInv /\ Emit => EndInv'
<1> SUFFICES ASSUME SessionInv, EndInv, Emit PROVE EndInv'
  OBVIOUS
<1>1. /\ out \in Seq(EventNames) /\ events \in Seq(EventNames) /\ out # <<>>
      /\ UNCHANGED <<thread, server, inbox, reading, seen, heard>>
      /\ out' = Tail(out) /\ Head(out) \in EventNames
  BY TailFacts DEF Emit, SessionInv, Types, serverVars
<1>2. Count(out) = Count(out') + (IF Head(out) = "Data" THEN 1 ELSE 0)
  BY <1>1, CountTail
<1>3. reading => events' = Append(events, Head(out))
  BY DEF Emit
<1>4. reading => Count(events') = Count(events) + (IF Head(out) = "Data" THEN 1 ELSE 0)
  BY <1>1, <1>3, CountAppend
<1>5. Count(events) \in Nat /\ Count(out') \in Nat /\ Count(inbox) \in Nat /\ heard \in Nat
  <2>1. Len(events) \in Nat /\ Len(Tail(out)) \in Nat /\ Len(inbox) \in Nat
    BY <1>1 DEF EndInv, ServerTypes
  <2> QED
    BY <1>1, <2>1, CountType DEF EndInv, ServerTypes
<1>6. reading => Count(events') + Count(out') = Count(events) + Count(out)
  BY <1>2, <1>4, <1>5
<1>7. reading => heard + Count(events') + Count(out') + Count(inbox)
                   = heard + Count(events) + Count(out) + Count(inbox)
  <2>1. reading => Count(events') \in Nat
    <3>1. reading => Len(events') \in Nat
      BY <1>1, <1>3
    <3> QED
      BY <3>1, CountType
  <2>2. Count(out) \in Nat
    <3>1. Len(out) \in Nat
      BY <1>1
    <3> QED
      BY <3>1, CountType
  <2> QED
    BY <1>5, <1>6, <2>1, <2>2
<1>8. ServerTypes' /\ MessageInv' /\ StatusInv'
  BY <1>1 DEF EndInv, ServerTypes, MessageInv, StatusInv
<1>9. OutputInv'
  BY <1>1, <1>7 DEF EndInv, OutputInv, EofAhead, OutputComplete
<1> QED
  BY <1>8, <1>9 DEF EndInv

(* Taking an event counts a chunk as heard.                                 *)
LEMMA ConsumeEnd == SessionInv /\ EndInv /\ Consume => EndInv'
<1> SUFFICES ASSUME SessionInv, EndInv, Consume PROVE EndInv'
  OBVIOUS
<1>1. /\ out \in Seq(EventNames) /\ events \in Seq(EventNames) /\ events # <<>> /\ reading
      /\ events' = Tail(events)
      /\ heard' = IF Head(events) = "Data" THEN heard + 1 ELSE heard
      /\ UNCHANGED <<thread, server, inbox, reading, out>>
  BY DEF Consume, SessionInv, Types, serverVars
<1>2. Count(events) = Count(events') + (IF Head(events) = "Data" THEN 1 ELSE 0)
  BY <1>1, CountTail
<1>3. Count(events') \in Nat /\ Count(out) \in Nat /\ Count(inbox) \in Nat /\ heard \in Nat
  <2>1. Len(Tail(events)) \in Nat /\ Len(out) \in Nat /\ Len(inbox) \in Nat
    BY <1>1 DEF EndInv, ServerTypes
  <2> QED
    BY <1>1, <2>1, CountType DEF EndInv, ServerTypes
<1>4. heard' \in Nat /\ heard' + Count(events') = heard + Count(events)
  BY <1>1, <1>2, <1>3
<1>5. heard' + Count(events') + Count(out) + Count(inbox)
        = heard + Count(events) + Count(out) + Count(inbox)
  BY <1>4
<1>6. ServerTypes' /\ MessageInv' /\ StatusInv'
  BY <1>1, <1>4 DEF EndInv, ServerTypes, MessageInv, StatusInv
<1>7. OutputInv'
  BY <1>1, <1>5 DEF EndInv, OutputInv, EofAhead
<1> QED
  BY <1>6, <1>7 DEF EndInv

(* Once Closed was seen nothing is left to hear: the lifecycle lets nothing *)
(* follow it, so both queues of events are empty.                           *)
LEMMA FaithfulNow ==
  SessionInv /\ EndInv =>
    /\ EndIsFaithful
    /\ seen = "Closed" => thread.pc \in {"ending", "over"}
<1> SUFFICES ASSUME SessionInv, EndInv
             PROVE  /\ EndIsFaithful
                    /\ seen = "Closed" => thread.pc \in {"ending", "over"}
  OBVIOUS
<1>1. ASSUME seen = "Closed" PROVE thread.pc \in {"ending", "over"} /\ OutputComplete
  <2>1. CASE ~ reading
    BY <1>1, <2>1 DEF EndInv, OutputInv
  <2>2. CASE reading
    <3>1. LC!Follows("Closed") = {}
      BY DEF LC!Follows
    <3>2. events = <<>> /\ out = <<>>
      BY <1>1, <2>2, <3>1 DEF SessionInv, TrailInv, Continues, Sent
    <3>3. "Closed" \in Stage
      BY <1>1, <2>2, <3>2 DEF SessionInv, TrailInv, Continues, Latest, Sent
    <3>4. thread.pc \in {"ending", "over"}
      BY <3>3 DEF Stage, SessionInv, Types, Threads
    <3>5. ASSUME thread.cause = "server", server.eof PROVE heard = server.data
      <4>1. heard + 0 + 0 + 0 = server.data
        BY <2>2, <3>2, <3>5, CountEmpty DEF EndInv, OutputInv
      <4> QED
        BY <4>1 DEF EndInv, ServerTypes
    <3> QED
      BY <3>4, <3>5 DEF OutputComplete
  <2> QED
    BY <2>1, <2>2
<1>2. OutputComplete
  BY <1>1 DEF OutputComplete
<1>3. ExitStatusKept
  BY DEF EndInv, StatusInv, ExitStatusKept
<1> QED
  BY <1>1, <1>2, <1>3 DEF EndIsFaithful

(* Once the interface has dropped its receiver, only the end it saw counts. *)
LEMMA DropReceiverEnd == SessionInv /\ EndInv /\ DropReceiver => EndInv'
<1> SUFFICES ASSUME SessionInv, EndInv, DropReceiver PROVE EndInv'
  OBVIOUS
<1>1. ~ reading' /\ UNCHANGED <<thread, server, inbox, seen, heard>>
  BY DEF DropReceiver, serverVars
<1>2. seen = "Closed" => thread.pc \in {"ending", "over"} /\ OutputComplete
  BY FaithfulNow DEF EndIsFaithful
<1>3. ServerTypes' /\ MessageInv' /\ StatusInv'
  BY <1>1 DEF EndInv, ServerTypes, MessageInv, StatusInv
<1>4. OutputInv'
  BY <1>1, <1>2 DEF EndInv, OutputInv, EofAhead, OutputComplete
<1> QED
  BY <1>3, <1>4 DEF EndInv

(* What the server sends goes to the end of the inbox.                      *)
LEMMA InboxAppend ==
  ASSUME EndInv, NEW m \in Messages, inbox' = Append(inbox, m)
  PROVE  /\ inbox' \in Seq(Messages) /\ Len(inbox) \in Nat /\ Len(inbox') = Len(inbox) + 1
         /\ 1..Len(inbox') = 1..Len(inbox) \cup {Len(inbox) + 1}
         /\ \A i \in 1..Len(inbox) : inbox'[i] = inbox[i]
         /\ inbox'[Len(inbox) + 1] = m
         /\ Count(inbox') = Count(inbox) + (IF m = "Data" THEN 1 ELSE 0)
         /\ Count(inbox) \in Nat
<1>1. inbox \in Seq(Messages)
  BY DEF EndInv, ServerTypes
<1>2. /\ inbox' \in Seq(Messages) /\ Len(inbox) \in Nat /\ Len(inbox') = Len(inbox) + 1
      /\ \A i \in 1..Len(inbox) : inbox'[i] = inbox[i]
      /\ inbox'[Len(inbox) + 1] = m
  BY <1>1
<1>3. 1..Len(inbox') = 1..Len(inbox) \cup {Len(inbox) + 1}
  BY <1>2
<1>4. Count(inbox') = Count(inbox) + (IF m = "Data" THEN 1 ELSE 0)
  BY <1>1, CountAppend
<1> QED
  BY <1>2, <1>3, <1>4, CountType

(* The server only adds to the end of the inbox, and nothing after its close. *)
LEMMA ServeEnd ==
  SessionInv /\ EndInv /\ (ServeData \/ ServeExit \/ ServeEof \/ ServeClose) => EndInv'
<1> SUFFICES ASSUME SessionInv, EndInv, ServeData \/ ServeExit \/ ServeEof \/ ServeClose
             PROVE  EndInv'
  OBVIOUS
<1> DEFINE Servers == [data : Nat, exit : {None, Status, Signal}, eof : BOOLEAN,
                       closed : BOOLEAN, early : BOOLEAN]
<1>1. /\ thread.pc \in {"drive", "input"} /\ thread.cause = "none" /\ ~ server.closed
      /\ UNCHANGED <<thread, out, events, reading, seen, heard>>
      /\ server \in Servers
  BY DEF ServeData, ServeExit, ServeEof, ServeClose, Serve, eventVars, EndInv, MessageInv,
         ServerTypes
<1>2. PICK m \in Messages :
        /\ inbox' = Append(inbox, m)
        /\ \/ /\ m = "Data" /\ ~ server.eof
              /\ server' = [server EXCEPT !.data = @ + 1]
           \/ /\ server.exit = None
              /\ \/ m = "Status" /\ server' = [server EXCEPT !.exit = Status, !.early = ~ server.eof]
                 \/ m = "Signal" /\ server' = [server EXCEPT !.exit = Signal, !.early = ~ server.eof]
           \/ /\ m = "Eof" /\ ~ server.eof
              /\ server' = [server EXCEPT !.eof = TRUE]
           \/ m = "Close" /\ server' = [server EXCEPT !.closed = TRUE]
  BY DEF ServeData, ServeExit, ServeEof, ServeClose, Serve, Messages
<1>3. /\ inbox' \in Seq(Messages) /\ Len(inbox) \in Nat /\ Len(inbox') = Len(inbox) + 1
      /\ 1..Len(inbox') = 1..Len(inbox) \cup {Len(inbox) + 1}
      /\ \A i \in 1..Len(inbox) : inbox'[i] = inbox[i]
      /\ inbox'[Len(inbox) + 1] = m
      /\ Count(inbox') = Count(inbox) + (IF m = "Data" THEN 1 ELSE 0)
      /\ Count(inbox) \in Nat
  BY <1>2, InboxAppend
<1>4. server' \in Servers
  <2>1. server.data + 1 \in Nat /\ (~ server.eof) \in BOOLEAN
    BY <1>1
  <2>2. CASE server' = [server EXCEPT !.data = @ + 1]
    BY <1>1, <2>1, <2>2
  <2>3. CASE \E x \in {Status, Signal} : server' = [server EXCEPT !.exit = x, !.early = ~ server.eof]
    BY <1>1, <2>1, <2>3
  <2>4. CASE server' = [server EXCEPT !.eof = TRUE] \/ server' = [server EXCEPT !.closed = TRUE]
    BY <1>1, <2>4
  <2> QED
    BY <1>2, <2>2, <2>3, <2>4
<1>5. ServerTypes'
  BY <1>1, <1>3, <1>4 DEF EndInv, ServerTypes
<1>6. \A i \in 1..Len(inbox) :
        /\ inbox[i] = "Status" => server.exit = Status
        /\ inbox[i] = "Signal" => server.exit = Signal
        /\ inbox[i] = "Eof" => server.eof
        /\ inbox[i] = "Close" => server.closed
  BY DEF EndInv, MessageInv
<1>7. /\ server.exit # None => server'.exit = server.exit
      /\ server.eof => server'.eof
      /\ server.closed => server'.closed
      /\ m = "Status" => server'.exit = Status
      /\ m = "Signal" => server'.exit = Signal
      /\ m = "Eof" => server'.eof
      /\ m = "Close" => server'.closed
  BY <1>1, <1>2
<1>8. MessageInv'
  <2>1. \A i \in 1..Len(inbox') :
          /\ inbox'[i] = "Status" => server'.exit = Status
          /\ inbox'[i] = "Signal" => server'.exit = Signal
          /\ inbox'[i] = "Eof" => server'.eof
          /\ inbox'[i] = "Close" => server'.closed
    BY <1>3, <1>6, <1>7, NoneAssumption
  <2> QED
    BY <1>1, <2>1 DEF MessageInv
<1>9. StatusInv'
  <2>1. thread.exit # None => thread.exit = server'.exit
    BY <1>7 DEF EndInv, StatusInv
  <2>2. ASSUME server'.early, thread.exit # server'.exit
        PROVE  \E i \in 1..Len(inbox') :
                 /\ inbox'[i] \in {"Status", "Signal"}
                 /\ \A j \in 1..(i - 1) : inbox'[j] \notin {"Eof", "Close"}
    <3>1. CASE m \in {"Status", "Signal"}
      <4>1. ~ server.eof
        BY <1>1, <1>2, <2>2, <3>1
      <4>2. \A j \in 1..Len(inbox) : inbox[j] \notin {"Eof", "Close"}
        BY <1>1, <1>6, <4>1
      <4>3. Len(inbox) + 1 \in 1..Len(inbox') /\ (Len(inbox) + 1) - 1 = Len(inbox)
        BY <1>3
      <4> QED
        BY <1>3, <3>1, <4>2, <4>3
    <3>2. CASE m \notin {"Status", "Signal"}
      <4>1. server.early /\ server'.exit = server.exit
        BY <1>1, <1>2, <2>2, <3>2
      <4>2. PICK i \in 1..Len(inbox) :
              /\ inbox[i] \in {"Status", "Signal"}
              /\ \A j \in 1..(i - 1) : inbox[j] \notin {"Eof", "Close"}
        BY <1>1, <2>2, <4>1 DEF EndInv, StatusInv
      <4>3. i \in 1..Len(inbox') /\ \A j \in 1..(i - 1) : j \in 1..Len(inbox)
        BY <1>3
      <4> QED
        BY <1>3, <4>2, <4>3
    <3> QED
      BY <3>1, <3>2
  <2> QED
    BY <1>1, <2>1, <2>2 DEF StatusInv
<1>10. OutputInv'
  <2>1. ASSUME server'.eof PROVE EofAhead'
    <3>1. CASE server.eof
      <4>1. PICK j \in 1..Len(inbox) :
              /\ inbox[j] = "Eof"
              /\ \A i \in j..Len(inbox) : inbox[i] # "Data"
              /\ \A i \in 1..(j - 1) : inbox[i] \notin {"Eof", "Close"}
        BY <1>1, <3>1 DEF EndInv, OutputInv, EofAhead
      <4>2. m # "Data"
        BY <1>2, <3>1
      <4>3. /\ j \in 1..Len(inbox')
            /\ \A i \in j..Len(inbox') : i \in j..Len(inbox) \/ i = Len(inbox) + 1
            /\ \A i \in j..Len(inbox) : i \in 1..Len(inbox)
            /\ \A i \in 1..(j - 1) : i \in 1..Len(inbox)
        BY <1>3
      <4>4. \A i \in j..Len(inbox') : inbox'[i] # "Data"
        BY <1>3, <4>1, <4>2, <4>3
      <4> QED
        BY <1>3, <4>1, <4>3, <4>4 DEF EofAhead
    <3>2. CASE ~ server.eof
      <4>1. m = "Eof"
        BY <1>1, <1>2, <2>1, <3>2
      <4>2. \A i \in 1..Len(inbox) : inbox[i] \notin {"Eof", "Close"}
        BY <1>1, <1>6, <3>2
      <4>3. /\ Len(inbox) + 1 \in 1..Len(inbox') /\ (Len(inbox) + 1) - 1 = Len(inbox)
            /\ \A i \in (Len(inbox) + 1)..Len(inbox') : i = Len(inbox) + 1
        BY <1>3
      <4> QED
        BY <1>3, <4>1, <4>2, <4>3 DEF EofAhead
    <3> QED
      BY <3>1, <3>2
  <2>2. reading => heard + Count(events) + Count(out) + Count(inbox') = server'.data
    <3>1. reading => heard + Count(events) + Count(out) + Count(inbox) = server.data
      BY <1>1 DEF EndInv, OutputInv
    <3>2. /\ server.data \in Nat
          /\ m = "Data" => server'.data = server.data + 1
          /\ m # "Data" => server'.data = server.data
      BY <1>1, <1>2
    <3>3. heard \in Nat /\ Count(events) \in Nat /\ Count(out) \in Nat
      <4>1. Len(events) \in Nat /\ Len(out) \in Nat
        BY DEF SessionInv, Types
      <4> QED
        BY <4>1, CountType DEF EndInv, ServerTypes
    <3>4. CASE m = "Data"
      <4>1. Count(inbox') = Count(inbox) + 1 /\ server'.data = server.data + 1
        BY <1>3, <3>2, <3>4
      <4>2. reading => heard + Count(events) + Count(out) + (Count(inbox) + 1) = server.data + 1
        BY <1>3, <3>1, <3>2, <3>3
      <4> QED
        BY <4>1, <4>2
    <3>5. CASE m # "Data"
      <4>1. Count(inbox') = Count(inbox) /\ server'.data = server.data
        BY <1>1, <1>3, <3>2, <3>5
      <4> QED
        BY <3>1, <4>1
    <3> QED
      BY <3>4, <3>5
  <2>3. ~ reading /\ seen = "Closed" => FALSE
    BY <1>1 DEF EndInv, OutputInv
  <2> QED
    BY <1>1, <2>1, <2>2, <2>3 DEF OutputInv
<1> QED
  BY <1>5, <1>8, <1>9, <1>10 DEF EndInv

(* Every step keeps the invariant of the output and the end.               *)
LEMMA SessionEndStep == SessionInv /\ EndInv /\ [Next]_vars => EndInv'
<1> SUFFICES ASSUME SessionInv, EndInv, [Next]_vars PROVE EndInv'
  OBVIOUS
<1>1. CASE ThreadStep
  BY <1>1, EmitEnd, DialingEnd, MessageEnd, WriteEnd, ClosingEnd DEF ThreadStep, OwnStep
<1>2. CASE TakeCommand
  BY <1>2, CommandEnd
<1>3. CASE Consume
  BY <1>3, ConsumeEnd
<1>4. CASE DropReceiver
  BY <1>4, DropReceiverEnd
<1>5. CASE ServeData \/ ServeExit \/ ServeEof \/ ServeClose
  BY <1>5, ServeEnd
<1>6. CASE UNCHANGED <<thread, out, server, inbox, events, reading, seen, heard>>
  BY <1>6, CalmStep DEF EndInv, MessageInv
<1>7. CASE \E t \in Tasks : TakeLock(t) \/ Answered(t) \/ SendTask(t)
  BY <1>6, <1>7 DEF TakeLock, Answered, SendTask, eventVars, serverVars
<1>8. CASE SendInput \/ SendClose \/ DropHandle
  BY <1>6, <1>8 DEF SendInput, SendClose, DropHandle, eventVars, serverVars
<1>9. CASE Widen \/ UNCHANGED vars
  BY <1>6, <1>9 DEF Widen, vars, eventVars
<1> QED
  BY <1>1, <1>2, <1>3, <1>4, <1>5, <1>7, <1>8, <1>9 DEF Next

(* A session that the server ended was reported whole, for channels of any  *)
(* capacity and any amount of output: Closed comes after the last chunk,    *)
(* and the exit status is the one the server sent, never lost when it came  *)
(* before the end of file.                                                  *)
THEOREM EndAlwaysFaithful == Spec => []EndIsFaithful
<1>1. Init => EndInv
  <2> SUFFICES ASSUME Init PROVE EndInv
    OBVIOUS
  <2>1. ServerTypes /\ MessageInv /\ StatusInv
    BY DEF Init, Started, ServerTypes, MessageInv, StatusInv
  <2>2. Count(events) = 0 /\ Count(inbox) = 0 /\ Count(out) = 0
    BY CountOthers, CountEmpty DEF Init, Started
  <2>3. OutputInv
    BY <2>2 DEF Init, OutputInv
  <2> QED
    BY <2>1, <2>3 DEF EndInv
<1> QED
  BY <1>1, SessionEndStep, FaithfulNow, Invariant, PTL DEF Spec
=============================================================================
