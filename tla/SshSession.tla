----------------------------- MODULE SshSession -----------------------------
(***************************************************************************)
(* One SSH connection of sshdeck-core (session.rs): the connection thread  *)
(* that dials, verifies and authenticates each hop of a chain, then drives *)
(* the session channel until it closes; the handle the user interface      *)
(* holds; the event stream it reads; and the server at the far end.        *)
(*                                                                         *)
(* A direct connection is the chain of one hop: run_session and            *)
(* run_chain_inner emit and check the same things in the same order.       *)
(*                                                                         *)
(* Abstracted: bytes, terminal sizes, error messages; the requests that do *)
(* not wait for the server's window are sent at once.  Forward and Sftp    *)
(* commands spawn tasks that take the handle's lock to open a channel;     *)
(* what they do with the channel is not part of this module.               *)
(***************************************************************************)
EXTENDS Naturals, Sequences, FiniteSets

CONSTANTS
  Hops,             (* how many hops the chain has                          *)
  MaxTries,         (* identities of the agent, or MAX_INTERACTIVE_ROUNDS   *)
  CommandCapacity,  (* slots of the command channel, 64 in session.rs       *)
  EventCapacity,    (* slots of the event channel, 256 in session.rs        *)
  Window,           (* channel messages in flight, channel_buffer_size      *)
  Tasks,            (* the forwards and SFTP channels that may be asked for *)
  MaxData,          (* chunks of output the server may send; a model bound  *)
  MaxInput,         (* keystrokes the user may send; a model bound          *)
  None              (* Option::None                                         *)

ASSUME HopsAssumption     == Hops \in Nat \ {0}
ASSUME TriesAssumption    == MaxTries \in Nat \ {0}
ASSUME CapacityAssumption ==
  {CommandCapacity, EventCapacity, Window} \subseteq Nat \ {0}

VARIABLES
  thread,     (* the connection thread: pc, hop being dialled, try, exit code *)
  out,        (* events the thread must emit before its next step             *)
  verified,   (* hops whose host key matched known_hosts                      *)
  authed,     (* hops that accepted our credentials                           *)
  commands,   (* the command channel                                          *)
  handle,     (* "held", or "dropped" by the user interface                   *)
  events,     (* the event channel                                            *)
  reading,    (* FALSE once the interface dropped its receiver                *)
  task,       (* where each spawned task is                                   *)
  server,     (* what the server has sent on the session channel              *)
  inbox,      (* channel messages on their way                                *)
  room,       (* whether the server's window takes more input                 *)
  seen,       (* history: the last event the interface took                   *)
  heard       (* history: chunks of output the interface took                 *)

vars == <<thread, out, verified, authed, commands, handle, events, reading,
          task, server, inbox, room, seen, heard>>

clientVars == <<commands, handle, task>>
serverVars == <<server, inbox, room>>
eventVars  == <<events, reading, seen, heard>>
dialVars   == <<verified, authed>>

EventNames == {"Connecting", "Authenticating", "Connected", "Data", "Closed", "Error", "Failed"}
Status == 0   \* the exit status a server sends; its value never matters
Signal == 128 \* the status reported for a command killed by a signal

ASSUME NoneAssumption == None \notin {Status, Signal}

TypeOK ==
  /\ thread \in [pc : {"dial", "auth", "open", "drive", "input", "disconnect", "ending", "over"},
                 hop : 1..Hops, try : 1..MaxTries, exit : {None, Status, Signal},
                 cause : {"none", "user", "server", "error", "start"}]
  /\ out \in Seq(EventNames)
  /\ verified \subseteq 1..Hops /\ authed \subseteq 1..Hops
  /\ commands \in Seq({"Input", "Close"} \cup Tasks) /\ Len(commands) <= CommandCapacity
  /\ handle \in {"held", "dropped"}
  /\ events \in Seq(EventNames) /\ Len(events) <= EventCapacity
  /\ reading \in BOOLEAN
  /\ task \in [Tasks -> {"none", "asked", "waiting", "opening", "running", "ended"}]
  /\ server \in [data : 0..MaxData, exit : {None, Status, Signal}, eof : BOOLEAN,
                 closed : BOOLEAN, early : BOOLEAN]
  /\ inbox \in Seq({"Data", "Status", "Signal", "Eof", "Close"}) /\ Len(inbox) <= Window
  /\ room \in BOOLEAN
  /\ seen \in EventNames \cup {"nothing"}
  /\ heard \in 0..MaxData

(* The thread dials, or its runtime could not be built: then it says so and  *)
(* is done, without a state that says Failed.                                *)
Started(pc, cause, said) ==
  /\ thread = [pc |-> pc, hop |-> 1, try |-> 1, exit |-> None, cause |-> cause]
  /\ out = said

Init ==
  /\ Started("dial", "none", <<"Connecting">>) \/ Started("ending", "start", <<"Error">>)
  /\ verified = {} /\ authed = {}
  /\ commands = <<>>
  /\ handle = "held"
  /\ events = <<>>
  /\ reading = TRUE
  /\ task = [t \in Tasks |-> "none"]
  /\ server = [data |-> 0, exit |-> None, eof |-> FALSE, closed |-> FALSE, early |-> FALSE]
  /\ inbox = <<>>
  /\ room = TRUE
  /\ seen = "nothing"
  /\ heard = 0

------------------------------------------------------------------------------
(* The connection thread *)

At(pc) == thread.pc = pc /\ out = <<>>
Goto(pc) == thread' = [thread EXCEPT !.pc = pc]

(* Mutant: an event that finds the channel full is dropped. *)
EmitBestEffort ==
  /\ out # <<>>
  /\ events' = IF reading /\ Len(events) < EventCapacity
                 THEN Append(events, Head(out)) ELSE events
  /\ out' = Tail(out)
  /\ UNCHANGED <<thread, dialVars, clientVars, reading, seen, heard, serverVars>>

(* emit(): awaits a free slot; ignored when the receiver is gone. *)
Emit ==
  /\ out # <<>>
  /\ IF reading
       THEN Len(events) < EventCapacity /\ events' = Append(events, Head(out))
       ELSE UNCHANGED events
  /\ out' = Tail(out)
  /\ UNCHANGED <<thread, dialVars, clientVars, reading, seen, heard, serverVars>>

(* An error anywhere: Error, then State(Failed), and the thread is done. *)
Fail ==
  /\ thread' = [thread EXCEPT !.pc = "ending", !.cause = "error"]
  /\ out' = <<"Error", "Failed">>
  /\ UNCHANGED <<verified, authed>>

(* Mutant: the key of an intermediate hop is not checked. *)
DialChecksLastHop ==
  /\ At("dial")
  /\ \/ /\ verified' = IF thread.hop = Hops THEN verified \cup {thread.hop} ELSE verified
        /\ Goto("auth")
        /\ out' = IF thread.hop = Hops THEN <<"Authenticating">> ELSE <<>>
        /\ UNCHANGED authed
     \/ Fail
  /\ UNCHANGED <<clientVars, eventVars, serverVars>>

(* Each hop is reached through the one before it, and its key is checked   *)
(* against the entry of that very hop; anything but a match is an error.    *)
Dial ==
  /\ At("dial")
  /\ \/ /\ verified' = verified \cup {thread.hop}
        /\ Goto("auth")
        /\ out' = IF thread.hop = Hops THEN <<"Authenticating">> ELSE <<>>
        /\ UNCHANGED authed
     \/ Fail
  /\ UNCHANGED <<clientVars, eventVars, serverVars>>

(* Mutant: every hop that authenticates is announced as Connected. *)
AuthenticateTellsEachHop ==
  /\ At("auth")
  /\ \/ /\ authed' = authed \cup {thread.hop}
        /\ out' = <<"Connected">>
        /\ thread' = IF thread.hop = Hops THEN [thread EXCEPT !.pc = "open"]
                     ELSE [thread EXCEPT !.pc = "dial", !.hop = @ + 1, !.try = 1]
        /\ UNCHANGED verified
     \/ Fail
  /\ UNCHANGED <<clientVars, eventVars, serverVars>>

(* The server takes the credentials, refuses them, or (agent, keyboard-     *)
(* interactive) the next identity or round is tried, up to MaxTries.        *)
Authenticate ==
  /\ At("auth")
  /\ \/ /\ authed' = authed \cup {thread.hop}
        /\ IF thread.hop = Hops
             THEN Goto("open") /\ out' = <<"Connected">>
             ELSE /\ thread' = [thread EXCEPT !.pc = "dial", !.hop = @ + 1, !.try = 1]
                  /\ out' = <<>>
        /\ UNCHANGED verified
     \/ /\ thread.try < MaxTries
        /\ thread' = [thread EXCEPT !.try = @ + 1]
        /\ UNCHANGED <<out, dialVars>>
     \/ Fail
  /\ UNCHANGED <<clientVars, eventVars, serverVars>>

(* The session channel, then the pty and shell or the command. *)
OpenChannel ==
  /\ At("open")
  /\ \/ Goto("drive") /\ UNCHANGED <<out, dialVars>>
     \/ Fail
  /\ UNCHANGED <<clientVars, eventVars, serverVars>>

Leave(cause) == thread' = [thread EXCEPT !.pc = "disconnect", !.cause = cause]

(* Mutant: the loop ends on Close only, not when the handle is gone. *)
TakeCommandNeedsClose ==
  /\ At("drive")
  /\ commands # <<>>
  /\ commands' = Tail(commands)
  /\ CASE Head(commands) = "Close" -> Leave("user")
       [] Head(commands) = "Input" -> Goto("input")
       [] OTHER                    -> UNCHANGED thread
  /\ task' = [t \in Tasks |-> IF t = Head(commands) THEN "waiting" ELSE task[t]]
  /\ UNCHANGED <<out, dialVars, handle, eventVars, serverVars>>

(* commands.recv(): Close, or every sender dropped and nothing left.  Close *)
(* ends the loop; input is written before the loop goes on.                 *)
TakeCommand ==
  /\ At("drive")
  /\ \/ /\ commands # <<>>
        /\ commands' = Tail(commands)
        /\ LET c == Head(commands)
           IN  \/ c = "Close" /\ Leave("user") /\ UNCHANGED <<out, dialVars, task>>
               \/ c = "Input" /\ Goto("input") /\ UNCHANGED <<out, dialVars, task>>
               \/ /\ c \in Tasks
                  /\ task' = [task EXCEPT ![c] = "waiting"]
                  /\ UNCHANGED <<thread, out, dialVars>>
     \/ /\ commands = <<>> /\ handle = "dropped"
        /\ Leave("user")
        /\ UNCHANGED <<out, dialVars, task, commands>>
  /\ UNCHANGED <<handle, eventVars, serverVars>>

(* data_bytes(): it waits inside the branch for the server's window, and     *)
(* neither commands nor messages are looked at before it is done.           *)
WriteInput ==
  /\ At("input")
  /\ room
  /\ room' \in BOOLEAN
  /\ Goto("drive")
  /\ UNCHANGED <<out, dialVars, clientVars, eventVars, server, inbox>>

(* A write that fails ends the session with an error. *)
WriteFails ==
  /\ At("input")
  /\ Fail
  /\ UNCHANGED <<clientVars, eventVars, serverVars>>

(* Mutant: a command killed by a signal reports no status. *)
TakeMessageIgnoresSignal ==
  /\ At("drive")
  /\ inbox # <<>>
  /\ inbox' = Tail(inbox)
  /\ LET m == Head(inbox)
     IN  \/ m = "Data" /\ out' = <<"Data">> /\ UNCHANGED thread
         \/ m = "Status" /\ thread' = [thread EXCEPT !.exit = Status] /\ UNCHANGED out
         \/ m = "Signal" /\ UNCHANGED <<thread, out>>
         \/ m \in {"Eof", "Close"} /\ Leave("server") /\ UNCHANGED out
  /\ UNCHANGED <<dialVars, clientVars, eventVars, server, room>>

(* read.wait(): Eof, Close and a lost connection all end the loop. *)
TakeMessage ==
  /\ At("drive")
  /\ inbox # <<>>
  /\ inbox' = Tail(inbox)
  /\ LET m == Head(inbox)
     IN  \/ m = "Data" /\ out' = <<"Data">> /\ UNCHANGED thread
         \/ /\ m = "Status"
            /\ thread' = [thread EXCEPT !.exit = Status]
            /\ UNCHANGED out
         \/ /\ m = "Signal"
            /\ thread' = [thread EXCEPT !.exit = IF @ = None THEN Signal ELSE @]
            /\ UNCHANGED out
         \/ m \in {"Eof", "Close"} /\ Leave("server") /\ UNCHANGED out
  /\ UNCHANGED <<dialVars, clientVars, eventVars, server, room>>

LockFree == \A t \in Tasks : task[t] # "opening"

Disconnect ==
  /\ At("disconnect")
  /\ LockFree
  /\ Goto("ending")
  /\ out' = <<"Closed">>
  /\ UNCHANGED <<dialVars, clientVars, eventVars, serverVars>>

(* run() returns: the runtime is dropped and every task with it. *)
Exit ==
  /\ At("ending")
  /\ Goto("over")
  /\ task' = [t \in Tasks |-> IF task[t] = "none" THEN "none" ELSE "ended"]
  /\ UNCHANGED <<out, dialVars, commands, handle, eventVars, serverVars>>

------------------------------------------------------------------------------
(* Tasks that open a channel: they hold the lock until the server answers *)

TakeLock(t) ==
  /\ task[t] = "waiting"
  /\ LockFree
  /\ task' = [task EXCEPT ![t] = "opening"]
  /\ UNCHANGED <<thread, out, dialVars, commands, handle, eventVars, serverVars>>

Answered(t) ==
  /\ task[t] = "opening"
  /\ task' = [task EXCEPT ![t] = "running"]
  /\ UNCHANGED <<thread, out, dialVars, commands, handle, eventVars, serverVars>>

------------------------------------------------------------------------------
(* The handle and the receiver, held by the user interface *)

(* The command receiver lives as long as drive(); Dial has it too. *)
Open == thread.pc \notin {"ending", "over"} \/ (thread.pc = "ending" /\ thread.cause # "error")

(* try_send: a full channel is Backpressure, a closed one Closed, and both  *)
(* leave everything as it is.                                               *)
Send(c) ==
  /\ handle = "held"
  /\ Open
  /\ Len(commands) < CommandCapacity
  /\ commands' = Append(commands, c)

SendInput ==
  /\ Cardinality({i \in 1..Len(commands) : commands[i] = "Input"}) < MaxInput
  /\ Send("Input")
  /\ UNCHANGED <<thread, out, dialVars, handle, task, eventVars, serverVars>>

SendClose ==
  /\ Send("Close")
  /\ UNCHANGED <<thread, out, dialVars, handle, task, eventVars, serverVars>>

SendTask(t) ==
  /\ task[t] = "none"
  /\ Send(t)
  /\ task' = [task EXCEPT ![t] = "asked"]
  /\ UNCHANGED <<thread, out, dialVars, handle, eventVars, serverVars>>

(* Drop sends Close if there is room; the senders are gone either way. *)
DropHandle ==
  /\ handle = "held"
  /\ handle' = "dropped"
  /\ commands' = IF Open /\ Len(commands) < CommandCapacity
                   THEN Append(commands, "Close") ELSE commands
  /\ UNCHANGED <<thread, out, dialVars, task, eventVars, serverVars>>

Consume ==
  /\ reading
  /\ events # <<>>
  /\ events' = Tail(events)
  /\ seen' = Head(events)
  /\ heard' = IF Head(events) = "Data" THEN heard + 1 ELSE heard
  /\ UNCHANGED <<thread, out, dialVars, clientVars, reading, serverVars>>

DropReceiver ==
  /\ reading
  /\ reading' = FALSE
  /\ events' = <<>>
  /\ UNCHANGED <<thread, out, dialVars, clientVars, seen, heard, serverVars>>

------------------------------------------------------------------------------
(* The server: output, then end of file, exit status and close.  The status *)
(* may come on either side of the end of file, or not at all; a connection  *)
(* that is lost looks like a close.                                         *)

Serve(m) ==
  /\ thread.pc \in {"drive", "input"}
  /\ ~ server.closed
  /\ Len(inbox) < Window
  /\ inbox' = Append(inbox, m)
  /\ UNCHANGED <<thread, out, dialVars, clientVars, eventVars, room>>

ServeData ==
  /\ ~ server.eof /\ server.data < MaxData
  /\ Serve("Data")
  /\ server' = [server EXCEPT !.data = @ + 1]

ServeExit ==
  /\ server.exit = None
  /\ \E s \in {[msg |-> "Status", code |-> Status], [msg |-> "Signal", code |-> Signal]} :
       /\ Serve(s.msg)
       /\ server' = [server EXCEPT !.exit = s.code, !.early = ~ server.eof]

ServeEof ==
  /\ ~ server.eof
  /\ Serve("Eof")
  /\ server' = [server EXCEPT !.eof = TRUE]

ServeClose ==
  /\ Serve("Close")
  /\ server' = [server EXCEPT !.closed = TRUE]

(* The server takes more input. *)
Widen ==
  /\ ~room
  /\ room' = TRUE
  /\ UNCHANGED <<thread, out, dialVars, clientVars, eventVars, server, inbox>>

------------------------------------------------------------------------------
(* The steps the thread takes on its own, and those it owes to the server.   *)
OwnStep    == Emit \/ WriteInput \/ TakeMessage \/ Disconnect \/ Exit
ThreadStep == OwnStep \/ Dial \/ Authenticate \/ OpenChannel \/ WriteFails

Next ==
  \/ ThreadStep \/ TakeCommand
  \/ \E t \in Tasks : TakeLock(t) \/ Answered(t) \/ SendTask(t)
  \/ SendInput \/ SendClose \/ DropHandle \/ Consume \/ DropReceiver
  \/ ServeData \/ ServeExit \/ ServeEof \/ ServeClose \/ Widen

Spec == Init /\ [][Next]_vars

(* The thread is polled when it can go on.  select! picks at random between *)
(* its ready branches, so neither starves, and the lock is handed on in the *)
(* order it was asked for.  The interface takes events while it holds the   *)
(* receiver.  The server owes nothing: it need not answer a dial, a request *)
(* or the channel a task opens, nor widen its window.                       *)
Fairness ==
  /\ WF_vars(OwnStep)
  /\ SF_vars(TakeCommand)
  /\ WF_vars(Consume)
  /\ SF_vars(Disconnect)

FairSpec == Spec /\ Fairness

------------------------------------------------------------------------------
(* Properties *)

(* The interface sees the events in an order SessionLifecycle allows. *)
LC == INSTANCE SessionLifecycle WITH Events <- EventNames
Lifecycle == LC!Spec

(* No hop is dialled before the one it is reached through has shown its     *)
(* known key and accepted our credentials, and nobody is told Connected     *)
(* before the last one has.                                                 *)
HopsInOrder ==
  /\ authed \subseteq verified
  /\ \A h \in verified : 1..(h - 1) \subseteq authed
  /\ (thread.pc = "drive" \/ seen = "Connected") => authed = 1..Hops

(* A session that the server ended at its end of file delivers every chunk  *)
(* the server sent, however full the channel was: Closed comes after them.  *)
OutputComplete ==
  seen = "Closed" /\ thread.cause = "server" /\ server.eof => heard = server.data

(* An exit status is reported only if the server sent it, and is reported   *)
(* whenever it came before the end of file.                                 *)
ExitStatusKept ==
  /\ thread.exit # None => thread.exit = server.exit
  /\ thread.cause = "server" /\ server.early => thread.exit = server.exit

(* What a session that the server ended reported is whole: its output and   *)
(* its exit status.                                                         *)
EndIsFaithful == OutputComplete /\ ExitStatusKept

(* The thread waits for the server: for an answer to what it dials or asks   *)
(* for, for the window its input needs, or for the lock that a task holds    *)
(* until its own channel is answered.                                        *)
Owed ==
  \/ At("dial") \/ At("auth") \/ At("open")
  \/ At("input") /\ ~room
  \/ At("disconnect") /\ ~LockFree

(* Dropping the handle ends the thread, even when the command channel was    *)
(* full and even when nobody reads the events any more, unless the server    *)
(* leaves it waiting for good: no timeout ends such a wait.                  *)
DropEndsThread == <>[]Owed \/ (handle = "dropped" ~> thread.pc = "over")

(* Any end is told: a session that ended was seen to close or to fail, or,   *)
(* when it could not even start, its error was.                              *)
EndIsTold ==
  thread.pc = "over" ~>
    \/ ~ reading \/ seen \in {"Closed", "Failed"}
    \/ thread.cause = "start" /\ seen = "Error"

(* "Do not leak the connection thread when the UI discards the handle": not  *)
(* so of a server that leaves the thread waiting.                            *)
NoThreadLeaks == handle = "dropped" ~> thread.pc = "over"

(* What the documentation of SessionEvent::Closed promises. *)
ExitStatusReported ==
  thread.cause = "server" => server.exit = None \/ thread.exit = server.exit
==============================================================================
