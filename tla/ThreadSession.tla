---------------------------- MODULE ThreadSession ----------------------------
(***************************************************************************)
(* The sessions that run on two plain threads instead of a runtime:        *)
(*                                                                         *)
(*   "telnet"  a TCP connection    sshdeck-telnet/src/session.rs           *)
(*   "mosh"    a mosh process      sshdeck-mosh/src/session.rs             *)
(*   "local"   the local shell     sshdeck-app/src/local_session.rs        *)
(*                                                                         *)
(* They share a shape: one thread serves a bounded command queue and       *)
(* writes, the other reads and fills a bounded event queue, and the caller *)
(* holds a handle whose Drop asks for the end.  They differ in how the end *)
(* of one side reaches the other, which is what this module is about.      *)
(*                                                                         *)
(* peer is the server or the child process behind its pty.  It may stop    *)
(* taking input for ever, so a write need not return while it lives.       *)
(***************************************************************************)
EXTENDS Naturals, Sequences

CONSTANTS
  Kinds,        (* the kinds of session the run looks at                     *)
  CmdCap,       (* slots of the command queue, 64 in the code                *)
  EventCap,     (* slots of the event queue, 256 in the code                 *)
  MaxOutput,    (* chunks the peer sends; bounds the model                   *)
  MaxInput      (* commands the user sends; bounds the model                 *)

ASSUME KindsAssumption == Kinds \subseteq {"telnet", "mosh", "local"}
ASSUME CapsAssumption  == CmdCap \in Nat \ {0} /\ EventCap \in Nat \ {0}
ASSUME MaxAssumption   == MaxOutput \in Nat /\ MaxInput \in Nat

VARIABLES
  kind,         (* which session this is                                     *)
  sup,          (* the thread that serves the commands                       *)
  status,       (* what sup knows of the end: "none", "exited", "unknown"    *)
  failed,       (* a write to mosh failed and is still to be reported        *)
  rd,           (* the thread that reads                                     *)
  cmds,         (* the command queue                                         *)
  sent,         (* how many commands the user has queued                     *)
  handle,       (* the caller's handle: "held" or "dropped"                  *)
  events,       (* the event queue                                           *)
  watch,        (* the task that consumes the events: "on", "told", "off"    *)
  peer,         (* "up", "killed" (still to go) or "ended"                   *)
  shut,         (* telnet: the socket was shut down on this side             *)
  pipe,         (* chunks the peer wrote that nobody has read yet            *)
  produced,     (* chunks the peer has written                               *)
  delivered,    (* chunks put into the event queue                           *)
  over          (* the event that ends the session has been queued           *)

vars == <<kind, sup, status, failed, rd, cmds, sent, handle, events, watch,
          peer, shut, pipe, produced, delivered, over>>

supVars  == <<sup, status, failed>>
peerVars == <<peer, shut, pipe, produced>>
outVars  == <<events, delivered, over>>
userVars == <<sent, handle, watch>>

Commands == {"write", "resize", "eof", "stop"}
EndEvents == {"Closed", "Exited", "Error"}
EventNames == {"Connected", "Data", "Failure"} \cup EndEvents
SupSteps == {"connect", "connectFailed", "spawn", "spawnFailed", "announce",
             "serve", "write", "reap", "wait", "report", "join", "unknown",
             "end", "kill", "done"}
RdSteps == {"none", "read", "data", "reply", "tellClosed", "tellError",
            "eof", "done", "gaveUp", "refused"}
RdOver == {"done", "gaveUp", "refused"}

TypeOK ==
  /\ kind \in Kinds
  /\ sup \in SupSteps
  /\ status \in {"none", "exited", "unknown"}
  /\ failed \in BOOLEAN
  /\ rd \in RdSteps
  /\ cmds \in Seq(Commands) /\ Len(cmds) <= CmdCap
  /\ sent \in 0..MaxInput
  /\ handle \in {"held", "dropped"}
  /\ events \in Seq(EventNames) /\ Len(events) <= EventCap
  /\ watch \in {"on", "told", "off"}
  /\ peer \in {"up", "killed", "ended"}
  /\ shut \in BOOLEAN
  /\ produced \in 0..MaxOutput
  /\ pipe \in 0..produced
  /\ delivered \in 0..produced
  /\ over \in BOOLEAN

(* connect_with() only spawns the thread.  The two spawn() have a child and  *)
(* its first event before any thread runs, and local starts its reader too.  *)
Init ==
  /\ kind \in Kinds
  /\ sup = CASE kind = "telnet" -> "connect"
             [] kind = "mosh"   -> "spawn"
             [] kind = "local"  -> "serve"
  /\ rd = IF kind = "local" THEN "read" ELSE "none"
  /\ events = IF kind = "telnet" THEN <<>> ELSE <<"Connected">>
  /\ status = "none" /\ failed = FALSE
  /\ cmds = <<>> /\ sent = 0 /\ handle = "held" /\ watch = "on"
  /\ peer = "up" /\ shut = FALSE
  /\ pipe = 0 /\ produced = 0 /\ delivered = 0 /\ over = FALSE

(* A receiver is held by the handle and by the watching task, the senders by *)
(* the two threads; commands.close() or the only sender's drop closes the    *)
(* command queue, and so does its receiver's end.                            *)
Receiving == handle = "held" \/ watch = "on"
SendersGone == sup = "done" /\ rd \in RdOver
CommandsOpen == handle = "held" /\ sup # "done"

(* send_blocking(): waits for room, and fails once nobody receives. *)
Emit(e) ==
  IF Receiving
  THEN Len(events) < EventCap /\ events' = Append(events, e)
  ELSE UNCHANGED events

(* An emission of sup after which it is at step next. *)
Tell(step, e, next) ==
  /\ sup = step
  /\ Emit(e)
  /\ sup' = next
  /\ over' = (over \/ e \in EndEvents)
  /\ UNCHANGED <<kind, status, failed, rd, cmds, userVars, peerVars, delivered>>

------------------------------------------------------------------------------
(* The thread that serves the commands *)

(* telnet run(): TcpStream::connect, try_clone, the reader's thread; each may *)
(* fail with an Error.  The reader runs before Connected is queued.           *)
Connect ==
  /\ sup = "connect"
  /\ \/ sup' = "connectFailed" /\ peer' = "ended" /\ rd' = "done"
     \/ sup' = "announce" /\ rd' = "read" /\ UNCHANGED peer
  /\ UNCHANGED <<kind, status, failed, cmds, userVars, shut, pipe, produced, outVars>>

(* mosh supervise(): a session without a reader can still be shut down. *)
SpawnReader ==
  /\ sup = "spawn"
  /\ \/ sup' = "serve" /\ rd' = "read"
     \/ sup' = "spawnFailed" /\ rd' = "gaveUp"
  /\ UNCHANGED <<kind, status, failed, cmds, userVars, peerVars, outVars>>

(* A failed write of the three loops: telnet leaves, mosh reaps and reports, *)
(* local leaves and kills.                                                   *)
WriteFailed ==
  /\ sup' = CASE kind = "telnet" -> "done" [] kind = "mosh" -> "reap" [] kind = "local" -> "kill"
  /\ shut' = (shut \/ kind = "telnet")
  /\ failed' = (kind = "mosh")

(* Close, Shutdown or a closed queue. *)
Stopped ==
  /\ sup' = IF kind = "telnet" THEN "done" ELSE "reap"
  /\ shut' = (shut \/ kind = "telnet")
  /\ UNCHANGED failed

(* Mutant: the supervisor does not look at what closed the queue. *)
ServeUntilStop ==
  /\ sup = "serve"
  /\ cmds # <<>>
  /\ cmds' = Tail(cmds)
  /\ CASE Head(cmds) = "write"  -> sup' = "write" /\ UNCHANGED <<shut, failed>>
       [] Head(cmds) = "resize" ->
            sup' = (IF kind = "telnet" THEN "write" ELSE "serve") /\ UNCHANGED <<shut, failed>>
       [] Head(cmds) = "eof"    -> sup' = "wait" /\ UNCHANGED <<shut, failed>>
       [] Head(cmds) = "stop"   -> Stopped
  /\ UNCHANGED <<kind, status, rd, userVars, peer, pipe, produced, outVars>>

(* recv_blocking() and what each command does.  A resize is a write to the   *)
(* server, and an ioctl on a pty.                                            *)
Serve ==
  \/ ServeUntilStop
  \/ /\ sup = "serve"
     /\ cmds = <<>> /\ handle = "dropped"
     /\ Stopped
     /\ UNCHANGED <<kind, status, rd, cmds, userVars, peer, pipe, produced, outVars>>

(* write_all(): the peer takes the bytes, which nothing obliges it to do ... *)
PeerTakes ==
  /\ sup = "write"
  /\ peer = "up"
  /\ sup' = "serve"
  /\ UNCHANGED <<kind, status, failed, rd, cmds, userVars, peerVars, outVars>>

(* ... or it has ended, and the write fails, or is swallowed by the socket. *)
WriteReturns ==
  /\ sup = "write"
  /\ peer = "ended"
  /\ \/ WriteFailed
     \/ kind = "telnet" /\ sup' = "serve" /\ UNCHANGED <<shut, failed>>
  /\ UNCHANGED <<kind, status, rd, cmds, userVars, peer, pipe, produced, outVars>>

(* reap() and kill_child(): the signal; the child is gone some time later. *)
Kill ==
  /\ sup \in {"reap", "kill"}
  /\ sup' = IF sup = "reap" THEN "wait" ELSE "done"
  /\ peer' = IF peer = "up" THEN "killed" ELSE peer
  /\ UNCHANGED <<kind, status, failed, rd, cmds, userVars, shut, pipe, produced, outVars>>

(* wait() returns when the child has gone; the status may not be had. *)
Wait ==
  /\ sup = "wait"
  /\ peer = "ended"
  /\ \E s \in {"exited", "unknown"} : status' = s
  /\ sup' = CASE kind = "local" -> "end" [] failed -> "report" [] OTHER -> "join"
  /\ UNCHANGED <<kind, failed, rd, cmds, userVars, peerVars, outVars>>

(* Mutant: mosh does not wait for its reader. *)
JoinNobody ==
  /\ sup = "join"
  /\ sup' = IF status = "unknown" THEN "unknown" ELSE "end"
  /\ UNCHANGED <<kind, status, failed, rd, cmds, userVars, peerVars, outVars>>

(* mosh joins its reader, so that Exited comes last. *)
Join == rd \in RdOver /\ JoinNobody

(* The last event; local then kills and waits once more, to no effect. *)
End == Tell("end", IF kind = "mosh" THEN "Exited" ELSE "Closed", "done")

Announce == Tell("announce", "Connected", "serve")
ConnectFails == Tell("connectFailed", "Error", "done")
SpawnFails == Tell("spawnFailed", "Failure", "serve")
ReportFailure == Tell("report", "Failure", "join")
ReportUnknown == Tell("unknown", "Failure", "end")

Supervise ==
  \/ Connect \/ ConnectFails \/ SpawnReader \/ SpawnFails \/ Announce
  \/ Serve \/ WriteReturns
  \/ Kill \/ Wait \/ ReportFailure \/ Join \/ ReportUnknown \/ End

------------------------------------------------------------------------------
(* The thread that reads *)

rdFrame == <<kind, supVars, userVars>>

(* A chunk with something to show. *)
ReadData ==
  /\ rd = "read" /\ pipe > 0
  /\ pipe' = pipe - 1
  /\ rd' = "data"
  /\ UNCHANGED <<rdFrame, cmds, peer, shut, produced, outVars>>

(* telnet: a chunk with nothing to show, which the codec answers or cannot    *)
(* read, and a read that fails once the connection is broken.                *)
ReadNegotiation ==
  /\ kind = "telnet" /\ rd = "read"
  /\ \/ pipe > 0 /\ pipe' = pipe - 1 /\ rd' \in {"reply", "tellError"}
     \/ peer = "ended" /\ rd' = "tellError" /\ UNCHANGED pipe
  /\ UNCHANGED <<rdFrame, cmds, peer, shut, produced, outVars>>

(* Queue what was read; without a receiver the reader leaves in silence.  A  *)
(* telnet chunk may ask for a reply besides.                                 *)
SendData ==
  /\ rd = "data"
  /\ Emit("Data")
  /\ IF Receiving
     THEN delivered' = delivered + 1 /\ rd' \in {"read"} \cup (IF kind = "telnet" THEN {"reply"} ELSE {})
     ELSE rd' = "done" /\ UNCHANGED delivered
  /\ UNCHANGED <<rdFrame, cmds, peerVars, over>>

(* The reply goes out on the reader's clone of the socket.  If it cannot be  *)
(* written the loop breaks, and nothing is told.                             *)
Reply ==
  /\ rd = "reply"
  /\ \/ peer = "up" /\ ~shut /\ rd' = "read"
     \/ peer = "ended" /\ ~shut /\ rd' \in {"read", "gaveUp"}
     \/ shut /\ rd' = "gaveUp"
  /\ UNCHANGED <<rdFrame, cmds, peerVars, outVars>>

(* Mutant: the end of the stream is taken for granted before the rest of it. *)
ReadEndEarly ==
  /\ rd = "read" /\ (peer = "ended" \/ shut)
  /\ rd' = IF kind = "telnet" THEN "tellClosed" ELSE "eof"
  /\ UNCHANGED <<rdFrame, cmds, peerVars, outVars>>

(* The end of the stream: what was written before it is read first. *)
ReadEnd == pipe = 0 /\ ReadEndEarly

(* telnet tells the caller itself. *)
TellEnd ==
  /\ rd \in {"tellClosed", "tellError"}
  /\ Emit(IF rd = "tellClosed" THEN "Closed" ELSE "Error")
  /\ over' = TRUE
  /\ rd' = "done"
  /\ UNCHANGED <<rdFrame, cmds, peerVars, delivered>>

(* Mutant: local's nudge is a try_send() too. *)
TellEofBestEffort ==
  /\ rd = "eof"
  /\ rd' = "done"
  /\ cmds' = IF CommandsOpen /\ Len(cmds) < CmdCap THEN Append(cmds, "eof") ELSE cmds
  /\ UNCHANGED <<rdFrame, peerVars, outVars>>

(* The others tell the supervisor: mosh with try_send(), which a full queue  *)
(* refuses, local with send_blocking(); a closed queue refuses both.         *)
TellEof ==
  /\ rd = "eof"
  /\ \/ /\ CommandsOpen /\ Len(cmds) < CmdCap
        /\ cmds' = Append(cmds, "eof")
        /\ rd' = "done"
     \/ /\ ~CommandsOpen
        /\ rd' = "done" /\ UNCHANGED cmds
     \/ /\ CommandsOpen /\ Len(cmds) = CmdCap /\ kind = "mosh"
        /\ rd' = "refused" /\ UNCHANGED cmds
  /\ UNCHANGED <<rdFrame, peerVars, outVars>>

ReadLoop == ReadData \/ ReadNegotiation \/ SendData \/ Reply \/ ReadEnd \/ TellEnd \/ TellEof

------------------------------------------------------------------------------
(* The caller: its handle, and the task that watches the events *)

(* write(), resize(), disconnect() and shutdown() are try_send()s. *)
Send(c) ==
  /\ CommandsOpen
  /\ sent < MaxInput
  /\ Len(cmds) < CmdCap
  /\ cmds' = Append(cmds, c)
  /\ sent' = sent + 1
  /\ UNCHANGED <<kind, supVars, rd, handle, watch, peerVars, outVars>>

SendInput == Send("write") \/ Send("resize")

(* The local shell's shutdown() is never called. *)
SendStop == kind # "local" /\ Send("stop")

(* Drop: a best-effort stop, and the queue is closed. *)
DropHandle ==
  /\ handle = "held"
  /\ cmds' = IF sup # "done" /\ Len(cmds) < CmdCap THEN Append(cmds, "stop") ELSE cmds
  /\ handle' = "dropped"
  /\ UNCHANGED <<kind, supVars, rd, sent, watch, peerVars, outVars>>

(* The watching task: it stops at the event that ends the session, or at the *)
(* first one that finds its pane gone.                                       *)
Watch ==
  /\ watch = "on" /\ events # <<>>
  /\ events' = Tail(events)
  /\ watch' = CASE handle = "dropped" -> "off"
                [] Head(events) \in EndEvents -> "told"
                [] OTHER -> "on"
  /\ UNCHANGED <<kind, supVars, rd, cmds, sent, handle, peerVars, delivered, over>>

(* The queue ended without such an event: the pane says so. *)
WatchEnds ==
  /\ watch = "on" /\ events = <<>> /\ SendersGone
  /\ watch' = "told"
  /\ UNCHANGED <<kind, supVars, rd, cmds, sent, handle, peerVars, outVars>>

------------------------------------------------------------------------------
(* The server, or the child process *)

Produce ==
  /\ peer = "up" /\ produced < MaxOutput
  /\ sup \notin {"connect", "connectFailed"}
  /\ produced' = produced + 1
  /\ pipe' = pipe + 1
  /\ UNCHANGED <<kind, supVars, rd, cmds, userVars, peer, shut, outVars>>

PeerEnds ==
  /\ peer # "ended" /\ sup # "connect"
  /\ peer' = "ended"
  /\ UNCHANGED <<kind, supVars, rd, cmds, userVars, shut, pipe, produced, outVars>>

Next ==
  \/ Supervise \/ PeerTakes \/ ReadLoop
  \/ SendInput \/ SendStop \/ DropHandle \/ Watch \/ WatchEnds
  \/ Produce \/ PeerEnds

Spec == Init /\ [][Next]_vars

(* The threads and the watching task are scheduled, and a killed child goes. *)
(* Nobody has to write, to take what is written, to end or to drop anything. *)
Fairness ==
  /\ WF_vars(Supervise)
  /\ WF_vars(ReadData \/ SendData \/ ReadEnd \/ TellEnd \/ TellEof)
  /\ WF_vars(Reply)
  /\ WF_vars(Watch \/ WatchEnds)
  /\ WF_vars(peer = "killed" /\ PeerEnds)

FairSpec == Spec /\ Fairness
------------------------------------------------------------------------------
(* What must hold *)

(* What the peer wrote before it ended by itself or was reaped is queued     *)
(* before the event that says so, unless nobody was left to read it.  For    *)
(* local, a shutdown does not wait for the reader: only an end found by the  *)
(* reader counts.                                                            *)
OutputWhole ==
  over /\ handle = "held" /\ kind # "telnet" /\ rd # "gaveUp" => delivered = produced /\ pipe = 0

(* MoshEvent: "Always the last event"; the local shell's Closed likewise     *)
(* while the pane lives.                                                     *)
EndIsLast ==
  over /\ kind # "telnet" /\ handle = "held" => Len(events') <= Len(events)

(* The peer's output comes whole, and then the end and nothing after it.     *)
OutputThenEnd == [][OutputWhole' /\ EndIsLast]_vars

(* A dropped handle ends both threads and the child, however full the queues *)
(* are, unless the peer never takes what is being written to it.             *)
AllDone == SendersGone /\ (kind = "telnet" \/ peer = "ended")
DropEnds == [](handle = "dropped" => <>AllDone \/ <>[](sup = "write"))

(* When the peer ends, the caller that keeps its handle is told, unless the  *)
(* reader left in silence (a reply it could not write) or mosh's nudge was   *)
(* refused by a full queue.                                                  *)
EndIsTold ==
  [](peer = "ended" => <>(watch # "on" \/ handle = "dropped" \/ rd \in {"gaveUp", "refused"}))

(* The same without the exception: telnet's "The server closed the           *)
(* connection (or we did)" and "Progress and failure arrive as events".      *)
EndAlwaysTold == [](peer = "ended" => <>(watch # "on" \/ handle = "dropped"))

(* Drop's own comment: "Do not leak the connection thread when the UI        *)
(* discards the handle", with no exception for a peer that stops reading.    *)
DroppedThreadsEnd == [](handle = "dropped" => <>AllDone)
==============================================================================
