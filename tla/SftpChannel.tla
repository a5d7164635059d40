----------------------------- MODULE SftpChannel -----------------------------
(***************************************************************************)
(* SFTP over one SSH connection: the pane that attaches to the session     *)
(* (main.rs reconcile_sftp), the connect call and the driver that owns the *)
(* protocol session (client.rs), the task that opens the subsystem and the *)
(* pump that joins it to in-process channels (core sftp.rs), and the       *)
(* server.  Each element of Clients is one attempt to attach.              *)
(*                                                                         *)
(* A channel of async-channel keeps what is queued until the last sender   *)
(* and the last receiver are gone; what a queued value owns lives as long. *)
(*                                                                         *)
(* Abstracted: bytes (a count of chunks towards the client), the protocol  *)
(* of russh-sftp (an answer, or an error after its own timeout), and what  *)
(* a command does.  One command per client is outstanding at a time, and   *)
(* the transfer workers are the TransferQueue's: here they only hold the   *)
(* protocol session.                                                       *)
(***************************************************************************)
EXTENDS Naturals

CONSTANTS
  Clients,      (* the attempts to attach, each made at most once            *)
  Buffer,       (* slots of the incoming channel, 16 in sftp.rs              *)
  None          (* no client                                                 *)

ASSUME NoneAssumption   == None \notin Clients
ASSUME BufferAssumption == Buffer \in Nat \ {0}

VARIABLES
  session,      (* "open", or "over": the connection thread has returned     *)
  lock,         (* the attempt whose serve() holds the handle, or None       *)
  attached,     (* the attempt the pane follows, or None                     *)
  connect,      (* the connect call of each attempt                          *)
  client,       (* the SftpClient of each attempt                            *)
  serve,        (* where serve() is                                          *)
  opened,       (* what was sent on the opened channel                       *)
  driver,       (* where run_driver is; "queued" is a job not yet spawned    *)
  ready,        (* what was sent on the ready channel                        *)
  call,         (* the outstanding command                                   *)
  workers,      (* whether transfer workers run                              *)
  toRemote,     (* the two halves of pump()                                  *)
  fromRemote,
  incoming,     (* chunks in the incoming channel, and whether it is closed  *)
  reader,       (* the reader task of the protocol session                   *)
  remote        (* the subsystem channel as the server sees it               *)

ui   == <<attached, connect, client>>
core == <<lock, serve, opened>>
sftp == <<driver, ready, call, workers, reader>>
pump == <<toRemote, fromRemote, incoming>>
vars == <<session, ui, core, sftp, pump, remote>>

TypeOK ==
  /\ session \in {"open", "over"}
  /\ lock \in Clients \cup {None} /\ attached \in Clients \cup {None}
  /\ connect \in [Clients -> {"idle", "waiting", "Ok", "Err"}]
  /\ client \in [Clients -> {"none", "held", "dropped"}]
  /\ serve \in [Clients -> {"none", "queued", "lock", "open", "ask", "accepted",
                            "refused", "jobs", "over"}]
  /\ opened \in [Clients -> {"none", "Ok", "Err"}]
  /\ driver \in [Clients -> {"none", "queued", "opened", "hello", "started",
                             "failed", "serving", "over"}]
  /\ ready \in [Clients -> {"none", "Ok", "Err"}]
  /\ call \in [Clients -> {"none", "queued", "running"}]
  /\ workers \in [Clients -> BOOLEAN]
  /\ toRemote \in [Clients -> {"none", "copying", "done"}]
  /\ fromRemote \in [Clients -> {"none", "copying", "done"}]
  /\ incoming \in [Clients -> [chunks : 0..Buffer, closed : BOOLEAN]]
  /\ reader \in [Clients -> {"none", "reading", "eof", "gone"}]
  /\ remote \in [Clients -> {"none", "open", "closed"}]

Each(value) == [c \in Clients |-> value]

Init ==
  /\ session = "open" /\ lock = None /\ attached = None
  /\ connect = Each("idle") /\ client = Each("none")
  /\ serve = Each("none") /\ opened = Each("none")
  /\ driver = Each("none") /\ ready = Each("none")
  /\ call = Each("none") /\ workers = Each(FALSE)
  /\ toRemote = Each("none") /\ fromRemote = Each("none")
  /\ incoming = Each([chunks |-> 0, closed |-> FALSE])
  /\ reader = Each("none") /\ remote = Each("none")

------------------------------------------------------------------------------
(* Who holds the ends of the byte channels *)

(* The protocol session is shared by the driver, by every command that was  *)
(* dispatched and by the transfer workers.                                  *)
InUse(c) ==
  driver[c] \in {"started", "serving"} \/ call[c] = "running" \/ workers[c]

(* The stream is the job's until the protocol session takes it, and connect *)
(* holds clones of both ends until it returns.                              *)
StreamHeld(c) ==
  driver[c] \in {"queued", "opened", "hello"} \/ InUse(c) \/ connect[c] = "waiting"

------------------------------------------------------------------------------
(* The pane *)

Dropped == [c \in Clients |-> IF client[c] = "held" THEN "dropped" ELSE client[c]]

(* The previous client is dropped, then open_sftp and spawn queue the setup *)
(* and the driver; a refused try_send makes connect return at once.         *)
Attach(c) ==
  /\ connect[c] = "idle"
  /\ attached' = c
  /\ client' = Dropped
  /\ connect' = [connect EXCEPT ![c] = "waiting"]
  /\ \/ /\ session = "open"
        /\ serve' = [serve EXCEPT ![c] = "queued"]
        /\ driver' = [driver EXCEPT ![c] = "queued"]
     \/ /\ driver' = [driver EXCEPT ![c] = "over"]
        /\ UNCHANGED serve
  /\ UNCHANGED <<session, lock, opened, ready, call, workers, reader, pump, remote>>

(* The tab is left, the session is no longer the active one, or it ended. *)
Detach ==
  /\ attached # None
  /\ attached' = None
  /\ client' = Dropped
  /\ UNCHANGED <<session, connect, core, sftp, pump, remote>>

(* ready_rx.recv() returns on a message and when every sender is gone. *)
Answered(c) ==
  /\ connect[c] = "waiting"
  /\ ready[c] # "none" \/ driver[c] = "over"

(* Mutant: the generation is not compared. *)
ReturnAnyGeneration(c) ==
  /\ Answered(c)
  /\ connect' = [connect EXCEPT ![c] = IF ready[c] = "Ok" THEN "Ok" ELSE "Err"]
  /\ IF ready[c] = "Ok"
       THEN client' = [client EXCEPT ![c] = "held"] /\ UNCHANGED attached
       ELSE UNCHANGED client /\ attached' = IF attached = c THEN None ELSE attached
  /\ UNCHANGED <<session, core, sftp, pump, remote>>

(* connect returns and the pane takes the client, unless a newer attach or  *)
(* a detach has superseded this attempt.                                    *)
Return(c) ==
  /\ Answered(c)
  /\ connect' = [connect EXCEPT ![c] = IF ready[c] = "Ok" THEN "Ok" ELSE "Err"]
  /\ IF ready[c] = "Ok"
       THEN /\ client' = [client EXCEPT ![c] = IF attached = c THEN "held" ELSE "dropped"]
            /\ UNCHANGED attached
       ELSE /\ UNCHANGED client
            /\ attached' = IF attached = c THEN None ELSE attached
  /\ UNCHANGED <<session, core, sftp, pump, remote>>

(* request(): the command carries the sender of its reply. *)
Request(c) ==
  /\ client[c] = "held"
  /\ call[c] = "none"
  /\ driver[c] = "serving"
  /\ call' = [call EXCEPT ![c] = "queued"]
  /\ UNCHANGED <<session, ui, core, driver, ready, workers, reader, pump, remote>>

------------------------------------------------------------------------------
(* serve() and open_subsystem() *)

TakeSetup(c) ==
  /\ session = "open"
  /\ serve[c] = "queued"
  /\ serve' = [serve EXCEPT ![c] = "lock"]
  /\ UNCHANGED <<session, ui, lock, opened, sftp, pump, remote>>

TakeLock(c) ==
  /\ serve[c] = "lock"
  /\ lock = None
  /\ lock' = c
  /\ serve' = [serve EXCEPT ![c] = "open"]
  /\ UNCHANGED <<session, ui, opened, sftp, pump, remote>>

Unlocked(c) == lock' = IF lock = c THEN None ELSE lock

(* The session channel is opened, or refused. *)
ChannelAnswered(c) ==
  /\ serve[c] = "open"
  /\ Unlocked(c)
  /\ \E answer \in {"ask", "refused"} : serve' = [serve EXCEPT ![c] = answer]
  /\ UNCHANGED <<session, ui, opened, sftp, pump, remote>>

(* The answer to the subsystem request: Success, or Failure, Eof, Close. *)
SubsystemAnswered(c) ==
  /\ serve[c] = "ask"
  /\ \/ /\ serve' = [serve EXCEPT ![c] = "accepted"]
        /\ remote' = [remote EXCEPT ![c] = "open"]
     \/ /\ serve' = [serve EXCEPT ![c] = "refused"]
        /\ UNCHANGED remote
  /\ UNCHANGED <<session, ui, lock, opened, sftp, pump>>

(* Mutant: only the answer to the subsystem request is timed. *)
TimeoutOfAnswer(c) ==
  /\ serve[c] = "ask"
  /\ serve' = [serve EXCEPT ![c] = "refused"]
  /\ UNCHANGED <<session, ui, lock, opened, sftp, pump, remote>>

(* OPEN_TIMEOUT covers the wait for the lock and both answers; dropping the *)
(* future releases the lock.                                                *)
Timeout(c) ==
  /\ serve[c] \in {"lock", "open", "ask"}
  /\ Unlocked(c)
  /\ serve' = [serve EXCEPT ![c] = "refused"]
  /\ UNCHANGED <<session, ui, opened, sftp, pump, remote>>

(* The driver's job holds a receiver, so the send succeeds. *)
TellOpened(c) ==
  /\ serve[c] = "accepted"
  /\ opened' = [opened EXCEPT ![c] = "Ok"]
  /\ serve' = [serve EXCEPT ![c] = "jobs"]
  /\ toRemote' = [toRemote EXCEPT ![c] = "copying"]
  /\ fromRemote' = [fromRemote EXCEPT ![c] = "copying"]
  /\ UNCHANGED <<session, ui, lock, sftp, incoming, remote>>

(* serve() returns before it ever looked at the jobs. *)
TellRefused(c) ==
  /\ serve[c] = "refused"
  /\ opened' = [opened EXCEPT ![c] = "Err"]
  /\ serve' = [serve EXCEPT ![c] = "over"]
  /\ UNCHANGED <<session, ui, lock, sftp, pump, remote>>

(* jobs.recv() gives the driver; it fails once connect dropped its sender.  *)
TakeJob(c) ==
  /\ serve[c] = "jobs"
  /\ \/ /\ driver[c] = "queued"
        /\ driver' = [driver EXCEPT ![c] = "opened"]
        /\ UNCHANGED serve
     \/ /\ driver[c] # "queued" /\ connect[c] # "waiting"
        /\ serve' = [serve EXCEPT ![c] = "over"]
        /\ UNCHANGED driver
  /\ UNCHANGED <<session, ui, lock, opened, ready, call, workers, reader, pump, remote>>

------------------------------------------------------------------------------
(* run_driver() *)

DriverGoes(c, to) == driver' = [driver EXCEPT ![c] = to]

DriverOpened(c) ==
  /\ driver[c] = "opened"
  /\ DriverGoes(c, IF opened[c] = "Ok" THEN "hello" ELSE "failed")
  /\ reader' = [reader EXCEPT ![c] = IF opened[c] = "Ok" THEN "reading" ELSE @]
  /\ UNCHANGED <<session, ui, core, ready, call, workers, pump, remote>>

(* SftpSession::new gives up when no version comes, and drops the stream. *)
HandshakeFails(c) ==
  /\ driver[c] = "hello"
  /\ DriverGoes(c, "failed")
  /\ reader' = [reader EXCEPT ![c] = "gone"]
  /\ UNCHANGED <<session, ui, core, ready, call, workers, pump, remote>>

TellReady(c) ==
  /\ driver[c] \in {"started", "failed"}
  /\ LET ok == driver[c] = "started"
     IN  /\ ready' = [ready EXCEPT ![c] = IF ok THEN "Ok" ELSE "Err"]
         /\ DriverGoes(c, IF ok THEN "serving" ELSE "over")
         /\ workers' = [workers EXCEPT ![c] = ok]
  /\ UNCHANGED <<session, ui, core, call, reader, pump, remote>>

Dispatch(c) ==
  /\ driver[c] = "serving"
  /\ call[c] = "queued"
  /\ call' = [call EXCEPT ![c] = "running"]
  /\ UNCHANGED <<session, ui, core, driver, ready, workers, reader, pump, remote>>

(* The reply, of whatever kind, reaches the caller. *)
Reply(c) ==
  /\ call[c] = "running"
  /\ call' = [call EXCEPT ![c] = "none"]
  /\ UNCHANGED <<session, ui, core, driver, ready, workers, reader, pump, remote>>

(* Mutant: the driver stops as soon as the pane lets go of the client. *)
DriverEndsEarly(c) ==
  /\ driver[c] = "serving"
  /\ client[c] = "dropped"
  /\ DriverGoes(c, "over")
  /\ UNCHANGED <<session, ui, core, ready, call, workers, reader, pump, remote>>

(* commands.recv() fails when the client is gone, which a pending request   *)
(* keeps alive.  close() is not called: the workers stay.                   *)
DriverEnds(c) ==
  /\ driver[c] = "serving"
  /\ client[c] = "dropped" /\ call[c] = "none"
  /\ DriverGoes(c, "over")
  /\ UNCHANGED <<session, ui, core, ready, call, workers, reader, pump, remote>>

------------------------------------------------------------------------------
(* pump() *)

(* A chunk from the server waits for a slot. *)
RemoteSends(c) ==
  /\ remote[c] = "open" /\ fromRemote[c] = "copying"
  /\ StreamHeld(c)
  /\ incoming[c].chunks < Buffer
  /\ incoming' = [incoming EXCEPT ![c].chunks = @ + 1]
  /\ UNCHANGED <<session, ui, core, sftp, toRemote, fromRemote, remote>>

(* Mutant: the half that ends leaves the channel open. *)
FromRemoteEndsOpen(c) ==
  /\ fromRemote[c] = "copying"
  /\ remote[c] = "closed" \/ ~ StreamHeld(c)
  /\ fromRemote' = [fromRemote EXCEPT ![c] = "done"]
  /\ incoming' = [incoming EXCEPT ![c].closed = toRemote[c] = "done"]
  /\ UNCHANGED <<session, ui, core, sftp, toRemote, remote>>

(* End of file from the server, or a send that nobody can receive; then     *)
(* incoming.close(), as the other half may go on for long.                  *)
FromRemoteEnds(c) ==
  /\ fromRemote[c] = "copying"
  /\ remote[c] = "closed" \/ ~ StreamHeld(c)
  /\ fromRemote' = [fromRemote EXCEPT ![c] = "done"]
  /\ incoming' = [incoming EXCEPT ![c].closed = TRUE]
  /\ UNCHANGED <<session, ui, core, sftp, toRemote, remote>>

(* outgoing.recv() fails once every sender is gone, or a write to a closed  *)
(* channel fails; then the server is sent an end of file.                   *)
ToRemoteEnds(c) ==
  /\ toRemote[c] = "copying"
  /\ ~ StreamHeld(c) \/ (remote[c] = "closed" /\ (driver[c] = "hello" \/ call[c] = "running"))
  /\ toRemote' = [toRemote EXCEPT ![c] = "done"]
  /\ UNCHANGED <<session, ui, core, sftp, fromRemote, incoming, remote>>

(* poll_read of the stream, polled by the protocol session's reader: the    *)
(* first chunk is the server's version.                                     *)
Read(c) ==
  /\ reader[c] = "reading"
  /\ \/ /\ incoming[c].chunks > 0
        /\ incoming' = [incoming EXCEPT ![c].chunks = @ - 1]
        /\ DriverGoes(c, IF driver[c] = "hello" THEN "started" ELSE driver[c])
        /\ UNCHANGED reader
     \/ /\ incoming[c].chunks = 0 /\ incoming[c].closed
        /\ reader' = [reader EXCEPT ![c] = "eof"]
        /\ UNCHANGED <<incoming, driver>>
  /\ UNCHANGED <<session, ui, core, ready, call, workers, toRemote, fromRemote, remote>>

------------------------------------------------------------------------------
(* The server and the session *)

RemoteCloses(c) ==
  /\ remote[c] = "open"
  /\ remote' = [remote EXCEPT ![c] = "closed"]
  /\ UNCHANGED <<session, ui, core, sftp, pump>>

(* The runtime is dropped with every task on it.  A setup the thread never  *)
(* took, a driver that was never spawned and a command that was never       *)
(* dispatched stay where they are queued.                                   *)
SessionEnds ==
  /\ session = "open"
  /\ session' = "over"
  /\ lock' = None
  /\ serve' = [c \in Clients |-> IF serve[c] \in {"none", "queued"} THEN serve[c] ELSE "over"]
  /\ driver' = [c \in Clients |-> IF driver[c] \in {"none", "queued"} THEN driver[c] ELSE "over"]
  /\ call' = [c \in Clients |-> IF call[c] = "queued" THEN "queued" ELSE "none"]
  /\ workers' = Each(FALSE)
  /\ toRemote' = [c \in Clients |-> IF toRemote[c] = "none" THEN "none" ELSE "done"]
  /\ fromRemote' = [c \in Clients |-> IF fromRemote[c] = "none" THEN "none" ELSE "done"]
  /\ reader' = [c \in Clients |-> IF reader[c] = "none" THEN "none" ELSE "gone"]
  /\ incoming' = [c \in Clients |-> [chunks |-> 0, closed |-> fromRemote[c] # "none"]]
  /\ remote' = [c \in Clients |-> IF remote[c] = "none" THEN "none" ELSE "closed"]
  /\ UNCHANGED <<ui, opened, ready>>

------------------------------------------------------------------------------
ServeStep(c)  == TakeSetup(c) \/ TakeLock(c) \/ TellOpened(c) \/ TellRefused(c) \/ TakeJob(c)
DriverStep(c) == DriverOpened(c) \/ HandshakeFails(c) \/ TellReady(c) \/ Dispatch(c) \/ DriverEnds(c)

Next ==
  \/ \E c \in Clients :
       \/ Attach(c) \/ Return(c) \/ Request(c)
       \/ ServeStep(c) \/ ChannelAnswered(c) \/ SubsystemAnswered(c) \/ Timeout(c)
       \/ DriverStep(c) \/ Reply(c)
       \/ RemoteSends(c) \/ FromRemoteEnds(c) \/ ToRemoteEnds(c) \/ Read(c) \/ RemoteCloses(c)
  \/ Detach
  \/ SessionEnds

Spec == Init /\ [][Next]_vars

(* Tasks run when they can and the timer fires.  russh-sftp gives up on a   *)
(* handshake or a command that gets no answer; the server need not answer,  *)
(* send or close anything.                                                  *)
Fairness ==
  \A c \in Clients :
    /\ WF_vars(Return(c)) /\ WF_vars(ServeStep(c)) /\ WF_vars(Timeout(c))
    /\ WF_vars(DriverStep(c)) /\ WF_vars(Reply(c))
    /\ WF_vars(FromRemoteEnds(c)) /\ WF_vars(ToRemoteEnds(c)) /\ WF_vars(Read(c))

FairSpec == Spec /\ Fairness

------------------------------------------------------------------------------
(* Properties *)

(* At most one client is held, the one of the attempt the pane follows: an  *)
(* attempt that was superseded while it was connecting never gets in.       *)
OneClient == \A c \in Clients : client[c] = "held" => attached = c

(* No attempt keeps the others, or the session's last disconnect, from the  *)
(* handle: the opening of a subsystem ends, whether the server answers or   *)
(* not and whoever holds the lock.                                          *)
OpeningEnds ==
  \A c \in Clients :
    serve[c] \in {"lock", "open", "ask"} ~> serve[c] \notin {"lock", "open", "ask"}

(* When the server closes the subsystem, the protocol session reads what    *)
(* came before and then the end, even though the workers keep the other     *)
(* half of the pump going.                                                  *)
EofReachesReader ==
  \A c \in Clients : remote[c] = "closed" /\ reader[c] = "reading" ~> reader[c] # "reading"

(* A command that was accepted is answered, even when the pane lets go of   *)
(* the client meanwhile, as long as the session lives.                      *)
CommandsAnswered ==
  \A c \in Clients : call[c] # "none" ~> (call[c] = "none" \/ session = "over")

(* What sftp.rs says of OPEN_TIMEOUT: a server that refuses the subsystem,  *)
(* or never answers, does not hang the caller.                              *)
RefusalReachesCaller ==
  \A c \in Clients : opened[c] = "Err" ~> connect[c] # "waiting"

(* What main.rs says of reconcile_sftp, "at most one SFTP session is live": *)
(* the session of a client that was dropped ends, unless the server ends it.*)
DroppedClientCloses ==
  \A c \in Clients : client[c] = "dropped" ~> toRemote[c] = "done" \/ remote[c] = "closed"
==============================================================================
