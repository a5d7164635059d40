---------------------------- MODULE TransferQueue ----------------------------
(***************************************************************************)
(* The bounded-concurrency transfer queue of sshdeck-sftp (transfer.rs).   *)
(*                                                                         *)
(* Callers enqueue and cancel transfers; worker tasks compete for one      *)
(* unbounded job channel and run each transfer through an executor; every  *)
(* state change is announced on one bounded event channel that a consumer  *)
(* drains.  An action is one lock region, one channel operation or one     *)
(* await: what another task can observe in between is a state of its own.  *)
(*                                                                         *)
(* Abstracted: a TransferId is the transfer it names (the counter only     *)
(* makes ids distinct), bytes are 0..MaxDone, an error has no message, and *)
(* the partial disposition that rides along with a terminal event belongs  *)
(* to the executor (ResumableDownload), not to the queue.                  *)
(***************************************************************************)
EXTENDS Naturals, Sequences

CONSTANTS
  Transfers,    (* the transfers that callers may enqueue, each at most once *)
  Workers,      (* the worker tasks: their number is the concurrency cap     *)
  Capacity,     (* slots of the event channel, EVENT_CAPACITY in client.rs   *)
  MaxDone,      (* largest byte count an executor reports; bounds the model  *)
  NoTransfer    (* the id field of a worker that holds no transfer           *)

ASSUME NoTransferAssumption == NoTransfer \notin Transfers
ASSUME CapacityAssumption == Capacity \in Nat \ {0}
ASSUME MaxDoneAssumption  == MaxDone \in Nat

VARIABLES
  entries,      (* QueueState.entries, with the fields of Entry             *)
  caller,       (* where the enqueue call of each transfer is               *)
  cancelling,   (* cancel calls that wait to emit a queued Cancelled        *)
  jobs,         (* the job channel                                          *)
  jobsOpen,     (* FALSE once close() closed it                             *)
  events,       (* the event channel                                        *)
  eventsOpen,   (* FALSE once the consumer dropped its receiver             *)
  worker,       (* where each worker task is                                *)
  view,         (* history: the last event the consumer took, per transfer  *)
  promised,     (* history: the transfers cancel() returned true for        *)
  accepted      (* history: the last byte count progress() accepted         *)

queueVars  == <<entries, caller, cancelling, jobs, jobsOpen>>
eventVars  == <<events, eventsOpen, view>>
vars == <<entries, caller, cancelling, jobs, jobsOpen, events, eventsOpen,
          worker, view, promised, accepted>>

------------------------------------------------------------------------------
(* Events and the lifecycle they report *)

LC == INSTANCE TransferLifecycle

Event(t, report) == [id |-> t, report |-> report]
Events == [id : Transfers, report : LC!Reports]

NoTick == 0   \* undelivered_done: None.  An accepted count is at least 1.

EntryStates == {"absent", "Queued", "Running", "Cancelled", "removed"}
Entries == [state : EntryStates, done : 0..MaxDone, cancel : BOOLEAN,
            undelivered : 0..MaxDone]

Absent == [state |-> "absent", done |-> 0, cancel |-> FALSE, undelivered |-> NoTick]

HasEntry(t) == entries[t].state \in {"Queued", "Running", "Cancelled"}

Idle == [pc |-> "recv", id |-> NoTransfer, final |-> "none", tick |-> NoTick]

WorkerStates ==
  [pc    : {"recv", "announce", "execute", "tick", "flush", "end", "exited"},
   id    : Transfers \cup {NoTransfer},
   final : LC!TerminalStates \cup {"none"},
   tick  : 0..MaxDone]

TypeOK ==
  /\ entries \in [Transfers -> Entries]
  /\ caller \in [Transfers -> {"idle", "emit", "send", "queued", "refused"}]
  /\ cancelling \subseteq Transfers
  /\ jobs \in Seq(Transfers)
  /\ jobsOpen \in BOOLEAN
  /\ events \in Seq(Events)
  /\ Len(events) <= Capacity
  /\ eventsOpen \in BOOLEAN
  /\ worker \in [Workers -> WorkerStates]
  /\ view \in [Transfers -> LC!Reports \cup {LC!Unseen}]
  /\ promised \subseteq Transfers
  /\ accepted \in [Transfers -> 0..MaxDone]

Init ==
  /\ entries = [t \in Transfers |-> Absent]
  /\ caller = [t \in Transfers |-> "idle"]
  /\ cancelling = {}
  /\ jobs = <<>>
  /\ jobsOpen = TRUE
  /\ events = <<>>
  /\ eventsOpen = TRUE
  /\ worker = [w \in Workers |-> Idle]
  /\ view = [t \in Transfers |-> LC!Unseen]
  /\ promised = {}
  /\ accepted = [t \in Transfers |-> 0]

(* Mutant of emit(): it waits for a receiver. *)
EmitNeedsReceiver(t, report) ==
  /\ eventsOpen
  /\ Len(events) < Capacity
  /\ events' = Append(events, Event(t, report))
  /\ UNCHANGED <<eventsOpen, view>>

(* emit(): awaits a free slot.  When the receiver is gone the send fails at *)
(* once and the error is ignored.                                           *)
Emit(t, report) ==
  /\ IF eventsOpen
       THEN /\ Len(events) < Capacity
            /\ events' = Append(events, Event(t, report))
       ELSE UNCHANGED events
  /\ UNCHANGED <<eventsOpen, view>>

------------------------------------------------------------------------------
(* enqueue(): the lock region, the Queued event, the job *)

EnqueueInsert(t) ==
  /\ caller[t] = "idle"
  /\ caller' = [caller EXCEPT ![t] = "emit"]
  /\ entries' = [entries EXCEPT ![t].state = "Queued"]
  /\ UNCHANGED <<cancelling, jobs, jobsOpen, worker, promised, accepted, eventVars>>

EnqueueEmit(t) ==
  /\ caller[t] = "emit"
  /\ Emit(t, LC!Queued)
  /\ caller' = [caller EXCEPT ![t] = "send"]
  /\ UNCHANGED <<entries, cancelling, jobs, jobsOpen, worker, promised, accepted>>

(* The send fails, unnoticed, when close() came first; the id is returned   *)
(* all the same.                                                            *)
EnqueueSend(t) ==
  /\ caller[t] = "send"
  /\ IF jobsOpen
       THEN /\ jobs' = Append(jobs, t)
            /\ caller' = [caller EXCEPT ![t] = "queued"]
       ELSE /\ caller' = [caller EXCEPT ![t] = "refused"]
            /\ UNCHANGED jobs
  /\ UNCHANGED <<entries, cancelling, jobsOpen, worker, promised, accepted, eventVars>>

------------------------------------------------------------------------------
(* cancel() *)

(* The id is known from enqueue's reply or from the Queued event. *)
Knows(t) == caller[t] \in {"queued", "refused"} \/ view[t] # LC!Unseen

(* Mutant: cancel() settles the entry whatever its state. *)
CancelAnyEntry(t) ==
  /\ Knows(t)
  /\ HasEntry(t) /\ entries[t].state # "Cancelled"
  /\ entries' = [entries EXCEPT ![t].state = "Cancelled", ![t].cancel = TRUE]
  /\ cancelling' = cancelling \cup {t}
  /\ promised' = promised \cup {t}
  /\ UNCHANGED <<caller, jobs, jobsOpen, worker, accepted, eventVars>>

(* A call that returns false changes nothing and is not an action. *)
CancelQueued(t) ==
  /\ Knows(t)
  /\ entries[t].state = "Queued"
  /\ entries' = [entries EXCEPT ![t].state = "Cancelled", ![t].cancel = TRUE]
  /\ cancelling' = cancelling \cup {t}
  /\ promised' = promised \cup {t}
  /\ UNCHANGED <<caller, jobs, jobsOpen, worker, accepted, eventVars>>

CancelEmit(t) ==
  /\ t \in cancelling
  /\ Emit(t, LC!Ended("Cancelled"))
  /\ cancelling' = cancelling \ {t}
  /\ UNCHANGED <<entries, caller, jobs, jobsOpen, worker, promised, accepted>>

CancelRunning(t) ==
  /\ Knows(t)
  /\ entries[t].state = "Running"
  /\ entries' = [entries EXCEPT ![t].cancel = TRUE]
  /\ promised' = promised \cup {t}
  /\ UNCHANGED <<caller, cancelling, jobs, jobsOpen, worker, accepted, eventVars>>

------------------------------------------------------------------------------
(* run_worker(), run_one(), start(), progress(), finish() *)

Goto(w, pc) == worker' = [worker EXCEPT ![w].pc = pc]

(* Mutant: start() does not look at the state of the entry. *)
StartIgnoresCancel(w) ==
  /\ worker[w].pc = "recv"
  /\ jobs # <<>>
  /\ jobs' = Tail(jobs)
  /\ entries' = [entries EXCEPT ![Head(jobs)].state = "Running"]
  /\ worker' = [worker EXCEPT ![w].pc = "announce", ![w].id = Head(jobs)]
  /\ UNCHANGED <<caller, cancelling, jobsOpen, promised, accepted, eventVars>>

(* recv() takes a job and start() decides under the lock whether it runs. *)
Start(w) ==
  /\ worker[w].pc = "recv"
  /\ jobs # <<>>
  /\ jobs' = Tail(jobs)
  /\ LET t == Head(jobs)
     IN  IF HasEntry(t) /\ entries[t].state # "Cancelled"
           THEN /\ entries' = [entries EXCEPT ![t].state = "Running"]
                /\ worker' = [worker EXCEPT ![w].pc = "announce", ![w].id = t]
           ELSE UNCHANGED <<entries, worker>>
  /\ UNCHANGED <<caller, cancelling, jobsOpen, promised, accepted, eventVars>>

(* recv() fails only once the channel is closed and drained. *)
Exit(w) ==
  /\ worker[w].pc = "recv"
  /\ jobs = <<>>
  /\ ~ jobsOpen
  /\ Goto(w, "exited")
  /\ UNCHANGED <<queueVars, eventVars, promised, accepted>>

EmitRunning(w) ==
  /\ worker[w].pc = "announce"
  /\ Emit(worker[w].id, LC!Running(0))
  /\ Goto(w, "execute")
  /\ UNCHANGED <<queueVars, promised, accepted>>

(* The executor reports d bytes; progress() drops a count that does not    *)
(* grow.  Executors may report any count, in any order.                     *)
Progress(w, d) ==
  /\ worker[w].pc = "execute"
  /\ LET t == worker[w].id
     IN  /\ entries[t].state = "Running"
         /\ d > entries[t].done
         /\ entries' = [entries EXCEPT ![t].done = d]
         /\ accepted' = [accepted EXCEPT ![t] = d]
         /\ worker' = [worker EXCEPT ![w].pc = "tick", ![w].tick = d]
  /\ UNCHANGED <<caller, cancelling, jobs, jobsOpen, promised, eventVars>>

(* Mutant: a tick the full channel refused is forgotten. *)
SendTickForgets(w) ==
  /\ worker[w].pc = "tick"
  /\ LET report == LC!Running(worker[w].tick)
     IN  events' = IF eventsOpen /\ Len(events) < Capacity
                     THEN Append(events, Event(worker[w].id, report)) ELSE events
  /\ worker' = [worker EXCEPT ![w].pc = "execute", ![w].tick = NoTick]
  /\ UNCHANGED <<queueVars, eventsOpen, view, promised, accepted>>

(* try_send, then the second lock region: a refused tick is remembered.     *)
(* Only this worker touches the field, so the two make one step.            *)
SendTick(w) ==
  /\ worker[w].pc = "tick"
  /\ LET t == worker[w].id
         d == worker[w].tick
         delivered == eventsOpen /\ Len(events) < Capacity
     IN  /\ events' = IF delivered THEN Append(events, Event(t, LC!Running(d))) ELSE events
         /\ entries' = [entries EXCEPT ![t].undelivered = IF delivered THEN NoTick ELSE d]
  /\ worker' = [worker EXCEPT ![w].pc = "execute", ![w].tick = NoTick]
  /\ UNCHANGED <<caller, cancelling, jobs, jobsOpen, eventsOpen, view, promised, accepted>>

(* Mutants of finish(): the executor's outcome beats the cancel flag; the   *)
(* entry stays in the map.                                                  *)
FinishTakesOutcome(w, outcome) ==
  /\ worker[w].pc = "execute"
  /\ LET t == worker[w].id
     IN  /\ outcome = "Cancelled" => entries[t].cancel
         /\ entries' = [entries EXCEPT ![t].state = "removed"]
         /\ worker' = [worker EXCEPT ![w].pc = "end", ![w].final = outcome]
  /\ UNCHANGED <<caller, cancelling, jobs, jobsOpen, promised, accepted, eventVars>>

FinishKeepsEntry(w, outcome) ==
  /\ worker[w].pc = "execute"
  /\ LET t == worker[w].id
     IN  /\ outcome = "Cancelled" => entries[t].cancel
         /\ worker' = [worker EXCEPT
              ![w].pc = IF entries[t].undelivered # NoTick THEN "flush" ELSE "end",
              ![w].tick = entries[t].undelivered,
              ![w].final = IF entries[t].cancel THEN "Cancelled" ELSE outcome]
  /\ UNCHANGED <<queueVars, promised, accepted, eventVars>>

(* execute() returns and finish() removes the entry: a cancellation that    *)
(* was granted wins over the outcome.  An executor answers Cancelled only   *)
(* when it saw the flag set.                                                *)
Finish(w, outcome) ==
  /\ worker[w].pc = "execute"
  /\ LET t == worker[w].id
     IN  /\ outcome = "Cancelled" => entries[t].cancel
         /\ entries' = [entries EXCEPT ![t].state = "removed"]
         /\ worker' = [worker EXCEPT
              ![w].pc = IF entries[t].undelivered # NoTick THEN "flush" ELSE "end",
              ![w].tick = entries[t].undelivered,
              ![w].final = IF entries[t].cancel THEN "Cancelled" ELSE outcome]
  /\ UNCHANGED <<caller, cancelling, jobs, jobsOpen, promised, accepted, eventVars>>

EmitFlush(w) ==
  /\ worker[w].pc = "flush"
  /\ Emit(worker[w].id, LC!Running(worker[w].tick))
  /\ Goto(w, "end")
  /\ UNCHANGED <<queueVars, promised, accepted>>

(* Mutant: the terminal event is sent like a tick, and lost when the        *)
(* channel is full.                                                         *)
EmitEndBestEffort(w) ==
  /\ worker[w].pc = "end"
  /\ events' = IF eventsOpen /\ Len(events) < Capacity
                 THEN Append(events, Event(worker[w].id, LC!Ended(worker[w].final)))
                 ELSE events
  /\ worker' = [worker EXCEPT ![w] = Idle]
  /\ UNCHANGED <<queueVars, eventsOpen, view, promised, accepted>>

EmitEnd(w) ==
  /\ worker[w].pc = "end"
  /\ Emit(worker[w].id, LC!Ended(worker[w].final))
  /\ worker' = [worker EXCEPT ![w] = Idle]
  /\ UNCHANGED <<queueVars, promised, accepted>>

------------------------------------------------------------------------------
(* close() and the consumer *)

Close ==
  /\ jobsOpen
  /\ jobsOpen' = FALSE
  /\ UNCHANGED <<entries, caller, cancelling, jobs, worker, promised, accepted, eventVars>>

(* The pane takes one event and overwrites the row of its transfer. *)
Consume ==
  /\ eventsOpen
  /\ events # <<>>
  /\ events' = Tail(events)
  /\ view' = [view EXCEPT ![Head(events).id] = Head(events).report]
  /\ UNCHANGED <<eventsOpen, queueVars, worker, promised, accepted>>

(* The last receiver is dropped: what was queued is lost with the channel. *)
DropReceiver ==
  /\ eventsOpen
  /\ eventsOpen' = FALSE
  /\ events' = <<>>
  /\ UNCHANGED <<view, queueVars, worker, promised, accepted>>

------------------------------------------------------------------------------
CallerStep(t) == EnqueueEmit(t) \/ EnqueueSend(t)
ClientStep(t) == EnqueueInsert(t) \/ CancelQueued(t) \/ CancelRunning(t)
Return(w) == \E outcome \in LC!TerminalStates : Finish(w, outcome)
WorkerStep(w) ==
  Start(w) \/ Exit(w) \/ EmitRunning(w) \/ SendTick(w) \/ EmitFlush(w) \/ EmitEnd(w)

Next ==
  \/ \E t \in Transfers : ClientStep(t) \/ CallerStep(t) \/ CancelEmit(t)
  \/ \E w \in Workers : WorkerStep(w) \/ Return(w) \/ \E d \in 1..MaxDone : Progress(w, d)
  \/ Close
  \/ Consume
  \/ DropReceiver

Spec == Init /\ [][Next]_vars

(* Tasks the runtime polls when they are ready, an executor that returns,  *)
(* and a consumer that keeps taking events while it holds the receiver.    *)
(* Nobody is obliged to enqueue, cancel, close or drop anything.           *)
Fairness ==
  /\ \A t \in Transfers : WF_vars(CallerStep(t)) /\ WF_vars(CancelEmit(t))
  /\ \A w \in Workers : WF_vars(WorkerStep(w)) /\ WF_vars(Return(w))
  /\ WF_vars(Consume)

FairSpec == Spec /\ Fairness

------------------------------------------------------------------------------
(* Properties *)

Holds(w, t)  == worker[w].id = t
Moving(w)    == worker[w].pc \in {"announce", "execute", "tick"}
InJobs(t)    == \E i \in 1..Len(jobs) : jobs[i] = t
Settled(t)   ==
  /\ entries[t].state \in {"Cancelled", "removed"}
  /\ t \notin cancelling
  /\ \A w \in Workers : ~ Holds(w, t)

(* A transfer is moved by one worker at a time, and one cancelled while it *)
(* was queued is never handed to an executor: start() and cancel() race for *)
(* the entry under the lock.                                                *)
OneRunner ==
  \A w \in Workers : Moving(w) =>
    /\ entries[worker[w].id].state = "Running"
    /\ \A v \in Workers \ {w} : ~ Holds(v, worker[w].id)

(* Nothing is forgotten: an entry of the map has a caller that will still   *)
(* queue it, a job, or a worker, unless it was cancelled while queued       *)
(* (start() leaves that entry behind) or close() refused its job.           *)
NoTransferForgotten ==
  \A t \in Transfers : HasEntry(t) =>
    \/ caller[t] \in {"emit", "send", "refused"}
    \/ InJobs(t)
    \/ \E w \in Workers : Holds(w, t) /\ Moving(w)
    \/ entries[t].state = "Cancelled"

(* A cancellation that was granted is what the client is told in the end,   *)
(* whatever the executor answered: no other terminal event of the transfer  *)
(* is held by a worker, waits in the channel or was shown.                  *)
CancelWins ==
  \A t \in promised :
    /\ \A w \in Workers : Holds(w, t) => worker[w].final \in {"none", "Cancelled"}
    /\ \A i \in 1..Len(events) :
         events[i].id = t => events[i].report.state \notin {"Complete", "Failed"}
    /\ view[t].state \notin {"Complete", "Failed"}

(* The last progress that was accepted is shown before the end, even when   *)
(* the channel was full when it was reported (undelivered_done).            *)
FinalTickShown ==
  [][\A t \in Transfers :
       /\ view[t].state \notin LC!TerminalStates
       /\ view'[t].state \in LC!TerminalStates
       => view[t].done = accepted[t]]_vars

(* Each transfer is shown the states TransferLifecycle allows, in order:    *)
(* one Queued, one start, growing progress, and one end that is Cancelled   *)
(* exactly when a cancel call was granted.                                  *)
Lifecycle == LC!Spec

(* A transfer whose job was accepted comes to its end, with every channel   *)
(* full now and then, and the end is shown to a consumer that stays.        *)
EveryJobEnds ==
  \A t \in Transfers :
    caller[t] = "queued" ~> Settled(t) /\ (eventsOpen => view[t].state \in LC!TerminalStates)

(* close() lets every worker drain the jobs and exit. *)
WorkersExit == ~ jobsOpen ~> \A w \in Workers : worker[w].pc = "exited"
==============================================================================
