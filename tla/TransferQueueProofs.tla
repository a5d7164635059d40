------------------------ MODULE TransferQueueProofs ------------------------
(***************************************************************************)
(* What TransferQueue guarantees for any number of transfers and workers,  *)
(* any capacity of the event channel and any byte counts.                  *)
(*                                                                         *)
(* CancelWins is not inductive: a step of finish() keeps it only because   *)
(* every granted cancellation has set the flag of its entry, and a later   *)
(* cancel() keeps it only because an entry that was removed stays removed. *)
(* QueueInv adds those facts, and what a worker holds at each of its       *)
(* steps, which TypeOK itself needs: an event names a transfer.            *)
(*                                                                         *)
(* What the client is shown (Lifecycle, FinalTickShown) trails the queue   *)
(* by the events in the channel: ShownInv, in the second half, follows     *)
(* each transfer through the channel, from its row to its worker.          *)
(***************************************************************************)
EXTENDS TransferQueue, TLAPS

(* A worker between recv() and its terminal event holds a transfer that was *)
(* enqueued; once finish() ran, the entry is gone and the end is chosen.    *)
WorkerInv(w) ==
  /\ worker[w].pc \notin {"recv", "exited"} =>
       worker[w].id \in Transfers /\ caller[worker[w].id] # "idle"
  /\ worker[w].pc \notin {"flush", "end"} => worker[w].final = "none"
  /\ worker[w].pc \in {"flush", "end"} =>
       /\ worker[w].final \in LC!TerminalStates
       /\ entries[worker[w].id].state = "removed"
       /\ worker[w].id \in promised => worker[w].final = "Cancelled"

(* A transfer nobody enqueued has no entry; a granted cancellation has set  *)
(* the flag.                                                                *)
EntryInv(t) ==
  /\ caller[t] = "idle" => entries[t].state = "absent"
  /\ t \in promised => entries[t].cancel

(* An end other than Cancelled, once sent or shown, is the end of a         *)
(* transfer that is gone and whose cancellation was never granted.          *)
OtherEnd(report) == report.state \in {"Complete", "Failed"}
Unpromised(t)    == t \notin promised /\ entries[t].state = "removed"

EventInv ==
  /\ \A i \in 1..Len(events) : OtherEnd(events[i].report) => Unpromised(events[i].id)
  /\ \A t \in Transfers : OtherEnd(view[t]) => Unpromised(t)

QueueInv ==
  /\ TypeOK
  /\ \A w \in Workers : WorkerInv(w)
  /\ \A t \in Transfers : EntryInv(t)
  /\ EventInv

------------------------------------------------------------------------------
(* Lemmas about events *)

(* The reports and events the module builds are the ones TypeOK allows. *)
LEMMA ReportTypes ==
  /\ LC!Queued \in LC!Reports
  /\ \A d \in 0..MaxDone : LC!Running(d) \in LC!Reports
  /\ \A s \in LC!TerminalStates : LC!Ended(s) \in LC!Reports
  /\ \A t \in Transfers, r \in LC!Reports : Event(t, r) \in Events
BY DEF LC!Reports, Event, Events

(* Only Ended("Complete") and Ended("Failed") are ends other than Cancelled. *)
LEMMA OtherEnds ==
  /\ ~ OtherEnd(LC!Queued)
  /\ \A d \in 0..MaxDone : ~ OtherEnd(LC!Running(d))
  /\ ~ OtherEnd(LC!Ended("Cancelled"))
BY DEF OtherEnd, LC!Queued, LC!Running, LC!Ended

(* emit() keeps the channel a bounded sequence of events, and adds at most  *)
(* the one event it was given.                                              *)
LEMMA EmitType ==
  ASSUME NEW t \in Transfers, NEW report \in LC!Reports,
         events \in Seq(Events), Len(events) <= Capacity, Emit(t, report)
  PROVE  /\ events' \in Seq(Events) /\ Len(events') <= Capacity
         /\ \A i \in 1..Len(events') :
              \/ i \in 1..Len(events) /\ events'[i] = events[i]
              \/ events'[i] = Event(t, report)
<1>1. Event(t, report) \in Events
  BY ReportTypes
<1>2. /\ Len(Append(events, Event(t, report))) = Len(events) + 1
      /\ \A i \in 1..Len(events) + 1 :
           Append(events, Event(t, report))[i] =
             IF i <= Len(events) THEN events[i] ELSE Event(t, report)
  BY <1>1
<1>3. Len(events) \in Nat /\ Capacity \in Nat
  BY CapacityAssumption
<1> QED
  BY <1>1, <1>2, <1>3 DEF Emit

------------------------------------------------------------------------------
(* TypeOK *)

(* Assigning one field of an entry or of a worker keeps its type. *)
LEMMA EntryTypes ==
  ASSUME NEW e \in Entries
  PROVE  /\ \A s \in EntryStates : [e EXCEPT !.state = s] \in Entries
         /\ \A n \in 0..MaxDone : [e EXCEPT !.done = n] \in Entries
         /\ \A n \in 0..MaxDone : [e EXCEPT !.undelivered = n] \in Entries
<1> DEFINE Counts == 0..MaxDone
<1>1. Entries = [state : EntryStates, done : Counts, cancel : BOOLEAN, undelivered : Counts]
  BY DEF Entries
<1> HIDE DEF Counts
<1>2. /\ \A s \in EntryStates : [e EXCEPT !.state = s] \in Entries
      /\ \A n \in Counts : [e EXCEPT !.done = n] \in Entries
      /\ \A n \in Counts : [e EXCEPT !.undelivered = n] \in Entries
  BY <1>1
<1> QED
  BY <1>2 DEF Counts

(* Each state a worker may go to is one of the states of a worker.         *)
LEMMA WorkerTypes ==
  ASSUME NEW x \in WorkerStates, NEW n \in 0..MaxDone
  PROVE  /\ [x EXCEPT !.pc = "tick", !.tick = n] \in WorkerStates
         /\ [x EXCEPT !.pc = "execute", !.tick = n] \in WorkerStates
         /\ \A t \in Transfers : [x EXCEPT !.pc = "announce", !.id = t] \in WorkerStates
         /\ \A pc \in {"flush", "end"}, f \in LC!TerminalStates :
              [x EXCEPT !.pc = pc, !.tick = n, !.final = f] \in WorkerStates
<1> DEFINE Counts == 0..MaxDone
<1>1. n \in Counts /\ WorkerStates =
        [pc : {"recv", "announce", "execute", "tick", "flush", "end", "exited"},
         id : Transfers \cup {NoTransfer},
         final : LC!TerminalStates \cup {"none"}, tick : Counts]
  BY DEF WorkerStates
<1> HIDE DEF Counts
<1> QED
  BY <1>1

(* Every step keeps the types; the events it sends name transfers because   *)
(* the workers and callers that send them hold one.                         *)
LEMMA TypeStep ==
  ASSUME TypeOK, \A w \in Workers : WorkerInv(w), [Next]_vars
  PROVE  TypeOK'
<1> USE MaxDoneAssumption, CapacityAssumption
<1>1. ASSUME NEW t \in Transfers, EnqueueInsert(t) PROVE TypeOK'
  BY <1>1 DEF TypeOK, EnqueueInsert, eventVars, Entries, EntryStates
<1>2. ASSUME NEW t \in Transfers, EnqueueEmit(t) PROVE TypeOK'
  <2>1. events' \in Seq(Events) /\ Len(events') <= Capacity
    BY <1>2, EmitType, ReportTypes DEF TypeOK, EnqueueEmit
  <2> QED
    BY <1>2, <2>1 DEF TypeOK, EnqueueEmit, Emit
<1>3. ASSUME NEW t \in Transfers, EnqueueSend(t) PROVE TypeOK'
  <2>1. CASE jobsOpen
    <3>1. jobs' = Append(jobs, t) /\ caller' = [caller EXCEPT ![t] = "queued"]
      BY <1>3, <2>1 DEF EnqueueSend
    <3>2. jobs' \in Seq(Transfers)
      BY <3>1 DEF TypeOK
    <3> QED
      BY <1>3, <3>1, <3>2 DEF TypeOK, EnqueueSend, eventVars
  <2>2. CASE ~ jobsOpen
    <3>1. UNCHANGED jobs /\ caller' = [caller EXCEPT ![t] = "refused"]
      BY <1>3, <2>2 DEF EnqueueSend
    <3> QED
      BY <1>3, <3>1 DEF TypeOK, EnqueueSend, eventVars
  <2> QED
    BY <2>1, <2>2
<1>4. ASSUME NEW t \in Transfers, CancelQueued(t) PROVE TypeOK'
  BY <1>4 DEF TypeOK, CancelQueued, eventVars, Entries, EntryStates
<1>5. ASSUME NEW t \in Transfers, CancelEmit(t) PROVE TypeOK'
  <2>1. events' \in Seq(Events) /\ Len(events') <= Capacity
    BY <1>5, EmitType, ReportTypes DEF TypeOK, CancelEmit, LC!TerminalStates
  <2> QED
    BY <1>5, <2>1 DEF TypeOK, CancelEmit, Emit
<1>6. ASSUME NEW t \in Transfers, CancelRunning(t) PROVE TypeOK'
  BY <1>6 DEF TypeOK, CancelRunning, eventVars, Entries, EntryStates
<1>7. ASSUME NEW w \in Workers, Start(w) PROVE TypeOK'
  <2>1. Head(jobs) \in Transfers /\ Tail(jobs) \in Seq(Transfers)
    BY <1>7 DEF TypeOK, Start
  <2> QED
    <3> DEFINE t == Head(jobs)
    <3>1. CASE HasEntry(t) /\ entries[t].state # "Cancelled"
      <4>1. /\ entries' = [entries EXCEPT ![t].state = "Running"]
            /\ worker' = [worker EXCEPT ![w].pc = "announce", ![w].id = t]
        BY <1>7, <3>1 DEF Start
      <4>2. entries' \in [Transfers -> Entries]
        BY <2>1, <4>1, EntryTypes DEF TypeOK, EntryStates
      <4>3. worker' \in [Workers -> WorkerStates]
        <5>1. 0 \in 0..MaxDone
          OBVIOUS
        <5> QED
          BY <2>1, <4>1, <5>1, WorkerTypes DEF TypeOK
      <4> QED
        BY <1>7, <2>1, <4>2, <4>3 DEF TypeOK, Start, eventVars
    <3>2. CASE ~ (HasEntry(t) /\ entries[t].state # "Cancelled")
      BY <1>7, <2>1, <3>2 DEF TypeOK, Start, eventVars
    <3> QED
      BY <3>1, <3>2
<1>8. ASSUME NEW w \in Workers, Exit(w) PROVE TypeOK'
  BY <1>8 DEF TypeOK, Exit, Goto, eventVars, queueVars, WorkerStates
<1>9. ASSUME NEW w \in Workers, EmitRunning(w) PROVE TypeOK'
  <2>1. worker[w].id \in Transfers /\ 0 \in 0..MaxDone
    BY <1>9 DEF EmitRunning, WorkerInv
  <2>2. events' \in Seq(Events) /\ Len(events') <= Capacity
    BY <1>9, <2>1, EmitType, ReportTypes DEF TypeOK, EmitRunning
  <2> QED
    BY <1>9, <2>2 DEF TypeOK, EmitRunning, Emit, Goto, queueVars, WorkerStates
<1>10. ASSUME NEW w \in Workers, NEW d \in 1..MaxDone, Progress(w, d) PROVE TypeOK'
  <2>1. worker[w].id \in Transfers /\ d \in 0..MaxDone
    BY <1>10 DEF Progress, WorkerInv
  <2>2. entries' \in [Transfers -> Entries] /\ accepted' \in [Transfers -> 0..MaxDone]
    BY <1>10, <2>1, EntryTypes DEF TypeOK, Progress
  <2>3. worker' \in [Workers -> WorkerStates]
    BY <1>10, <2>1, WorkerTypes DEF TypeOK, Progress
  <2> QED
    BY <1>10, <2>2, <2>3 DEF TypeOK, Progress, eventVars
<1>11. ASSUME NEW w \in Workers, SendTick(w) PROVE TypeOK'
  <2> DEFINE t == worker[w].id
             d == worker[w].tick
             sent == eventsOpen /\ Len(events) < Capacity
  <2>1. t \in Transfers /\ d \in 0..MaxDone /\ NoTick \in 0..MaxDone
    <3>1. worker[w] \in WorkerStates
      BY DEF TypeOK
    <3>2. d \in 0..MaxDone
      BY <3>1 DEF WorkerStates
    <3>3. t \in Transfers
      BY <1>11 DEF SendTick, WorkerInv
    <3> QED
      BY <3>2, <3>3 DEF NoTick
  <2>2. Event(t, LC!Running(d)) \in Events
    BY <2>1, ReportTypes
  <2>3. events' \in Seq(Events) /\ Len(events') <= Capacity
    <3>1. CASE sent
      BY <1>11, <2>2, <3>1 DEF SendTick, TypeOK
    <3>2. CASE ~ sent
      BY <1>11, <3>2 DEF SendTick, TypeOK
    <3> QED
      BY <3>1, <3>2
  <2>4. \E u \in 0..MaxDone : entries' = [entries EXCEPT ![t].undelivered = u]
    BY <1>11, <2>1 DEF SendTick
  <2>5. entries' \in [Transfers -> Entries]
    BY <2>1, <2>4, EntryTypes DEF TypeOK
  <2>6. worker' \in [Workers -> WorkerStates]
    BY <1>11, <2>1, WorkerTypes DEF SendTick, TypeOK
  <2> QED
    BY <1>11, <2>3, <2>5, <2>6 DEF TypeOK, SendTick
<1>12. ASSUME NEW w \in Workers, NEW outcome \in LC!TerminalStates, Finish(w, outcome)
       PROVE  TypeOK'
  <2> DEFINE t == worker[w].id
  <2>1. t \in Transfers /\ entries[t].undelivered \in 0..MaxDone
    BY <1>12 DEF Finish, WorkerInv, TypeOK, Entries
  <2>2. entries' \in [Transfers -> Entries]
    BY <1>12, <2>1, EntryTypes DEF TypeOK, Finish, EntryStates
  <2>3. \E final \in LC!TerminalStates, pc \in {"flush", "end"} :
          worker' = [worker EXCEPT ![w].pc = pc, ![w].tick = entries[t].undelivered,
                                   ![w].final = final]
    <3>1. "Cancelled" \in LC!TerminalStates
      BY DEF LC!TerminalStates
    <3> DEFINE final == IF entries[t].cancel THEN "Cancelled" ELSE outcome
               pc == IF entries[t].undelivered # NoTick THEN "flush" ELSE "end"
    <3>2. final \in LC!TerminalStates /\ pc \in {"flush", "end"}
      BY <3>1
    <3>3. worker' = [worker EXCEPT ![w].pc = pc, ![w].tick = entries[t].undelivered,
                                   ![w].final = final]
      BY <1>12 DEF Finish
    <3> QED
      BY <3>2, <3>3
  <2>4. worker' \in [Workers -> WorkerStates]
    <3>1. PICK final \in LC!TerminalStates, pc \in {"flush", "end"} :
            worker' = [worker EXCEPT ![w].pc = pc, ![w].tick = entries[t].undelivered,
                                     ![w].final = final]
      BY <2>3
    <3>2. [worker[w] EXCEPT !.pc = pc, !.tick = entries[t].undelivered,
                            !.final = final] \in WorkerStates
      BY <2>1, WorkerTypes DEF TypeOK
    <3> QED
      BY <3>1, <3>2 DEF TypeOK
  <2> QED
    BY <1>12, <2>2, <2>4 DEF TypeOK, Finish, eventVars
<1>13. ASSUME NEW w \in Workers, EmitFlush(w) PROVE TypeOK'
  <2>1. worker[w].id \in Transfers /\ worker[w].tick \in 0..MaxDone
    BY <1>13 DEF EmitFlush, WorkerInv, TypeOK, WorkerStates
  <2>2. events' \in Seq(Events) /\ Len(events') <= Capacity
    BY <1>13, <2>1, EmitType, ReportTypes DEF TypeOK, EmitFlush
  <2> QED
    BY <1>13, <2>2 DEF TypeOK, EmitFlush, Emit, Goto, queueVars, WorkerStates
<1>14. ASSUME NEW w \in Workers, EmitEnd(w) PROVE TypeOK'
  <2>1. worker[w].id \in Transfers /\ worker[w].final \in LC!TerminalStates
    BY <1>14 DEF EmitEnd, WorkerInv
  <2>2. events' \in Seq(Events) /\ Len(events') <= Capacity
    BY <1>14, <2>1, EmitType, ReportTypes DEF TypeOK, EmitEnd
  <2>3. Idle \in WorkerStates
    BY DEF Idle, WorkerStates, NoTick
  <2> QED
    BY <1>14, <2>2, <2>3 DEF TypeOK, EmitEnd, Emit, queueVars
<1>15. ASSUME Close PROVE TypeOK'
  BY <1>15 DEF TypeOK, Close, eventVars
<1>16. ASSUME Consume PROVE TypeOK'
  <2>1. /\ Head(events) \in Events
        /\ Tail(events) \in Seq(Events)
        /\ Len(Tail(events)) = Len(events) - 1
    BY <1>16 DEF TypeOK, Consume
  <2>2. Head(events).id \in Transfers /\ Head(events).report \in LC!Reports
    BY <2>1 DEF Events
  <2>3. Len(events') <= Capacity
    BY <1>16, <2>1 DEF TypeOK, Consume
  <2> QED
    BY <1>16, <2>1, <2>2, <2>3 DEF TypeOK, Consume, queueVars
<1>17. ASSUME DropReceiver PROVE TypeOK'
  <2>1. events' \in Seq(Events) /\ Len(events') <= Capacity
    BY <1>17 DEF DropReceiver
  <2>2. eventsOpen' \in BOOLEAN
    BY <1>17 DEF DropReceiver
  <2> QED
    BY <1>17, <2>1, <2>2 DEF TypeOK, DropReceiver, queueVars
<1>18. ASSUME UNCHANGED vars PROVE TypeOK'
  BY <1>18 DEF TypeOK, vars
<1> QED
  BY <1>1, <1>2, <1>3, <1>4, <1>5, <1>6, <1>7, <1>8, <1>9, <1>10, <1>11, <1>12,
     <1>13, <1>14, <1>15, <1>16, <1>17, <1>18
  DEF Next, ClientStep, CallerStep, WorkerStep, Return

------------------------------------------------------------------------------
(* The rest of QueueInv *)

(* Every step keeps what is known of the callers and the entries. *)
LEMMA EntryStep ==
  ASSUME TypeOK, \A w \in Workers : WorkerInv(w), \A t \in Transfers : EntryInv(t),
         [Next]_vars
  PROVE  \A t \in Transfers :
           /\ EntryInv(t)'
           /\ caller[t] # "idle" => caller'[t] # "idle"
           /\ entries[t].state = "removed" =>
                /\ entries'[t].state = "removed"
                /\ t \in promised' => t \in promised
<1> SUFFICES ASSUME NEW s \in Transfers
             PROVE  /\ EntryInv(s)'
                    /\ caller[s] # "idle" => caller'[s] # "idle"
                    /\ entries[s].state = "removed" =>
                         /\ entries'[s].state = "removed"
                         /\ s \in promised' => s \in promised
  OBVIOUS
<1> DEFINE Goal ==
      /\ EntryInv(s)'
      /\ caller[s] # "idle" => caller'[s] # "idle"
      /\ entries[s].state = "removed" =>
           /\ entries'[s].state = "removed"
           /\ s \in promised' => s \in promised
<1>a. /\ entries \in [Transfers -> Entries]
      /\ caller \in [Transfers -> {"idle", "emit", "send", "queued", "refused"}]
      /\ entries[s] \in Entries
      /\ EntryInv(s)
  BY DEF TypeOK
<1>b. ASSUME UNCHANGED <<entries, caller, promised>> PROVE Goal
  BY <1>a, <1>b DEF EntryInv
<1>1. ASSUME NEW t \in Transfers, EnqueueInsert(t) PROVE Goal
  BY <1>a, <1>1 DEF EnqueueInsert, EntryInv, Entries
<1>2. ASSUME NEW t \in Transfers, CallerStep(t) PROVE Goal
  BY <1>a, <1>2 DEF CallerStep, EnqueueEmit, EnqueueSend, EntryInv
<1>3. ASSUME NEW t \in Transfers, CancelQueued(t) PROVE Goal
  BY <1>a, <1>3 DEF CancelQueued, EntryInv, Entries
<1>4. ASSUME NEW t \in Transfers, CancelRunning(t) PROVE Goal
  BY <1>a, <1>4 DEF CancelRunning, EntryInv, Entries
<1>5. ASSUME NEW w \in Workers, Start(w) PROVE Goal
  <2> DEFINE t == Head(jobs)
  <2>1. CASE HasEntry(t) /\ entries[t].state # "Cancelled"
    <3>1. /\ entries' = [entries EXCEPT ![t].state = "Running"]
          /\ UNCHANGED <<caller, promised>>
      BY <1>5, <2>1 DEF Start
    <3>2. t = s => entries[s].state \in {"Queued", "Running"}
      BY <2>1 DEF HasEntry
    <3> QED
      BY <1>a, <3>1, <3>2 DEF EntryInv, Entries
  <2>2. CASE ~ (HasEntry(t) /\ entries[t].state # "Cancelled")
    BY <1>b, <1>5, <2>2 DEF Start
  <2> QED
    BY <2>1, <2>2
<1>6. ASSUME NEW w \in Workers, NEW d \in 1..MaxDone, Progress(w, d) PROVE Goal
  BY <1>a, <1>6 DEF Progress, EntryInv, Entries
<1>7. ASSUME NEW w \in Workers, SendTick(w) PROVE Goal
  BY <1>a, <1>7 DEF SendTick, EntryInv, Entries
<1>8. ASSUME NEW w \in Workers, NEW outcome \in LC!TerminalStates, Finish(w, outcome)
      PROVE  Goal
  <2>1. worker[w].id \in Transfers /\ caller[worker[w].id] # "idle"
    BY <1>8 DEF Finish, WorkerInv
  <2> QED
    BY <1>a, <1>8, <2>1 DEF Finish, EntryInv, Entries
<1> QED
  BY <1>b, <1>1, <1>2, <1>3, <1>4, <1>5, <1>6, <1>7, <1>8
  DEF Next, ClientStep, WorkerStep, Return, CancelEmit, Exit, EmitRunning, EmitFlush,
      EmitEnd, Close, Consume, DropReceiver, queueVars, vars

(* Every step keeps what is known of the workers: a step of another task    *)
(* cannot bring an entry back nor grant a cancellation once it is gone.     *)
LEMMA WorkerInvStep ==
  ASSUME TypeOK, \A w \in Workers : WorkerInv(w), \A t \in Transfers : EntryInv(t),
         [Next]_vars
  PROVE  \A w \in Workers : WorkerInv(w)'
<1> SUFFICES ASSUME NEW v \in Workers PROVE WorkerInv(v)'
  OBVIOUS
<1> DEFINE T == worker[v].id
<1>a. worker \in [Workers -> WorkerStates] /\ WorkerInv(v)
  BY DEF TypeOK
<1>s. ASSUME NEW t \in Transfers
      PROVE  /\ caller[t] # "idle" => caller'[t] # "idle"
             /\ entries[t].state = "removed" =>
                  /\ entries'[t].state = "removed"
                  /\ t \in promised' => t \in promised
  BY EntryStep
<1>b. ASSUME worker'[v] = worker[v] PROVE WorkerInv(v)'
  BY <1>a, <1>b, <1>s DEF WorkerInv
<1>1. ASSUME UNCHANGED worker PROVE WorkerInv(v)'
  BY <1>1, <1>b
<1>2. ASSUME NEW w \in Workers, Start(w) PROVE WorkerInv(v)'
  <2> DEFINE t == Head(jobs)
  <2>1. CASE v = w /\ HasEntry(t) /\ entries[t].state # "Cancelled"
    <3>1. worker'[v] = [worker[v] EXCEPT !.pc = "announce", !.id = t]
      BY <1>2, <1>a, <2>1 DEF Start
    <3>2. worker'[v].pc = "announce" /\ worker'[v].id = t
          /\ worker'[v].final = worker[v].final
      BY <1>a, <3>1 DEF WorkerStates
    <3>3. t \in Transfers
      BY <1>2 DEF Start, TypeOK
    <3>4. caller[t] # "idle"
      BY <2>1, <3>3 DEF EntryInv, HasEntry
    <3>5. worker[v].final = "none"
      BY <1>2, <1>a, <2>1 DEF Start, WorkerInv
    <3> QED
      BY <1>s, <3>2, <3>3, <3>4, <3>5 DEF WorkerInv
  <2>2. CASE ~ (v = w /\ HasEntry(t) /\ entries[t].state # "Cancelled")
    <3>1. worker'[v] = worker[v]
      BY <1>2, <1>a, <2>2 DEF Start
    <3> QED
      BY <3>1, <1>b
  <2> QED
    BY <2>1, <2>2
<1>3. ASSUME NEW w \in Workers, Exit(w) \/ EmitRunning(w) PROVE WorkerInv(v)'
  <2>1. CASE v = w
    <3>1. /\ worker'[v].pc \in {"exited", "execute"}
          /\ worker'[v].pc = "execute" => worker[v].pc = "announce"
          /\ worker'[v].pc = "exited" => worker[v].pc = "recv"
          /\ worker'[v].id = worker[v].id /\ worker'[v].final = worker[v].final
      BY <1>3, <1>a, <2>1 DEF Exit, EmitRunning, Goto, WorkerStates
    <3> QED
      BY <1>a, <1>s, <3>1 DEF WorkerInv
  <2>2. CASE v # w
    <3>1. worker'[v] = worker[v]
      BY <1>3, <1>a, <2>2 DEF Exit, EmitRunning, Goto
    <3> QED
      BY <3>1, <1>b
  <2> QED
    BY <2>1, <2>2
<1>4. ASSUME NEW w \in Workers, SendTick(w) \/ \E d \in 1..MaxDone : Progress(w, d)
      PROVE  WorkerInv(v)'
  <2>1. CASE v = w
    <3>1. /\ worker'[v].pc \in {"tick", "execute"} /\ worker[v].pc \in {"tick", "execute"}
          /\ worker'[v].id = worker[v].id /\ worker'[v].final = worker[v].final
      <4>1. CASE SendTick(w)
        BY <4>1, <1>a, <2>1 DEF SendTick, WorkerStates
      <4>2. CASE \E d \in 1..MaxDone : Progress(w, d)
        BY <4>2, <1>a, <2>1 DEF Progress, WorkerStates
      <4> QED
        BY <1>4, <4>1, <4>2
    <3> QED
      BY <1>a, <1>s, <3>1 DEF WorkerInv
  <2>2. CASE v # w
    <3>1. worker'[v] = worker[v]
      BY <1>4, <1>a, <2>2 DEF SendTick, Progress
    <3> QED
      BY <3>1, <1>b
  <2> QED
    BY <2>1, <2>2
<1>5. ASSUME NEW w \in Workers, NEW outcome \in LC!TerminalStates, Finish(w, outcome)
      PROVE  WorkerInv(v)'
  <2>1. CASE v = w
    <3>1. T \in Transfers /\ caller[T] # "idle"
      BY <1>5, <1>a, <2>1 DEF Finish, WorkerInv
    <3>2. /\ worker'[v].pc \in {"flush", "end"}
          /\ worker'[v].id = T
          /\ worker'[v].final = IF entries[T].cancel THEN "Cancelled" ELSE outcome
      BY <1>5, <1>a, <2>1 DEF Finish, WorkerStates
    <3>3. worker'[v].final \in LC!TerminalStates
      BY <3>2 DEF LC!TerminalStates
    <3>4. entries'[T].state = "removed"
      BY <1>5, <2>1, <3>1 DEF Finish, TypeOK, Entries
    <3>5. T \in promised' => worker'[v].final = "Cancelled"
      <4>1. T \in promised' => entries[T].cancel
        BY <1>5, <3>1 DEF Finish, EntryInv
      <4> QED
        BY <3>2, <4>1
    <3> QED
      BY <1>s, <3>1, <3>2, <3>3, <3>4, <3>5 DEF WorkerInv
  <2>2. CASE v # w
    <3>1. worker'[v] = worker[v]
      BY <1>5, <1>a, <2>2 DEF Finish
    <3> QED
      BY <3>1, <1>b
  <2> QED
    BY <2>1, <2>2
<1>6. ASSUME NEW w \in Workers, EmitFlush(w) PROVE WorkerInv(v)'
  <2>1. CASE v = w
    <3>1. /\ worker'[v].pc = "end" /\ worker[v].pc = "flush"
          /\ worker'[v].id = worker[v].id /\ worker'[v].final = worker[v].final
      BY <1>6, <1>a, <2>1 DEF EmitFlush, Goto, WorkerStates
    <3> QED
      BY <1>a, <1>s, <3>1 DEF WorkerInv
  <2>2. CASE v # w
    <3>1. worker'[v] = worker[v]
      BY <1>6, <1>a, <2>2 DEF EmitFlush, Goto
    <3> QED
      BY <3>1, <1>b
  <2> QED
    BY <2>1, <2>2
<1>7. ASSUME NEW w \in Workers, EmitEnd(w) PROVE WorkerInv(v)'
  <2>1. CASE v = w
    <3>1. worker'[v] = Idle
      BY <1>7, <1>a, <2>1 DEF EmitEnd
    <3> QED
      BY <3>1 DEF WorkerInv, Idle
  <2>2. CASE v # w
    <3>1. worker'[v] = worker[v]
      BY <1>7, <1>a, <2>2 DEF EmitEnd
    <3> QED
      BY <3>1, <1>b
  <2> QED
    BY <2>1, <2>2
<1> QED
  BY <1>1, <1>2, <1>3, <1>4, <1>5, <1>6, <1>7
  DEF Next, ClientStep, CallerStep, WorkerStep, Return, EnqueueInsert, EnqueueEmit,
      EnqueueSend, CancelQueued, CancelRunning, CancelEmit, Close, Consume,
      DropReceiver, queueVars, vars

(* Every step keeps what is known of the ends that were sent and shown. *)
LEMMA EventStep ==
  ASSUME QueueInv, TypeOK', [Next]_vars
  PROVE  EventInv'
<1> DEFINE Gone(t) == t \notin promised' /\ entries'[t].state = "removed"
<1>a. /\ events \in Seq(Events) /\ Len(events) <= Capacity
      /\ view \in [Transfers -> LC!Reports \cup {LC!Unseen}]
      /\ \A i \in 1..Len(events) : events[i] \in Events
  BY DEF QueueInv, TypeOK
<1>s. ASSUME NEW t \in Transfers, Unpromised(t) PROVE Gone(t)
  BY <1>s, EntryStep DEF QueueInv, Unpromised
<1>e. \A i \in 1..Len(events) : OtherEnd(events[i].report) => Gone(events[i].id)
  BY <1>a, <1>s DEF QueueInv, EventInv, Events
<1>v. \A t \in Transfers : OtherEnd(view[t]) => Gone(t)
  BY <1>s DEF QueueInv, EventInv
<1>b. ASSUME UNCHANGED view,
             NEW t \in Transfers, NEW r \in LC!Reports,
             OtherEnd(r) => Gone(t),
             \A i \in 1..Len(events') :
               \/ i \in 1..Len(events) /\ events'[i] = events[i]
               \/ events'[i] = Event(t, r)
      PROVE  EventInv'
  <2>1. Event(t, r).id = t /\ Event(t, r).report = r
    BY DEF Event
  <2> QED
    BY <1>b, <1>e, <1>v, <2>1 DEF EventInv, OtherEnd, Unpromised
<1>c. ASSUME UNCHANGED <<events, view>> PROVE EventInv'
  BY <1>c, <1>e, <1>v DEF EventInv, OtherEnd, Unpromised
<1>1. ASSUME NEW t \in Transfers, EnqueueEmit(t) PROVE EventInv'
  BY <1>1, <1>a, <1>b, EmitType, ReportTypes, OtherEnds DEF EnqueueEmit, Emit
<1>2. ASSUME NEW t \in Transfers, CancelEmit(t) PROVE EventInv'
  <2>1. LC!Ended("Cancelled") \in LC!Reports
    BY ReportTypes DEF LC!TerminalStates
  <2> QED
    BY <1>2, <1>a, <1>b, <2>1, EmitType, OtherEnds DEF CancelEmit, Emit
<1>3. ASSUME NEW w \in Workers, EmitRunning(w) PROVE EventInv'
  <2>1. worker[w].id \in Transfers /\ 0 \in 0..MaxDone
    BY <1>3, MaxDoneAssumption DEF EmitRunning, QueueInv, WorkerInv
  <2> QED
    BY <1>3, <1>a, <1>b, <2>1, EmitType, ReportTypes, OtherEnds DEF EmitRunning, Emit
<1>4. ASSUME NEW w \in Workers, SendTick(w) PROVE EventInv'
  <2> DEFINE t == worker[w].id
             r == LC!Running(worker[w].tick)
  <2>1. worker[w] \in WorkerStates
    BY DEF QueueInv, TypeOK
  <2>2. t \in Transfers /\ worker[w].tick \in 0..MaxDone
    BY <1>4, <2>1 DEF SendTick, QueueInv, WorkerInv, WorkerStates
  <2>3. r \in LC!Reports /\ ~ OtherEnd(r) /\ Event(t, r) \in Events
    BY <2>2, ReportTypes, OtherEnds
  <2>4. events' \in {events, Append(events, Event(t, r))} /\ UNCHANGED view
    BY <1>4 DEF SendTick
  <2>5. \A i \in 1..Len(events') :
          \/ i \in 1..Len(events) /\ events'[i] = events[i]
          \/ events'[i] = Event(t, r)
    BY <1>a, <2>3, <2>4
  <2> QED
    BY <1>b, <2>2, <2>3, <2>4, <2>5
<1>5. ASSUME NEW w \in Workers, EmitFlush(w) PROVE EventInv'
  <2>1. worker[w] \in WorkerStates
    BY DEF QueueInv, TypeOK
  <2>2. worker[w].id \in Transfers /\ worker[w].tick \in 0..MaxDone
    BY <1>5, <2>1 DEF EmitFlush, QueueInv, WorkerInv, WorkerStates
  <2> QED
    BY <1>5, <1>a, <1>b, <2>2, EmitType, ReportTypes, OtherEnds DEF EmitFlush, Emit
<1>6. ASSUME NEW w \in Workers, EmitEnd(w) PROVE EventInv'
  <2> DEFINE t == worker[w].id
             r == LC!Ended(worker[w].final)
  <2>1. /\ t \in Transfers /\ worker[w].final \in LC!TerminalStates
        /\ entries[t].state = "removed"
        /\ t \in promised => worker[w].final = "Cancelled"
    BY <1>6 DEF EmitEnd, QueueInv, WorkerInv
  <2>2. OtherEnd(r) => Unpromised(t)
    BY <2>1 DEF OtherEnd, Unpromised, LC!Ended
  <2>3. OtherEnd(r) => Gone(t)
    BY <1>s, <2>1, <2>2
  <2>4. r \in LC!Reports
    BY <2>1, ReportTypes
  <2>5. Emit(t, r)
    BY <1>6 DEF EmitEnd
  <2>6. UNCHANGED view
    BY <2>5 DEF Emit
  <2> QED
    BY <1>a, <1>b, <2>1, <2>3, <2>4, <2>5, <2>6, EmitType
<1>7. ASSUME Consume PROVE EventInv'
  <2>1. /\ events # <<>>
        /\ events' = Tail(events)
        /\ view' = [view EXCEPT ![Head(events).id] = Head(events).report]
    BY <1>7 DEF Consume
  <2>2. /\ Len(events) \in Nat \ {0}
        /\ Head(events) = events[1]
        /\ \A i \in 1..Len(events') : i + 1 \in 1..Len(events) /\ events'[i] = events[i + 1]
    BY <1>a, <2>1
  <2>3. events[1].id \in Transfers
    BY <1>a, <2>2 DEF Events
  <2>4. \A t \in Transfers :
          view'[t] = IF t = events[1].id THEN events[1].report ELSE view[t]
    BY <1>a, <2>1, <2>2
  <2>5. \A t \in Transfers : OtherEnd(view'[t]) => Gone(t)
    BY <1>e, <1>v, <2>2, <2>4
  <2>6. \A i \in 1..Len(events') : OtherEnd(events'[i].report) => Gone(events'[i].id)
    BY <1>e, <2>2
  <2> QED
    BY <2>5, <2>6 DEF EventInv, OtherEnd, Unpromised
<1>8. ASSUME DropReceiver PROVE EventInv'
  <2>1. Len(events') = 0 /\ UNCHANGED view
    BY <1>8 DEF DropReceiver
  <2> QED
    BY <1>v, <2>1 DEF EventInv, OtherEnd, Unpromised
<1> QED
  BY <1>c, <1>1, <1>2, <1>3, <1>4, <1>5, <1>6, <1>7, <1>8
  DEF Next, ClientStep, CallerStep, WorkerStep, Return, EnqueueInsert, EnqueueSend,
      CancelQueued, CancelRunning, Start, Exit, Progress, Finish, Close, queueVars,
      eventVars, vars

------------------------------------------------------------------------------
(* The theorems *)

(* QueueInv holds in every reachable state. *)
THEOREM Invariant == Spec => []QueueInv
<1>1. Init => QueueInv
  <2> SUFFICES ASSUME Init PROVE QueueInv
    OBVIOUS
  <2>1. TypeOK
    BY CapacityAssumption, MaxDoneAssumption
    DEF Init, TypeOK, Absent, Idle, Entries, EntryStates, WorkerStates, NoTick, Events
  <2>2. \A w \in Workers : WorkerInv(w)
    BY DEF Init, Idle, WorkerInv
  <2>3. \A t \in Transfers : EntryInv(t)
    BY DEF Init, Absent, EntryInv
  <2>4. EventInv
    BY DEF Init, EventInv, OtherEnd, LC!Unseen
  <2> QED
    BY <2>1, <2>2, <2>3, <2>4 DEF QueueInv
<1>2. QueueInv /\ [Next]_vars => QueueInv'
  BY TypeStep, EntryStep, WorkerInvStep, EventStep DEF QueueInv
<1> QED
  BY <1>1, <1>2, PTL DEF Spec

(* Every variable keeps its type, and the event channel never holds more    *)
(* than Capacity events: emit() waits and progress() does not.              *)
THEOREM TypeCorrect == Spec => []TypeOK
<1>1. QueueInv => TypeOK
  BY DEF QueueInv
<1> QED
  BY <1>1, Invariant, PTL

(* A cancellation that cancel() granted is the end the client is told: no   *)
(* worker, no event and no row ever holds another end of that transfer.     *)
THEOREM GrantedCancelWins == Spec => []CancelWins
<1>1. QueueInv => CancelWins
  <2> SUFFICES ASSUME QueueInv, NEW t \in promised
               PROVE  /\ \A w \in Workers :
                           Holds(w, t) => worker[w].final \in {"none", "Cancelled"}
                      /\ \A i \in 1..Len(events) : events[i].id = t =>
                           events[i].report.state \notin {"Complete", "Failed"}
                      /\ view[t].state \notin {"Complete", "Failed"}
    BY DEF CancelWins
  <2>1. t \in Transfers
    BY DEF QueueInv, TypeOK
  <2>2. \A w \in Workers : Holds(w, t) => worker[w].final \in {"none", "Cancelled"}
    BY DEF QueueInv, WorkerInv, Holds
  <2>3. /\ \A i \in 1..Len(events) : events[i].id = t =>
             events[i].report.state \notin {"Complete", "Failed"}
        /\ view[t].state \notin {"Complete", "Failed"}
    BY <2>1 DEF QueueInv, EventInv, OtherEnd, Unpromised
  <2> QED
    BY <2>2, <2>3
<1> QED
  BY <1>1, Invariant, PTL

------------------------------------------------------------------------------
(* OneRunner *)

(* OneRunner is not inductive either: a worker stays alone with a transfer  *)
(* because every job is in the channel once, and leaves it when a worker    *)
(* takes it; a caller in enqueue() has not queued its job yet.              *)
Busy(w) == worker[w].pc \notin {"recv", "exited"}

JobInv ==
  /\ \A i \in 1..Len(jobs) : caller[jobs[i]] = "queued"
  /\ \A i \in 1..Len(jobs) : \A w \in Workers : worker[w].id # jobs[i]
  /\ \A i, j \in 1..Len(jobs) : jobs[i] = jobs[j] => i = j

RunnerInv ==
  /\ \A w \in Workers : ~ Busy(w) => worker[w].id = NoTransfer
  /\ \A w \in Workers : Busy(w) => caller[worker[w].id] = "queued"
  /\ \A w \in Workers : Moving(w) => entries[worker[w].id].state = "Running"
  /\ \A v, w \in Workers : Busy(v) /\ worker[v].id = worker[w].id => v = w

(* The facts below about a step that leaves the workers' transfers alone    *)
(* and moves no entry out of Running.                                       *)
LEMMA SameRunners ==
  ASSUME QueueInv, JobInv, RunnerInv,
         UNCHANGED jobs,
         \A w \in Workers : worker'[w].id = worker[w].id,
         \A w \in Workers : Busy(w)' <=> Busy(w),
         \A w \in Workers : Moving(w)' => Moving(w),
         \A t \in Transfers : caller[t] = "queued" => caller'[t] = "queued",
         \A t \in Transfers : entries[t].state = "Running" =>
           \/ entries'[t].state = "Running"
           \/ \A w \in Workers : worker[w].id = t => ~ Moving(w)'
  PROVE  JobInv' /\ RunnerInv'
<1>1. \A w \in Workers : Busy(w) => worker[w].id \in Transfers
  BY DEF QueueInv, WorkerInv, Busy
<1>2. \A w \in Workers : Moving(w) => Busy(w)
  BY DEF Moving, Busy
<1>3. \A i \in 1..Len(jobs) : jobs[i] \in Transfers
  BY DEF QueueInv, TypeOK
<1>4. JobInv'
  BY <1>3 DEF JobInv
<1>5. /\ \A w \in Workers : Busy(w)' => caller'[worker'[w].id] = "queued"
      /\ \A w \in Workers : ~ Busy(w)' => worker'[w].id = NoTransfer
      /\ \A v, w \in Workers : Busy(v)' /\ worker'[v].id = worker'[w].id => v = w
  BY <1>1 DEF RunnerInv
<1>6. \A w \in Workers : Moving(w)' => entries'[worker'[w].id].state = "Running"
  BY <1>1, <1>2 DEF RunnerInv
<1> QED
  BY <1>4, <1>5, <1>6 DEF RunnerInv

(* No step gives a transfer a second place in the jobs or a second worker. *)
LEMMA RunnerStep ==
  ASSUME QueueInv, JobInv, RunnerInv, [Next]_vars
  PROVE  JobInv' /\ RunnerInv'
<1>a. /\ worker \in [Workers -> WorkerStates]
      /\ entries \in [Transfers -> Entries]
      /\ caller \in [Transfers -> {"idle", "emit", "send", "queued", "refused"}]
      /\ jobs \in Seq(Transfers)
      /\ \A w \in Workers : Busy(w) => worker[w].id \in Transfers
      /\ \A i \in 1..Len(jobs) : jobs[i] \in Transfers
  BY DEF QueueInv, TypeOK, WorkerInv, Busy
<1>1. ASSUME UNCHANGED <<jobs, worker>>,
             \A t \in Transfers : caller[t] = "queued" => caller'[t] = "queued",
             \A t \in Transfers : entries[t].state = "Running" => entries'[t].state = "Running"
      PROVE  JobInv' /\ RunnerInv'
  BY <1>1, SameRunners DEF Busy, Moving
<1>2. ASSUME NEW t \in Transfers,
             EnqueueInsert(t) \/ EnqueueEmit(t) \/ CancelQueued(t) \/ CancelRunning(t)
      PROVE  JobInv' /\ RunnerInv'
  <2>1. EnqueueInsert(t) => entries[t].state = "absent"
    BY DEF EnqueueInsert, QueueInv, EntryInv
  <2>2. UNCHANGED <<jobs, worker>>
    BY <1>2 DEF EnqueueInsert, EnqueueEmit, CancelQueued, CancelRunning
  <2>3. \A s \in Transfers : caller[s] = "queued" => caller'[s] = "queued"
    BY <1>a, <1>2 DEF EnqueueInsert, EnqueueEmit, CancelQueued, CancelRunning
  <2>4. \A s \in Transfers : entries[s].state = "Running" => entries'[s].state = "Running"
    <3>1. CASE EnqueueInsert(t)
      BY <1>a, <2>1, <3>1 DEF EnqueueInsert, Entries
    <3>2. CASE EnqueueEmit(t)
      BY <3>2 DEF EnqueueEmit
    <3>3. CASE CancelQueued(t)
      BY <1>a, <3>3 DEF CancelQueued, Entries
    <3>4. CASE CancelRunning(t)
      BY <1>a, <3>4 DEF CancelRunning, Entries
    <3> QED
      BY <1>2, <3>1, <3>2, <3>3, <3>4
  <2> QED
    BY <1>1, <2>2, <2>3, <2>4
<1>3. ASSUME NEW t \in Transfers, EnqueueSend(t) PROVE JobInv' /\ RunnerInv'
  <2>1. CASE ~ jobsOpen
    <3>1. UNCHANGED <<jobs, worker, entries>> /\ caller' = [caller EXCEPT ![t] = "refused"]
      BY <1>3, <2>1 DEF EnqueueSend
    <3>2. caller[t] = "send"
      BY <1>3 DEF EnqueueSend
    <3> QED
      BY <1>1, <1>a, <3>1, <3>2
  <2>2. CASE jobsOpen
    <3>1. /\ jobs' = Append(jobs, t) /\ caller' = [caller EXCEPT ![t] = "queued"]
          /\ caller[t] = "send" /\ UNCHANGED <<worker, entries>>
      BY <1>3, <2>2 DEF EnqueueSend
    <3>2. /\ \A i \in 1..Len(jobs) : jobs[i] # t
          /\ \A w \in Workers : worker[w].id # t
      <4>1. \A w \in Workers : Busy(w) => worker[w].id # t
        BY <3>1 DEF RunnerInv
      <4>2. \A w \in Workers : ~ Busy(w) => worker[w].id # t
        BY NoTransferAssumption DEF RunnerInv
      <4> QED
        BY <3>1, <4>1, <4>2 DEF JobInv
    <3>3. /\ Len(jobs') = Len(jobs) + 1 /\ Len(jobs) \in Nat
          /\ \A i \in 1..Len(jobs') : jobs'[i] = IF i <= Len(jobs) THEN jobs[i] ELSE t
      BY <1>a, <3>1
    <3>4. \A i \in 1..Len(jobs') : i \in 1..Len(jobs) \/ i = Len(jobs) + 1
      BY <3>3
    <3>5. \A s \in Transfers : caller[s] = "queued" \/ s = t => caller'[s] = "queued"
      BY <1>a, <3>1
    <3>6. JobInv'
      BY <1>a, <3>1, <3>2, <3>3, <3>4, <3>5 DEF JobInv
    <3>7. RunnerInv'
      BY <1>a, <3>1, <3>5 DEF RunnerInv, Busy, Moving
    <3> QED
      BY <3>6, <3>7
  <2> QED
    BY <2>1, <2>2
<1>4. ASSUME NEW w \in Workers, Start(w) PROVE JobInv' /\ RunnerInv'
  <2> DEFINE t == Head(jobs)
  <2>1. /\ jobs # <<>> /\ jobs' = Tail(jobs)
        /\ worker[w].pc = "recv" /\ UNCHANGED caller
    BY <1>4 DEF Start
  <2>2. /\ Len(jobs) \in Nat \ {0} /\ t = jobs[1] /\ 1 \in 1..Len(jobs)
        /\ Len(jobs') = Len(jobs) - 1
        /\ \A i \in 1..Len(jobs') : i + 1 \in 1..Len(jobs) /\ jobs'[i] = jobs[i + 1]
    BY <1>a, <2>1
  <2>3. t \in Transfers /\ caller[t] = "queued" /\ \A v \in Workers : worker[v].id # t
    BY <1>a, <2>2 DEF JobInv
  <2>4. \A i \in 1..Len(jobs') : /\ caller[jobs'[i]] = "queued"
                                 /\ jobs'[i] # t
                                 /\ \A v \in Workers : worker[v].id # jobs'[i]
    <3>1. \A i \in 1..Len(jobs') : i + 1 # 1
      BY <2>2
    <3> QED
      BY <2>2, <3>1 DEF JobInv
  <2>5. \A i, j \in 1..Len(jobs') : jobs'[i] = jobs'[j] => i = j
    <3> SUFFICES ASSUME NEW i \in 1..Len(jobs'), NEW j \in 1..Len(jobs'),
                        jobs'[i] = jobs'[j]
                 PROVE  i = j
      OBVIOUS
    <3>1. i + 1 = j + 1
      BY <2>2 DEF JobInv
    <3> QED
      BY <2>2, <3>1
  <2>6. CASE HasEntry(t) /\ entries[t].state # "Cancelled"
    <3>1. /\ entries' = [entries EXCEPT ![t].state = "Running"]
          /\ worker' = [worker EXCEPT ![w].pc = "announce", ![w].id = t]
      BY <1>4, <2>6 DEF Start
    <3>2. /\ worker'[w].pc = "announce" /\ worker'[w].id = t
          /\ \A v \in Workers : v # w => worker'[v] = worker[v]
          /\ entries'[t].state = "Running"
          /\ \A s \in Transfers : s # t => entries'[s] = entries[s]
      BY <1>a, <2>3, <3>1 DEF WorkerStates, Entries
    <3>3. JobInv'
      BY <2>1, <2>4, <2>5, <3>2 DEF JobInv
    <3>4. \A v \in Workers : v # w => /\ Busy(v)' <=> Busy(v)
                                      /\ Moving(v)' <=> Moving(v)
                                      /\ worker'[v].id = worker[v].id
      BY <3>2 DEF Busy, Moving
    <3>5. \A v \in Workers : Moving(v) => Busy(v)
      BY DEF Moving, Busy
    <3>6. Busy(w)' /\ Moving(w)'
      BY <3>2 DEF Busy, Moving
    <3>7. RunnerInv'
      BY <1>a, <2>1, <2>3, <3>2, <3>4, <3>5, <3>6 DEF RunnerInv
    <3> QED
      BY <3>3, <3>7
  <2>7. CASE ~ (HasEntry(t) /\ entries[t].state # "Cancelled")
    <3>1. UNCHANGED <<entries, worker>>
      BY <1>4, <2>7 DEF Start
    <3>2. JobInv'
      BY <2>1, <2>4, <2>5, <3>1 DEF JobInv
    <3>3. RunnerInv'
      BY <2>1, <3>1 DEF RunnerInv, Busy, Moving
    <3> QED
      BY <3>2, <3>3
  <2> QED
    BY <2>6, <2>7
<1>5. ASSUME NEW w \in Workers, Exit(w) \/ EmitRunning(w) \/ EmitFlush(w)
      PROVE  JobInv' /\ RunnerInv'
  <2>1. /\ UNCHANGED <<jobs, caller, entries>>
        /\ \E p \in {"exited", "execute", "end"} :
             /\ worker' = [worker EXCEPT ![w].pc = p]
             /\ p = "exited" <=> worker[w].pc = "recv"
             /\ p = "execute" <=> worker[w].pc = "announce"
             /\ worker[w].pc \in {"recv", "announce", "flush"}
    BY <1>5 DEF Exit, EmitRunning, EmitFlush, Goto, queueVars
  <2>2. /\ \A v \in Workers : worker'[v].id = worker[v].id
        /\ \A v \in Workers : Busy(v)' <=> Busy(v)
        /\ \A v \in Workers : Moving(v)' => Moving(v)
    BY <1>a, <2>1 DEF WorkerStates, Busy, Moving
  <2> QED
    BY <2>1, <2>2, SameRunners
<1>6. ASSUME NEW w \in Workers, SendTick(w) \/ \E d \in 1..MaxDone : Progress(w, d)
      PROVE  JobInv' /\ RunnerInv'
  <2>1. worker[w].id \in Transfers
    BY <1>6 DEF SendTick, Progress, QueueInv, WorkerInv
  <2>2. /\ UNCHANGED <<jobs, caller>>
        /\ \A v \in Workers : worker'[v].id = worker[v].id
        /\ \A v \in Workers : Busy(v)' <=> Busy(v)
        /\ \A v \in Workers : Moving(v)' => Moving(v)
        /\ \A t \in Transfers : entries'[t].state = entries[t].state
    <3>1. CASE SendTick(w)
      BY <1>a, <2>1, <3>1 DEF SendTick, WorkerStates, Entries, Busy, Moving
    <3>2. CASE \E d \in 1..MaxDone : Progress(w, d)
      BY <1>a, <2>1, <3>2 DEF Progress, WorkerStates, Entries, Busy, Moving
    <3> QED
      BY <1>6, <3>1, <3>2
  <2> QED
    BY <2>2, SameRunners
<1>7. ASSUME NEW w \in Workers, NEW outcome \in LC!TerminalStates, Finish(w, outcome)
      PROVE  JobInv' /\ RunnerInv'
  <2> DEFINE t == worker[w].id
  <2>1. t \in Transfers /\ Busy(w) /\ UNCHANGED <<jobs, caller>>
    BY <1>7 DEF Finish, QueueInv, WorkerInv, Busy
  <2>2. /\ \A v \in Workers : worker'[v].id = worker[v].id
        /\ \A v \in Workers : v # w => worker'[v] = worker[v]
        /\ worker'[w].pc \in {"flush", "end"}
    BY <1>7, <1>a DEF Finish, WorkerStates
  <2>3. /\ \A v \in Workers : Busy(v)' <=> Busy(v)
        /\ \A v \in Workers : Moving(v)' => Moving(v)
        /\ ~ Moving(w)'
    BY <2>1, <2>2 DEF Busy, Moving
  <2>4. \A s \in Transfers : s # t => entries'[s] = entries[s]
    BY <1>7, <1>a, <2>1 DEF Finish
  <2>5. \A v \in Workers : worker[v].id = t => v = w
    BY <2>1 DEF RunnerInv
  <2> QED
    BY <2>1, <2>2, <2>3, <2>4, <2>5, SameRunners
<1>8. ASSUME NEW w \in Workers, EmitEnd(w) PROVE JobInv' /\ RunnerInv'
  <2>1. UNCHANGED <<jobs, caller, entries>> /\ worker' = [worker EXCEPT ![w] = Idle]
    BY <1>8 DEF EmitEnd, queueVars
  <2>2. /\ worker'[w] = Idle
        /\ \A v \in Workers : v # w => worker'[v] = worker[v]
    BY <1>a, <2>1
  <2>3. Idle.id = NoTransfer /\ Idle.pc = "recv"
    BY DEF Idle
  <2>4. /\ ~ Busy(w)' /\ ~ Moving(w)' /\ worker'[w].id = NoTransfer
        /\ \A v \in Workers : v # w => /\ Busy(v)' <=> Busy(v)
                                       /\ Moving(v)' <=> Moving(v)
                                       /\ worker'[v].id = worker[v].id
    BY <2>2, <2>3 DEF Busy, Moving
  <2>5. JobInv'
    <3>1. \A i \in 1..Len(jobs) : jobs[i] # NoTransfer
      BY <1>a, NoTransferAssumption
    <3> QED
      BY <2>1, <2>4, <3>1 DEF JobInv
  <2>6. RunnerInv'
    <3>1. \A v \in Workers : Busy(v) => worker[v].id # NoTransfer
      BY <1>a, NoTransferAssumption
    <3> QED
      BY <2>1, <2>4, <3>1 DEF RunnerInv
  <2> QED
    BY <2>5, <2>6
<1> QED
  BY <1>1, <1>2, <1>3, <1>4, <1>5, <1>6, <1>7, <1>8
  DEF Next, ClientStep, CallerStep, WorkerStep, Return, CancelEmit, Close, Consume,
      DropReceiver, queueVars, vars

(* A transfer is moved by one worker at a time, and one that was cancelled  *)
(* while it was queued is never handed to an executor.                      *)
THEOREM OneRunnerAlways == Spec => []OneRunner
<1>1. Init => JobInv /\ RunnerInv
  BY DEF Init, JobInv, RunnerInv, Idle, Busy, Moving
<1>2. QueueInv /\ JobInv /\ RunnerInv /\ [Next]_vars => JobInv' /\ RunnerInv'
  BY RunnerStep
<1>3. QueueInv /\ RunnerInv => OneRunner
  BY DEF OneRunner, RunnerInv, Moving, Busy, Holds
<1> QED
  BY <1>1, <1>2, <1>3, Invariant, PTL DEF Spec
------------------------------------------------------------------------------
(* NoTransferForgotten *)

(* What keeps a transfer alive: its caller, its job, the worker that moves  *)
(* it, or the cancellation that settled its entry.                          *)
Kept(t) ==
  \/ caller[t] \in {"emit", "send", "refused"}
  \/ InJobs(t)
  \/ \E w \in Workers : Holds(w, t) /\ Moving(w)
  \/ entries[t].state = "Cancelled"

(* A step that keeps the jobs, the moving workers and their transfers, and  *)
(* gives nobody an entry, loses none either.                                *)
LEMMA SameKeepers ==
  ASSUME NEW t \in Transfers, HasEntry(t) => Kept(t),
         UNCHANGED <<jobs, caller>>,
         HasEntry(t)' => HasEntry(t),
         entries[t].state = "Cancelled" => entries'[t].state = "Cancelled",
         \A w \in Workers : Holds(w, t) /\ Moving(w) => Holds(w, t)' /\ Moving(w)'
  PROVE  HasEntry(t)' => Kept(t)'
BY DEF Kept, InJobs

(* No step leaves an entry without a job, a worker or a caller that has it. *)
LEMMA KeptStep ==
  ASSUME QueueInv, NoTransferForgotten, [Next]_vars
  PROVE  NoTransferForgotten'
<1> SUFFICES ASSUME NEW s \in Transfers PROVE HasEntry(s)' => Kept(s)'
  BY DEF NoTransferForgotten, Kept
<1>k. HasEntry(s) => Kept(s)
  BY DEF NoTransferForgotten, Kept
<1>a. /\ worker \in [Workers -> WorkerStates]
      /\ entries \in [Transfers -> Entries]
      /\ caller \in [Transfers -> {"idle", "emit", "send", "queued", "refused"}]
      /\ jobs \in Seq(Transfers)
      /\ \A w \in Workers : Moving(w) => worker[w].id \in Transfers
  BY DEF QueueInv, TypeOK, WorkerInv, Moving
<1>1. ASSUME NEW t \in Transfers, EnqueueInsert(t) \/ EnqueueEmit(t)
      PROVE  HasEntry(s)' => Kept(s)'
  <2>1. /\ UNCHANGED <<jobs, worker>>
        /\ \E c \in {"emit", "send"} : caller' = [caller EXCEPT ![t] = c]
        /\ s # t => entries'[s] = entries[s]
    BY <1>1, <1>a DEF EnqueueInsert, EnqueueEmit
  <2>2. CASE s = t
    BY <1>a, <2>1, <2>2 DEF Kept
  <2>3. CASE s # t
    BY <1>k, <1>a, <2>1, <2>3 DEF Kept, HasEntry, InJobs, Holds, Moving
  <2> QED
    BY <2>2, <2>3
<1>2. ASSUME NEW t \in Transfers, EnqueueSend(t) PROVE HasEntry(s)' => Kept(s)'
  <2>1. UNCHANGED <<worker, entries>> /\ caller[t] = "send"
    BY <1>2 DEF EnqueueSend
  <2>2. CASE ~ jobsOpen
    <3>1. UNCHANGED jobs /\ caller' = [caller EXCEPT ![t] = "refused"]
      BY <1>2, <2>2 DEF EnqueueSend
    <3>2. caller'[s] = caller[s] \/ caller'[s] = "refused"
      BY <1>a, <3>1
    <3>3. CASE caller'[s] = "refused"
      BY <3>3 DEF Kept
    <3>4. CASE caller'[s] = caller[s]
      BY <1>k, <2>1, <3>1, <3>4 DEF Kept, HasEntry, InJobs, Holds, Moving
    <3> QED
      BY <3>2, <3>3, <3>4
  <2>3. CASE jobsOpen
    <3>1. jobs' = Append(jobs, t) /\ caller' = [caller EXCEPT ![t] = "queued"]
      BY <1>2, <2>3 DEF EnqueueSend
    <3>2. /\ Len(jobs') = Len(jobs) + 1 /\ Len(jobs) \in Nat
          /\ jobs'[Len(jobs) + 1] = t
          /\ \A i \in 1..Len(jobs) : jobs'[i] = jobs[i]
      BY <1>a, <3>1
    <3>3. Len(jobs) + 1 \in 1..Len(jobs') /\ \A i \in 1..Len(jobs) : i \in 1..Len(jobs')
      BY <3>2
    <3>4. InJobs(t)' /\ (InJobs(s) => InJobs(s)')
      BY <3>2, <3>3 DEF InJobs
    <3> QED
      BY <1>k, <1>a, <2>1, <3>1, <3>4 DEF Kept, HasEntry, Holds, Moving
  <2> QED
    BY <2>2, <2>3
<1>3. ASSUME NEW t \in Transfers, CancelQueued(t) \/ CancelRunning(t)
      PROVE  HasEntry(s)' => Kept(s)'
  <2>1. UNCHANGED <<jobs, caller, worker>>
    BY <1>3 DEF CancelQueued, CancelRunning
  <2>2. /\ HasEntry(s)' => HasEntry(s)
        /\ entries[s].state = "Cancelled" => entries'[s].state = "Cancelled"
    BY <1>3, <1>a DEF CancelQueued, CancelRunning, HasEntry, Entries
  <2> QED
    BY <1>k, <2>1, <2>2, SameKeepers DEF Holds, Moving
<1>4. ASSUME NEW w \in Workers, Start(w) PROVE HasEntry(s)' => Kept(s)'
  <2> DEFINE t == Head(jobs)
  <2>1. /\ jobs # <<>> /\ jobs' = Tail(jobs) /\ UNCHANGED caller
        /\ worker[w].pc = "recv"
    BY <1>4 DEF Start
  <2>2. /\ Len(jobs) \in Nat \ {0} /\ t = jobs[1] /\ t \in Transfers
        /\ Len(jobs') = Len(jobs) - 1
        /\ \A i \in 1..Len(jobs') : jobs'[i] = jobs[i + 1]
    BY <1>a, <2>1
  <2>3. InJobs(s) /\ s # t => InJobs(s)'
    <3> SUFFICES ASSUME NEW i \in 1..Len(jobs), jobs[i] = s, s # t PROVE InJobs(s)'
      BY DEF InJobs
    <3>1. i # 1
      BY <2>2
    <3>2. i - 1 \in 1..Len(jobs') /\ (i - 1) + 1 = i
      BY <2>2, <3>1
    <3>3. jobs'[i - 1] = s
      BY <2>2, <3>2
    <3> QED
      BY <3>2, <3>3 DEF InJobs
  <2>4. CASE HasEntry(t) /\ entries[t].state # "Cancelled"
    <3>1. /\ entries' = [entries EXCEPT ![t].state = "Running"]
          /\ worker' = [worker EXCEPT ![w].pc = "announce", ![w].id = t]
      BY <1>4, <2>4 DEF Start
    <3>2. worker'[w].id = t /\ worker'[w].pc = "announce"
      BY <1>a, <2>2, <3>1 DEF WorkerStates
    <3>3. \A v \in Workers : Moving(v) => worker'[v].id = worker[v].id /\ Moving(v)'
      <4>1. \A v \in Workers : v # w => worker'[v] = worker[v]
        BY <1>a, <3>1
      <4> QED
        BY <2>1, <4>1 DEF Moving
    <3>4. s # t => entries'[s] = entries[s]
      BY <1>a, <3>1
    <3>5. CASE s = t
      BY <3>2, <3>5 DEF Kept, Holds, Moving
    <3>6. CASE s # t
      <4>1. \A v \in Workers : Holds(v, s) /\ Moving(v) => Holds(v, s)' /\ Moving(v)'
        BY <3>3 DEF Holds
      <4> QED
        BY <1>k, <2>1, <2>3, <3>4, <3>6, <4>1 DEF Kept, HasEntry
    <3> QED
      BY <3>5, <3>6
  <2>5. CASE ~ (HasEntry(t) /\ entries[t].state # "Cancelled")
    <3>1. UNCHANGED <<entries, worker>>
      BY <1>4, <2>5 DEF Start
    <3> QED
      BY <1>k, <2>1, <2>3, <2>5, <3>1 DEF Kept, HasEntry, Holds, Moving
  <2> QED
    BY <2>4, <2>5
<1>5. ASSUME NEW w \in Workers, Exit(w) \/ EmitRunning(w) \/ EmitFlush(w) \/ EmitEnd(w)
      PROVE  HasEntry(s)' => Kept(s)'
  <2>1. UNCHANGED <<jobs, caller, entries>>
    BY <1>5 DEF Exit, EmitRunning, EmitFlush, EmitEnd, queueVars
  <2>2. \A v \in Workers : Moving(v) => worker'[v].id = worker[v].id /\ Moving(v)'
    BY <1>5, <1>a DEF Exit, EmitRunning, EmitFlush, EmitEnd, Goto, Moving, WorkerStates
  <2> QED
    BY <1>k, <2>1, <2>2, SameKeepers DEF HasEntry, Holds
<1>6. ASSUME NEW w \in Workers, SendTick(w) \/ \E d \in 1..MaxDone : Progress(w, d)
      PROVE  HasEntry(s)' => Kept(s)'
  <2>1. worker[w].id \in Transfers /\ UNCHANGED <<jobs, caller>>
    BY <1>6, <1>a DEF SendTick, Progress, Moving
  <2>2. /\ entries'[s].state = entries[s].state
        /\ \A v \in Workers : Moving(v) => worker'[v].id = worker[v].id /\ Moving(v)'
    <3>1. CASE SendTick(w)
      BY <1>a, <2>1, <3>1 DEF SendTick, WorkerStates, Entries, Moving
    <3>2. CASE \E d \in 1..MaxDone : Progress(w, d)
      BY <1>a, <2>1, <3>2 DEF Progress, WorkerStates, Entries, Moving
    <3> QED
      BY <1>6, <3>1, <3>2
  <2> QED
    BY <1>k, <2>1, <2>2, SameKeepers DEF HasEntry, Holds
<1>7. ASSUME NEW w \in Workers, NEW outcome \in LC!TerminalStates, Finish(w, outcome)
      PROVE  HasEntry(s)' => Kept(s)'
  <2> DEFINE t == worker[w].id
  <2>1. t \in Transfers /\ UNCHANGED <<jobs, caller>>
    BY <1>7, <1>a DEF Finish, Moving
  <2>2. entries'[t].state = "removed" /\ (s # t => entries'[s] = entries[s])
    BY <1>7, <1>a, <2>1 DEF Finish, Entries
  <2>3. \A v \in Workers : v # w => worker'[v] = worker[v]
    BY <1>7, <1>a DEF Finish
  <2>4. CASE s = t
    BY <2>2, <2>4 DEF HasEntry
  <2>5. CASE s # t
    BY <1>k, <2>1, <2>2, <2>3, <2>5, SameKeepers DEF HasEntry, Holds, Moving
  <2> QED
    BY <2>4, <2>5
<1>8. ASSUME UNCHANGED <<entries, caller, jobs, worker>> PROVE HasEntry(s)' => Kept(s)'
  BY <1>k, <1>8, SameKeepers DEF HasEntry, Holds, Moving
<1> QED
  BY <1>1, <1>2, <1>3, <1>4, <1>5, <1>6, <1>7, <1>8
  DEF Next, ClientStep, CallerStep, WorkerStep, Return, CancelEmit, Close, Consume,
      DropReceiver, queueVars, vars

(* No transfer of the map is ever forgotten: its caller will still queue    *)
(* it, its job waits, or a worker moves it, unless it was cancelled while   *)
(* it was queued or close() refused its job.                                *)
THEOREM NothingForgotten == Spec => []NoTransferForgotten
<1>1. Init => NoTransferForgotten
  BY DEF Init, Absent, NoTransferForgotten, HasEntry
<1>2. QueueInv /\ NoTransferForgotten /\ [Next]_vars => NoTransferForgotten'
  BY KeptStep
<1> QED
  BY <1>1, <1>2, Invariant, PTL DEF Spec

------------------------------------------------------------------------------
(* Lifecycle and FinalTickShown *)

(* Both speak of the row a client is shown, which is some events behind.    *)
(* The invariant therefore follows each transfer through the channel: each  *)
(* of its events is one the lifecycle allows after the one before it, and   *)
(* the last one sent is what the entry and the worker of the transfer stand *)
(* for.                                                                     *)

Enqueued(t) == caller[t] \notin {"idle", "emit"}

(* Nothing is shown of a transfer before its Queued event was sent. *)
SilentInv(t) ==
  ~ Enqueued(t) =>
    /\ view[t] = LC!Unseen
    /\ \A i \in 1..Len(events) : events[i].id # t
    /\ entries[t].state \in {"absent", "Queued"}
    /\ t \notin cancelling

(* Only cancel() sets a flag or settles an entry of the queue. *)
CancelInv(t) ==
  /\ entries[t].cancel => t \in promised
  /\ t \in cancelling => entries[t].state = "Cancelled"
  /\ entries[t].state = "Cancelled" => t \in promised

(* A transfer no worker has taken is not running and has moved no byte. *)
WaitInv(t) ==
  /\ caller[t] # "queued" \/ InJobs(t) => entries[t].state # "Running"
  /\ entries[t].state \in {"absent", "Queued", "Cancelled"} =>
       accepted[t] = 0 /\ entries[t].done = 0 /\ entries[t].undelivered = NoTick

(* The counts a worker, its entry and progress() keep of one transfer, and  *)
(* that a worker ends a transfer as Cancelled only if that was promised.    *)
CountInv(w) ==
  /\ worker[w].pc = "announce" =>
       accepted[worker[w].id] = 0 /\ entries[worker[w].id].done = 0
       /\ entries[worker[w].id].undelivered = NoTick
  /\ worker[w].pc = "execute" =>
       /\ entries[worker[w].id].done = accepted[worker[w].id]
       /\ entries[worker[w].id].undelivered \in {NoTick, accepted[worker[w].id]}
  /\ worker[w].pc = "tick" =>
       entries[worker[w].id].done = accepted[worker[w].id]
  /\ worker[w].pc \in {"tick", "flush"} =>
       worker[w].tick = accepted[worker[w].id] /\ worker[w].tick # NoTick
  /\ worker[w].pc \in {"flush", "end"} /\ worker[w].final = "Cancelled" =>
       worker[w].id \in promised

(* An end that was sent or shown is the end of a settled transfer. *)
Over(t) == entries[t].state \in {"Cancelled", "removed"}

EndInv ==
  /\ \A t \in Transfers : view[t].state \in LC!TerminalStates => Over(t)
  /\ \A i \in 1..Len(events) :
       events[i].report.state \in LC!TerminalStates =>
         /\ Over(events[i].id)
         /\ events[i].report.state = "Cancelled" => events[i].id \in promised

SideInv ==
  /\ \A t \in Transfers : SilentInv(t) /\ CancelInv(t) /\ WaitInv(t)
  /\ \A w \in Workers : CountInv(w)
  /\ EndInv

(* The report s may be the next one of a transfer after r; an end comes     *)
(* after the last count that was accepted.                                  *)
Steps(count, r, s) ==
  \/ r = LC!Unseen /\ s = LC!Queued
  \/ r = LC!Queued /\ s = LC!Running(0)
  \/ /\ r.state = "Running" /\ s = LC!Running(s.done)
     /\ s.done \in 0..MaxDone /\ r.done < s.done
  \/ /\ r.state \in {"Queued", "Running"} /\ r.done = count
     /\ \E e \in LC!TerminalStates :
          s = LC!Ended(e) /\ (r = LC!Queued => e = "Cancelled")

(* The first and the last event of a transfer in the channel, and two that  *)
(* follow each other.                                                       *)
FirstOf(i) == \A k \in 1..Len(events) : k < i => events[k].id # events[i].id
LastOf(i)  == \A k \in 1..Len(events) : i < k => events[k].id # events[i].id
Adjacent(i, j) ==
  /\ i < j /\ events[i].id = events[j].id
  /\ \A k \in 1..Len(events) : i < k /\ k < j => events[k].id # events[i].id

(* last is the report that was sent last, or is still shown, of each        *)
(* transfer.                                                                *)
Trail(last) ==
  /\ \A i \in 1..Len(events) : FirstOf(i) =>
       Steps(accepted[events[i].id], view[events[i].id], events[i].report)
  /\ \A i, j \in 1..Len(events) : Adjacent(i, j) =>
       Steps(accepted[events[i].id], events[i].report, events[j].report)
  /\ \A i \in 1..Len(events) : LastOf(i) => last[events[i].id] = events[i].report
  /\ \A t \in Transfers :
       (\A i \in 1..Len(events) : events[i].id # t) => last[t] = view[t]

(* What the worker of a transfer has told of it so far. *)
Told(w, t, r) ==
  /\ worker[w].pc = "announce" => r = LC!Queued
  /\ worker[w].pc \in {"execute", "tick", "flush", "end"} =>
       r = LC!Running(r.done) /\ r.done \in 0..MaxDone
  /\ worker[w].pc = "execute" =>
       IF entries[t].undelivered = NoTick THEN r.done = accepted[t]
       ELSE r.done < accepted[t]
  /\ worker[w].pc \in {"tick", "flush"} => r.done < accepted[t]
  /\ worker[w].pc = "end" => r.done = accepted[t]

(* The report sent last for t is the one its entry and its worker stand for. *)
Stage(t, r) ==
  /\ Enqueued(t) /\ entries[t].state = "Queued" => r = LC!Queued
  /\ t \in cancelling => r = LC!Queued
  /\ \A w \in Workers : Holds(w, t) => Told(w, t, r)

Lasts == [Transfers -> LC!Reports \cup {LC!Unseen}]

TrailInv ==
  eventsOpen => \E last \in Lasts : Trail(last) /\ \A t \in Transfers : Stage(t, last[t])

ShownInv == SideInv /\ TrailInv

(* The facts about types and transfers in hand that the steps below use.    *)
LEMMA SideTypes ==
  ASSUME QueueInv, RunnerInv
  PROVE  /\ worker \in [Workers -> WorkerStates]
         /\ entries \in [Transfers -> Entries]
         /\ caller \in [Transfers -> {"idle", "emit", "send", "queued", "refused"}]
         /\ accepted \in [Transfers -> 0..MaxDone]
         /\ jobs \in Seq(Transfers)
         /\ \A w \in Workers : Busy(w) =>
              worker[w].id \in Transfers /\ caller[worker[w].id] = "queued"
         /\ \A w \in Workers : Moving(w) => Busy(w) /\ entries[worker[w].id].state = "Running"
BY DEF QueueInv, TypeOK, WorkerInv, RunnerInv, Busy, Moving

(* What a step keeps of one entry: who settled it, and what it counted. *)
LEMMA EntrySideStep ==
  ASSUME QueueInv, JobInv, RunnerInv, SideInv, [Next]_vars, NEW s \in Transfers
  PROVE  /\ CancelInv(s)' /\ WaitInv(s)'
         /\ Over(s) => Over(s)' /\ accepted'[s] = accepted[s]
         /\ Enqueued(s) => Enqueued(s)'
         /\ s \in promised => s \in promised'
<1> DEFINE Goal ==
      /\ CancelInv(s)' /\ WaitInv(s)'
      /\ Over(s) => Over(s)' /\ accepted'[s] = accepted[s]
      /\ Enqueued(s) => Enqueued(s)'
      /\ s \in promised => s \in promised'
<1>a. /\ worker \in [Workers -> WorkerStates]
      /\ entries \in [Transfers -> Entries] /\ entries[s] \in Entries
      /\ caller \in [Transfers -> {"idle", "emit", "send", "queued", "refused"}]
      /\ accepted \in [Transfers -> 0..MaxDone]
      /\ jobs \in Seq(Transfers)
      /\ SilentInv(s) /\ CancelInv(s) /\ WaitInv(s)
  BY SideTypes DEF SideInv
<1>w. ASSUME NEW w \in Workers, Moving(w)
      PROVE  worker[w].id \in Transfers /\ entries[worker[w].id].state = "Running"
  BY <1>w, SideTypes
<1>b. ASSUME UNCHANGED <<entries, caller, promised, cancelling, accepted>>,
             InJobs(s)' => InJobs(s)
      PROVE  Goal
  BY <1>a, <1>b DEF CancelInv, WaitInv, Over, Enqueued
<1>1. ASSUME NEW t \in Transfers, EnqueueInsert(t) PROVE Goal
  <2>1. entries[t].state = "absent"
    BY <1>1 DEF EnqueueInsert, QueueInv, EntryInv
  <2>2. UNCHANGED <<jobs, promised, cancelling, accepted>>
    BY <1>1 DEF EnqueueInsert
  <2> QED
    BY <1>1, <1>a, <2>1, <2>2
    DEF EnqueueInsert, CancelInv, WaitInv, Over, Enqueued, Entries, InJobs
<1>2. ASSUME NEW t \in Transfers, EnqueueEmit(t) PROVE Goal
  <2>1. /\ UNCHANGED <<entries, cancelling, jobs, promised, accepted>>
        /\ caller' = [caller EXCEPT ![t] = "send"] /\ caller[t] = "emit"
    BY <1>2 DEF EnqueueEmit
  <2> QED
    BY <1>a, <2>1 DEF CancelInv, WaitInv, Over, Enqueued, InJobs
<1>3. ASSUME NEW t \in Transfers, EnqueueSend(t) PROVE Goal
  <2>1. /\ UNCHANGED <<entries, cancelling, promised, accepted>> /\ caller[t] = "send"
        /\ caller' \in {[caller EXCEPT ![t] = "queued"], [caller EXCEPT ![t] = "refused"]}
        /\ jobs' \in {jobs, Append(jobs, t)}
    BY <1>3 DEF EnqueueSend
  <2>2. InJobs(s)' => InJobs(s) \/ s = t
    <3>1. CASE jobs' = Append(jobs, t)
      <4>1. /\ Len(jobs') = Len(jobs) + 1 /\ Len(jobs) \in Nat
            /\ \A i \in 1..Len(jobs') : jobs'[i] = IF i <= Len(jobs) THEN jobs[i] ELSE t
        BY <1>a, <3>1
      <4>2. \A i \in 1..Len(jobs') : i \in 1..Len(jobs) \/ jobs'[i] = t
        BY <4>1
      <4> QED
        BY <4>1, <4>2 DEF InJobs
    <3>2. CASE jobs' = jobs
      BY <3>2 DEF InJobs
    <3> QED
      BY <2>1, <3>1, <3>2
  <2> QED
    BY <1>a, <2>1, <2>2 DEF CancelInv, WaitInv, Over, Enqueued
<1>4. ASSUME NEW t \in Transfers, CancelQueued(t) PROVE Goal
  <2>1. /\ entries' = [entries EXCEPT ![t].state = "Cancelled", ![t].cancel = TRUE]
        /\ entries[t].state = "Queued"
        /\ cancelling' = cancelling \cup {t} /\ promised' = promised \cup {t}
        /\ UNCHANGED <<caller, jobs, accepted>>
    BY <1>4 DEF CancelQueued
  <2> QED
    BY <1>a, <2>1 DEF CancelInv, WaitInv, Over, Enqueued, Entries, InJobs
<1>5. ASSUME NEW t \in Transfers, CancelEmit(t) PROVE Goal
  <2>1. /\ UNCHANGED <<entries, caller, jobs, promised, accepted>>
        /\ cancelling' = cancelling \ {t}
    BY <1>5 DEF CancelEmit
  <2> QED
    BY <1>a, <2>1 DEF CancelInv, WaitInv, Over, Enqueued, InJobs
<1>6. ASSUME NEW t \in Transfers, CancelRunning(t) PROVE Goal
  <2>1. /\ entries' = [entries EXCEPT ![t].cancel = TRUE]
        /\ promised' = promised \cup {t}
        /\ UNCHANGED <<caller, jobs, accepted, cancelling>>
    BY <1>6 DEF CancelRunning
  <2> QED
    BY <1>a, <2>1 DEF CancelInv, WaitInv, Over, Enqueued, Entries, InJobs
<1>7. ASSUME NEW w \in Workers, Start(w) PROVE Goal
  <2>1. PICK t \in Transfers : t = Head(jobs)
    BY <1>7, <1>a DEF Start
  <2>2. /\ jobs # <<>> /\ jobs' = Tail(jobs)
        /\ UNCHANGED <<caller, cancelling, promised, accepted>>
    BY <1>7 DEF Start
  <2>3. /\ Len(jobs) \in Nat \ {0} /\ t = jobs[1] /\ 1 \in 1..Len(jobs)
        /\ Len(jobs') = Len(jobs) - 1
        /\ \A i \in 1..Len(jobs') : i + 1 \in 1..Len(jobs) /\ jobs'[i] = jobs[i + 1]
    BY <1>a, <2>1, <2>2
  <2>4. caller[t] = "queued"
    BY <2>3 DEF JobInv
  <2>5. InJobs(s)' => InJobs(s)
    BY <2>3 DEF InJobs
  <2>6. ~ InJobs(t)'
    <3> SUFFICES ASSUME NEW i \in 1..Len(jobs'), jobs'[i] = t PROVE FALSE
      BY DEF InJobs
    <3>1. jobs[i + 1] = jobs[1] /\ i + 1 \in 1..Len(jobs)
      BY <2>3
    <3>2. i + 1 = 1
      BY <2>3, <3>1 DEF JobInv
    <3> QED
      BY <2>3, <3>2
  <2>7. CASE HasEntry(t) /\ entries[t].state # "Cancelled"
    <3>1. /\ entries' = [entries EXCEPT ![t].state = "Running"]
          /\ entries[t].state \in {"Queued", "Running"}
      BY <1>7, <2>1, <2>7 DEF Start, HasEntry
    <3>2. CASE s = t
      BY <1>a, <2>2, <2>4, <2>6, <3>1, <3>2 DEF CancelInv, WaitInv, Over, Enqueued, Entries
    <3>3. CASE s # t
      BY <1>a, <2>2, <2>5, <3>1, <3>3 DEF CancelInv, WaitInv, Over, Enqueued
    <3> QED
      BY <3>2, <3>3
  <2>8. CASE ~ (HasEntry(t) /\ entries[t].state # "Cancelled")
    <3>1. UNCHANGED entries
      BY <1>7, <2>1, <2>8 DEF Start
    <3> QED
      BY <1>b, <2>2, <2>5, <3>1
  <2> QED
    BY <2>7, <2>8
<1>8. ASSUME NEW w \in Workers, NEW d \in 1..MaxDone, Progress(w, d) PROVE Goal
  <2>1. Moving(w)
    BY <1>8 DEF Progress, Moving
  <2>2. PICK t \in Transfers : t = worker[w].id
    BY <1>w, <2>1
  <2>3. /\ entries' = [entries EXCEPT ![t].done = d] /\ accepted' = [accepted EXCEPT ![t] = d]
        /\ entries[t].state = "Running"
        /\ UNCHANGED <<caller, cancelling, jobs, promised>>
    BY <1>8, <2>2 DEF Progress
  <2> QED
    BY <1>a, <2>3 DEF CancelInv, WaitInv, Over, Enqueued, Entries, InJobs
<1>9. ASSUME NEW w \in Workers, SendTick(w) PROVE Goal
  <2>1. Moving(w)
    BY <1>9 DEF SendTick, Moving
  <2>2. PICK t \in Transfers : t = worker[w].id /\ entries[t].state = "Running"
    BY <1>w, <2>1
  <2>3. /\ \E u : entries' = [entries EXCEPT ![t].undelivered = u]
        /\ UNCHANGED <<caller, cancelling, jobs, promised, accepted>>
    BY <1>9, <2>2 DEF SendTick
  <2> QED
    BY <1>a, <2>2, <2>3 DEF CancelInv, WaitInv, Over, Enqueued, Entries, InJobs
<1>10. ASSUME NEW w \in Workers, NEW outcome \in LC!TerminalStates, Finish(w, outcome)
       PROVE  Goal
  <2>1. Moving(w)
    BY <1>10 DEF Finish, Moving
  <2>2. PICK t \in Transfers : t = worker[w].id /\ entries[t].state = "Running"
    BY <1>w, <2>1
  <2>3. /\ entries' = [entries EXCEPT ![t].state = "removed"]
        /\ UNCHANGED <<caller, cancelling, jobs, promised, accepted>>
    BY <1>10, <2>2 DEF Finish
  <2> QED
    BY <1>a, <2>2, <2>3 DEF CancelInv, WaitInv, Over, Enqueued, Entries, InJobs
<1>11. ASSUME UNCHANGED <<entries, caller, promised, cancelling, accepted, jobs>> PROVE Goal
  BY <1>b, <1>11 DEF InJobs
<1> QED
  BY <1>1, <1>2, <1>3, <1>4, <1>5, <1>6, <1>7, <1>8, <1>9, <1>10, <1>11
  DEF Next, ClientStep, CallerStep, WorkerStep, Return, Exit, EmitRunning, EmitFlush,
      EmitEnd, Close, Consume, DropReceiver, queueVars, vars

(* What a step keeps of the counts of one worker. *)
LEMMA CountStep ==
  ASSUME QueueInv, JobInv, RunnerInv, SideInv, [Next]_vars, NEW v \in Workers
  PROVE  CountInv(v)'
<1>a. /\ worker \in [Workers -> WorkerStates] /\ worker[v] \in WorkerStates
      /\ entries \in [Transfers -> Entries]
      /\ accepted \in [Transfers -> 0..MaxDone]
      /\ jobs \in Seq(Transfers)
      /\ CountInv(v)
      /\ ~ Busy(v) => worker[v].pc \in {"recv", "exited"}
  BY SideTypes DEF SideInv, Busy
<1>n. NoTick = 0
  BY DEF NoTick
<1>w. ASSUME NEW w \in Workers, Busy(w), v # w
      PROVE  ~ Busy(v) \/ worker[v].id # worker[w].id
  BY <1>w DEF RunnerInv
<1>i. Busy(v) => worker[v].id \in Transfers
  BY SideTypes
<1>p. \A t \in Transfers : t \in promised => t \in promised'
  BY EntrySideStep
<1>f. /\ worker[v].id \in promised => worker[v].id \in promised'
      /\ worker'[v] = worker[v] => (~ Busy(v) => CountInv(v)')
  <2>1. worker[v].id \in promised => worker[v].id \in Transfers
    BY DEF QueueInv, TypeOK
  <2> QED
    BY <1>a, <1>p, <2>1 DEF CountInv
(* A step that leaves the worker, and the counts of what it holds, alone. *)
<1>b. ASSUME worker'[v] = worker[v],
             Busy(v) => /\ entries'[worker[v].id].done = entries[worker[v].id].done
                        /\ entries'[worker[v].id].undelivered = entries[worker[v].id].undelivered
                        /\ accepted'[worker[v].id] = accepted[worker[v].id]
      PROVE  CountInv(v)'
  BY <1>a, <1>b, <1>f DEF CountInv, Busy
<1>1. ASSUME UNCHANGED <<worker, accepted>>,
             \A s \in Transfers : /\ entries'[s].done = entries[s].done
                                  /\ entries'[s].undelivered = entries[s].undelivered
      PROVE  CountInv(v)'
  BY <1>1, <1>b, <1>i
<1>2. ASSUME NEW t \in Transfers, ClientStep(t) \/ CallerStep(t) \/ CancelEmit(t)
      PROVE  CountInv(v)'
  <2>1. UNCHANGED <<worker, accepted>>
    BY <1>2 DEF ClientStep, CallerStep, EnqueueInsert, CancelQueued, CancelRunning,
                EnqueueEmit, EnqueueSend, CancelEmit
  <2>2. \A s \in Transfers : /\ entries'[s].done = entries[s].done
                             /\ entries'[s].undelivered = entries[s].undelivered
    <3>1. CASE EnqueueInsert(t)
      BY <1>a, <3>1 DEF EnqueueInsert, Entries
    <3>2. CASE CancelQueued(t)
      BY <1>a, <3>2 DEF CancelQueued, Entries
    <3>3. CASE CancelRunning(t)
      BY <1>a, <3>3 DEF CancelRunning, Entries
    <3>4. CASE CallerStep(t) \/ CancelEmit(t)
      BY <3>4 DEF CallerStep, EnqueueEmit, EnqueueSend, CancelEmit
    <3> QED
      BY <1>2, <3>1, <3>2, <3>3, <3>4 DEF ClientStep
  <2> QED
    BY <1>1, <2>1, <2>2
<1>3. ASSUME NEW w \in Workers, Start(w) PROVE CountInv(v)'
  <2>1. PICK t \in Transfers : t = Head(jobs)
    BY <1>3, <1>a DEF Start
  <2>2. UNCHANGED accepted /\ worker[w].pc = "recv"
    BY <1>3 DEF Start
  <2>3. CASE HasEntry(t) /\ entries[t].state # "Cancelled"
    <3>1. /\ entries' = [entries EXCEPT ![t].state = "Running"]
          /\ worker' = [worker EXCEPT ![w].pc = "announce", ![w].id = t]
      BY <1>3, <2>1, <2>3 DEF Start
    <3>2. \A s \in Transfers : /\ entries'[s].done = entries[s].done
                               /\ entries'[s].undelivered = entries[s].undelivered
      BY <1>a, <3>1 DEF Entries
    <3>3. CASE v = w
      <4>1. worker'[v].pc = "announce" /\ worker'[v].id = t
        BY <1>a, <3>1, <3>3 DEF WorkerStates
      <4>2. InJobs(t)
        <5>1. 1 \in 1..Len(jobs) /\ jobs[1] = t
          BY <1>3, <1>a, <2>1 DEF Start
        <5> QED
          BY <5>1 DEF InJobs
      <4>3. entries[t].state = "Queued"
        BY <2>3, <4>2 DEF SideInv, WaitInv, HasEntry
      <4>4. accepted[t] = 0 /\ entries[t].done = 0 /\ entries[t].undelivered = NoTick
        BY <4>3 DEF SideInv, WaitInv
      <4> QED
        BY <2>2, <3>2, <4>1, <4>4 DEF CountInv
    <3>4. CASE v # w
      <4>1. worker'[v] = worker[v]
        BY <1>a, <3>1, <3>4
      <4> QED
        BY <1>b, <1>i, <2>2, <3>2, <4>1
    <3> QED
      BY <3>3, <3>4
  <2>4. CASE ~ (HasEntry(t) /\ entries[t].state # "Cancelled")
    <3>1. UNCHANGED <<entries, worker>>
      BY <1>3, <2>1, <2>4 DEF Start
    <3> QED
      BY <1>1, <2>2, <3>1
  <2> QED
    BY <2>3, <2>4
<1>4. ASSUME NEW w \in Workers, Exit(w) \/ EmitRunning(w) \/ EmitFlush(w) \/ EmitEnd(w)
      PROVE  CountInv(v)'
  <2>1. UNCHANGED <<entries, accepted>>
    BY <1>4 DEF Exit, EmitRunning, EmitFlush, EmitEnd, queueVars
  <2>2. CASE v # w
    <3>1. worker'[v] = worker[v]
      BY <1>4, <1>a, <2>2 DEF Exit, EmitRunning, EmitFlush, EmitEnd, Goto
    <3> QED
      BY <1>b, <2>1, <3>1
  <2>3. CASE v = w
    <3>1. CASE Exit(w)
      <4>1. worker'[v].pc = "exited"
        BY <1>a, <2>3, <3>1 DEF Exit, Goto, WorkerStates
      <4> QED
        BY <4>1 DEF CountInv
    <3>2. CASE EmitRunning(w)
      <4>1. /\ worker'[v].pc = "execute" /\ worker'[v].id = worker[v].id
            /\ worker[v].pc = "announce"
        BY <1>a, <2>3, <3>2 DEF EmitRunning, Goto, WorkerStates
      <4> QED
        BY <1>a, <1>n, <2>1, <4>1 DEF CountInv
    <3>3. CASE EmitFlush(w)
      <4>1. /\ worker'[v].pc = "end" /\ worker'[v].id = worker[v].id
            /\ worker'[v].final = worker[v].final /\ worker[v].pc = "flush"
        BY <1>a, <2>3, <3>3 DEF EmitFlush, Goto, WorkerStates
      <4> QED
        BY <1>a, <1>f, <2>1, <4>1 DEF CountInv
    <3>4. CASE EmitEnd(w)
      <4>1. worker'[v].pc = "recv"
        BY <1>a, <2>3, <3>4 DEF EmitEnd, Idle
      <4> QED
        BY <4>1 DEF CountInv
    <3> QED
      BY <1>4, <3>1, <3>2, <3>3, <3>4
  <2> QED
    BY <2>2, <2>3
<1>5. ASSUME NEW w \in Workers, NEW d \in 1..MaxDone, Progress(w, d) PROVE CountInv(v)'
  <2>1. PICK t \in Transfers : t = worker[w].id /\ Busy(w)
    BY <1>5, SideTypes DEF Progress, Busy
  <2>2. /\ entries' = [entries EXCEPT ![t].done = d] /\ accepted' = [accepted EXCEPT ![t] = d]
        /\ worker' = [worker EXCEPT ![w].pc = "tick", ![w].tick = d]
        /\ d \in Nat /\ d # 0
    BY <1>5, <2>1, MaxDoneAssumption DEF Progress
  <2>3. CASE v = w
    <3>1. worker'[v].pc = "tick" /\ worker'[v].id = t /\ worker'[v].tick = d
      BY <1>a, <2>1, <2>2, <2>3 DEF WorkerStates
    <3>2. entries'[t].done = d /\ accepted'[t] = d
      BY <1>a, <2>2 DEF Entries
    <3> QED
      BY <1>n, <2>2, <3>1, <3>2 DEF CountInv
  <2>4. CASE v # w
    <3>1. worker'[v] = worker[v]
      BY <1>a, <2>2, <2>4
    <3>2. Busy(v) => worker[v].id # t
      BY <1>w, <2>1, <2>4
    <3>3. \A s \in Transfers : s # t => entries'[s] = entries[s] /\ accepted'[s] = accepted[s]
      BY <1>a, <2>2
    <3> QED
      BY <1>b, <1>i, <3>1, <3>2, <3>3
  <2> QED
    BY <2>3, <2>4
<1>6. ASSUME NEW w \in Workers, SendTick(w) PROVE CountInv(v)'
  <2>1. PICK t \in Transfers : t = worker[w].id /\ Busy(w)
    BY <1>6, SideTypes DEF SendTick, Busy
  <2>2. /\ \E u \in {NoTick, worker[w].tick} : entries' = [entries EXCEPT ![t].undelivered = u]
        /\ worker' = [worker EXCEPT ![w].pc = "execute", ![w].tick = NoTick]
        /\ worker[w].pc = "tick" /\ UNCHANGED accepted
    BY <1>6, <2>1 DEF SendTick
  <2>3. CASE v = w
    <3>1. worker'[v].pc = "execute" /\ worker'[v].id = t
      BY <1>a, <2>1, <2>2, <2>3 DEF WorkerStates
    <3>2. /\ entries'[t].done = entries[t].done
          /\ entries'[t].undelivered \in {NoTick, worker[w].tick}
      BY <1>a, <2>2 DEF Entries
    <3>3. entries[t].done = accepted[t] /\ worker[w].tick = accepted[t]
      BY <1>a, <2>1, <2>2, <2>3 DEF CountInv
    <3> QED
      BY <2>2, <3>1, <3>2, <3>3 DEF CountInv
  <2>4. CASE v # w
    <3>1. worker'[v] = worker[v]
      BY <1>a, <2>2, <2>4
    <3>2. Busy(v) => worker[v].id # t
      BY <1>w, <2>1, <2>4
    <3>3. \A s \in Transfers : s # t => entries'[s] = entries[s]
      BY <1>a, <2>2
    <3> QED
      BY <1>b, <1>i, <2>2, <3>1, <3>2, <3>3
  <2> QED
    BY <2>3, <2>4
<1>7. ASSUME NEW w \in Workers, NEW outcome \in LC!TerminalStates, Finish(w, outcome)
      PROVE  CountInv(v)'
  <2>1. PICK t \in Transfers : t = worker[w].id /\ Busy(w)
    BY <1>7, SideTypes DEF Finish, Busy
  <2>2. /\ entries' = [entries EXCEPT ![t].state = "removed"]
        /\ worker' = [worker EXCEPT
              ![w].pc = IF entries[t].undelivered # NoTick THEN "flush" ELSE "end",
              ![w].tick = entries[t].undelivered,
              ![w].final = IF entries[t].cancel THEN "Cancelled" ELSE outcome]
        /\ outcome = "Cancelled" => entries[t].cancel
        /\ worker[w].pc = "execute" /\ UNCHANGED <<accepted, promised>>
    BY <1>7, <2>1 DEF Finish
  <2>3. CASE v = w
    <3>1. /\ worker'[v].pc = (IF entries[t].undelivered # NoTick THEN "flush" ELSE "end")
          /\ worker'[v].id = t /\ worker'[v].tick = entries[t].undelivered
          /\ worker'[v].final = (IF entries[t].cancel THEN "Cancelled" ELSE outcome)
      BY <1>a, <2>1, <2>2, <2>3 DEF WorkerStates
    <3>2. entries[t].undelivered \in {NoTick, accepted[t]}
      BY <1>a, <2>1, <2>2, <2>3 DEF CountInv
    <3>3. worker'[v].final = "Cancelled" => t \in promised
      BY <2>2, <3>1 DEF SideInv, CancelInv
    <3> QED
      <4>1. CASE entries[t].undelivered # NoTick
        BY <2>2, <3>1, <3>2, <3>3, <4>1 DEF CountInv
      <4>2. CASE entries[t].undelivered = NoTick
        <5>1. worker'[v].pc = "end" /\ worker'[v].id = t
          BY <3>1, <4>2
        <5>2. t \in promised => t \in promised'
          BY <2>2
        <5> QED
          BY <3>3, <5>1, <5>2 DEF CountInv
      <4> QED
        BY <4>1, <4>2
  <2>4. CASE v # w
    <3>1. worker'[v] = worker[v]
      BY <1>a, <2>2, <2>4
    <3>2. Busy(v) => worker[v].id # t
      BY <1>w, <2>1, <2>4
    <3>3. \A s \in Transfers : s # t => entries'[s] = entries[s]
      BY <1>a, <2>2
    <3> QED
      BY <1>b, <1>i, <2>2, <3>1, <3>2, <3>3
  <2> QED
    BY <2>3, <2>4
<1>8. ASSUME UNCHANGED <<entries, worker, accepted>> PROVE CountInv(v)'
  BY <1>1, <1>8
<1> QED
  BY <1>2, <1>3, <1>4, <1>5, <1>6, <1>7, <1>8
  DEF Next, WorkerStep, Return, Close, Consume, DropReceiver, queueVars, vars

(* A step sends at most one event, of a transfer that was enqueued; an end  *)
(* is sent of a settled transfer, and Cancelled only if it was promised.    *)
Sends(t, r) ==
  /\ events' = IF eventsOpen THEN Append(events, Event(t, r)) ELSE events
  /\ UNCHANGED <<view, eventsOpen>>

(* A step sends one report, takes one, closes the channel or leaves it alone. *)
LEMMA Traffic ==
  ASSUME QueueInv, JobInv, RunnerInv, SideInv, [Next]_vars
  PROVE  \/ UNCHANGED <<events, view, eventsOpen>>
         \/ Consume
         \/ DropReceiver
         \/ \E t \in Transfers, r \in LC!Reports :
              /\ Sends(t, r) /\ Enqueued(t)'
              /\ r.state \in LC!TerminalStates =>
                   Over(t) /\ (r.state = "Cancelled" => t \in promised)
<1> DEFINE Goal ==
      \/ UNCHANGED <<events, view, eventsOpen>>
      \/ Consume
      \/ DropReceiver
      \/ \E t \in Transfers, r \in LC!Reports :
           /\ Sends(t, r) /\ Enqueued(t)'
           /\ r.state \in LC!TerminalStates =>
                Over(t) /\ (r.state = "Cancelled" => t \in promised)
<1>a. /\ \A w \in Workers : Busy(w) => worker[w].id \in Transfers
      /\ \A w \in Workers : worker[w].tick \in 0..MaxDone
      /\ \A w \in Workers : Busy(w) => Enqueued(worker[w].id)
      /\ \A t \in Transfers : Enqueued(t) => Enqueued(t)'
  BY SideTypes, EntrySideStep DEF Enqueued, WorkerStates
<1>e. ASSUME NEW t \in Transfers, NEW r \in LC!Reports, Emit(t, r) PROVE Sends(t, r)
  BY <1>e DEF Emit, Sends
<1>l. /\ LC!Queued.state = "Queued"
      /\ \A d : LC!Running(d).state = "Running"
      /\ \A s : LC!Ended(s).state = s
      /\ "Queued" \notin LC!TerminalStates /\ "Running" \notin LC!TerminalStates
      /\ "Cancelled" \in LC!TerminalStates
  BY DEF LC!Queued, LC!Running, LC!Ended, LC!TerminalStates
<1>1. ASSUME NEW t \in Transfers, EnqueueEmit(t) PROVE Goal
  <2>1. Enqueued(t)'
    BY <1>1 DEF EnqueueEmit, Enqueued, QueueInv, TypeOK
  <2> QED
    BY <1>1, <1>e, <1>l, <2>1, ReportTypes DEF EnqueueEmit
<1>2. ASSUME NEW t \in Transfers, CancelEmit(t) PROVE Goal
  <2>1. t \in cancelling /\ Emit(t, LC!Ended("Cancelled"))
    BY <1>2 DEF CancelEmit
  <2>2. Enqueued(t) /\ Over(t) /\ t \in promised
    BY <2>1 DEF SideInv, SilentInv, CancelInv, Over
  <2>3. LC!Ended("Cancelled") \in LC!Reports
    BY <1>l, ReportTypes
  <2> QED
    BY <1>a, <1>e, <2>1, <2>2, <2>3
<1>3. ASSUME NEW w \in Workers, EmitRunning(w) PROVE Goal
  <2>1. Busy(w) /\ Emit(worker[w].id, LC!Running(0)) /\ 0 \in 0..MaxDone
    BY <1>3, MaxDoneAssumption DEF EmitRunning, Busy
  <2> QED
    BY <1>a, <1>e, <1>l, <2>1, ReportTypes
<1>4. ASSUME NEW w \in Workers, SendTick(w) PROVE Goal
  <2> DEFINE t == worker[w].id
             d == worker[w].tick
  <2>1. Busy(w)
    BY <1>4 DEF SendTick, Busy
  <2>2. /\ \/ UNCHANGED events
           \/ eventsOpen /\ events' = Append(events, Event(t, LC!Running(d)))
        /\ UNCHANGED <<view, eventsOpen>>
    BY <1>4 DEF SendTick
  <2>3. UNCHANGED events \/ Sends(t, LC!Running(d))
    BY <2>2 DEF Sends
  <2>4. LC!Running(d) \in LC!Reports
    BY <1>a, ReportTypes
  <2> QED
    BY <1>a, <1>l, <2>1, <2>2, <2>3, <2>4
<1>5. ASSUME NEW w \in Workers, EmitFlush(w) PROVE Goal
  <2>1. Busy(w) /\ Emit(worker[w].id, LC!Running(worker[w].tick))
    BY <1>5 DEF EmitFlush, Busy
  <2>2. LC!Running(worker[w].tick) \in LC!Reports
    BY <1>a, ReportTypes
  <2> QED
    BY <1>a, <1>e, <1>l, <2>1, <2>2
<1>6. ASSUME NEW w \in Workers, EmitEnd(w) PROVE Goal
  <2>1. Busy(w) /\ Emit(worker[w].id, LC!Ended(worker[w].final))
    BY <1>6 DEF EmitEnd, Busy
  <2>2. /\ worker[w].final \in LC!TerminalStates
        /\ Over(worker[w].id)
        /\ worker[w].final = "Cancelled" => worker[w].id \in promised
    BY <1>6 DEF EmitEnd, QueueInv, WorkerInv, SideInv, CountInv, Over
  <2>3. LC!Ended(worker[w].final) \in LC!Reports
    BY <2>2, ReportTypes
  <2> QED
    BY <1>a, <1>e, <1>l, <2>1, <2>2, <2>3
<1>7. ASSUME UNCHANGED <<events, view, eventsOpen>> PROVE Goal
  BY <1>7
<1> QED
  BY <1>1, <1>2, <1>3, <1>4, <1>5, <1>6, <1>7
  DEF Next, ClientStep, CallerStep, WorkerStep, Return, EnqueueInsert, EnqueueSend,
      CancelQueued, CancelRunning, Start, Exit, Progress, Finish, Close, queueVars,
      eventVars, vars

(* The channel as a sequence: what Consume and Sends do to it. *)
LEMMA ConsumeFacts ==
  ASSUME QueueInv, Consume
  PROVE  /\ eventsOpen /\ UNCHANGED eventsOpen
         /\ Len(events) \in Nat \ {0} /\ 1 \in 1..Len(events)
         /\ Len(events') = Len(events) - 1
         /\ \A i \in 1..Len(events') : i + 1 \in 1..Len(events) /\ events'[i] = events[i + 1]
         /\ events[1].id \in Transfers /\ events[1].report \in LC!Reports
         /\ \A t \in Transfers :
              view'[t] = IF t = events[1].id THEN events[1].report ELSE view[t]
<1>1. /\ events # <<>> /\ eventsOpen /\ UNCHANGED eventsOpen
      /\ events' = Tail(events)
      /\ view' = [view EXCEPT ![Head(events).id] = Head(events).report]
      /\ events \in Seq(Events)
      /\ view \in [Transfers -> LC!Reports \cup {LC!Unseen}]
  BY DEF Consume, QueueInv, TypeOK
<1>2. /\ Len(events) \in Nat \ {0} /\ 1 \in 1..Len(events) /\ Head(events) = events[1]
      /\ Len(events') = Len(events) - 1
      /\ \A i \in 1..Len(events') : i + 1 \in 1..Len(events) /\ events'[i] = events[i + 1]
      /\ events[1] \in Events
  BY <1>1
<1>3. events[1].id \in Transfers /\ events[1].report \in LC!Reports
  BY <1>2 DEF Events
<1> QED
  BY <1>1, <1>2, <1>3

(* What sending does to the channel: one event more, at its end.           *)
LEMMA SendsFacts ==
  ASSUME QueueInv, NEW t \in Transfers, NEW r \in LC!Reports, Sends(t, r), eventsOpen
  PROVE  /\ Len(events) \in Nat /\ Len(events') = Len(events) + 1
         /\ \A i \in 1..Len(events) : i \in 1..Len(events') /\ events'[i] = events[i]
         /\ events'[Len(events) + 1].id = t /\ events'[Len(events) + 1].report = r
         /\ \A i \in 1..Len(events') : i \in 1..Len(events) \/ i = Len(events) + 1
<1>1. events' = Append(events, Event(t, r)) /\ events \in Seq(Events) /\ Event(t, r) \in Events
  BY ReportTypes DEF Sends, QueueInv, TypeOK
<1>2. /\ Len(events) \in Nat /\ Len(events') = Len(events) + 1
      /\ \A i \in 1..Len(events) : i \in 1..Len(events') /\ events'[i] = events[i]
      /\ events'[Len(events) + 1] = Event(t, r)
  BY <1>1
<1>3. Event(t, r).id = t /\ Event(t, r).report = r
  BY DEF Event
<1> QED
  BY <1>2, <1>3

(* A transfer that is not enqueued has an entry in the queue at most. *)
LEMMA SilentStep ==
  ASSUME QueueInv, JobInv, RunnerInv, SideInv, [Next]_vars,
         NEW s \in Transfers, ~ Enqueued(s)'
  PROVE  /\ ~ Enqueued(s) /\ view[s] = LC!Unseen /\ (\A i \in 1..Len(events) : events[i].id # s)
         /\ entries'[s].state \in {"absent", "Queued"} /\ s \notin cancelling'
<1> DEFINE Goal == entries'[s].state \in {"absent", "Queued"} /\ s \notin cancelling'
<1>a. /\ ~ Enqueued(s)
      /\ view[s] = LC!Unseen /\ (\A i \in 1..Len(events) : events[i].id # s)
      /\ entries[s].state \in {"absent", "Queued"} /\ s \notin cancelling
      /\ ~ Knows(s)
  <2>1. ~ Enqueued(s)
    BY EntrySideStep
  <2> QED
    BY <2>1 DEF SideInv, SilentInv, Enqueued, Knows
<1>t. /\ entries \in [Transfers -> Entries]
      /\ \A w \in Workers : Busy(w) => worker[w].id \in Transfers /\ worker[w].id # s
  BY <1>a, SideTypes DEF Enqueued
<1>b. ASSUME entries'[s] = entries[s], cancelling' \subseteq cancelling PROVE Goal
  BY <1>a, <1>b
<1>1. ASSUME NEW t \in Transfers, EnqueueInsert(t) PROVE Goal
  BY <1>1, <1>a, <1>t DEF EnqueueInsert, Entries
<1>2. ASSUME NEW t \in Transfers, CancelQueued(t) PROVE Goal
  <2>1. t # s
    BY <1>2, <1>a DEF CancelQueued
  <2> QED
    BY <1>2, <1>a, <1>t, <2>1 DEF CancelQueued
<1>3. ASSUME NEW t \in Transfers, CancelRunning(t) PROVE Goal
  <2>1. t # s
    BY <1>3, <1>a DEF CancelRunning
  <2> QED
    BY <1>3, <1>a, <1>t, <2>1 DEF CancelRunning
<1>4. ASSUME NEW w \in Workers, Start(w) PROVE Goal
  <2>1. PICK t \in Transfers : t = Head(jobs) /\ caller[t] = "queued"
    <3>1. jobs # <<>> /\ jobs \in Seq(Transfers)
      BY <1>4 DEF Start, QueueInv, TypeOK
    <3>2. 1 \in 1..Len(jobs) /\ Head(jobs) = jobs[1] /\ Head(jobs) \in Transfers
      BY <3>1
    <3> QED
      BY <3>2 DEF JobInv
  <2>2. t # s
    BY <1>a, <2>1 DEF Enqueued
  <2>3. entries' \in {entries, [entries EXCEPT ![t].state = "Running"]} /\ UNCHANGED cancelling
    BY <1>4, <2>1 DEF Start
  <2> QED
    BY <1>b, <1>t, <2>2, <2>3
<1>5. ASSUME NEW w \in Workers,
             SendTick(w) \/ (\E d \in 1..MaxDone : Progress(w, d))
               \/ (\E outcome \in LC!TerminalStates : Finish(w, outcome))
      PROVE  Goal
  <2>1. Busy(w) /\ UNCHANGED cancelling
    BY <1>5 DEF SendTick, Progress, Finish, Busy
  <2>2. PICK t \in Transfers : t = worker[w].id /\ t # s
    BY <1>t, <2>1
  <2>3. \E x : entries' = [entries EXCEPT ![t] = x]
    BY <1>5, <2>2 DEF SendTick, Progress, Finish
  <2> QED
    BY <1>b, <1>t, <2>1, <2>2, <2>3
<1>6. ASSUME NEW t \in Transfers, CallerStep(t) \/ CancelEmit(t) PROVE Goal
  BY <1>6, <1>b DEF CallerStep, EnqueueEmit, EnqueueSend, CancelEmit
<1>7. ASSUME UNCHANGED <<entries, cancelling>> PROVE Goal
  BY <1>7, <1>b
<1>8. Goal
  BY <1>1, <1>2, <1>3, <1>4, <1>5, <1>6, <1>7
  DEF Next, ClientStep, WorkerStep, Return, Exit, EmitRunning, EmitFlush, EmitEnd, Close,
      Consume, DropReceiver, queueVars, vars
<1> QED
  BY <1>a, <1>8

(* Silence and the ends, whatever is sent, taken or dropped. *)
LEMMA SideStep ==
  ASSUME QueueInv, JobInv, RunnerInv, SideInv, [Next]_vars
  PROVE  SideInv'
<1>a. /\ \A i \in 1..Len(events) : events[i].id \in Transfers
      /\ \A t \in Transfers : Over(t) => Over(t)'
      /\ \A t \in Transfers : t \in promised => t \in promised'
      /\ EndInv
  <2>1. \A i \in 1..Len(events) : events[i] \in Events
    BY DEF QueueInv, TypeOK
  <2>2. \A i \in 1..Len(events) : events[i].id \in Transfers
    BY <2>1 DEF Events
  <2>3. EndInv
    BY DEF SideInv
  <2> QED
    BY <2>2, <2>3, EntrySideStep
<1>1. \A t \in Transfers : CancelInv(t)' /\ WaitInv(t)'
  BY EntrySideStep
<1>2. \A w \in Workers : CountInv(w)'
  BY CountStep
(* What is left speaks of the events and the rows alone. *)
<1>3. ASSUME \A t \in Transfers : ~ Enqueued(t)' =>
               /\ view'[t] = LC!Unseen
               /\ \A i \in 1..Len(events') : events'[i].id # t,
             EndInv'
      PROVE  SideInv'
  BY <1>1, <1>2, <1>3, SilentStep DEF SideInv, SilentInv
<1>4. ASSUME UNCHANGED <<events, view, eventsOpen>> PROVE SideInv'
  <2>1. EndInv'
    BY <1>a, <1>4 DEF EndInv
  <2> QED
    BY <1>3, <1>4, <2>1, SilentStep
<1>5. ASSUME DropReceiver PROVE SideInv'
  <2>1. Len(events') = 0 /\ UNCHANGED view
    BY <1>5 DEF DropReceiver
  <2>2. EndInv'
    BY <1>a, <2>1 DEF EndInv
  <2> QED
    BY <1>3, <2>1, <2>2, SilentStep
<1>6. ASSUME Consume PROVE SideInv'
  <2>1. EndInv'
    <3>1. \A t \in Transfers : view'[t].state \in LC!TerminalStates => Over(t)'
      BY <1>a, <1>6, ConsumeFacts DEF EndInv
    <3>2. \A i \in 1..Len(events') : events'[i].report.state \in LC!TerminalStates =>
            /\ entries'[events'[i].id].state \in {"Cancelled", "removed"}
            /\ events'[i].report.state = "Cancelled" => events'[i].id \in promised'
      BY <1>a, <1>6, ConsumeFacts DEF EndInv, Over
    <3> QED
      BY <3>1, <3>2 DEF EndInv, Over
  <2>2. ASSUME NEW t \in Transfers, ~ Enqueued(t)'
        PROVE  view'[t] = LC!Unseen /\ (\A i \in 1..Len(events') : events'[i].id # t)
    BY <1>6, <2>2, ConsumeFacts, SilentStep
  <2> QED
    BY <1>3, <2>1, <2>2
<1>7. ASSUME NEW t \in Transfers, NEW r \in LC!Reports, Sends(t, r), Enqueued(t)',
             r.state \in LC!TerminalStates => Over(t) /\ (r.state = "Cancelled" => t \in promised)
      PROVE  SideInv'
  <2>1. CASE ~ eventsOpen
    <3>1. UNCHANGED <<events, view, eventsOpen>>
      BY <1>7, <2>1 DEF Sends
    <3> QED
      BY <1>4, <3>1
  <2>2. CASE eventsOpen
    <3>1. UNCHANGED view
      BY <1>7 DEF Sends
    <3>2. \A i \in 1..Len(events') : events'[i].report.state \in LC!TerminalStates =>
            /\ entries'[events'[i].id].state \in {"Cancelled", "removed"}
            /\ events'[i].report.state = "Cancelled" => events'[i].id \in promised'
      <4> SUFFICES ASSUME NEW i \in 1..Len(events'),
                          events'[i].report.state \in LC!TerminalStates
                   PROVE  /\ entries'[events'[i].id].state \in {"Cancelled", "removed"}
                          /\ events'[i].report.state = "Cancelled" => events'[i].id \in promised'
        OBVIOUS
      <4>1. CASE i \in 1..Len(events)
        BY <1>a, <1>7, <2>2, <4>1, SendsFacts DEF EndInv, Over
      <4>2. CASE i = Len(events) + 1
        BY <1>a, <1>7, <2>2, <4>2, SendsFacts DEF Over
      <4> QED
        BY <1>7, <2>2, <4>1, <4>2, SendsFacts
    <3>3. EndInv'
      BY <1>a, <3>1, <3>2 DEF EndInv, Over
    <3>4. ASSUME NEW s \in Transfers, ~ Enqueued(s)'
          PROVE  view'[s] = LC!Unseen /\ (\A i \in 1..Len(events') : events'[i].id # s)
      <4>1. s # t
        BY <1>7, <3>4 DEF Enqueued
      <4> QED
        BY <1>7, <2>2, <3>1, <3>4, <4>1, SendsFacts, SilentStep
    <3> QED
      BY <1>3, <3>3, <3>4
  <2> QED
    BY <2>1, <2>2
<1> QED
  BY <1>4, <1>5, <1>6, <1>7, Traffic

------------------------------------------------------------------------------
(* The trail of events *)

(* Only an end looks at the count. *)
LEMMA StepsAnyCount ==
  ASSUME NEW count, NEW other, NEW r, NEW s, Steps(count, r, s),
         s.state \in LC!TerminalStates => other = count
  PROVE  Steps(other, r, s)
BY DEF Steps, LC!Ended

(* Nothing is sent or taken, and no count changes once its end was sent. *)
LEMMA TrailSame ==
  ASSUME QueueInv, NEW last \in Lasts, Trail(last), UNCHANGED <<events, view>>,
         \A i \in 1..Len(events) : events[i].report.state \in LC!TerminalStates =>
           accepted'[events[i].id] = accepted[events[i].id]
  PROVE  Trail(last)'
<1>1. \A r : \A i \in 1..Len(events) :
        Steps(accepted[events[i].id], r, events[i].report) =>
          Steps(accepted'[events[i].id], r, events[i].report)
  BY StepsAnyCount
<1>2. \A i, j \in 1..Len(events) : Adjacent(i, j) => events[i].id = events[j].id
  BY DEF Adjacent
<1>3. \A i \in 1..Len(events) : FirstOf(i)' <=> FirstOf(i)
  BY DEF FirstOf
<1>4. \A i \in 1..Len(events) : LastOf(i)' <=> LastOf(i)
  BY DEF LastOf
<1>5. \A i, j \in 1..Len(events) : Adjacent(i, j)' <=> Adjacent(i, j)
  BY DEF Adjacent
<1>6. \A i \in 1..Len(events) : FirstOf(i) =>
        Steps(accepted'[events[i].id], view[events[i].id], events[i].report)
  BY <1>1 DEF Trail
<1>7. \A i, j \in 1..Len(events) : Adjacent(i, j) =>
        Steps(accepted'[events[i].id], events[i].report, events[j].report)
  <2> SUFFICES ASSUME NEW i \in 1..Len(events), NEW j \in 1..Len(events), Adjacent(i, j)
               PROVE  Steps(accepted'[events[i].id], events[i].report, events[j].report)
    OBVIOUS
  <2>1. Steps(accepted[events[j].id], events[i].report, events[j].report)
    BY <1>2 DEF Trail
  <2>2. Steps(accepted'[events[j].id], events[i].report, events[j].report)
    BY <1>1, <2>1
  <2> QED
    BY <1>2, <2>2
<1> QED
  BY <1>3, <1>4, <1>5, <1>6, <1>7 DEF Trail

(* What is sent of t may follow what was sent of it before. *)
LEMMA TrailSends ==
  ASSUME QueueInv, NEW last \in Lasts, Trail(last), eventsOpen,
         NEW t \in Transfers, NEW r \in LC!Reports, Sends(t, r), UNCHANGED accepted,
         Steps(accepted[t], last[t], r)
  PROVE  /\ [last EXCEPT ![t] = r] \in Lasts
         /\ Trail([last EXCEPT ![t] = r])'
<1> DEFINE n == Len(events)
           Next2 == [last EXCEPT ![t] = r]
<1>1. /\ n \in Nat /\ Len(events') = n + 1
      /\ \A i \in 1..n : i \in 1..Len(events') /\ events'[i] = events[i]
      /\ events'[n + 1].id = t /\ events'[n + 1].report = r
      /\ \A i \in 1..Len(events') : i \in 1..n \/ i = n + 1
      /\ UNCHANGED view
  BY SendsFacts DEF Sends
<1>2. /\ Next2 \in Lasts /\ Next2[t] = r
      /\ \A s \in Transfers : s # t => Next2[s] = last[s]
  BY DEF Lasts
<1>i. \A i \in 1..n : events[i].id \in Transfers
  <2>1. \A i \in 1..n : events[i] \in Events
    BY DEF QueueInv, TypeOK
  <2> QED
    BY <2>1 DEF Events
<1>3. \A i \in 1..n : FirstOf(i)' => FirstOf(i)
  BY <1>1 DEF FirstOf
<1>4. \A i, j \in 1..n : Adjacent(i, j)' => Adjacent(i, j)
  BY <1>1 DEF Adjacent
<1>5. \A i \in 1..n : LastOf(i)' => LastOf(i) /\ events[i].id # t
  <2> SUFFICES ASSUME NEW i \in 1..n, LastOf(i)' PROVE LastOf(i) /\ events[i].id # t
    OBVIOUS
  <2>1. LastOf(i)
    BY <1>1 DEF LastOf
  <2>2. i < n + 1 /\ n + 1 \in 1..Len(events')
    BY <1>1
  <2>3. events'[n + 1].id # events'[i].id
    BY <2>2 DEF LastOf
  <2> QED
    BY <1>1, <2>1, <2>3
<1>6. ASSUME NEW i \in 1..Len(events'), FirstOf(i)'
      PROVE  Steps(accepted'[events'[i].id], view'[events'[i].id], events'[i].report)
  <2>1. CASE i \in 1..n
    BY <1>1, <1>3, <1>6, <2>1 DEF Trail
  <2>2. CASE i = n + 1
    <3>1. \A k \in 1..n : k < n + 1 /\ k \in 1..Len(events')
      BY <1>1
    <3>2. \A k \in 1..n : events[k].id # t
      BY <1>1, <1>6, <2>2, <3>1 DEF FirstOf
    <3>3. last[t] = view[t]
      BY <3>2 DEF Trail
    <3> QED
      BY <1>1, <2>2, <3>3
  <2> QED
    BY <1>1, <2>1, <2>2
<1>7. ASSUME NEW i \in 1..Len(events'), NEW j \in 1..Len(events'), Adjacent(i, j)'
      PROVE  Steps(accepted'[events'[i].id], events'[i].report, events'[j].report)
  <2>1. i < j /\ events'[i].id = events'[j].id
    BY <1>7 DEF Adjacent
  <2>2. i \in 1..n
    BY <1>1, <2>1
  <2>3. CASE j \in 1..n
    BY <1>1, <1>4, <1>7, <2>2, <2>3 DEF Trail
  <2>4. CASE j = n + 1
    <3>1. events[i].id = t
      BY <1>1, <2>1, <2>2, <2>4
    <3>2. \A k \in 1..n : i < k => events[k].id # t
      <4>1. \A k \in 1..n : k < n + 1 /\ k \in 1..Len(events')
        BY <1>1
      <4> QED
        BY <1>1, <1>7, <2>2, <2>4, <3>1, <4>1 DEF Adjacent
    <3>3. last[t] = events[i].report
      BY <2>2, <3>1, <3>2 DEF Trail, LastOf
    <3> QED
      BY <1>1, <2>2, <2>4, <3>1, <3>3
  <2> QED
    BY <1>1, <2>3, <2>4
<1>8. ASSUME NEW i \in 1..Len(events'), LastOf(i)'
      PROVE  Next2[events'[i].id] = events'[i].report
  <2>1. CASE i \in 1..n
    BY <1>1, <1>2, <1>i, <1>5, <1>8, <2>1 DEF Trail
  <2>2. CASE i = n + 1
    BY <1>1, <1>2, <2>2
  <2> QED
    BY <1>1, <2>1, <2>2
<1>9. ASSUME NEW s \in Transfers, \A i \in 1..Len(events') : events'[i].id # s
      PROVE  Next2[s] = view'[s]
  <2>1. n + 1 \in 1..Len(events')
    BY <1>1
  <2>2. s # t /\ \A i \in 1..n : events[i].id # s
    BY <1>1, <1>9, <2>1
  <2> QED
    BY <1>1, <1>2, <2>2 DEF Trail
<1> QED
  BY <1>2, <1>6, <1>7, <1>8, <1>9 DEF Trail

(* What is taken becomes the row that the next event of it follows. *)
LEMMA TrailConsumes ==
  ASSUME QueueInv, NEW last \in Lasts, Trail(last), Consume
  PROVE  Trail(last)'
<1> DEFINE n == Len(events)
           m == Len(events')
           t == events[1].id
<1>1. /\ n \in Nat \ {0} /\ 1 \in 1..n /\ m = n - 1
      /\ \A i \in 1..m : i + 1 \in 1..n /\ events'[i] = events[i + 1]
      /\ t \in Transfers
      /\ \A s \in Transfers : view'[s] = IF s = t THEN events[1].report ELSE view[s]
      /\ UNCHANGED accepted
  BY ConsumeFacts DEF Consume
<1>i. \A i \in 1..n : events[i].id \in Transfers
  <2>1. \A i \in 1..n : events[i] \in Events
    BY DEF QueueInv, TypeOK
  <2> QED
    BY <2>1 DEF Events
<1>k. \A k \in 1..n : k # 1 => k - 1 \in 1..m /\ (k - 1) + 1 = k
  BY <1>1
<1>2. ASSUME NEW i \in 1..m, FirstOf(i)'
      PROVE  \A k \in 1..n : k < i + 1 /\ k # 1 => events[k].id # events[i + 1].id
  <2> SUFFICES ASSUME NEW k \in 1..n, k < i + 1, k # 1 PROVE events[k].id # events[i + 1].id
    OBVIOUS
  <2>1. k - 1 \in 1..m /\ k - 1 < i /\ events'[k - 1] = events[k]
    BY <1>1, <1>k
  <2> QED
    BY <1>1, <1>2, <2>1 DEF FirstOf
<1>3. ASSUME NEW i \in 1..m, FirstOf(i)'
      PROVE  Steps(accepted'[events'[i].id], view'[events'[i].id], events'[i].report)
  <2>1. i + 1 \in 1..n /\ events'[i] = events[i + 1] /\ events[i + 1].id \in Transfers
    BY <1>1, <1>i
  <2>2. CASE events[i + 1].id = t
    <3>1. \A k \in 1..n : 1 < k /\ k < i + 1 => events[k].id # t
      BY <1>2, <1>3, <2>2
    <3>2. Adjacent(1, i + 1)
      BY <1>1, <2>1, <2>2, <3>1 DEF Adjacent
    <3>3. Steps(accepted[t], events[1].report, events[i + 1].report)
      BY <1>1, <2>1, <3>2 DEF Trail
    <3> QED
      BY <1>1, <2>1, <2>2, <3>3
  <2>3. CASE events[i + 1].id # t
    <3>1. FirstOf(i + 1)
      BY <1>2, <1>3, <2>1, <2>3 DEF FirstOf
    <3>2. Steps(accepted[events[i + 1].id], view[events[i + 1].id], events[i + 1].report)
      BY <2>1, <3>1 DEF Trail
    <3> QED
      BY <1>1, <2>1, <2>3, <3>2
  <2> QED
    BY <2>2, <2>3
<1>4. ASSUME NEW i \in 1..m, NEW j \in 1..m, Adjacent(i, j)'
      PROVE  Steps(accepted'[events'[i].id], events'[i].report, events'[j].report)
  <2>1. /\ i + 1 \in 1..n /\ events'[i] = events[i + 1]
        /\ j + 1 \in 1..n /\ events'[j] = events[j + 1]
    BY <1>1
  <2>2. \A k \in 1..n : i + 1 < k /\ k < j + 1 => events[k].id # events[i + 1].id
    <3> SUFFICES ASSUME NEW k \in 1..n, i + 1 < k, k < j + 1
                 PROVE  events[k].id # events[i + 1].id
      OBVIOUS
    <3>1. k - 1 \in 1..m /\ i < k - 1 /\ k - 1 < j /\ events'[k - 1] = events[k]
      BY <1>1, <1>k
    <3> QED
      BY <1>4, <2>1, <3>1 DEF Adjacent
  <2>3. Adjacent(i + 1, j + 1)
    BY <1>4, <2>1, <2>2 DEF Adjacent
  <2> QED
    BY <1>1, <2>1, <2>3 DEF Trail
<1>5. ASSUME NEW i \in 1..m, LastOf(i)'
      PROVE  last[events'[i].id] = events'[i].report
  <2>1. i + 1 \in 1..n /\ events'[i] = events[i + 1]
    BY <1>1
  <2>2. \A k \in 1..n : i + 1 < k => events[k].id # events[i + 1].id
    <3> SUFFICES ASSUME NEW k \in 1..n, i + 1 < k PROVE events[k].id # events[i + 1].id
      OBVIOUS
    <3>1. k - 1 \in 1..m /\ i < k - 1 /\ events'[k - 1] = events[k]
      BY <1>1, <1>k
    <3> QED
      BY <1>5, <2>1, <3>1 DEF LastOf
  <2> QED
    BY <2>1, <2>2 DEF Trail, LastOf
<1>6. ASSUME NEW s \in Transfers, \A i \in 1..m : events'[i].id # s
      PROVE  last[s] = view'[s]
  <2>1. \A k \in 1..n : k # 1 => events[k].id # s
    <3> SUFFICES ASSUME NEW k \in 1..n, k # 1 PROVE events[k].id # s
      OBVIOUS
    <3>1. k - 1 \in 1..m /\ events'[k - 1] = events[k]
      BY <1>1, <1>k
    <3> QED
      BY <1>6, <3>1
  <2>2. CASE s = t
    <3>1. LastOf(1)
      BY <1>1, <2>1, <2>2 DEF LastOf
    <3> QED
      BY <1>1, <2>2, <3>1 DEF Trail
  <2>3. CASE s # t
    BY <1>1, <2>1, <2>3 DEF Trail
  <2> QED
    BY <2>2, <2>3
<1> QED
  BY <1>3, <1>4, <1>5, <1>6 DEF Trail

------------------------------------------------------------------------------
(* The stages of a transfer *)

(* A step that leaves a transfer and its worker alone keeps its stage. *)
LEMMA StageSame ==
  ASSUME NEW s \in Transfers, NEW r, Stage(s, r),
         s \in cancelling' => s \in cancelling,
         Enqueued(s)' /\ entries'[s].state = "Queued" =>
           Enqueued(s) /\ entries[s].state = "Queued",
         entries'[s].undelivered = entries[s].undelivered,
         accepted'[s] = accepted[s],
         \A w \in Workers : Busy(w)' /\ worker'[w].id = s => worker'[w] = worker[w]
  PROVE  Stage(s, r)'
BY DEF Stage, Told, Holds, Busy

(* A transfer with at most one worker is at the stage that worker tells. *)
LEMMA StageOf ==
  ASSUME NEW s \in Transfers, NEW r,
         Enqueued(s)' /\ entries'[s].state = "Queued" => r = LC!Queued,
         s \in cancelling' => r = LC!Queued,
         \A w \in Workers : Busy(w)' /\ worker'[w].id = s => Told(w, s, r)'
  PROVE  Stage(s, r)'
BY DEF Stage, Told, Holds, Busy

(* Every step keeps the trail from the row shown to what the entry says.   *)
LEMMA TrailStep ==
  ASSUME QueueInv, JobInv, RunnerInv, SideInv, TrailInv, [Next]_vars
  PROVE  TrailInv'
<1> DEFINE Goal ==
      \E last \in Lasts : Trail(last)' /\ \A t \in Transfers : Stage(t, last[t])'
<1> SUFFICES ASSUME eventsOpen' PROVE Goal
  BY DEF TrailInv, Lasts
<1>o. eventsOpen
  BY Traffic DEF Consume, DropReceiver, Sends
<1>p. PICK last \in Lasts : Trail(last) /\ \A t \in Transfers : Stage(t, last[t])
  BY <1>o DEF TrailInv
<1>a. /\ worker \in [Workers -> WorkerStates]
      /\ entries \in [Transfers -> Entries]
      /\ caller \in [Transfers -> {"idle", "emit", "send", "queued", "refused"}]
      /\ accepted \in [Transfers -> 0..MaxDone]
      /\ jobs \in Seq(Transfers)
      /\ \A t \in Transfers : SilentInv(t) /\ CancelInv(t) /\ WaitInv(t)
      /\ \A w \in Workers : CountInv(w)
  BY SideTypes DEF SideInv
<1>b. \A w \in Workers : Busy(w) => worker[w].id \in Transfers
  BY SideTypes
<1>n. \A t \in Transfers : caller[t] # "queued" => \A w \in Workers : worker[w].id # t
  BY NoTransferAssumption DEF RunnerInv
<1>u. \A v, w \in Workers : Busy(w) /\ v # w => worker[v].id # worker[w].id
  BY DEF RunnerInv
<1>l. /\ last \in Lasts
      /\ \A t \in Transfers : Stage(t, last[t])
  BY <1>p
<1>q. ASSUME UNCHANGED <<events, view, accepted>>, \A t \in Transfers : Stage(t, last[t])'
      PROVE  Goal
  <2>1. Trail(last)'
    BY <1>p, <1>q, TrailSame
  <2> QED
    BY <1>l, <1>q, <2>1
<1>s. ASSUME NEW t \in Transfers, NEW r \in LC!Reports, Sends(t, r), UNCHANGED accepted,
             Steps(accepted[t], last[t], r), Stage(t, r)',
             \A s \in Transfers : s # t => Stage(s, last[s])'
      PROVE  Goal
  <2> DEFINE after == [last EXCEPT ![t] = r]
  <2>1. after \in Lasts /\ Trail(after)'
    BY <1>o, <1>p, <1>s, TrailSends
  <2>2. after[t] = r /\ \A s \in Transfers : s # t => after[s] = last[s]
    BY <1>l DEF Lasts
  <2> HIDE DEF after
  <2>3. ASSUME NEW s \in Transfers PROVE Stage(s, after[s])'
    <3>1. CASE s = t
      BY <1>s, <2>2, <3>1
    <3>2. CASE s # t
      BY <1>s, <2>2, <3>2
    <3> QED
      BY <3>1, <3>2
  <2> QED
    BY <2>1, <2>3
<1>e. ASSUME NEW t \in Transfers, NEW r \in LC!Reports, Emit(t, r) PROVE Sends(t, r)
  BY <1>e DEF Emit, Sends
(* Steps that leave the workers, the counts and the cancel calls alone. *)
<1>f. ASSUME NEW s \in Transfers, UNCHANGED <<worker, accepted>>,
             s \in cancelling' => s \in cancelling,
             Enqueued(s)' /\ entries'[s].state = "Queued" =>
               Enqueued(s) /\ entries[s].state = "Queued",
             entries'[s].undelivered = entries[s].undelivered
      PROVE  Stage(s, last[s])'
  BY <1>f, <1>l, StageSame
<1>1. ASSUME NEW t \in Transfers, EnqueueInsert(t) PROVE Goal
  <2>1. /\ caller[t] = "idle" /\ caller' = [caller EXCEPT ![t] = "emit"]
        /\ entries' = [entries EXCEPT ![t].state = "Queued"]
        /\ UNCHANGED <<cancelling, worker, accepted, events, view>>
    BY <1>1 DEF EnqueueInsert, eventVars
  <2>2. ASSUME NEW s \in Transfers PROVE Stage(s, last[s])'
    <3>1. CASE s = t
      <4>1. ~ Enqueued(t) /\ ~ Enqueued(t)'
        BY <1>a, <2>1 DEF Enqueued
      <4>2. t \notin cancelling'
        BY <1>a, <2>1, <4>1 DEF SilentInv
      <4>3. \A w \in Workers : worker'[w].id # t
        BY <1>n, <2>1
      <4> QED
        BY <3>1, <4>1, <4>2, <4>3, StageOf
    <3>2. CASE s # t
      BY <1>a, <1>f, <2>1, <3>2 DEF Enqueued
    <3> QED
      BY <3>1, <3>2
  <2> QED
    BY <1>q, <2>1, <2>2
<1>2. ASSUME NEW t \in Transfers, EnqueueEmit(t) PROVE Goal
  <2>1. /\ caller[t] = "emit" /\ caller' = [caller EXCEPT ![t] = "send"]
        /\ Emit(t, LC!Queued)
        /\ UNCHANGED <<entries, cancelling, worker, accepted>>
    BY <1>2 DEF EnqueueEmit
  <2>2. last[t] = LC!Unseen
    <3>1. ~ Enqueued(t)
      BY <2>1 DEF Enqueued
    <3> QED
      BY <1>a, <1>p, <3>1 DEF SilentInv, Trail
  <2>3. Steps(accepted[t], last[t], LC!Queued)
    BY <2>2 DEF Steps
  <2>4. Stage(t, LC!Queued)'
    <3>1. \A w \in Workers : worker'[w].id # t
      BY <1>n, <2>1
    <3> QED
      BY <3>1, StageOf
  <2>5. ASSUME NEW s \in Transfers, s # t PROVE Stage(s, last[s])'
    BY <1>a, <1>f, <2>1, <2>5 DEF Enqueued
  <2> QED
    BY <1>e, <1>s, <2>1, <2>3, <2>4, <2>5, ReportTypes
<1>3. ASSUME NEW t \in Transfers, EnqueueSend(t) PROVE Goal
  <2>1. /\ caller[t] = "send"
        /\ caller' \in {[caller EXCEPT ![t] = "queued"], [caller EXCEPT ![t] = "refused"]}
        /\ UNCHANGED <<entries, cancelling, worker, accepted, events, view>>
    BY <1>3 DEF EnqueueSend, eventVars
  <2>2. \A s \in Transfers : Enqueued(s)' => Enqueued(s)
    BY <1>a, <2>1 DEF Enqueued
  <2> QED
    BY <1>f, <1>q, <2>1, <2>2
<1>4. ASSUME NEW t \in Transfers, CancelQueued(t) PROVE Goal
  <2>1. /\ Knows(t) /\ entries[t].state = "Queued"
        /\ entries' = [entries EXCEPT ![t].state = "Cancelled", ![t].cancel = TRUE]
        /\ cancelling' = cancelling \cup {t}
        /\ UNCHANGED <<caller, worker, accepted, events, view>>
    BY <1>4 DEF CancelQueued, eventVars
  <2>2. Enqueued(t)
    BY <1>a, <2>1 DEF Knows, SilentInv, Enqueued
  <2>3. last[t] = LC!Queued
    BY <1>l, <2>1, <2>2 DEF Stage
  <2>4. entries'[t].state = "Cancelled" /\ entries'[t].undelivered = entries[t].undelivered
    BY <1>a, <2>1 DEF Entries
  <2>5. ASSUME NEW s \in Transfers PROVE Stage(s, last[s])'
    <3>1. CASE s = t
      <4>1. ASSUME NEW w \in Workers, Busy(w)', worker'[w].id = t PROVE Told(w, t, last[t])'
        <5>1. Told(w, t, last[t])
          BY <1>l, <2>1, <4>1 DEF Stage, Holds
        <5> QED
          BY <2>1, <2>4, <5>1 DEF Told
      <4> QED
        BY <2>3, <3>1, <4>1, StageOf
    <3>2. CASE s # t
      BY <1>a, <1>f, <2>1, <3>2 DEF Enqueued
    <3> QED
      BY <3>1, <3>2
  <2> QED
    BY <1>q, <2>1, <2>5
<1>5. ASSUME NEW t \in Transfers, CancelEmit(t) PROVE Goal
  <2>1. /\ t \in cancelling /\ cancelling' = cancelling \ {t}
        /\ Emit(t, LC!Ended("Cancelled"))
        /\ UNCHANGED <<entries, caller, worker, accepted>>
    BY <1>5 DEF CancelEmit
  <2>2. last[t] = LC!Queued /\ LC!Queued.state = "Queued" /\ LC!Queued.done = 0
    BY <1>l, <2>1 DEF Stage, LC!Queued
  <2>3. entries[t].state = "Cancelled" /\ accepted[t] = 0
    BY <1>a, <2>1 DEF CancelInv, WaitInv
  <2>4. "Cancelled" \in LC!TerminalStates
    BY DEF LC!TerminalStates
  <2>5. Steps(accepted[t], last[t], LC!Ended("Cancelled"))
    BY <2>2, <2>3, <2>4 DEF Steps
  <2>6. Stage(t, LC!Ended("Cancelled"))'
    <3>1. ASSUME NEW w \in Workers, Busy(w)', worker'[w].id = t PROVE FALSE
      <4>1. Busy(w) /\ worker[w].id = t
        BY <2>1, <3>1 DEF Busy
      <4>2. ~ Moving(w)
        BY <2>3, <4>1 DEF RunnerInv
      <4>3. worker[w].pc \in {"flush", "end"}
        BY <1>a, <4>1, <4>2 DEF Busy, Moving, WorkerStates
      <4> QED
        BY <2>3, <4>1, <4>3 DEF QueueInv, WorkerInv
    <3> QED
      BY <2>1, <2>3, <3>1, StageOf
  <2>7. ASSUME NEW s \in Transfers, s # t PROVE Stage(s, last[s])'
    BY <1>f, <2>1, <2>7 DEF Enqueued
  <2> QED
    BY <1>e, <1>s, <2>1, <2>4, <2>5, <2>6, <2>7, ReportTypes
<1>6. ASSUME NEW t \in Transfers, CancelRunning(t) PROVE Goal
  <2>1. /\ entries' = [entries EXCEPT ![t].cancel = TRUE]
        /\ UNCHANGED <<caller, cancelling, worker, accepted, events, view>>
    BY <1>6 DEF CancelRunning, eventVars
  <2>2. \A s \in Transfers : /\ entries'[s].state = entries[s].state
                             /\ entries'[s].undelivered = entries[s].undelivered
    BY <1>a, <2>1 DEF Entries
  <2> QED
    BY <1>f, <1>q, <2>1, <2>2 DEF Enqueued
<1>7. ASSUME NEW w \in Workers, Start(w) PROVE Goal
  <2>1. PICK t \in Transfers : t = Head(jobs) /\ t = jobs[1] /\ 1 \in 1..Len(jobs)
    BY <1>7, <1>a DEF Start
  <2>2. /\ worker[w].pc = "recv" /\ caller[t] = "queued" /\ InJobs(t)
        /\ \A v \in Workers : worker[v].id # t
        /\ UNCHANGED <<caller, cancelling, accepted, events, view>>
    BY <1>7, <2>1 DEF Start, eventVars, JobInv, InJobs
  <2>3. CASE HasEntry(t) /\ entries[t].state # "Cancelled"
    <3>1. /\ entries' = [entries EXCEPT ![t].state = "Running"]
          /\ worker' = [worker EXCEPT ![w].pc = "announce", ![w].id = t]
      BY <1>7, <2>1, <2>3 DEF Start
    <3>2. entries[t].state = "Queued"
      BY <1>a, <2>2, <2>3 DEF WaitInv, HasEntry
    <3>3. Enqueued(t)
      BY <2>2 DEF Enqueued
    <3>4. last[t] = LC!Queued
      BY <1>l, <3>2, <3>3 DEF Stage
    <3>5. entries'[t].state = "Running"
      BY <1>a, <3>1 DEF Entries
    <3>6. worker'[w].pc = "announce" /\ worker'[w].id = t
      BY <1>a, <3>1 DEF WorkerStates
    <3>7. \A v \in Workers : v # w => worker'[v] = worker[v]
      BY <1>a, <3>1
    <3>8. ASSUME NEW s \in Transfers PROVE Stage(s, last[s])'
      <4>1. CASE s = t
        <5>1. ASSUME NEW v \in Workers, Busy(v)', worker'[v].id = t PROVE Told(v, t, last[t])'
          <6>1. v = w
            BY <2>2, <3>7, <5>1
          <6> QED
            BY <3>4, <3>6, <6>1 DEF Told
        <5> QED
          BY <3>4, <4>1, <5>1, StageOf
      <4>2. CASE s # t
        <5>1. \A v \in Workers : Busy(v)' /\ worker'[v].id = s => worker'[v] = worker[v]
          BY <3>6, <3>7, <4>2
        <5>2. entries'[s] = entries[s]
          BY <1>a, <3>1, <4>2
        <5> QED
          BY <1>l, <2>2, <5>1, <5>2, StageSame DEF Enqueued
      <4> QED
        BY <4>1, <4>2
    <3> QED
      BY <1>q, <2>2, <3>8
  <2>4. CASE ~ (HasEntry(t) /\ entries[t].state # "Cancelled")
    <3>1. UNCHANGED <<entries, worker>>
      BY <1>7, <2>1, <2>4 DEF Start
    <3> QED
      BY <1>f, <1>q, <2>2, <3>1 DEF Enqueued
  <2> QED
    BY <2>3, <2>4
(* Steps of the worker w that holds t: no other transfer is touched, and t  *)
(* is told what w tells.                                                    *)
<1>w. ASSUME NEW w \in Workers, Busy(w), NEW t \in Transfers, t = worker[w].id,
             UNCHANGED <<caller, cancelling>>,
             \A v \in Workers : v # w => worker'[v] = worker[v],
             Busy(w)' => worker'[w].id = t,
             \A s \in Transfers : s # t => entries'[s] = entries[s] /\ accepted'[s] = accepted[s]
      PROVE  \A s \in Transfers : s # t => Stage(s, last[s])'
  <2> SUFFICES ASSUME NEW s \in Transfers, s # t PROVE Stage(s, last[s])'
    OBVIOUS
  <2>1. \A v \in Workers : Busy(v)' /\ worker'[v].id = s => worker'[v] = worker[v]
    BY <1>w
  <2> QED
    BY <1>l, <1>w, <2>1, StageSame DEF Enqueued
<1>h. ASSUME NEW w \in Workers, Busy(w), NEW t \in Transfers, t = worker[w].id,
             NEW r, UNCHANGED cancelling,
             \A v \in Workers : v # w => worker'[v] = worker[v],
             entries'[t].state # "Queued",
             Busy(w)' => Told(w, t, r)'
      PROVE  Stage(t, r)'
  <2>1. t \notin cancelling
    <3>1. entries[t].state \in {"Running", "removed"}
      BY <1>a, <1>h DEF RunnerInv, QueueInv, WorkerInv, Busy, Moving, WorkerStates
    <3> QED
      BY <1>a, <3>1 DEF CancelInv
  <2>2. \A v \in Workers : Busy(v)' /\ worker'[v].id = t => v = w
    BY <1>h, <1>u
  <2> QED
    BY <1>h, <2>1, <2>2, StageOf
<1>t. ASSUME NEW w \in Workers, Busy(w)
      PROVE  worker[w].id \in Transfers /\ Told(w, worker[w].id, last[worker[w].id])
             /\ entries[worker[w].id].state # "Queued"
  <2>1. worker[w].id \in Transfers
    BY <1>b, <1>t
  <2>2. entries[worker[w].id].state # "Queued"
    BY <1>a, <1>t DEF RunnerInv, QueueInv, WorkerInv, Busy, Moving, WorkerStates
  <2> QED
    BY <1>l, <2>1, <2>2 DEF Stage, Holds
<1>8. ASSUME NEW w \in Workers, Exit(w) PROVE Goal
  <2>1. /\ worker[w].pc = "recv" /\ worker' = [worker EXCEPT ![w].pc = "exited"]
        /\ UNCHANGED <<entries, caller, cancelling, accepted, events, view>>
    BY <1>8 DEF Exit, Goto, queueVars, eventVars
  <2>2. \A v \in Workers : Busy(v)' => worker'[v] = worker[v]
    BY <1>a, <2>1 DEF Busy, WorkerStates
  <2>3. \A s \in Transfers : Stage(s, last[s])'
    BY <1>l, <2>1, <2>2, StageSame DEF Enqueued
  <2> QED
    BY <1>q, <2>1, <2>3
<1>9. ASSUME NEW w \in Workers, EmitRunning(w) PROVE Goal
  <2>1. PICK t \in Transfers :
          t = worker[w].id /\ Busy(w) /\ Told(w, t, last[t]) /\ entries[t].state # "Queued"
    BY <1>9, <1>t DEF EmitRunning, Busy
  <2>2. /\ worker[w].pc = "announce" /\ worker' = [worker EXCEPT ![w].pc = "execute"]
        /\ Emit(t, LC!Running(0))
        /\ UNCHANGED <<entries, caller, cancelling, accepted>>
    BY <1>9, <2>1 DEF EmitRunning, Goto, queueVars
  <2>3. last[t] = LC!Queued /\ accepted[t] = 0 /\ entries[t].undelivered = NoTick
    BY <1>a, <2>1, <2>2 DEF Told, CountInv
  <2>4. worker'[w].pc = "execute" /\ worker'[w].id = t
    BY <1>a, <2>1, <2>2 DEF WorkerStates
  <2>5. LC!Running(0).done = 0 /\ 0 \in 0..MaxDone
    BY MaxDoneAssumption DEF LC!Running
  <2>6. Told(w, t, LC!Running(0))'
    BY <2>2, <2>3, <2>4, <2>5 DEF Told
  <2>7. Stage(t, LC!Running(0))'
    BY <1>a, <1>h, <2>1, <2>2, <2>6
  <2>8. \A s \in Transfers : s # t => Stage(s, last[s])'
    BY <1>a, <1>w, <2>1, <2>2, <2>4
  <2>9. Steps(accepted[t], last[t], LC!Running(0))
    BY <2>3 DEF Steps
  <2> QED
    BY <1>e, <1>s, <2>2, <2>5, <2>7, <2>8, <2>9, ReportTypes
<1>10. ASSUME NEW w \in Workers, NEW d \in 1..MaxDone, Progress(w, d) PROVE Goal
  <2>1. PICK t \in Transfers :
          t = worker[w].id /\ Busy(w) /\ Told(w, t, last[t]) /\ entries[t].state # "Queued"
    BY <1>10, <1>t DEF Progress, Busy
  <2>2. /\ worker[w].pc = "execute" /\ entries[t].state = "Running"
        /\ d > entries[t].done
        /\ entries' = [entries EXCEPT ![t].done = d]
        /\ accepted' = [accepted EXCEPT ![t] = d]
        /\ worker' = [worker EXCEPT ![w].pc = "tick", ![w].tick = d]
        /\ UNCHANGED <<caller, cancelling, events, view>>
    BY <1>10, <2>1 DEF Progress, eventVars
  <2>3. /\ last[t] = LC!Running(last[t].done) /\ last[t].done \in 0..MaxDone
        /\ last[t].done <= accepted[t] /\ accepted[t] = entries[t].done
        /\ accepted[t] \in Nat /\ d \in Nat /\ last[t].done \in Nat
    <3>1. /\ last[t] = LC!Running(last[t].done) /\ last[t].done \in 0..MaxDone
          /\ IF entries[t].undelivered = NoTick THEN last[t].done = accepted[t]
             ELSE last[t].done < accepted[t]
      BY <2>1, <2>2 DEF Told
    <3>2. accepted[t] = entries[t].done /\ accepted[t] \in 0..MaxDone
      BY <1>a, <2>1, <2>2 DEF CountInv
    <3> QED
      BY <3>1, <3>2, MaxDoneAssumption
  <2>4. worker'[w].pc = "tick" /\ worker'[w].id = t
    BY <1>a, <2>1, <2>2 DEF WorkerStates
  <2>5. accepted'[t] = d /\ entries'[t].state = "Running"
    BY <1>a, <2>2 DEF Entries
  <2>6. Told(w, t, last[t])'
    BY <2>2, <2>3, <2>4, <2>5 DEF Told
  <2>7. Stage(t, last[t])'
    BY <1>a, <1>h, <2>1, <2>2, <2>5, <2>6
  <2>8. \A s \in Transfers : s # t => Stage(s, last[s])'
    <3>1. /\ \A v \in Workers : v # w => worker'[v] = worker[v]
          /\ \A s \in Transfers : s # t => entries'[s] = entries[s] /\ accepted'[s] = accepted[s]
      BY <1>a, <2>2
    <3> QED
      BY <1>w, <2>1, <2>2, <2>4, <3>1
  <2>9. Trail(last)'
    <3>1. ASSUME NEW i \in 1..Len(events), events[i].report.state \in LC!TerminalStates
          PROVE  accepted'[events[i].id] = accepted[events[i].id]
      <4>1. events[i].id # t
        BY <2>2, <3>1 DEF SideInv, EndInv, Over
      <4> QED
        BY <1>a, <2>2, <4>1
    <3> QED
      BY <1>p, <2>2, <3>1, TrailSame
  <2>10. \A s \in Transfers : Stage(s, last[s])'
    BY <2>7, <2>8
  <2> QED
    BY <1>l, <2>9, <2>10
<1>11. ASSUME NEW w \in Workers, SendTick(w) PROVE Goal
  <2>1. PICK t \in Transfers :
          t = worker[w].id /\ Busy(w) /\ Told(w, t, last[t]) /\ entries[t].state # "Queued"
    BY <1>11, <1>t DEF SendTick, Busy
  <2> PICK d \in 0..MaxDone : d = worker[w].tick
    BY <1>a DEF WorkerStates
  <2> DEFINE delivered == eventsOpen /\ Len(events) < Capacity
  <2>2. /\ worker[w].pc = "tick"
        /\ events' = IF delivered THEN Append(events, Event(t, LC!Running(d))) ELSE events
        /\ entries' = [entries EXCEPT ![t].undelivered = IF delivered THEN NoTick ELSE d]
        /\ worker' = [worker EXCEPT ![w].pc = "execute", ![w].tick = NoTick]
        /\ UNCHANGED <<caller, cancelling, accepted, eventsOpen, view>>
    BY <1>11, <2>1 DEF SendTick
  <2>3. /\ last[t] = LC!Running(last[t].done) /\ last[t].done \in 0..MaxDone
        /\ last[t].done < accepted[t] /\ accepted[t] = d /\ d # NoTick /\ d \in 0..MaxDone
    <3>1. /\ last[t] = LC!Running(last[t].done) /\ last[t].done \in 0..MaxDone
          /\ last[t].done < accepted[t]
      BY <2>1, <2>2 DEF Told
    <3>2. accepted[t] = d /\ accepted[t] \in 0..MaxDone /\ d # NoTick
      BY <1>a, <2>1, <2>2 DEF CountInv
    <3> QED
      BY <3>1, <3>2
  <2>4. /\ worker'[w].pc = "execute" /\ worker'[w].id = t
        /\ entries'[t].undelivered = (IF delivered THEN NoTick ELSE d)
        /\ entries'[t].state = entries[t].state
    BY <1>a, <2>1, <2>2 DEF WorkerStates, Entries
  <2>5. \A s \in Transfers : s # t => Stage(s, last[s])'
    <3>1. /\ \A v \in Workers : v # w => worker'[v] = worker[v]
          /\ \A s \in Transfers : s # t => entries'[s] = entries[s]
      BY <1>a, <2>2
    <3> QED
      BY <1>w, <2>1, <2>2, <2>4, <3>1
  <2>6. \A v \in Workers : v # w => worker'[v] = worker[v]
    BY <1>a, <2>2
  <2>7. CASE delivered
    <3>1. LC!Running(d).done = d /\ LC!Running(d).state = "Running"
      BY DEF LC!Running
    <3>2. Told(w, t, LC!Running(d))'
      BY <2>2, <2>3, <2>4, <2>7, <3>1 DEF Told
    <3>3. Stage(t, LC!Running(d))'
      BY <1>h, <2>1, <2>2, <2>4, <2>6, <3>2
    <3>4. Steps(accepted[t], last[t], LC!Running(d))
      <4>1. last[t].state = "Running"
        BY <2>3 DEF LC!Running
      <4> QED
        BY <2>3, <3>1, <4>1 DEF Steps
    <3>5. Sends(t, LC!Running(d))
      BY <1>o, <2>2, <2>7 DEF Sends
    <3> QED
      BY <1>s, <2>2, <2>3, <2>5, <3>3, <3>4, <3>5, ReportTypes
  <2>8. CASE ~ delivered
    <3>1. Told(w, t, last[t])'
      BY <2>2, <2>3, <2>4, <2>8 DEF Told
    <3>2. Stage(t, last[t])'
      BY <1>h, <2>1, <2>2, <2>4, <2>6, <3>1
    <3>3. \A s \in Transfers : Stage(s, last[s])'
      BY <2>5, <3>2
    <3> QED
      BY <1>q, <2>2, <2>8, <3>3
  <2> QED
    BY <2>7, <2>8
<1>12. ASSUME NEW w \in Workers, NEW outcome \in LC!TerminalStates, Finish(w, outcome)
       PROVE  Goal
  <2>1. PICK t \in Transfers :
          t = worker[w].id /\ Busy(w) /\ Told(w, t, last[t]) /\ entries[t].state # "Queued"
    BY <1>12, <1>t DEF Finish, Busy
  <2>2. /\ worker[w].pc = "execute"
        /\ entries' = [entries EXCEPT ![t].state = "removed"]
        /\ worker' = [worker EXCEPT
              ![w].pc = IF entries[t].undelivered # NoTick THEN "flush" ELSE "end",
              ![w].tick = entries[t].undelivered,
              ![w].final = IF entries[t].cancel THEN "Cancelled" ELSE outcome]
        /\ UNCHANGED <<caller, cancelling, accepted, events, view>>
    BY <1>12, <2>1 DEF Finish, eventVars
  <2>3. /\ worker'[w].pc = (IF entries[t].undelivered # NoTick THEN "flush" ELSE "end")
        /\ worker'[w].id = t
        /\ entries'[t].state = "removed"
        /\ \A v \in Workers : v # w => worker'[v] = worker[v]
        /\ \A s \in Transfers : s # t => entries'[s] = entries[s]
    BY <1>a, <2>1, <2>2 DEF WorkerStates, Entries
  <2>4. Told(w, t, last[t])'
    BY <2>1, <2>2, <2>3 DEF Told
  <2>5. Stage(t, last[t])'
    BY <1>h, <2>1, <2>2, <2>3, <2>4
  <2>6. \A s \in Transfers : s # t => Stage(s, last[s])'
    BY <1>w, <2>1, <2>2, <2>3
  <2>7. \A s \in Transfers : Stage(s, last[s])'
    BY <2>5, <2>6
  <2> QED
    BY <1>q, <2>2, <2>7
<1>13. ASSUME NEW w \in Workers, EmitFlush(w) PROVE Goal
  <2>1. PICK t \in Transfers :
          t = worker[w].id /\ Busy(w) /\ Told(w, t, last[t]) /\ entries[t].state # "Queued"
    BY <1>13, <1>t DEF EmitFlush, Busy
  <2> PICK d \in 0..MaxDone : d = worker[w].tick
    BY <1>a DEF WorkerStates
  <2>2. /\ worker[w].pc = "flush" /\ worker' = [worker EXCEPT ![w].pc = "end"]
        /\ Emit(t, LC!Running(d))
        /\ UNCHANGED <<entries, caller, cancelling, accepted>>
    BY <1>13, <2>1 DEF EmitFlush, Goto, queueVars
  <2>3. /\ last[t] = LC!Running(last[t].done) /\ last[t].done < accepted[t]
        /\ accepted[t] = d /\ d \in 0..MaxDone
    <3>1. last[t] = LC!Running(last[t].done) /\ last[t].done < accepted[t]
      BY <2>1, <2>2 DEF Told
    <3>2. accepted[t] = d /\ accepted[t] \in 0..MaxDone
      BY <1>a, <2>1, <2>2 DEF CountInv
    <3> QED
      BY <3>1, <3>2
  <2>4. worker'[w].pc = "end" /\ worker'[w].id = t
    BY <1>a, <2>1, <2>2 DEF WorkerStates
  <2>5. LC!Running(d).done = d /\ LC!Running(d).state = "Running" /\ last[t].state = "Running"
    BY <2>3 DEF LC!Running
  <2>6. Told(w, t, LC!Running(d))'
    BY <2>2, <2>3, <2>4, <2>5 DEF Told
  <2>7. Stage(t, LC!Running(d))'
    BY <1>a, <1>h, <2>1, <2>2, <2>6
  <2>8. \A s \in Transfers : s # t => Stage(s, last[s])'
    BY <1>a, <1>w, <2>1, <2>2, <2>4
  <2>9. Steps(accepted[t], last[t], LC!Running(d))
    BY <2>3, <2>5 DEF Steps
  <2> QED
    BY <1>e, <1>s, <2>2, <2>3, <2>7, <2>8, <2>9, ReportTypes
<1>14. ASSUME NEW w \in Workers, EmitEnd(w) PROVE Goal
  <2>1. PICK t \in Transfers :
          t = worker[w].id /\ Busy(w) /\ Told(w, t, last[t]) /\ entries[t].state # "Queued"
    BY <1>14, <1>t DEF EmitEnd, Busy
  <2> PICK e \in LC!TerminalStates : e = worker[w].final
    BY <1>14 DEF EmitEnd, QueueInv, WorkerInv
  <2>2. /\ worker[w].pc = "end" /\ worker' = [worker EXCEPT ![w] = Idle]
        /\ Emit(t, LC!Ended(e))
        /\ UNCHANGED <<entries, caller, cancelling, accepted>>
    BY <1>14, <2>1 DEF EmitEnd, queueVars
  <2>3. last[t].state = "Running" /\ last[t] # LC!Queued /\ last[t].done = accepted[t]
    BY <2>1, <2>2 DEF Told, LC!Running, LC!Queued
  <2>4. ~ Busy(w)'
    BY <1>a, <2>2 DEF Busy, Idle
  <2>5. Stage(t, LC!Ended(e))'
    BY <1>a, <1>h, <2>1, <2>2, <2>4
  <2>6. \A s \in Transfers : s # t => Stage(s, last[s])'
    BY <1>a, <1>w, <2>1, <2>2, <2>4
  <2>7. Steps(accepted[t], last[t], LC!Ended(e))
    BY <2>2, <2>3 DEF Steps
  <2> QED
    BY <1>e, <1>s, <2>2, <2>5, <2>6, <2>7, ReportTypes
<1>15. CASE Consume
  <2>1. UNCHANGED <<entries, caller, cancelling, worker, accepted>>
    BY <1>15 DEF Consume, queueVars
  <2>2. \A s \in Transfers : Stage(s, last[s])'
    BY <1>f, <2>1 DEF Enqueued
  <2> QED
    BY <1>15, <1>l, <1>p, <2>2, TrailConsumes
<1>16. CASE Close \/ UNCHANGED vars
  BY <1>16, <1>f, <1>q DEF Close, vars, eventVars, Enqueued
<1>17. ~ DropReceiver
  BY DEF DropReceiver
<1> QED
  BY <1>1, <1>2, <1>3, <1>4, <1>5, <1>6, <1>7, <1>8, <1>9, <1>10, <1>11, <1>12, <1>13,
     <1>14, <1>15, <1>16, <1>17
  DEF Next, ClientStep, CallerStep, WorkerStep, Return

(* What was sent of every transfer, and what waits in the channel, is always *)
(* a path through its lifecycle that ends where its worker is.               *)
THEOREM Shown == Spec => []ShownInv
<1>1. Init => ShownInv
  <2> SUFFICES ASSUME Init PROVE ShownInv
    OBVIOUS
  <2>1. SideInv
    BY DEF Init, Absent, Idle, NoTick, SideInv, SilentInv, CancelInv, WaitInv, CountInv,
           EndInv, LC!Unseen, LC!TerminalStates
  <2> PICK last : last = view
    OBVIOUS
  <2>2. last \in Lasts /\ Trail(last)
    BY DEF Init, Lasts, Trail
  <2>3. \A t \in Transfers : Stage(t, last[t])
    BY NoTransferAssumption DEF Init, Idle, Stage, Told, Holds, Enqueued
  <2>4. \E x \in Lasts : Trail(x) /\ \A t \in Transfers : Stage(t, x[t])
    BY <2>2, <2>3
  <2>5. TrailInv
    BY <2>4 DEF TrailInv
  <2> QED
    BY <2>1, <2>5 DEF ShownInv
<1>2. QueueInv /\ JobInv /\ RunnerInv /\ ShownInv /\ [Next]_vars => ShownInv'
  BY SideStep, TrailStep DEF ShownInv
<1>3. Init => JobInv /\ RunnerInv
  BY DEF Init, JobInv, RunnerInv, Idle, Busy, Moving
<1>4. QueueInv /\ JobInv /\ RunnerInv /\ [Next]_vars => JobInv' /\ RunnerInv'
  BY RunnerStep
<1> QED
  BY <1>1, <1>2, <1>3, <1>4, Invariant, PTL DEF Spec

------------------------------------------------------------------------------
(* What the client is shown *)

(* The event the consumer takes is the next one of the row it overwrites. *)
LEMMA ConsumeStep ==
  ASSUME QueueInv, ShownInv, Consume
  PROVE  \E t \in Transfers, s \in LC!Reports :
           /\ view' = [view EXCEPT ![t] = s] /\ UNCHANGED promised
           /\ Steps(accepted[t], view[t], s)
           /\ s.state \in LC!TerminalStates => (s.state = "Cancelled" <=> t \in promised)
<1>1. /\ 1 \in 1..Len(events) /\ eventsOpen
      /\ events[1].id \in Transfers /\ events[1].report \in LC!Reports
  BY ConsumeFacts
<1>2. PICK t \in Transfers, s \in LC!Reports : t = events[1].id /\ s = events[1].report
  BY <1>1
<1>3. view' = [view EXCEPT ![t] = s] /\ UNCHANGED promised
  <2>1. Head(events) = events[1]
    BY <1>1 DEF Consume, QueueInv, TypeOK
  <2> QED
    BY <1>2, <2>1 DEF Consume
<1>4. Steps(accepted[t], view[t], s)
  <2>1. FirstOf(1)
    BY <1>1 DEF FirstOf
  <2> QED
    BY <1>1, <1>2, <2>1 DEF ShownInv, TrailInv, Trail
<1>5. ASSUME s.state \in LC!TerminalStates PROVE s.state = "Cancelled" <=> t \in promised
  <2>1. s.state = "Cancelled" => t \in promised
    BY <1>1, <1>2, <1>5 DEF ShownInv, SideInv, EndInv
  <2>2. s.state \in {"Complete", "Failed"} => t \notin promised
    BY <1>1, <1>2 DEF QueueInv, EventInv, OtherEnd, Unpromised
  <2> QED
    BY <1>5, <2>1, <2>2 DEF LC!TerminalStates
<1> QED
  BY <1>3, <1>4, <1>5

(* Only Consume changes a row, and only cancel() makes a promise. *)
LEMMA OnlyConsumeShows ==
  ASSUME [Next]_vars
  PROVE  /\ Consume \/ UNCHANGED view
         /\ \/ Consume
            \/ \E t \in Transfers : CancelQueued(t) \/ CancelRunning(t)
            \/ UNCHANGED <<view, promised>>
<1>1. ASSUME NEW t \in Transfers, EnqueueInsert(t) \/ CallerStep(t) \/ CancelEmit(t)
      PROVE  UNCHANGED <<view, promised>>
  BY <1>1 DEF EnqueueInsert, CallerStep, EnqueueEmit, EnqueueSend, CancelEmit, Emit, eventVars
<1>2. ASSUME NEW t \in Transfers, CancelQueued(t) \/ CancelRunning(t)
      PROVE  UNCHANGED view
  BY <1>2 DEF CancelQueued, CancelRunning, eventVars
<1>3. ASSUME NEW w \in Workers, WorkerStep(w) PROVE UNCHANGED <<view, promised>>
  BY <1>3 DEF WorkerStep, Start, Exit, EmitRunning, SendTick, EmitFlush, EmitEnd, Emit, eventVars
<1>4. ASSUME NEW w \in Workers, Return(w) PROVE UNCHANGED <<view, promised>>
  BY <1>4 DEF Return, Finish, eventVars
<1>5. ASSUME NEW w \in Workers, NEW d \in 1..MaxDone, Progress(w, d)
      PROVE  UNCHANGED <<view, promised>>
  BY <1>5 DEF Progress, eventVars
<1>6. ASSUME Close \/ DropReceiver \/ UNCHANGED vars PROVE UNCHANGED <<view, promised>>
  BY <1>6 DEF Close, DropReceiver, eventVars, vars
<1> QED
  BY <1>1, <1>2, <1>3, <1>4, <1>5, <1>6 DEF Next, ClientStep

(* Every step of the queue is a step of the lifecycle, or none of it.      *)
LEMMA LifecycleStep ==
  ASSUME QueueInv, ShownInv, [Next]_vars
  PROVE  [LC!Next]_(LC!vars)
<1>1. CASE Consume
  <2>1. PICK t \in Transfers, s \in LC!Reports :
          /\ view' = [view EXCEPT ![t] = s] /\ UNCHANGED promised
          /\ Steps(accepted[t], view[t], s)
          /\ s.state \in LC!TerminalStates => (s.state = "Cancelled" <=> t \in promised)
    BY <1>1, ConsumeStep
  <2>2. LC!Show(t, s)
    BY <2>1 DEF LC!Show
  <2>3. CASE view[t] = LC!Unseen /\ s = LC!Queued
    BY <2>2, <2>3 DEF LC!Announce, LC!Next
  <2>4. CASE view[t] = LC!Queued /\ s = LC!Running(0)
    BY <2>2, <2>4 DEF LC!Begin, LC!Next
  <2>5. CASE /\ view[t].state = "Running" /\ s = LC!Running(s.done)
             /\ s.done \in 0..MaxDone /\ view[t].done < s.done
    <3>1. view[t].done \in Nat
      <4>1. view[t] \in LC!Reports
        BY <2>5 DEF QueueInv, TypeOK, LC!Unseen
      <4> QED
        BY <4>1 DEF LC!Reports, LC!Queued, LC!Running, LC!Ended
    <3>2. s.done \in (view[t].done + 1)..MaxDone
      BY <2>5, <3>1, MaxDoneAssumption
    <3>3. LC!Show(t, LC!Running(s.done))
      BY <2>2, <2>5
    <3> QED
      BY <2>5, <3>2, <3>3 DEF LC!Advance, LC!Next
  <2>6. CASE /\ view[t].state \in {"Queued", "Running"} /\ view[t].done = accepted[t]
             /\ \E e \in LC!TerminalStates :
                  s = LC!Ended(e) /\ (view[t] = LC!Queued => e = "Cancelled")
    <3>1. PICK e \in LC!TerminalStates :
            s = LC!Ended(e) /\ (view[t] = LC!Queued => e = "Cancelled")
      BY <2>6
    <3>2. s.state = e
      BY <3>1 DEF LC!Ended
    <3> QED
      BY <2>1, <2>2, <2>6, <3>1, <3>2 DEF LC!End, LC!Next
  <2> QED
    BY <2>1, <2>3, <2>4, <2>5, <2>6 DEF Steps
<1>2. ASSUME NEW t \in Transfers, CancelQueued(t) \/ CancelRunning(t)
      PROVE  [LC!Next]_(LC!vars)
  <2>1. /\ entries[t].state \in {"Queued", "Running"}
        /\ promised' = promised \cup {t} /\ UNCHANGED view
    BY <1>2 DEF CancelQueued, CancelRunning, eventVars
  <2>2. view[t].state \notin LC!TerminalStates
    BY <2>1 DEF ShownInv, SideInv, EndInv, Over
  <2> QED
    BY <2>1, <2>2 DEF LC!Promise, LC!Next
<1>3. ASSUME UNCHANGED <<view, promised>> PROVE [LC!Next]_(LC!vars)
  BY <1>3 DEF LC!vars
<1> QED
  BY <1>1, <1>2, <1>3, OnlyConsumeShows

(* Whatever the interleaving of callers, workers, cancellations and the     *)
(* consumer, each transfer is shown the states its lifecycle allows, in     *)
(* order: the queue implements TransferLifecycle.                           *)
THEOREM QueueImplementsLifecycle == Spec => Lifecycle
<1>1. Init => LC!Init
  BY DEF Init, LC!Init
<1>2. QueueInv /\ ShownInv /\ [Next]_vars => [LC!Next]_(LC!vars)
  BY LifecycleStep
<1> QED
  BY <1>1, <1>2, Invariant, Shown, PTL DEF Spec, Lifecycle, LC!Spec

(* The end of a transfer is shown only after the last count progress()      *)
(* accepted of it, even when the channel was full when it was reported.     *)
THEOREM FinalTickAlwaysShown == Spec => FinalTickShown
<1> DEFINE Step ==
      \A t \in Transfers :
        /\ view[t].state \notin LC!TerminalStates
        /\ view'[t].state \in LC!TerminalStates
        => view[t].done = accepted[t]
<1>1. QueueInv /\ ShownInv /\ [Next]_vars => [Step]_vars
  <2> SUFFICES ASSUME QueueInv, ShownInv, [Next]_vars, NEW t \in Transfers,
                      view[t].state \notin LC!TerminalStates,
                      view'[t].state \in LC!TerminalStates
               PROVE  view[t].done = accepted[t]
    OBVIOUS
  <2>1. Consume
    BY OnlyConsumeShows
  <2>2. PICK u \in Transfers, s \in LC!Reports :
          view' = [view EXCEPT ![u] = s] /\ Steps(accepted[u], view[u], s)
    BY <2>1, ConsumeStep
  <2>3. view'[u] = s /\ \A x \in Transfers : x # u => view'[x] = view[x]
    BY <2>2 DEF QueueInv, TypeOK
  <2>4. u = t /\ s.state \in LC!TerminalStates
    BY <2>3
  <2>5. /\ LC!Queued.state = "Queued"
        /\ \A d : LC!Running(d).state = "Running"
        /\ "Queued" \notin LC!TerminalStates /\ "Running" \notin LC!TerminalStates
    BY DEF LC!Queued, LC!Running, LC!TerminalStates
  <2> QED
    BY <2>2, <2>4, <2>5 DEF Steps
<1> QED
  BY <1>1, Invariant, Shown, PTL DEF Spec, FinalTickShown
=============================================================================
