-------------------------- MODULE TransferLifecycle --------------------------
(***************************************************************************)
(* What a client of the SFTP transfer queue is promised, and nothing about *)
(* how the queue keeps the promise: the states it sees a transfer go       *)
(* through, in order, and what an accepted cancellation means for the last *)
(* of them.  TransferQueue is shown to implement this specification.       *)
(***************************************************************************)
EXTENDS Naturals

CONSTANTS
  Transfers,    (* the transfers a client may enqueue                      *)
  MaxDone       (* largest byte count a transfer may report                *)

VARIABLES
  view,         (* the last state of each transfer the client was shown    *)
  promised      (* the transfers for which a cancel call was granted       *)

vars == <<view, promised>>

Unseen     == [state |-> "Unseen",  done |-> 0]
Queued     == [state |-> "Queued",  done |-> 0]
Running(d) == [state |-> "Running", done |-> d]
Ended(s)   == [state |-> s,         done |-> 0]

TerminalStates == {"Complete", "Failed", "Cancelled"}

Reports ==
  {Queued} \cup {Running(d) : d \in 0..MaxDone} \cup {Ended(s) : s \in TerminalStates}

TypeOK ==
  /\ view \in [Transfers -> Reports \cup {Unseen}]
  /\ promised \subseteq Transfers

Init ==
  /\ view = [t \in Transfers |-> Unseen]
  /\ promised = {}

Show(t, v) ==
  /\ view' = [view EXCEPT ![t] = v]
  /\ UNCHANGED promised

(* The transfer is accepted. *)
Announce(t) == view[t] = Unseen /\ Show(t, Queued)

(* The transfer starts, at zero bytes. *)
Begin(t) == view[t] = Queued /\ Show(t, Running(0))

(* Bytes moved: the count the client sees only ever grows. *)
Advance(t) ==
  /\ view[t].state = "Running"
  /\ \E d \in (view[t].done + 1)..MaxDone : Show(t, Running(d))

(* A cancellation is granted only while no end has been shown.  The client *)
(* may hold the id before it has seen the Queued event.                    *)
Promise(t) ==
  /\ view[t].state \notin TerminalStates
  /\ promised' = promised \cup {t}
  /\ UNCHANGED view

(* The one end of a transfer: Cancelled exactly when that was promised, and *)
(* before it ran only when it was cancelled.                                *)
End(t) ==
  /\ view[t].state \in {"Queued", "Running"}
  /\ \E s \in TerminalStates :
       /\ s = "Cancelled" <=> t \in promised
       /\ view[t] = Queued => s = "Cancelled"
       /\ Show(t, Ended(s))

Next ==
  \E t \in Transfers :
    Announce(t) \/ Begin(t) \/ Advance(t) \/ Promise(t) \/ End(t)

Spec == Init /\ [][Next]_vars
==============================================================================
