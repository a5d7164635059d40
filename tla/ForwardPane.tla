----------------------------- MODULE ForwardPane ------------------------------
(***************************************************************************)
(* The port-forwarding pane: the session it is attached to, one row for     *)
(* each forward it started there, the events of the forwards as they arrive *)
(* and the requests to stop.  A forward runs on its session's thread; a row *)
(* holds the one handle of its forward, whose command channel closes when   *)
(* the handle is dropped, and that ends the forward as a request does.      *)
(***************************************************************************)
EXTENDS Naturals, Sequences, FiniteSets

CONSTANTS
  Sessions,    \* SSH sessions
  MaxForwards, \* rows tracked
  MaxStarts    \* forwards started

NoSession == "NoSession"

VARIABLES
  session,    \* the session attached, or NoSession
  ended,      \* the sessions that ended
  rows,       \* the rows, oldest first
  starting,   \* whether "Add" is disabled
  starts,     \* the starts in flight, each the session it is for
  forwards,   \* the forwards on their sessions' threads, by number
  watching    \* the forwards whose events a task folds into the pane

vars == <<session, ended, rows, starting, starts, forwards, watching>>

Numbers == DOMAIN forwards
Tracked == {rows[k].of : k \in DOMAIN rows}
Active(status) == status \in {"Starting", "Listening"}
Runs(n) == forwards[n].state \in {"Starting", "Up"}
Held == {rows[k].of : k \in {j \in DOMAIN rows : rows[j].handle}}

ToldWhenAsked(n) == forwards[n].asked

\* recv() on the command channel returns: Stop was sent, or the handle is gone.
ToldToStop(n) == forwards[n].asked \/ n \notin Held

Init ==
  /\ session = NoSession /\ ended = {}
  /\ rows = <<>> /\ starting = FALSE /\ starts = <<>>
  /\ forwards = <<>> /\ watching = {}

-----------------------------------------------------------------------------
(* Starting a forward.                                                     *)

Add ==
  /\ ~starting /\ session # NoSession
  /\ Len(starts) + Len(forwards) < MaxStarts
  /\ starting' = TRUE /\ starts' = Append(starts, session)
  /\ UNCHANGED <<session, ended, rows, forwards, watching>>

Asked(f) == [f EXCEPT !.asked = TRUE]

InsertUncapped(fs, n) ==
  /\ forwards' = fs
  /\ rows' = Append(rows, [of |-> n, status |-> "Starting", handle |-> TRUE])
  /\ watching' = watching \cup {n}

\* A forward over the cap is asked to stop rather than tracked.
Insert(fs, n) ==
  IF Len(rows) >= MaxForwards
  THEN /\ forwards' = [fs EXCEPT ![n] = Asked(@)]
       /\ UNCHANGED <<rows, watching>>
  ELSE /\ forwards' = fs
       /\ rows' = Append(rows, [of |-> n, status |-> "Starting", handle |-> TRUE])
       /\ watching' = watching \cup {n}

\* The oldest start reaches its session, whose queue may be full or closed, and
\* then the pane, which may have been attached elsewhere.
Started ==
  /\ starts # <<>> /\ starts' = Tail(starts) /\ starting' = FALSE
  /\ \/ /\ Head(starts) \notin ended
        /\ Insert(Append(forwards, [of |-> Head(starts), state |-> "Starting",
                                    asked |-> FALSE, events |-> <<>>]),
                  Len(forwards) + 1)
     \/ UNCHANGED <<rows, forwards, watching>>
  /\ UNCHANGED <<session, ended>>

-----------------------------------------------------------------------------
(* The forward's task.                                                     *)

Tells(n, state, events) ==
  /\ forwards' = [forwards EXCEPT ![n].state = state, ![n].events = @ \o events]
  /\ UNCHANGED <<session, ended, rows, starting, starts, watching>>

AtEndNothing == <<>>

\* The last event of a forward, whatever ended it.
AtEnd == <<"Stopped">>

ComesUp(n) == /\ forwards[n].state = "Starting"
              /\ Tells(n, "Up", <<"Listening">>)
CannotStart(n) == /\ forwards[n].state = "Starting"
                  /\ Tells(n, "Failed", <<"Failed">> \o AtEnd)
\* One connection fails; the forward goes on.
ConnectionFails(n) == /\ forwards[n].state = "Up"
                      /\ forwards[n].events = <<>>
                      /\ Tells(n, "Up", <<"ConnectionFailed">>)
AcceptFails(n) == /\ forwards[n].state = "Up"
                  /\ Tells(n, "Failed", AtEnd)
Stops(n) == /\ forwards[n].state = "Up" /\ ToldToStop(n)
            /\ Tells(n, "Over", AtEnd)

\* The session ends, and its thread with every forward, which say nothing more.
SessionEnds(s) ==
  /\ s \notin ended /\ ended' = ended \cup {s}
  /\ forwards' = [n \in Numbers |-> IF forwards[n].of = s /\ Runs(n)
                    THEN [forwards[n] EXCEPT !.state = "Over"] ELSE forwards[n]]
  /\ UNCHANGED <<session, rows, starting, starts, watching>>

-----------------------------------------------------------------------------
(* The pane hears of its forwards.                                         *)

AppliedAnyFailure(status, event) ==
  CASE event = "Listening" -> "Listening"
    [] event \in {"ConnectionFailed", "Failed"} -> "Failed"
    [] event = "Stopped" -> "Stopped"

\* A connection that failed leaves the forward listening.
Applied(status, event) ==
  CASE event = "Listening" -> "Listening"
    [] event = "ConnectionFailed" -> status
    [] event = "Failed" -> "Failed"
    [] event = "Stopped" -> "Stopped"

\* A forward that lost its row is no longer watched.
Event(n) ==
  /\ n \in watching /\ forwards[n].events # <<>>
  /\ forwards' = [forwards EXCEPT ![n].events = Tail(@)]
  /\ rows' = [k \in DOMAIN rows |-> IF rows[k].of = n
                THEN [rows[k] EXCEPT !.status = Applied(@, Head(forwards[n].events))]
                ELSE rows[k]]
  /\ watching' = IF n \in Tracked THEN watching ELSE watching \ {n}
  /\ UNCHANGED <<session, ended, starting, starts>>

StopRow(k) ==
  /\ k \in DOMAIN rows /\ Active(rows[k].status)
  /\ rows' = [rows EXCEPT ![k].status = "Stopped", ![k].handle = FALSE]
  /\ forwards' = IF rows[k].handle
                 THEN [forwards EXCEPT ![rows[k].of] = Asked(@)] ELSE forwards
  /\ UNCHANGED <<session, ended, starting, starts, watching>>

RemoveRow(k) ==
  /\ k \in DOMAIN rows /\ ~Active(rows[k].status)
  /\ rows' = SubSeq(rows, 1, k - 1) \o SubSeq(rows, k + 1, Len(rows))
  /\ UNCHANGED <<session, ended, starting, starts, forwards, watching>>

-----------------------------------------------------------------------------
(* The window attaches the pane to the focused session, or to none, whenever *)
(* a terminal changes: to what it is attached to already, too.             *)

SetSession(s) ==
  /\ session' = s
  /\ rows' = <<>> /\ starting' = FALSE
  /\ UNCHANGED <<ended, starts, watching>>

\* Nobody is asked to stop here, but the handles go with the rows.
Attach(s) ==
  /\ s \notin ended
  /\ SetSession(s)
  /\ UNCHANGED forwards

Detach ==
  /\ SetSession(NoSession)
  /\ forwards' = [n \in Numbers |-> IF n \in Held THEN Asked(forwards[n]) ELSE forwards[n]]

-----------------------------------------------------------------------------
Next ==
  \/ Add \/ Started \/ Detach
  \/ \E s \in Sessions : Attach(s) \/ SessionEnds(s)
  \/ \E n \in Numbers : \/ ComesUp(n) \/ CannotStart(n) \/ ConnectionFails(n)
                        \/ AcceptFails(n) \/ Stops(n) \/ Event(n)
  \/ \E k \in 1 .. MaxForwards : StopRow(k) \/ RemoveRow(k)

EndIsHeard ==
  /\ \E k \in DOMAIN rows : forwards[rows[k].of].of \in ended
  /\ Detach \/ \E s \in Sessions : Attach(s)

\* A forward binds or fails and reads its request to stop; the window hears of a
\* session's end and attaches the pane again; the watching tasks run.
Fairness ==
  /\ WF_vars(Started)
  /\ \A n \in 1 .. MaxStarts :
       /\ WF_vars(n \in Numbers /\ (ComesUp(n) \/ CannotStart(n)))
       /\ WF_vars(n \in Numbers /\ Stops(n))
       /\ WF_vars(n \in Numbers /\ Event(n))
  /\ WF_vars(EndIsHeard)

Spec == Init /\ [][Next]_vars /\ Fairness

-----------------------------------------------------------------------------
(* Properties.                                                             *)

\* At most MaxForwards forwards go on by themselves, each with one row, and that
\* row says so: one whose row says that it is over was told to stop.
ForwardsInHand ==
  /\ Cardinality(Tracked) = Len(rows) /\ Len(rows) <= MaxForwards
  /\ \A k \in DOMAIN rows : ~Active(rows[k].status) /\ Runs(rows[k].of)
       => ToldToStop(rows[k].of)

\* No row shows a forward that is over as live.
NothingOverShownLive ==
  \A k \in DOMAIN rows : Runs(rows[k].of) \/ ~Active(rows[k].status)

\* No forward runs that no row shows: one whose row went, with the session it is
\* of detached or another attached, is over in the end.
NothingRunsUnseen == \A n \in Numbers : Runs(n) => n \in Tracked

\* A forward that is up stops when it is asked to or its session ends, unless
\* accepting fails: dropping its handle does not stop it.
DroppedForwardsGoOn ==
  [][\A n \in Numbers : forwards[n].state = "Up" /\ forwards'[n].state = "Over"
       => forwards[n].asked \/ forwards[n].of \in ended']_vars

\* A pane without a session shows no forwards.
DetachedShowsNothing == session = NoSession => rows = <<>>
=============================================================================
