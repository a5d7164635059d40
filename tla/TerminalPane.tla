----------------------------- MODULE TerminalPane -----------------------------
(***************************************************************************)
(* What a terminal pane keeps besides its session: the place of the view in *)
(* the rows that scrolled off, the find box, the selection, and the timer   *)
(* that blinks the cursor while the window is active.                      *)
(***************************************************************************)
EXTENDS Naturals, Integers, FiniteSets

CONSTANTS
  MaxKept,    \* rows kept after they scrolled off
  MaxMatches, \* matches of a search on the screen
  MaxKeys     \* keys sent

Closed == [open |-> FALSE, current |-> 0]

VARIABLES
  at, kept,             \* rows the view is back, rows kept
  find, matches,        \* the find box; how many matches are on the screen
  selection, dragging,  \* "None", "Cell" (no movement yet) or "Span"
  keys,                 \* keys sent to the shell
  active,               \* whether the window is active
  wanted,               \* whether the cursor is to blink
  timer, parked, lit,   \* the blink task: "None", "Runs" or "Over"
  dirty                 \* a frame is due

vars == <<at, kept, find, matches, selection, dragging, keys, active, wanted,
          timer, parked, lit, dirty>>
view == <<at, kept, find, matches, selection, dragging, keys>>
blink == <<active, wanted, timer, parked, lit>>

Init ==
  /\ at = 0 /\ kept = 0 /\ find = Closed /\ matches = 0
  /\ selection = "None" /\ dragging = FALSE /\ keys = 0
  /\ active = TRUE /\ wanted \in BOOLEAN
  /\ timer = "None" /\ parked = FALSE /\ lit = TRUE /\ dirty = TRUE

Lesser(m, n) == IF m < n THEN m ELSE n
Seen(n) == matches' = n

-----------------------------------------------------------------------------
(* The view.                                                               *)

\* Output scrolls a row off; the engine keeps a view that is back in place.
Output ==
  /\ kept' = Lesser(kept + 1, MaxKept)
  /\ at' = IF at = 0 THEN 0 ELSE Lesser(at + 1, kept')
  /\ \E n \in 0 .. MaxMatches : Seen(n)
  /\ dirty' = TRUE
  /\ UNCHANGED <<find, selection, dragging, keys, blink>>

\* The view goes to an offset, which the engine clamps; the selection, which
\* would cover other text, is dropped.
SetScroll(offset) ==
  IF offset = at THEN UNCHANGED <<at, selection, dragging>>
  ELSE at' = Lesser(offset, kept) /\ selection' = "None" /\ dragging' = FALSE

ScrollWheel(lines) ==
  /\ SetScroll(IF at + lines < 0 THEN 0 ELSE at + lines)
  /\ \E n \in 0 .. MaxMatches : Seen(n)
  /\ dirty' = TRUE
  /\ UNCHANGED <<kept, find, keys, blink>>

ToBottomNever == UNCHANGED <<at, selection, dragging>>

\* Typing returns to the live screen first.
ToBottom == SetScroll(0)

\* A key for the shell, which may refuse it; "End" while the view is back only
\* returns.
Type(key) ==
  /\ ~find.open /\ keys < MaxKeys
  /\ keys' \in IF key = "End" /\ at > 0 THEN {keys} ELSE {keys, keys + 1}
  /\ IF key = "End" THEN SetScroll(0) ELSE ToBottom
  /\ \E n \in 0 .. MaxMatches : Seen(n)
  /\ dirty' = TRUE
  /\ UNCHANGED <<kept, find, blink>>

-----------------------------------------------------------------------------
(* The find box, which owns the keyboard while it is open.                 *)

OpenSearch ==
  /\ ~find.open /\ find' = [open |-> TRUE, current |-> 0]
  /\ Seen(0) /\ dirty' = TRUE
  /\ UNCHANGED <<at, kept, selection, dragging, keys, blink>>

\* Escape or Cmd-F.
CloseSearch ==
  /\ find.open /\ find' = Closed /\ Seen(0) /\ dirty' = TRUE
  /\ UNCHANGED <<at, kept, selection, dragging, keys, blink>>

EditQuery ==
  /\ find.open /\ find' = [find EXCEPT !.current = 0]
  /\ \E n \in 0 .. MaxMatches : Seen(n)
  /\ dirty' = TRUE
  /\ UNCHANGED <<at, kept, selection, dragging, keys, blink>>

AdvanceMatch(forward) ==
  /\ find.open /\ matches > 0
  /\ find' = [find EXCEPT !.current =
                IF forward THEN (@ + 1) % matches ELSE (@ + matches - 1) % matches]
  /\ dirty' = TRUE
  /\ UNCHANGED <<at, kept, matches, selection, dragging, keys, blink>>

-----------------------------------------------------------------------------
(* Selecting with the mouse.                                               *)

BeginSelection ==
  /\ dragging' = TRUE /\ selection' = "Cell" /\ dirty' = TRUE
  /\ UNCHANGED <<at, kept, find, matches, keys, blink>>

\* A move without the button means that its release was missed.
ExtendSelection(held) ==
  /\ dragging' = (dragging /\ held)
  /\ IF dragging /\ held /\ selection # "None"
     THEN selection' \in {"Cell", "Span"} /\ dirty' = TRUE
     ELSE UNCHANGED <<selection, dirty>>
  /\ UNCHANGED <<at, kept, find, matches, keys, blink>>

EndSelection ==
  /\ dragging' = FALSE /\ dirty' = TRUE
  /\ selection' = IF selection = "Cell" THEN "None" ELSE selection
  /\ UNCHANGED <<at, kept, find, matches, keys, blink>>

-----------------------------------------------------------------------------
(* The blink timer.                                                        *)

RestartsFirstOnly == timer = "None"

\* A task that parked itself is replaced.
Restarts == timer = "None" \/ parked

\* A frame starts the timer if it is to run and does not.
Render ==
  /\ dirty /\ dirty' = FALSE
  /\ IF wanted /\ active /\ Restarts
     THEN timer' = "Runs" /\ parked' = FALSE /\ lit' = TRUE
     ELSE UNCHANGED <<timer, parked, lit>>
  /\ UNCHANGED <<view, active, wanted>>

ParksNever == FALSE

\* The timer ends in a window that is not active.
Parks == ~active

\* The interval passed.
Tick ==
  /\ timer = "Runs"
  /\ IF Parks
     THEN timer' = "Over" /\ parked' = TRUE /\ lit' = TRUE /\ UNCHANGED dirty
     ELSE lit' = ~lit /\ dirty' = TRUE /\ UNCHANGED <<timer, parked>>
  /\ UNCHANGED <<view, active, wanted>>

\* The window becomes active or stops being so, which refreshes it.
Activation ==
  /\ active' = ~active /\ dirty' = TRUE
  /\ UNCHANGED <<view, wanted, timer, parked, lit>>

SetCursorBlink(b) ==
  /\ wanted # b /\ wanted' = b
  /\ timer' = "None" /\ parked' = FALSE /\ lit' = TRUE /\ dirty' = TRUE
  /\ UNCHANGED <<view, active>>

-----------------------------------------------------------------------------
Next ==
  \/ Output \/ OpenSearch \/ CloseSearch \/ EditQuery
  \/ \E lines \in {-1, 1} : ScrollWheel(lines)
  \/ \E key \in {"End", "Other"} : Type(key)
  \/ \E b \in BOOLEAN : AdvanceMatch(b) \/ ExtendSelection(b) \/ SetCursorBlink(b)
  \/ BeginSelection \/ EndSelection
  \/ Render \/ Tick \/ Activation

\* The toolkit draws the frames that are due and the interval passes.
Fairness == WF_vars(Render) /\ WF_vars(Tick)

Spec == Init /\ [][Next]_vars /\ Fairness

-----------------------------------------------------------------------------
(* Properties.                                                             *)

\* A drag always has a selection to extend, whatever scrolled meanwhile, and the
\* view is never further back than rows are kept.
ViewOK ==
  /\ at <= kept
  /\ dragging => selection # "None"

\* In a window that stays active and whose blink setting is left alone the
\* cursor goes on blinking, however often it was in the background before.
CursorBlinks == <>[](active /\ wanted) => []<>lit /\ []<>(~lit)

\* In the background no timer runs, once the cursor has been drawn there.
NoTimerInBackground == timer = "Runs" => active
=============================================================================
