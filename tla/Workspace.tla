----------------------------- MODULE Workspace -----------------------------
(***************************************************************************)
(* The application window: the list of sessions, the surface shown, the    *)
(* tiled workspace, and the two panes (SFTP and port forwarding) that      *)
(* follow the focused session (crates/sshdeck-app/src/main.rs).            *)
(*                                                                         *)
(* Everything in the window names a session by its INDEX in the list, and  *)
(* closing a session shifts the indexes behind it.  The model gives each   *)
(* session an identity as well, so that a property can say which session   *)
(* an index ought to mean.                                                 *)
(*                                                                         *)
(* The tiling is a tree, but the code addresses a tile only by its         *)
(* position among the leaves, and nesting, direction and weights are       *)
(* layout.  Here it is the sequence of its tiles, each a record of its     *)
(* tabs and the tab shown.  Indexes are counted from 1; 0 is None.         *)
(***************************************************************************)
EXTENDS Integers, Sequences, FiniteSets, SequencesExt

CONSTANT MaxSessions    \* sessions opened in one run of the window (bound)

ASSUME SessionsAssumption == MaxSessions \in Nat \ {0}

VARIABLES
  sessions,     \* the open sessions: identity, kind, last reported state
  opened,       \* how many sessions were ever opened; gives identities
  tab,          \* the surface: [kind, index], index 0 unless kind "Session"
  closing,      \* tabs of a tile being closed: index, and whose it was
  active,       \* the focused session's index, or 0
  ws,           \* the tiles
  focus,        \* the focused tile
  dragged,      \* [session, pane, tab] being dragged; 0 where None
  overlay,      \* a settings pane covers the main region
  nav,          \* the left rail shows the port-forwarding pane
  sftpPane,     \* the SFTP pane exists (it is made on first use)
  attached,     \* sftp_attached: the index the SFTP pane serves, or 0
  client,       \* the identity whose SFTP client the pane holds, or 0
  attempts,     \* SFTP openings under way; live: its generation is current
  forwardPane,  \* the port-forwarding pane exists
  forwardOf     \* the identity whose session that pane holds, or 0

layout == <<sessions, opened, tab, active, ws, focus, dragged>>
panes  == <<sftpPane, attached, client, attempts, forwardPane, forwardOf>>
vars   == <<closing, sessions, opened, tab, active, ws, focus, dragged, overlay, nav,
            sftpPane, attached, client, attempts, forwardPane, forwardOf>>

Ids == 1 .. MaxSessions
Surface(kind) == [kind |-> kind, index |-> 0]
SessionTab(i) == [kind |-> "Session", index |-> i]
NoDrag == [session |-> 0, pane |-> 0, tab |-> 0]
Tile(tabs, shown) == [tabs |-> tabs, shown |-> shown]
Lesser(a, b) == IF a < b THEN a ELSE b
Greater(a, b) == IF a < b THEN b ELSE a

-----------------------------------------------------------------------------
(* The tiling, as pure functions of it.                                    *)

Leaves(w) == FlattenSeq([p \in DOMAIN w |-> w[p].tabs])

\* The elements of s that are in S, in their order (retain()).
Kept(s, S) ==
  LET kept[n \in 0 .. Len(s)] ==
        IF n = 0 THEN <<>>
        ELSE IF s[n] \in S THEN Append(kept[n - 1], s[n]) ELSE kept[n - 1]
  IN  kept[Len(s)]

\* Tiles left without a tab are pruned; the tab shown is clamped.
Clamped(tile) == [tile EXCEPT !.shown = Greater(1, Lesser(@, Len(tile.tabs)))]
Settled(w) ==
  LET kept == Kept([p \in DOMAIN w |-> p], {p \in DOMAIN w : w[p].tabs # <<>>})
  IN  [k \in DOMAIN kept |-> Clamped(w[kept[k]])]

\* Drops one session from the tiling and leaves the other indexes alone.
WithoutSession(w, i) ==
  Settled([p \in DOMAIN w |->
             [w[p] EXCEPT !.tabs = Kept(@, Int \ {i})]])

\* A mutant: every index moves down, those before the closed session too.
RemoveSessionShiftsAll(w, i) ==
  LET kept == WithoutSession(w, i)
  IN  [p \in DOMAIN kept |->
         [kept[p] EXCEPT !.tabs = [t \in DOMAIN @ |-> Greater(1, @[t] - 1)]]]

\* A mutant: the first session behind the closed one is not moved down.
RemoveSessionShort(w, i) ==
  LET kept == WithoutSession(w, i)
  IN  [p \in DOMAIN kept |->
         [kept[p] EXCEPT !.tabs =
            [t \in DOMAIN @ |-> IF @[t] > i + 1 THEN @[t] - 1 ELSE @[t]]]]

\* The same for a session that is closing: the indexes behind it move down.
RemoveSession(w, i) ==
  LET kept == WithoutSession(w, i)
  IN  [p \in DOMAIN kept |->
         [kept[p] EXCEPT !.tabs =
            [t \in DOMAIN @ |-> IF @[t] > i THEN @[t] - 1 ELSE @[t]]]]

\* A session becomes a tile of its own, before or after tile `target`.
SplitBeside(w, target, i, after) ==
  LET clean == WithoutSession(w, i)
      at    == Lesser(target, Len(clean)) + (IF after THEN 1 ELSE 0)
  IN  IF clean = <<>> THEN <<Tile(<<i>>, 1)>>
                      ELSE InsertAt(clean, at, Tile(<<i>>, 1))

\* A session becomes the last tab of tile `target`.  A target that went away
\* with the session's old tile takes nothing.
InsertTab(w, target, i) ==
  LET clean == WithoutSession(w, i)
  IN  IF clean = <<>> THEN <<Tile(<<i>>, 1)>>
      ELSE [p \in DOMAIN clean |->
              IF p = target
              THEN Tile(Append(clean[p].tabs, i), Len(clean[p].tabs) + 1)
              ELSE clean[p]]

\* A mutant: the dragged tab is put in place without being taken out.
MoveTabCopies(w, fromPane, fromTab, toPane, toPos) ==
  IF fromPane \notin DOMAIN w \/ fromTab \notin DOMAIN w[fromPane].tabs THEN w
  ELSE [w EXCEPT ![toPane].tabs = Append(@, w[fromPane].tabs[fromTab])]

\* The tab at (fromPane, fromTab) is taken out and put behind the tabs of
\* toPane, which is not renumbered when fromPane disappears.
MoveTab(w, fromPane, fromTab, toPane, toPos) ==
  IF fromPane \notin DOMAIN w \/ fromTab \notin DOMAIN w[fromPane].tabs THEN w
  ELSE
    LET i     == w[fromPane].tabs[fromTab]
        clean == Settled([w EXCEPT ![fromPane].tabs = RemoveAt(@, fromTab)])
        at(p) == Lesser(toPos, Len(clean[p].tabs) + 1)
    IN  IF clean = <<>> THEN <<Tile(<<i>>, 1)>>
        ELSE [p \in DOMAIN clean |->
                IF p = toPane THEN Tile(InsertAt(clean[p].tabs, at(p), i), at(p))
                              ELSE clean[p]]

\* A mutant: the surface keeps an index that moved down.
TabAfterCloseUnshifted(t, closed) ==
  IF t = SessionTab(closed) THEN Surface("Vaults") ELSE t

TabAfterClose(t, closed) ==
  CASE t.kind = "Session" /\ t.index = closed -> Surface("Vaults")
    [] t.kind = "Session" /\ t.index > closed -> SessionTab(t.index - 1)
    [] OTHER -> t

-----------------------------------------------------------------------------
(* What follows the focused session.                                       *)

Connected(list, i) ==
  i # 0 /\ i \in DOMAIN list /\ list[i].state = "Connected"

\* The identity of a session another pane may ride on: the local terminal has
\* no transport to lend.
Transport(list, i) ==
  IF Connected(list, i) /\ list[i].remote THEN list[i].id ELSE 0

\* Settled at the end of a handler, on the state the handler leaves: any change
\* of target drops the client and makes openings under way obsolete.
ReconcileSftp ==
  LET shown  == ~overlay' /\ tab'.kind = "Sftp"
      target == IF shown /\ Connected(sessions', active') THEN active' ELSE 0
      other  == Transport(sessions', target)
  IN  IF ~sftpPane' \/ attached = target
      THEN UNCHANGED <<attached, client, attempts>>
      ELSE /\ attached' = target
           /\ client' = 0
           /\ attempts' = {[of |-> a.of, live |-> FALSE] : a \in attempts}
                          \cup (IF other = 0 THEN {}
                                ELSE {[of |-> other, live |-> TRUE]})

\* A mutant: the pane is told of a session only when there is one.
ReconcileForwardKeeps ==
  forwardOf' = IF forwardPane' /\ Transport(sessions', active') # 0
               THEN Transport(sessions', active') ELSE forwardOf

ReconcileForward ==
  forwardOf' = IF forwardPane' THEN Transport(sessions', active') ELSE 0

Reconcile == ReconcileSftp /\ ReconcileForward

\* The steps of a handler that reaches neither pane.
LeavesPanes == UNCHANGED panes

SelectTab(t) ==
  LET seeded == IF t.kind = "Workspace" /\ Leaves(ws) = <<>> /\ active # 0
                THEN <<Tile(<<active>>, 1)>> ELSE ws
      at     == IF seeded # ws THEN 1 ELSE focus
      leaves == Leaves(seeded)
  IN  /\ overlay' = FALSE
      /\ tab' = t
      /\ sftpPane' = (sftpPane \/ t.kind = "Sftp")
      /\ ws' = seeded
      /\ focus' = at
      /\ active' = CASE t.kind = "Session" -> t.index
                     [] t.kind = "Workspace" /\ at \in DOMAIN leaves -> leaves[at]
                     [] OTHER -> active
      /\ UNCHANGED <<forwardPane, nav>>

\* The session the strip falls back to when a surface is closed.
Fallback == IF active = 0 THEN Surface("Vaults") ELSE SessionTab(active)

-----------------------------------------------------------------------------
(* Opening sessions.                                                       *)

\* Appends a session; the handlers go on from its index.
Push(remote) ==
  /\ opened < MaxSessions
  /\ opened' = opened + 1
  /\ sessions' = Append(sessions,
       [id |-> opened + 1, remote |-> remote,
        state |-> IF remote THEN "Connecting" ELSE "Connected"])

\* open_pane, open_local_terminal: a new session in a tab of its own.
OpenSession ==
  /\ \E remote \in BOOLEAN : Push(remote)
  /\ active' = Len(sessions')
  /\ tab' = SessionTab(Len(sessions'))
  /\ overlay' = FALSE
  /\ UNCHANGED <<ws, focus, dragged, nav, sftpPane, forwardPane>>
  /\ Reconcile

InWorkspace == tab.kind = "Workspace" /\ ~overlay

\* The + of a tile: a local terminal as a further tab of it.
AddTab(p) ==
  /\ InWorkspace /\ p \in DOMAIN ws
  /\ Push(FALSE)
  /\ ws' = InsertTab(ws, p, Len(sessions'))
  /\ focus' = p
  /\ active' = Len(sessions')
  /\ UNCHANGED <<tab, dragged, overlay, nav>> /\ LeavesPanes

\* The split buttons of a tile: a second session like the one it shows, or a
\* local terminal when the host or its password is gone.
SplitPane(p) ==
  /\ InWorkspace /\ p \in DOMAIN ws
  /\ \/ sessions[ws[p].tabs[ws[p].shown]].remote /\ Push(TRUE)
     \/ Push(FALSE)
  /\ ws' = InsertAt(ws, p + 1, Tile(<<Len(sessions')>>, 1))
  /\ focus' = p + 1
  /\ active' = Len(sessions')
  /\ tab' = Surface("Workspace")
  /\ UNCHANGED <<dragged, overlay, nav, sftpPane, forwardPane>>
  /\ Reconcile

\* Both ways of tiling two sessions end by selecting the workspace, which
\* focuses the session of the focused leaf.
TileTwo(first, second, at) ==
  /\ ws' = <<Tile(<<first>>, 1), Tile(<<second>>, 1)>>
  /\ focus' = at
  /\ active' = IF at = 1 THEN first ELSE second
  /\ tab' = Surface("Workspace")
  /\ dragged' = NoDrag
  /\ overlay' = FALSE
  /\ UNCHANGED <<nav, sftpPane, forwardPane>>
  /\ Reconcile

\* The strip's tile button, drawn when there are several sessions: the focused
\* session (the first one, without focus) beside `other`, or beside the first
\* session that is not it.
TileSideBySide(other) ==
  LET left == Greater(1, active)
      rest == {i \in DOMAIN sessions : i # left}
  IN  /\ other \in DOMAIN sessions /\ Len(sessions) > 1
      /\ UNCHANGED <<sessions, opened>>
      /\ TileTwo(left, IF other # left THEN other
                       ELSE CHOOSE i \in rest : \A j \in rest : i <= j, 2)

\* A drop on a session's own view: the dragged session beside the focused one;
\* a session dropped on itself gets a new local terminal beside it.
DropOnSession(after) ==
  LET current == Greater(1, active)
      tile(i) == IF after THEN TileTwo(current, i, 2) ELSE TileTwo(i, current, 1)
  IN  /\ tab.kind = "Session" /\ ~overlay /\ dragged.session # 0
      /\ IF dragged.session = current
         THEN Push(FALSE) /\ tile(Len(sessions'))
         ELSE UNCHANGED <<sessions, opened>> /\ tile(dragged.session)

-----------------------------------------------------------------------------
(* Dragging tabs.                                                          *)

\* A tab of the strip, or of a tile, is picked up.
DragTab ==
  /\ \/ \E i \in DOMAIN sessions : dragged' = [NoDrag EXCEPT !.session = i]
     \/ /\ InWorkspace
        /\ \E p \in DOMAIN ws : \E t \in DOMAIN ws[p].tabs :
             dragged' = [session |-> ws[p].tabs[t], pane |-> p, tab |-> t]
  /\ UNCHANGED <<sessions, opened, tab, active, ws, focus, overlay, nav>>
  /\ LeavesPanes

CancelDrag ==
  /\ dragged # NoDrag
  /\ dragged' = NoDrag
  /\ UNCHANGED <<sessions, opened, tab, active, ws, focus, overlay, nav>>
  /\ LeavesPanes

\* A drop on an edge of tile p.
DropOnEdge(p, after) ==
  /\ InWorkspace /\ p \in DOMAIN ws /\ dragged.session # 0
  /\ ws' = SplitBeside(ws, p, dragged.session, after)
  /\ dragged' = NoDrag
  /\ UNCHANGED <<sessions, opened, tab, active, focus, overlay, nav>>
  /\ LeavesPanes

\* A drop on the centre of tile p.
DropInPane(p) ==
  /\ InWorkspace /\ p \in DOMAIN ws /\ dragged.session # 0
  /\ ws' = IF dragged.pane # 0
           THEN MoveTab(ws, dragged.pane, dragged.tab, p, Len(ws[p].tabs) + 1)
           ELSE InsertTab(ws, p, dragged.session)
  /\ dragged' = NoDrag
  /\ UNCHANGED <<sessions, opened, tab, active, focus, overlay, nav>>
  /\ LeavesPanes

\* A tab of a tile, or the tile's header, is clicked.
FocusTab(p, t) ==
  /\ InWorkspace /\ p \in DOMAIN ws /\ t \in DOMAIN ws[p].tabs
  /\ ws' = [ws EXCEPT ![p].shown = t]
  /\ focus' = p
  /\ active' = ws[p].tabs[t]
  /\ UNCHANGED <<sessions, opened, tab, dragged, overlay, nav>> /\ LeavesPanes

-----------------------------------------------------------------------------
(* Closing.                                                                *)

\* close_session: the list, the surface, the focus and the tiling are repaired
\* one after the other; an index the list no longer has closes nothing.
CloseAt(i) ==
  /\ dragged' = NoDrag
  /\ UNCHANGED <<opened, overlay, nav>>
  /\ IF i \notin DOMAIN sessions
     THEN UNCHANGED <<sessions, tab, active, ws, focus>> /\ LeavesPanes
     ELSE
       LET t      == TabAfterClose(tab, i)
           kept   == RemoveSession(ws, i)
           leaves == Leaves(kept)
           at     == Greater(1, Lesser(focus, Len(kept)))
           on     == CASE active = i -> 0
                       [] active > i -> active - 1
                       [] OTHER -> active
           tiled  == t.kind = "Workspace"
       IN  /\ sessions' = RemoveAt(sessions, i)
           /\ ws' = kept /\ focus' = at
           /\ tab' = IF tiled /\ leaves = <<>> THEN Surface("Vaults") ELSE t
           /\ active' = IF tiled /\ leaves # <<>> THEN leaves[at] ELSE on
           /\ UNCHANGED <<sftpPane, forwardPane>>
           /\ Reconcile

\* The close button of a tab, wherever it is drawn, and the shortcut.
CloseSession(i) == i \in DOMAIN sessions /\ CloseAt(i)

\* The close button of a tile: the indexes the tile had when it was drawn are
\* closed, last tab first.
ClosePane(p) ==
  /\ InWorkspace /\ p \in DOMAIN ws
  /\ closing' = [t \in DOMAIN ws[p].tabs |->
                   [index |-> ws[p].tabs[t], id |-> sessions[ws[p].tabs[t]].id]]
  /\ UNCHANGED <<layout, overlay, nav>> /\ LeavesPanes

\* One turn of that loop; nothing else runs before it ends.
CloseNext ==
  /\ closing # <<>>
  /\ closing' = Front(closing)
  /\ CloseAt(Last(closing).index)

\* The close button of the workspace's own tab closes no session.
CloseWorkspace ==
  /\ ws # <<>>
  /\ overlay' = FALSE /\ tab' = Fallback /\ ws' = <<>>
  /\ UNCHANGED <<sessions, opened, active, focus, dragged, nav, sftpPane,
                 forwardPane>>
  /\ Reconcile

-----------------------------------------------------------------------------
(* Moving between surfaces.                                                *)

Select ==
  /\ \E t \in {Surface("Vaults"), Surface("Sftp"), Surface("NewTab"),
               Surface("Workspace"), Fallback}
              \cup {SessionTab(i) : i \in DOMAIN sessions} : SelectTab(t)
  /\ UNCHANGED <<sessions, opened, dragged>>
  /\ Reconcile

\* The new-tab shortcut changes the surface and tells no pane.
NewTab ==
  /\ tab' = Surface("NewTab")
  /\ UNCHANGED <<sessions, opened, active, ws, focus, dragged, overlay, nav>>
  /\ LeavesPanes

\* A mutant: the pane is made but not told of the session.
SelectNavUntold(forwarding) ==
  /\ nav' = forwarding
  /\ tab' = Surface("Vaults")
  /\ forwardPane' = (forwardPane \/ forwarding)
  /\ UNCHANGED <<sessions, opened, active, ws, focus, dragged, overlay,
                 sftpPane, attached, client, attempts, forwardOf>>

\* select_left_nav: the overlay stays, and only port forwarding is told.
SelectNav(forwarding) ==
  /\ nav' = forwarding
  /\ tab' = Surface("Vaults")
  /\ forwardPane' = (forwardPane \/ forwarding)
  /\ UNCHANGED <<sessions, opened, active, ws, focus, dragged, overlay,
                 sftpPane, attached, client, attempts>>
  /\ IF forwarding THEN ReconcileForward ELSE UNCHANGED forwardOf

\* show_overlay, in both directions.
ToggleOverlay ==
  /\ overlay' = ~overlay
  /\ UNCHANGED <<layout, nav, sftpPane, forwardPane, forwardOf>>
  /\ ReconcileSftp

-----------------------------------------------------------------------------
(* What happens by itself.                                                 *)

\* A session pane reports its state, or only that it has drawn something: the
\* observer copies the state and settles both panes.
PaneNotified(i) ==
  /\ i \in DOMAIN sessions
  /\ \E s \in CASE sessions[i].state = "Connecting" ->
                     {"Connecting", "Connected", "Ended"}
                [] sessions[i].state = "Connected" -> {"Connected", "Ended"}
                [] OTHER -> {"Ended"} :
       sessions' = [sessions EXCEPT ![i].state = s]
  /\ UNCHANGED <<opened, tab, active, ws, focus, dragged, overlay, nav,
                 sftpPane, forwardPane>>
  /\ Reconcile

\* A mutant: the generation is not compared.
OpenAnsweredLate(a, ok) ==
  /\ a \in attempts
  /\ attempts' = attempts \ {a}
  /\ client' = IF ok THEN a.of ELSE client
  /\ attached' = IF ~ok THEN 0 ELSE attached
  /\ UNCHANGED <<layout, overlay, nav, sftpPane, forwardPane, forwardOf>>

\* An SFTP opening answers.  One that was overtaken is ignored.
OpenAnswered(a, ok) ==
  /\ a \in attempts
  /\ attempts' = attempts \ {a}
  /\ client' = IF a.live /\ ok THEN a.of ELSE client
  /\ attached' = IF a.live /\ ~ok THEN 0 ELSE attached
  /\ UNCHANGED <<layout, overlay, nav, sftpPane, forwardPane, forwardOf>>

Init ==
  /\ closing = <<>>
  /\ sessions = <<>> /\ opened = 0
  /\ tab = Surface("Vaults") /\ active = 0
  /\ ws = <<>> /\ focus = 1
  /\ dragged = NoDrag /\ overlay = FALSE /\ nav = FALSE
  /\ sftpPane = FALSE /\ attached = 0 /\ client = 0 /\ attempts = {}
  /\ forwardPane = FALSE /\ forwardOf = 0

\* What the user does next.
UserStep ==
  \/ OpenSession \/ DragTab \/ CancelDrag
  \/ CloseWorkspace \/ Select \/ NewTab \/ ToggleOverlay
  \/ \E b \in BOOLEAN : SelectNav(b) \/ DropOnSession(b)
  \/ \E i \in Ids : TileSideBySide(i) \/ CloseSession(i)
  \/ \E p \in Ids : \/ AddTab(p) \/ SplitPane(p) \/ DropInPane(p)
                    \/ \E b \in BOOLEAN : DropOnEdge(p, b)
                    \/ \E t \in Ids : FocusTab(p, t)

Report ==
  \/ \E i \in Ids : PaneNotified(i)
  \/ \E a \in attempts : \E ok \in BOOLEAN : OpenAnswered(a, ok)

Next ==
  \/ closing = <<>> /\ (UserStep \/ Report) /\ UNCHANGED closing
  \/ closing = <<>> /\ \E p \in Ids : ClosePane(p)
  \/ CloseNext

Spec == Init /\ [][Next]_vars

-----------------------------------------------------------------------------
(* Properties.                                                             *)

TypeOK ==
  /\ sessions \in Seq([id : Ids, remote : BOOLEAN,
                       state : {"Connecting", "Connected", "Ended"}])
  /\ closing \in Seq([index : Ids, id : Ids])
  /\ opened \in 0 .. MaxSessions
  /\ tab \in [kind : {"Vaults", "Sftp", "NewTab", "Workspace", "Session"},
              index : 0 .. MaxSessions]
  /\ ws \in Seq([tabs : Seq(Ids), shown : Ids])
  /\ focus \in 1 .. MaxSessions
  /\ attempts \in SUBSET [of : Ids, live : BOOLEAN]
  /\ \A v \in {active, attached, client, forwardOf} : v \in 0 .. MaxSessions

Tiled == {Leaves(ws)[k] : k \in DOMAIN Leaves(ws)}

\* Whatever the order of opening, dragging, splitting and closing, every index
\* the window keeps names an open session, a tile shows a tab it has, no session
\* is tiled twice (a broadcast would type into it twice), and the terminal a
\* session tab shows is the focused one, so that what acts on the focused session
\* (snippets, search, the shortcuts) acts on the one in view.
IndexesLive ==
  /\ \A i \in {active, dragged.session, attached, tab.index} :
       i # 0 => i \in DOMAIN sessions
  /\ \A p \in DOMAIN ws : ws[p].shown \in DOMAIN ws[p].tabs
  /\ Tiled \subseteq DOMAIN sessions
  /\ Len(Leaves(ws)) = Cardinality(Tiled)
  /\ tab.kind = "Session" => tab.index = active

\* The SFTP pane never holds a client of a session other than the one it is
\* attached to, nor of one that ended or was closed, however late an opening
\* answers and however the indexes moved meanwhile.
ClientIsOfItsSession ==
  client # 0 => /\ attached \in DOMAIN sessions
                /\ Transport(sessions, attached) = client

\* While the port-forwarding pane is in view it forwards over the focused
\* session, and over nothing once that session ended or was closed.
ForwardsFollowFocus ==
  nav /\ tab.kind = "Vaults" => forwardOf = Transport(sessions, active)

TiledIds == [k \in DOMAIN Leaves(ws) |-> sessions[Leaves(ws)[k]].id]
OpenIds == {sessions[i].id : i \in DOMAIN sessions}

\* Closing sessions takes their own tiles away and no other: each tile left
\* shows the session it showed, in the order it had.
TilesKeepTheirSessions ==
  [][OpenIds' \subseteq OpenIds /\ OpenIds' # OpenIds
       => TiledIds' = Kept(TiledIds, OpenIds')]_vars

\* The "Close pane" button of a tile closes the sessions whose tabs the tile
\* had when it was pressed.
PaneClosesItsOwn ==
  [][CloseNext => OpenIds' = OpenIds \ {Last(closing).id}]_vars
=============================================================================
