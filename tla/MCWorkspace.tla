---------------------------- MODULE MCWorkspace ----------------------------
(* Bounded instance of the application window for TLC.                     *)
EXTENDS Workspace

\* The window's parts meet only through the sessions, the surface and the
\* focus.  Tilings of several tiles and drags are explored before either pane
\* exists and with remote sessions still connecting; each pane without the
\* other, with up to two open sessions that connect and end, under a tiling of
\* one tile.
Tiling == dragged # NoDrag \/ Len(ws) > 1

Explored ==
  /\ Tiling => /\ ~sftpPane /\ ~forwardPane
               /\ \A i \in DOMAIN sessions :
                    sessions[i].state = IF sessions[i].remote THEN "Connecting"
                                                              ELSE "Connected"
  /\ ~(sftpPane /\ forwardPane)
  /\ sftpPane \/ forwardPane => Len(sessions) <= 2
  /\ overlay => sftpPane
  /\ ~sftpPane /\ ~forwardPane =>
       \A i \in DOMAIN sessions : sessions[i].state # "Ended"
  /\ Cardinality(attempts) <= 2
  /\ \A i \in DOMAIN sessions : sessions[i].id = 1 => sessions[i].remote
=============================================================================
