-------------------------- MODULE SessionLifecycle --------------------------
(***************************************************************************)
(* What the user interface is promised about the events of one SSH         *)
(* session: the order in which it may see them, whatever the server, the   *)
(* network and the user do.  SshSession is shown to implement it.          *)
(***************************************************************************)
CONSTANT Events   (* every event a session may emit *)

VARIABLE seen     (* the last event the interface took, or "nothing" *)

(* The events that may follow each one.  Data repeats; Closed and Failed    *)
(* are last.  Data may be missing, and a failure may come at any stage      *)
(* before the end, or at once: then the error is all there is.              *)
Follows(e) ==
  CASE e = "nothing"        -> {"Connecting", "Error"}
    [] e = "Connecting"     -> {"Authenticating", "Error"}
    [] e = "Authenticating" -> {"Connected", "Error"}
    [] e \in {"Connected", "Data"} -> {"Data", "Closed", "Error"}
    [] e = "Error"          -> {"Failed"}
    [] OTHER                -> {}

TypeOK == seen \in Events \cup {"nothing"}

Init == seen = "nothing"
Next == seen' \in Follows(seen)

Spec == Init /\ [][Next]_seen
==============================================================================
