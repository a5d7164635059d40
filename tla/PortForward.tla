----------------------------- MODULE PortForward -----------------------------
(***************************************************************************)
(* The port forwards of one SSH connection (forward.rs), the part of the   *)
(* session handler that routes what the server opens for `-R` (session.rs  *)
(* server_channel_open_forwarded_tcpip), and the server.                   *)
(*                                                                         *)
(* A forward is "Local" or "Remote"; a dynamic forward binds, announces,   *)
(* accepts and stops as a local one does.  serve() is one task per forward *)
(* on a runtime with two threads, and one per accepted connection.  The    *)
(* handle's lock is held while the server is asked: to listen, to cease,   *)
(* or to open a channel for a connection.  None of these has a timeout,    *)
(* and nothing makes the server answer.                                    *)
(*                                                                         *)
(* Abstracted: the spec grammar, the SOCKS negotiation, the bytes piped,   *)
(* and bind port 0 (the port is the one that was finally bound).           *)
(***************************************************************************)
EXTENDS Naturals, Sequences, FiniteSets

CONSTANTS
  Forwards,     (* the forwards the user may start on this connection        *)
  Address,      (* the bind address of each                                  *)
  Port,         (* its bind port                                             *)
  Wildcard,     (* the address a server reports when it canonicalises        *)
  Capacity,     (* slots of a forward's event channel, 16 in forward.rs      *)
  MaxConns      (* connections being set up at a time; bounds the model      *)

ASSUME CapacityAssumption == Capacity \in Nat \ {0}
ASSUME ForwardsAssumption == IsFiniteSet(Forwards)
ASSUME ConnsAssumption    == MaxConns \in Nat

VARIABLES
  kind,         (* each forward's kind, "Local" or "Remote", once started    *)
  pc,           (* where the task of each forward is                         *)
  handle,       (* each Forward handle: "none", "held" or "dropped"          *)
  command,      (* whether Stop waits in each command channel (one slot)     *)
  events,       (* each event channel                                        *)
  routes,       (* the forwards with an entry in the route table             *)
  bound,        (* the forwards that listen, here or on the server           *)
  lock,         (* the forward whose task holds the connection handle, or {} *)
  opening,      (* the forward a connection of which holds it, or {}         *)
  conns,        (* connections that wait to be bridged                       *)
  refused       (* connections that failed, and the pane is to be told       *)

vars == <<kind, pc, handle, command, events, routes, bound, lock, opening, conns, refused>>

Steps == {"none", "bind", "asking", "register", "announce", "run", "cancel",
          "cancelling", "unroute", "failed", "stopping", "over"}
EventNames == {"Listening", "ConnectionFailed", "Failed", "Stopped"}

TypeOK ==
  /\ kind \in [Forwards -> {"none", "Local", "Remote"}]
  /\ pc \in [Forwards -> Steps]
  /\ handle \in [Forwards -> {"none", "held", "dropped"}]
  /\ command \in [Forwards -> BOOLEAN]
  /\ events \in [Forwards -> Seq(EventNames)]
  /\ \A f \in Forwards : Len(events[f]) <= Capacity
  /\ routes \subseteq Forwards
  /\ bound \subseteq Forwards
  /\ lock \subseteq Forwards /\ Cardinality(lock) <= 1
  /\ opening \subseteq Forwards
  /\ conns \in [Forwards -> Nat] /\ refused \in [Forwards -> Nat]

Init ==
  /\ kind = [f \in Forwards |-> "none"]
  /\ pc = [f \in Forwards |-> "none"]
  /\ handle = [f \in Forwards |-> "none"]
  /\ command = [f \in Forwards |-> FALSE]
  /\ events = [f \in Forwards |-> <<>>]
  /\ routes = {}
  /\ bound = {}
  /\ lock = {}
  /\ opening = {}
  /\ conns = [f \in Forwards |-> 0]
  /\ refused = [f \in Forwards |-> 0]

Local(f)  == kind[f] = "Local"
Remote(f) == kind[f] = "Remote"
SameSocket(f, g) == kind[f] = kind[g] /\ Address[f] = Address[g] /\ Port[f] = Port[g]

Goto(f, s) == pc' = [pc EXCEPT ![f] = s]

(* send().await on the event channel of f.  The receiver lives as long as   *)
(* the handle or the pane's watcher, which reads until Stopped.             *)
Emit(f, e) ==
  /\ Len(events[f]) < Capacity
  /\ events' = [events EXCEPT ![f] = Append(@, e)]

pane  == <<kind, handle, command>>
peers == <<opening, conns, refused>>
net   == <<bound, lock, peers>>

(* The connection handle can be locked. *)
Free == lock = {} /\ opening = {}

------------------------------------------------------------------------------
(* serve(): bind here, or ask the server to *)

(* Another process may hold the socket. *)
Bind(f) ==
  /\ pc[f] = "bind"
  /\ Local(f)
  /\ \/ Goto(f, "failed") /\ UNCHANGED bound
     \/ /\ ~ \E g \in bound : SameSocket(f, g)
        /\ Goto(f, "announce")
        /\ bound' = bound \cup {f}
  /\ UNCHANGED <<pane, events, routes, lock, peers>>

(* Mutant: the route is there before the server is asked. *)
AskServerRoutesFirst(f) ==
  /\ pc[f] = "bind"
  /\ Remote(f)
  /\ Free
  /\ lock' = {f}
  /\ routes' = routes \cup {f}
  /\ Goto(f, "asking")
  /\ UNCHANGED <<pane, events, bound, peers>>

AskServer(f) ==
  /\ pc[f] = "bind"
  /\ Remote(f)
  /\ Free
  /\ lock' = {f}
  /\ Goto(f, "asking")
  /\ UNCHANGED <<pane, events, routes, bound, peers>>

(* The server listens from here on; the route is not there yet.  A refusal  *)
(* is reported before the lock is released.                                 *)
ServerAnswers(f) ==
  /\ pc[f] = "asking"
  /\ \/ /\ ~ \E g \in bound : SameSocket(f, g)
        /\ bound' = bound \cup {f}
        /\ lock' = {}
        /\ Goto(f, "register")
     \/ Goto(f, "failed") /\ UNCHANGED <<bound, lock>>
  /\ UNCHANGED <<pane, events, routes, peers>>

(* A key of the table is a bind address and port, so the newest one wins. *)
InsertRoute(f) ==
  /\ pc[f] = "register"
  /\ routes' = {g \in routes : ~ SameSocket(f, g)} \cup {f}
  /\ Goto(f, "announce")
  /\ UNCHANGED <<pane, events, net>>

Announce(f) ==
  /\ pc[f] = "announce"
  /\ Emit(f, "Listening")
  /\ Goto(f, "run")
  /\ UNCHANGED <<pane, routes, net>>

(* Mutant: a handle that is dropped takes its Stop with it. *)
ToldToStopWhileHeld(f) == command[f] /\ handle[f] = "held"

(* commands.recv() returns on Stop and when the handle was dropped. *)
ToldToStop(f) == command[f] \/ handle[f] = "dropped"

Stopping(f) ==
  /\ pc[f] = "run"
  /\ ToldToStop(f)
  /\ command' = [command EXCEPT ![f] = FALSE]
  /\ IF Local(f)
       THEN Goto(f, "stopping") /\ bound' = bound \ {f}
       ELSE Goto(f, "cancel") /\ UNCHANGED bound
  /\ UNCHANGED <<kind, handle, events, routes, lock, peers>>

(* accept() failed: the loop ends and the listener is closed. *)
AcceptFails(f) ==
  /\ pc[f] = "run"
  /\ Local(f)
  /\ Goto(f, "stopping")
  /\ bound' = bound \ {f}
  /\ UNCHANGED <<pane, events, routes, lock, peers>>

CancelForward(f) ==
  /\ pc[f] = "cancel"
  /\ Free
  /\ lock' = {f}
  /\ Goto(f, "cancelling")
  /\ UNCHANGED <<pane, events, routes, bound, peers>>

(* Mutant: the route stays in the table. *)
ServerCancelsKeepsRoute(f) ==
  /\ pc[f] = "cancelling"
  /\ lock' = {}
  /\ bound' \in {bound, bound \ {f}}
  /\ Goto(f, "stopping")
  /\ UNCHANGED <<pane, events, routes, peers>>

(* The answer is ignored: a server that refuses goes on listening. *)
ServerCancels(f) ==
  /\ pc[f] = "cancelling"
  /\ lock' = {}
  /\ bound' \in {bound, bound \ {f}}
  /\ Goto(f, "unroute")
  /\ UNCHANGED <<pane, events, routes, peers>>

(* Mutant: what is on the port goes, whatever its address. *)
RemoveRouteOfPort(f) ==
  /\ pc[f] = "unroute"
  /\ routes' = {g \in routes : Port[g] # Port[f]}
  /\ Goto(f, "stopping")
  /\ UNCHANGED <<pane, events, net>>

RemoveRoute(f) ==
  /\ pc[f] = "unroute"
  /\ routes' = {g \in routes : ~ SameSocket(f, g)}
  /\ Goto(f, "stopping")
  /\ UNCHANGED <<pane, events, net>>

EmitFailed(f) ==
  /\ pc[f] = "failed"
  /\ Emit(f, "Failed")
  /\ Goto(f, "stopping")
  /\ lock' = lock \ {f}
  /\ UNCHANGED <<pane, routes, bound, peers>>

EmitStopped(f) ==
  /\ pc[f] = "stopping"
  /\ Emit(f, "Stopped")
  /\ Goto(f, "over")
  /\ UNCHANGED <<pane, routes, net>>

------------------------------------------------------------------------------
(* Connections *)

(* Connections of f that are not bridged or given up yet. *)
Pending(f) == conns[f] + refused[f] + (IF f \in opening THEN 1 ELSE 0)

(* A peer connects to the listener of f: here, accept() takes it; there,    *)
(* the server opens a channel to us.                                        *)
Connect(f) ==
  /\ f \in bound
  /\ Local(f) => pc[f] = "run"
  /\ Pending(f) < MaxConns
  /\ conns' = [conns EXCEPT ![f] = @ + 1]
  /\ UNCHANGED <<pc, pane, events, routes, bound, lock, opening, refused>>

Taken(f) == conns[f] > 0 /\ conns' = [conns EXCEPT ![f] = @ - 1]

(* A SOCKS client of a dynamic forward speaks nonsense: it is dropped. *)
HangUp(f) ==
  /\ Local(f)
  /\ Taken(f)
  /\ UNCHANGED <<pc, pane, events, routes, bound, lock, opening, refused>>

(* open_direct: the server is asked for a channel to the target, under the  *)
(* lock, even when the task of the forward has ended meanwhile.             *)
OpenDirect(f) ==
  /\ Local(f)
  /\ Taken(f)
  /\ Free
  /\ opening' = {f}
  /\ UNCHANGED <<pc, pane, events, routes, bound, lock, refused>>

(* It opens the channel, or it does not. *)
DirectAnswered(f) ==
  /\ f \in opening
  /\ opening' = {}
  /\ refused' \in {refused, [refused EXCEPT ![f] = @ + 1]}
  /\ UNCHANGED <<pc, pane, events, routes, bound, lock, conns>>

(* The lock is free by then. *)
TellRefused(f) ==
  /\ refused[f] > 0
  /\ refused' = [refused EXCEPT ![f] = @ - 1]
  /\ Emit(f, "ConnectionFailed")
  /\ UNCHANGED <<pc, pane, routes, bound, lock, opening, conns>>

(* Mutant: only the port is looked at. *)
ResolveByPort(address, port) ==
  LET onPort == {g \in routes : Port[g] = port}
  IN  IF Cardinality(onPort) = 1 THEN onPort ELSE {}

(* resolve(): the exact address and port, else the one route on that port. *)
Resolve(address, port) ==
  LET exact  == {g \in routes : Address[g] = address /\ Port[g] = port}
      onPort == {g \in routes : Port[g] = port}
  IN  IF exact # {} THEN exact
      ELSE IF Cardinality(onPort) = 1 THEN onPort ELSE {}

(* The server reports the address it was given, or a canonical one.  No     *)
(* route: the channel is rejected; otherwise it is piped to the target of   *)
(* the route, or that route's forward is told that its target failed.       *)
OpenForwarded(f) ==
  /\ Remote(f)
  /\ Taken(f)
  /\ \E address \in {Address[f], Wildcard} :
       LET found == Resolve(address, Port[f])
       IN  \/ UNCHANGED events
           \/ \E g \in found : Emit(g, "ConnectionFailed")
  /\ UNCHANGED <<pc, pane, routes, bound, lock, opening, refused>>

------------------------------------------------------------------------------
(* The pane *)

(* Session::forward hands the setup to the connection thread. *)
Start(f, k) ==
  /\ pc[f] = "none"
  /\ kind' = [kind EXCEPT ![f] = k]
  /\ handle' = [handle EXCEPT ![f] = "held"]
  /\ Goto(f, "bind")
  /\ UNCHANGED <<command, events, routes, net>>

(* try_send into the one slot; a second Stop is refused. *)
Stop(f) ==
  /\ handle[f] = "held"
  /\ pc[f] # "over"
  /\ ~ command[f]
  /\ command' = [command EXCEPT ![f] = TRUE]
  /\ UNCHANGED <<kind, pc, handle, events, routes, net>>

Drop(f) ==
  /\ handle[f] = "held"
  /\ handle' = [handle EXCEPT ![f] = "dropped"]
  /\ UNCHANGED <<kind, pc, command, events, routes, net>>

Watch(f) ==
  /\ events[f] # <<>>
  /\ events' = [events EXCEPT ![f] = Tail(@)]
  /\ UNCHANGED <<pc, pane, routes, net>>

------------------------------------------------------------------------------
(* What the task of a forward, and its connections, do by themselves. *)
OwnStep(f) ==
  \/ Bind(f) \/ AskServer(f) \/ InsertRoute(f) \/ Announce(f)
  \/ Stopping(f) \/ CancelForward(f) \/ RemoveRoute(f)
  \/ EmitFailed(f) \/ EmitStopped(f)

(* What only the server does. *)
ServerStep(f) == ServerAnswers(f) \/ ServerCancels(f) \/ DirectAnswered(f)

Next ==
  \E f \in Forwards :
    \/ OwnStep(f) \/ ServerStep(f) \/ AcceptFails(f)
    \/ Connect(f) \/ HangUp(f) \/ OpenDirect(f) \/ TellRefused(f) \/ OpenForwarded(f)
    \/ \E k \in {"Local", "Remote"} : Start(f, k)
    \/ Stop(f) \/ Drop(f) \/ Watch(f)

Spec == Init /\ [][Next]_vars

(* Tasks go on when they can; the lock is a fair tokio mutex and a sender   *)
(* waiting for a slot is woken in turn, hence strong fairness; the pane     *)
(* watches.  The server owes nothing.                                       *)
Fairness ==
  \A f \in Forwards :
    /\ SF_vars(OwnStep(f))
    /\ WF_vars(Watch(f))

FairSpec == Spec /\ Fairness

------------------------------------------------------------------------------
(* Properties *)

(* "Pipe it to the local target registered for this bind address/port;     *)
(* reject anything we did not ask for" (session.rs): a channel the server   *)
(* opens for the listener of one forward is never routed to the target of   *)
(* another.  It fails when two forwards share a port: the server listens    *)
(* before the route is inserted, and after it is removed when it refuses to *)
(* cease; meanwhile the other's route is the only one on the port.          *)
RightTarget ==
  \A f \in Forwards : Remote(f) /\ conns[f] > 0 =>
    \A address \in {Address[f], Wildcard} : Resolve(address, Port[f]) \subseteq {f}

(* Nobody else listens, or listened, on the socket of f. *)
SoleUser(f) == \A g \in Forwards \ {f} : ~ SameSocket(f, g)

(* A remote forward that is up is reached, whatever the others on its port  *)
(* or its address do: from before it says Listening until it has been       *)
(* withdrawn, its route is there, a channel opened under the address it     *)
(* asked for is its own, and one opened under a canonical address is at     *)
(* least nobody else's.  A forward that was stopped and started again on    *)
(* the same socket is excluded: the last step of the old one takes out the  *)
(* route of the new one.                                                    *)
UpIsReached ==
  \A f \in Forwards :
    Remote(f) /\ SoleUser(f) /\ pc[f] \in {"announce", "run", "cancel", "cancelling", "unroute"}
      => /\ Resolve(Address[f], Port[f]) = {f}
         /\ Wildcard \notin {Address[g] : g \in routes} => Resolve(Wildcard, Port[f]) \subseteq {f}

(* When a forward says that it stopped, nothing of it is left: no route, no *)
(* local listener, and no claim of its task to the lock.                    *)
StoppedMeansGone ==
  \A f \in Forwards : pc[f] \in {"stopping", "over"} =>
    f \notin routes /\ (Local(f) => f \notin bound) /\ f \notin lock

(* Every route has a task that will take it out again. *)
RoutesHaveOwners ==
  \A f \in routes : pc[f] \notin {"none", "bind", "failed", "stopping", "over"}

(* Nothing of a forward that ended is left, here or in the table.           *)
NothingLeftBehind == StoppedMeansGone /\ RoutesHaveOwners

(* The server leaves a request unanswered for ever. *)
Unanswered(f) ==
  <>[](pc[f] = "asking") \/ <>[](pc[f] = "cancelling") \/ <>[](f \in opening)

(* Stop works, and so does giving the handle up: a forward that is told, at *)
(* any stage and whatever the others do with the lock, comes to its end and *)
(* has said Stopped; unless the server leaves a request on the connection   *)
(* unanswered, be it another forward's.                                     *)
StopEnds ==
  \/ \E f \in Forwards : Unanswered(f)
  \/ \A f \in Forwards : ToldToStop(f) ~> pc[f] = "over"
==============================================================================
