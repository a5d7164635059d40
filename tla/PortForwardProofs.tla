-------------------------- MODULE PortForwardProofs --------------------------
(***************************************************************************)
(* What PortForward guarantees for any number of forwards, whatever their  *)
(* addresses and ports, and event channels of any capacity: a forward that *)
(* stopped left nothing behind, every route has a task that will take it   *)
(* out again, and a remote forward that is up is reached.                  *)
(*                                                                         *)
(* NothingLeftBehind is not inductive.  It needs to know at which steps of *)
(* its task a forward may be in the route table, hold the connection       *)
(* handle or listen here, and which steps only a remote forward takes.     *)
(***************************************************************************)
EXTENDS PortForward, FiniteSetTheorems, TLAPS

(* A forward is started once, and what only the server can answer is asked *)
(* for remote forwards only.                                               *)
KindInv ==
  \A f \in Forwards :
    /\ pc[f] = "none" <=> kind[f] = "none"
    /\ pc[f] \in {"asking", "register", "cancel", "cancelling", "unroute"} => Remote(f)

(* The route of a forward is there from its insertion to its removal at    *)
(* most, whoever else inserts or removes one on the same socket.           *)
RouteInv ==
  \A f \in routes :
    Remote(f) /\ pc[f] \in {"announce", "run", "cancel", "cancelling", "unroute"}

(* The connection handle is locked by who waits for an answer under it, or *)
(* has to report a refusal first.                                          *)
LockInv == \A f \in lock : pc[f] \in {"asking", "failed", "cancelling"}

(* A local listener is open while its task accepts; what the server opens  *)
(* for a remote one may stay open when the server refuses to close it.     *)
BoundInv ==
  \A f \in bound : pc[f] # "none" /\ (Local(f) => pc[f] \in {"announce", "run"})

(* Two routes are never on one socket: the newest takes the place of the   *)
(* others.                                                                 *)
DistinctRoutes == \A f, g \in routes : SameSocket(f, g) => f = g

(* Once inserted, the route of a forward stays until its own task takes it *)
(* out, unless somebody else inserts or removes one on the same socket.    *)
Up == {"announce", "run", "cancel", "cancelling", "unroute"}

UpInv == \A f \in Forwards : Remote(f) /\ SoleUser(f) /\ pc[f] \in Up => f \in routes

ForwardInv ==
  TypeOK /\ KindInv /\ RouteInv /\ LockInv /\ BoundInv /\ DistinctRoutes /\ UpInv

------------------------------------------------------------------------------
(* Lemmas *)

(* An event is added to a channel that has a free slot.                    *)
LEMMA EmitFacts ==
  ASSUME TypeOK, NEW f \in Forwards, NEW e \in EventNames, Emit(f, e)
  PROVE  /\ events' \in [Forwards -> Seq(EventNames)]
         /\ \A g \in Forwards : Len(events'[g]) <= Capacity
<1>1. events \in [Forwards -> Seq(EventNames)] /\ \A g \in Forwards : Len(events[g]) <= Capacity
  BY DEF TypeOK
<1>2. events[f] \in Seq(EventNames) /\ Len(events[f]) < Capacity
  BY <1>1 DEF Emit
<1>3. Append(events[f], e) \in Seq(EventNames) /\ Len(Append(events[f], e)) = Len(events[f]) + 1
  BY <1>2
<1>4. Len(Append(events[f], e)) <= Capacity
  BY <1>2, <1>3, CapacityAssumption
<1> QED
  BY <1>1, <1>3, <1>4 DEF Emit

(* The lock has one holder or none. *)
LEMMA LockFacts ==
  ASSUME TypeOK, NEW f \in Forwards
  PROVE  /\ Cardinality({f}) <= 1 /\ Cardinality({}) <= 1
         /\ Cardinality(lock \ {f}) <= 1
<1>1. Cardinality({f}) = 1 /\ Cardinality({}) = 0
  BY FS_Singleton, FS_EmptySet
<1>2. IsFiniteSet(lock)
  BY ForwardsAssumption, FS_Subset DEF TypeOK
<1>3. IsFiniteSet(lock \ {f}) /\ Cardinality(lock \ {f}) <= Cardinality(lock)
  BY <1>2, FS_Subset
<1>4. Cardinality(lock) \in Nat /\ Cardinality(lock \ {f}) \in Nat
  BY <1>2, <1>3, FS_CardinalityType
<1> QED
  BY <1>1, <1>3, <1>4 DEF TypeOK

------------------------------------------------------------------------------
(* The steps: what the task of one forward does *)

(* A step of f that only moves its program counter, and the lock with it.  *)
LEMMA GoStep ==
  ASSUME ForwardInv, NEW f \in Forwards, NEW s \in Steps, Goto(f, s),
         UNCHANGED <<kind, handle, routes, opening, conns, refused>>,
         command' \in [Forwards -> BOOLEAN],
         events' \in [Forwards -> Seq(EventNames)],
         \A g \in Forwards : Len(events'[g]) <= Capacity,
         bound' \subseteq Forwards, lock' \subseteq Forwards, Cardinality(lock') <= 1,
         pc[f] # "none", s # "none",
         s \in {"asking", "register", "cancel", "cancelling", "unroute"} => Remote(f),
         f \in routes => s \in {"announce", "run", "cancel", "cancelling", "unroute"},
         \A g \in lock' : g \in lock \/ g = f,
         f \in lock' => s \in {"asking", "failed", "cancelling"},
         \A g \in bound' : g \in bound \/ g = f,
         f \in bound' => (Local(f) => s \in {"announce", "run"}),
         Remote(f) /\ s \in Up => pc[f] \in Up
  PROVE  ForwardInv'
<1>1. /\ pc \in [Forwards -> Steps] /\ pc'[f] = s
      /\ \A g \in Forwards : g # f => pc'[g] = pc[g]
      /\ pc' \in [Forwards -> Steps]
  BY DEF ForwardInv, TypeOK, Goto
<1>2. TypeOK'
  BY <1>1 DEF ForwardInv, TypeOK
<1>3. KindInv'
  BY <1>1 DEF ForwardInv, KindInv, Remote
<1>4. RouteInv'
  BY <1>1 DEF ForwardInv, RouteInv, Remote, TypeOK
<1>5. LockInv'
  BY <1>1, <1>2 DEF ForwardInv, LockInv, TypeOK
<1>6. BoundInv'
  BY <1>1, <1>2 DEF ForwardInv, BoundInv, Local, TypeOK
<1>7. DistinctRoutes'
  BY DEF ForwardInv, DistinctRoutes, SameSocket
<1>8. UpInv'
  BY <1>1 DEF ForwardInv, UpInv, Remote, SoleUser, SameSocket
<1> QED
  BY <1>2, <1>3, <1>4, <1>5, <1>6, <1>7, <1>8 DEF ForwardInv

(* A step that leaves the tasks alone. *)
LEMMA CalmStep ==
  ASSUME ForwardInv, UNCHANGED <<kind, pc, routes, bound, lock>>,
         handle' \in [Forwards -> {"none", "held", "dropped"}],
         command' \in [Forwards -> BOOLEAN],
         events' \in [Forwards -> Seq(EventNames)],
         \A g \in Forwards : Len(events'[g]) <= Capacity,
         opening' \subseteq Forwards,
         conns' \in [Forwards -> Nat], refused' \in [Forwards -> Nat]
  PROVE  ForwardInv'
<1>1. TypeOK'
  BY DEF ForwardInv, TypeOK
<1>2. KindInv' /\ RouteInv' /\ LockInv' /\ BoundInv'
  BY DEF ForwardInv, KindInv, RouteInv, LockInv, BoundInv, Local, Remote
<1>3. DistinctRoutes' /\ UpInv'
  BY DEF ForwardInv, DistinctRoutes, UpInv, Remote, SoleUser, SameSocket
<1> QED
  BY <1>1, <1>2, <1>3 DEF ForwardInv

(* Binding: here at once, on the server in two steps under the lock.       *)
LEMMA BindStep ==
  ASSUME ForwardInv, NEW f \in Forwards, Bind(f) \/ AskServer(f) \/ ServerAnswers(f)
  PROVE  ForwardInv'
<1> USE DEF ForwardInv, TypeOK, net, pane, peers, Up, Local, Remote
<1>1. f \notin routes /\ (pc[f] = "bind" => f \notin lock)
  BY DEF Bind, AskServer, ServerAnswers, RouteInv, LockInv
<1>2. CASE Bind(f)
  <2>1. f \in bound' => Goto(f, "announce")
    BY <1>2 DEF Bind, BoundInv
  <2>2. pc[f] = "bind" /\ (Goto(f, "failed") \/ Goto(f, "announce"))
    BY <1>2 DEF Bind
  <2> QED
    BY <1>1, <1>2, <2>1, <2>2, GoStep DEF Bind, Steps, BoundInv, Goto
<1>3. CASE AskServer(f)
  BY <1>1, <1>3, GoStep, LockFacts DEF AskServer, Free, Steps, BoundInv, Local, Remote
<1>4. CASE ServerAnswers(f)
  <2>1. Remote(f) /\ ~ Local(f)
    BY <1>4 DEF ServerAnswers, KindInv, Remote, Local
  <2> QED
    BY <1>1, <1>4, <2>1, GoStep, LockFacts DEF ServerAnswers, Steps
<1> QED
  BY <1>2, <1>3, <1>4

(* The route is inserted in place of any other on the socket.              *)
LEMMA InsertRouteStep ==
  ASSUME ForwardInv, NEW f \in Forwards, InsertRoute(f)
  PROVE  ForwardInv'
<1>1. /\ pc[f] = "register" /\ pc' = [pc EXCEPT ![f] = "announce"]
      /\ routes' = {g \in routes : ~ SameSocket(f, g)} \cup {f}
      /\ UNCHANGED <<kind, handle, command, events, bound, lock, opening, conns, refused>>
      /\ Remote(f)
  BY DEF InsertRoute, Goto, net, pane, peers, ForwardInv, KindInv
<1>2. /\ pc \in [Forwards -> Steps] /\ pc'[f] = "announce"
      /\ \A g \in Forwards : g # f => pc'[g] = pc[g]
      /\ pc' \in [Forwards -> Steps]
  BY <1>1 DEF ForwardInv, TypeOK, Steps
<1>3. TypeOK'
  BY <1>1, <1>2 DEF ForwardInv, TypeOK
<1>4. KindInv'
  BY <1>1, <1>2 DEF ForwardInv, KindInv, Remote
<1>5. RouteInv'
  BY <1>1, <1>2 DEF ForwardInv, RouteInv, Remote, TypeOK
<1>6. LockInv' /\ BoundInv'
  BY <1>1, <1>2 DEF ForwardInv, LockInv, BoundInv, Local, TypeOK
<1>7. DistinctRoutes'
  BY <1>1 DEF ForwardInv, DistinctRoutes, SameSocket
<1>8. UpInv'
  <2> SUFFICES ASSUME NEW g \in Forwards, Remote(g)', SoleUser(g)', pc'[g] \in Up
               PROVE  g \in routes'
    BY DEF UpInv
  <2>1. Remote(g) /\ SoleUser(g)
    BY <1>1 DEF Remote, SoleUser, SameSocket
  <2>2. CASE g = f
    BY <1>1, <1>2, <2>2 DEF Up
  <2>3. CASE g # f
    BY <1>1, <1>2, <2>1, <2>3 DEF ForwardInv, UpInv, SoleUser, SameSocket
  <2> QED
    BY <2>2, <2>3
<1> QED
  BY <1>3, <1>4, <1>5, <1>6, <1>7, <1>8 DEF ForwardInv

(* A task that announces its forward, or that ends, keeps the invariant.   *)
LEMMA RunStep ==
  ASSUME ForwardInv, NEW f \in Forwards, Announce(f) \/ Stopping(f) \/ AcceptFails(f)
  PROVE  ForwardInv'
<1> USE DEF ForwardInv, TypeOK, net, pane, peers, Up, Local, Remote
<1>1. f \notin lock
  BY DEF Announce, Stopping, AcceptFails, LockInv
<1>2. CASE Announce(f)
  <2>1. "Listening" \in EventNames /\ Emit(f, "Listening")
    BY <1>2 DEF Announce, EventNames
  <2>2. /\ events' \in [Forwards -> Seq(EventNames)]
        /\ \A g \in Forwards : Len(events'[g]) <= Capacity
    BY <2>1, EmitFacts
  <2> QED
    BY <1>1, <1>2, <2>2, GoStep DEF Announce, Steps
<1>3. CASE Stopping(f)
  <2>1. command' \in [Forwards -> BOOLEAN]
    BY <1>3 DEF Stopping
  <2>2. CASE Local(f)
    <3>1. f \notin routes
      BY <2>2 DEF RouteInv, Local, Remote
    <3> QED
      BY <1>1, <1>3, <2>1, <2>2, <3>1, GoStep DEF Stopping, Steps
  <2>3. CASE ~ Local(f)
    <3>1. Remote(f)
      BY <1>3, <2>3 DEF Stopping, KindInv, Local, Remote
    <3> QED
      BY <1>1, <1>3, <2>1, <2>3, <3>1, GoStep DEF Stopping, Steps
  <2> QED
    BY <2>2, <2>3
<1>4. CASE AcceptFails(f)
  <2>1. f \notin routes
    BY <1>4 DEF AcceptFails, RouteInv, Local, Remote
  <2> QED
    BY <1>1, <1>4, <2>1, GoStep DEF AcceptFails, Steps
<1> QED
  BY <1>2, <1>3, <1>4

(* So does the request that withdraws a remote forward, and its answer.    *)
LEMMA CancelStep ==
  ASSUME ForwardInv, NEW f \in Forwards, CancelForward(f) \/ ServerCancels(f)
  PROVE  ForwardInv'
<1> USE DEF ForwardInv, TypeOK, net, pane, peers, Up, Local, Remote
<1>1. Remote(f) /\ ~ Local(f)
  BY DEF CancelForward, ServerCancels, KindInv, Local, Remote
<1>2. CASE CancelForward(f)
  BY <1>1, <1>2, GoStep, LockFacts DEF CancelForward, Free, Steps
<1>3. CASE ServerCancels(f)
  BY <1>1, <1>3, GoStep, LockFacts DEF ServerCancels, Steps
<1> QED
  BY <1>2, <1>3

(* The route goes, and any other on the same socket with it.               *)
LEMMA RemoveRouteStep ==
  ASSUME ForwardInv, NEW f \in Forwards, RemoveRoute(f)
  PROVE  ForwardInv'
<1>1. /\ pc[f] = "unroute" /\ pc' = [pc EXCEPT ![f] = "stopping"]
      /\ routes' = {g \in routes : ~ SameSocket(f, g)} /\ f \notin routes'
      /\ UNCHANGED <<kind, handle, command, events, bound, lock, opening, conns, refused>>
      /\ Remote(f)
  BY DEF RemoveRoute, Goto, net, pane, peers, SameSocket, ForwardInv, KindInv
<1>2. /\ pc \in [Forwards -> Steps] /\ pc'[f] = "stopping"
      /\ \A g \in Forwards : g # f => pc'[g] = pc[g]
      /\ pc' \in [Forwards -> Steps]
  BY <1>1 DEF ForwardInv, TypeOK, Steps
<1>3. TypeOK'
  BY <1>1, <1>2 DEF ForwardInv, TypeOK
<1>4. KindInv'
  BY <1>1, <1>2 DEF ForwardInv, KindInv, Remote
<1>5. RouteInv'
  BY <1>1, <1>2 DEF ForwardInv, RouteInv, Remote, TypeOK
<1>6. LockInv' /\ BoundInv'
  BY <1>1, <1>2 DEF ForwardInv, LockInv, BoundInv, Local, Remote, TypeOK
<1>7. DistinctRoutes'
  BY <1>1 DEF ForwardInv, DistinctRoutes, SameSocket
<1>8. UpInv'
  <2> SUFFICES ASSUME NEW g \in Forwards, Remote(g)', SoleUser(g)', pc'[g] \in Up
               PROVE  g \in routes'
    BY DEF UpInv
  <2>1. Remote(g) /\ SoleUser(g)
    BY <1>1 DEF Remote, SoleUser, SameSocket
  <2>2. CASE g = f
    BY <1>1, <1>2, <2>2 DEF Up
  <2>3. CASE g # f
    BY <1>1, <1>2, <2>1, <2>3 DEF ForwardInv, UpInv, SoleUser, SameSocket
  <2> QED
    BY <2>2, <2>3
<1> QED
  BY <1>3, <1>4, <1>5, <1>6, <1>7, <1>8 DEF ForwardInv

(* The last words: who fails gives the lock back before it stops.          *)
LEMMA LastWordsStep ==
  ASSUME ForwardInv, NEW f \in Forwards, EmitFailed(f) \/ EmitStopped(f)
  PROVE  ForwardInv'
<1> USE DEF ForwardInv, TypeOK, net, pane, peers, Up, Local, Remote
<1>1. f \notin routes /\ (Local(f) => f \notin bound)
  BY DEF EmitFailed, EmitStopped, RouteInv, BoundInv
<1>2. CASE EmitFailed(f)
  <2>1. "Failed" \in EventNames /\ Emit(f, "Failed")
    BY <1>2 DEF EmitFailed, EventNames
  <2>2. /\ events' \in [Forwards -> Seq(EventNames)]
        /\ \A g \in Forwards : Len(events'[g]) <= Capacity
    BY <2>1, EmitFacts
  <2> QED
    BY <1>1, <1>2, <2>2, GoStep, LockFacts DEF EmitFailed, Steps
<1>3. CASE EmitStopped(f)
  <2>1. "Stopped" \in EventNames /\ Emit(f, "Stopped") /\ f \notin lock
    BY <1>3 DEF EmitStopped, EventNames, LockInv
  <2>2. /\ events' \in [Forwards -> Seq(EventNames)]
        /\ \A g \in Forwards : Len(events'[g]) <= Capacity
    BY <2>1, EmitFacts
  <2> QED
    BY <1>1, <1>3, <2>1, <2>2, GoStep DEF EmitStopped, Steps
<1> QED
  BY <1>2, <1>3

------------------------------------------------------------------------------
(* The steps: connections and the pane *)

(* What becomes of a connection through a forward is told at most. *)
LEMMA ConnectionStep ==
  ASSUME ForwardInv, NEW f \in Forwards,
         \/ Connect(f) \/ HangUp(f) \/ OpenDirect(f) \/ DirectAnswered(f)
         \/ TellRefused(f) \/ OpenForwarded(f)
  PROVE  ForwardInv'
<1>1. /\ UNCHANGED <<kind, pc, handle, command, routes, bound, lock>>
      /\ TypeOK /\ "ConnectionFailed" \in EventNames
  BY DEF Connect, HangUp, OpenDirect, DirectAnswered, TellRefused, OpenForwarded, pane, ForwardInv,
         EventNames
<1>2. conns' \in [Forwards -> Nat]
  <2>1. conns \in [Forwards -> Nat] /\ conns[f] \in Nat
    BY <1>1 DEF TypeOK
  <2>2. \/ UNCHANGED conns
        \/ conns' = [conns EXCEPT ![f] = conns[f] + 1]
        \/ conns[f] > 0 /\ conns' = [conns EXCEPT ![f] = conns[f] - 1]
    <3>1. CASE Connect(f) \/ HangUp(f) \/ OpenDirect(f)
      BY <3>1 DEF Connect, HangUp, OpenDirect, Taken
    <3>2. CASE DirectAnswered(f) \/ TellRefused(f) \/ OpenForwarded(f)
      BY <3>2 DEF DirectAnswered, TellRefused, OpenForwarded, Taken
    <3> QED
      BY <3>1, <3>2
  <2>3. conns[f] + 1 \in Nat /\ (conns[f] > 0 => conns[f] - 1 \in Nat)
    BY <2>1
  <2> QED
    BY <2>1, <2>2, <2>3
<1>3. refused' \in [Forwards -> Nat]
  <2>1. refused \in [Forwards -> Nat] /\ refused[f] \in Nat
    BY <1>1 DEF TypeOK
  <2>2. \/ UNCHANGED refused
        \/ refused' = [refused EXCEPT ![f] = refused[f] + 1]
        \/ refused[f] > 0 /\ refused' = [refused EXCEPT ![f] = refused[f] - 1]
    <3>1. CASE Connect(f) \/ HangUp(f) \/ OpenDirect(f)
      BY <3>1 DEF Connect, HangUp, OpenDirect
    <3>2. CASE DirectAnswered(f) \/ TellRefused(f) \/ OpenForwarded(f)
      BY <3>2 DEF DirectAnswered, TellRefused, OpenForwarded
    <3> QED
      BY <3>1, <3>2
  <2>3. refused[f] + 1 \in Nat /\ (refused[f] > 0 => refused[f] - 1 \in Nat)
    BY <2>1
  <2> QED
    BY <2>1, <2>2, <2>3
<1>4. opening' \subseteq Forwards
  BY <1>1 DEF Connect, HangUp, OpenDirect, DirectAnswered, TellRefused, OpenForwarded, TypeOK
<1>5. UNCHANGED events \/ \E g \in Forwards : Emit(g, "ConnectionFailed")
  <2>1. CASE OpenForwarded(f)
    BY <1>1, <2>1 DEF OpenForwarded, Resolve, TypeOK
  <2>2. CASE Connect(f) \/ HangUp(f) \/ OpenDirect(f) \/ DirectAnswered(f) \/ TellRefused(f)
    BY <2>2 DEF Connect, HangUp, OpenDirect, DirectAnswered, TellRefused
  <2> QED
    BY <2>1, <2>2
<1>6. /\ events' \in [Forwards -> Seq(EventNames)]
      /\ \A g \in Forwards : Len(events'[g]) <= Capacity
  <2>1. CASE UNCHANGED events
    BY <1>1, <2>1 DEF TypeOK
  <2>2. CASE \E g \in Forwards : Emit(g, "ConnectionFailed")
    BY <1>1, <2>2, EmitFacts
  <2> QED
    BY <1>5, <2>1, <2>2
<1> QED
  BY <1>1, <1>2, <1>3, <1>4, <1>6, CalmStep DEF TypeOK

(* A forward that is started has no route, no lock and no socket yet.      *)
LEMMA StartStep ==
  ASSUME ForwardInv, NEW f \in Forwards, NEW k \in {"Local", "Remote"}, Start(f, k)
  PROVE  ForwardInv'
<1>1. /\ pc[f] = "none" /\ pc' = [pc EXCEPT ![f] = "bind"] /\ kind' = [kind EXCEPT ![f] = k]
      /\ handle' = [handle EXCEPT ![f] = "held"]
      /\ UNCHANGED <<command, events, routes, bound, lock, opening, conns, refused>>
      /\ f \notin routes /\ f \notin lock /\ f \notin bound
  BY DEF Start, Goto, net, peers, ForwardInv, RouteInv, LockInv, BoundInv
<1>2. /\ pc'[f] = "bind" /\ kind'[f] = k /\ pc' \in [Forwards -> Steps]
      /\ \A g \in Forwards : g # f => pc'[g] = pc[g] /\ kind'[g] = kind[g]
  BY <1>1 DEF ForwardInv, TypeOK, Steps
<1>3. TypeOK'
  BY <1>1, <1>2 DEF ForwardInv, TypeOK
<1>4. KindInv'
  BY <1>1, <1>2 DEF ForwardInv, KindInv, Remote
<1>5. \A g \in routes \cup lock \cup bound : g \in Forwards /\ g # f
  BY <1>1 DEF ForwardInv, TypeOK
<1>6. RouteInv' /\ LockInv' /\ BoundInv'
  BY <1>1, <1>2, <1>5 DEF ForwardInv, RouteInv, LockInv, BoundInv, Local, Remote
<1>7. DistinctRoutes'
  BY <1>1, <1>2, <1>5 DEF ForwardInv, DistinctRoutes, SameSocket
<1>8. UpInv'
  <2> SUFFICES ASSUME NEW g \in Forwards, Remote(g)', SoleUser(g)', pc'[g] \in Up
               PROVE  g \in routes'
    BY DEF UpInv
  <2>1. g # f
    BY <1>2 DEF Up
  <2>2. Remote(g) /\ pc[g] \in Up /\ kind[f] # kind[g]
    BY <1>1, <1>2, <2>1 DEF Remote, ForwardInv, KindInv
  <2>3. SoleUser(g)
    BY <1>2, <2>1, <2>2 DEF SoleUser, SameSocket
  <2> QED
    BY <1>1, <2>2, <2>3 DEF ForwardInv, UpInv
<1> QED
  BY <1>3, <1>4, <1>6, <1>7, <1>8 DEF ForwardInv

(* What the pane does to a handle changes the handle and its command only. *)
LEMMA PaneStep ==
  ASSUME ForwardInv, NEW f \in Forwards, Stop(f) \/ Drop(f) \/ Watch(f)
  PROVE  ForwardInv'
<1>1. /\ UNCHANGED <<kind, pc, routes, bound, lock, opening, conns, refused>>
      /\ handle' \in [Forwards -> {"none", "held", "dropped"}]
      /\ command' \in [Forwards -> BOOLEAN]
  BY DEF Stop, Drop, Watch, net, peers, pane, ForwardInv, TypeOK
<1>2. /\ events' \in [Forwards -> Seq(EventNames)]
      /\ \A g \in Forwards : Len(events'[g]) <= Capacity
  <2>1. CASE Watch(f)
    <3>1. /\ events[f] \in Seq(EventNames) /\ events[f] # <<>> /\ Len(events[f]) <= Capacity
          /\ events' = [events EXCEPT ![f] = Tail(events[f])]
      BY <2>1 DEF Watch, ForwardInv, TypeOK
    <3>2. Tail(events[f]) \in Seq(EventNames) /\ Len(Tail(events[f])) = Len(events[f]) - 1
          /\ Len(events[f]) \in Nat
      BY <3>1
    <3>3. Len(Tail(events[f])) <= Capacity
      BY <3>1, <3>2, CapacityAssumption
    <3> QED
      BY <3>1, <3>2, <3>3 DEF ForwardInv, TypeOK
  <2>2. CASE Stop(f) \/ Drop(f)
    BY <2>2 DEF Stop, Drop, ForwardInv, TypeOK
  <2> QED
    BY <2>1, <2>2
<1>3. opening' \subseteq Forwards /\ conns' \in [Forwards -> Nat] /\ refused' \in [Forwards -> Nat]
  BY <1>1 DEF ForwardInv, TypeOK
<1> QED
  BY <1>1, <1>2, <1>3, CalmStep

(* Every step keeps the invariant.                                         *)
LEMMA ForwardStep == ForwardInv /\ [Next]_vars => ForwardInv'
<1> SUFFICES ASSUME ForwardInv, [Next]_vars PROVE ForwardInv'
  OBVIOUS
<1>1. CASE UNCHANGED vars
  BY <1>1, CalmStep DEF vars, ForwardInv, TypeOK
<1>2. ASSUME NEW f \in Forwards,
             OwnStep(f) \/ ServerAnswers(f) \/ ServerCancels(f) \/ AcceptFails(f)
      PROVE  ForwardInv'
  BY <1>2, BindStep, InsertRouteStep, RunStep, CancelStep, RemoveRouteStep, LastWordsStep
  DEF OwnStep
<1>3. ASSUME NEW f \in Forwards,
             \/ Connect(f) \/ HangUp(f) \/ OpenDirect(f) \/ DirectAnswered(f)
             \/ TellRefused(f) \/ OpenForwarded(f)
      PROVE  ForwardInv'
  BY <1>3, ConnectionStep
<1>4. ASSUME NEW f \in Forwards, \E k \in {"Local", "Remote"} : Start(f, k)
      PROVE  ForwardInv'
  BY <1>4, StartStep
<1>5. ASSUME NEW f \in Forwards, Stop(f) \/ Drop(f) \/ Watch(f)
      PROVE  ForwardInv'
  BY <1>5, PaneStep
<1> QED
  BY <1>1, <1>2, <1>3, <1>4, <1>5 DEF Next, ServerStep

------------------------------------------------------------------------------
(* The theorems *)

(* ForwardInv holds in every reachable state.                              *)
THEOREM Invariant == Spec => []ForwardInv
<1>1. Init => ForwardInv
  <2> SUFFICES ASSUME Init PROVE ForwardInv
    OBVIOUS
  <2>1. Cardinality({}) = 0 /\ <<>> \in Seq(EventNames) /\ Len(<<>>) = 0
    BY FS_EmptySet
  <2>2. TypeOK
    BY <2>1, CapacityAssumption, ConnsAssumption DEF Init, TypeOK, Steps
  <2>3. KindInv /\ RouteInv /\ LockInv /\ BoundInv /\ DistinctRoutes /\ UpInv
    BY DEF Init, KindInv, RouteInv, LockInv, BoundInv, DistinctRoutes, UpInv, Up
  <2> QED
    BY <2>2, <2>3 DEF ForwardInv
<1> QED
  BY <1>1, ForwardStep, PTL DEF Spec

(* Every variable keeps its type; in particular no event channel ever      *)
(* holds more than its capacity and the lock has one holder at most.       *)
THEOREM TypesKept == Spec => []TypeOK
<1>1. ForwardInv => TypeOK
  BY DEF ForwardInv
<1> QED
  BY <1>1, Invariant, PTL

(* A forward that says it stopped has left nothing behind: no route, no    *)
(* local listener, no lock; and every route has a task that takes it out.  *)
THEOREM NothingEverLeftBehind == Spec => []NothingLeftBehind
<1>1. ForwardInv => NothingLeftBehind
  BY DEF ForwardInv, TypeOK, RouteInv, LockInv, BoundInv, NothingLeftBehind, StoppedMeansGone,
         RoutesHaveOwners
<1> QED
  BY <1>1, Invariant, PTL

(* A remote forward that is up is reached, whatever else listens on its    *)
(* port or its address: under the address it asked for every channel is    *)
(* its own, under a canonical one that no route has, it is nobody else's.  *)
THEOREM UpIsAlwaysReached == Spec => []UpIsReached
<1>1. ForwardInv => UpIsReached
  <2> SUFFICES ASSUME ForwardInv, NEW f \in Forwards, Remote(f), SoleUser(f), pc[f] \in Up
               PROVE  /\ Resolve(Address[f], Port[f]) = {f}
                      /\ Wildcard \notin {Address[g] : g \in routes} =>
                           Resolve(Wildcard, Port[f]) \subseteq {f}
    BY DEF UpIsReached, Up
  <2> DEFINE onPort == {g \in routes : Port[g] = Port[f]}
  <2>0. f \in routes
    BY DEF ForwardInv, UpInv
  <2>1. {g \in routes : Address[g] = Address[f] /\ Port[g] = Port[f]} = {f}
    BY <2>0 DEF ForwardInv, DistinctRoutes, SameSocket, RouteInv, Remote
  <2>2. Cardinality(onPort) = 1 => onPort = {f}
    <3>1. IsFiniteSet(onPort) /\ f \in onPort
      BY <2>0, ForwardsAssumption, FS_Subset DEF ForwardInv, TypeOK
    <3> QED
      BY <3>1, FS_Singleton
  <2>3. ASSUME Wildcard \notin {Address[g] : g \in routes}
        PROVE  Resolve(Wildcard, Port[f]) \subseteq {f}
    <3>1. {g \in routes : Address[g] = Wildcard /\ Port[g] = Port[f]} = {}
      BY <2>3
    <3> QED
      BY <2>2, <3>1 DEF Resolve
  <2> QED
    BY <2>1, <2>3 DEF Resolve
<1> QED
  BY <1>1, Invariant, PTL
=============================================================================
