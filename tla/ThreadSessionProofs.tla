------------------------- MODULE ThreadSessionProofs -------------------------
(***************************************************************************)
(* What the sessions with threads of their own guarantee, the streams they *)
(* and the forwards decode, and the paths that transfers join.             *)
(*                                                                         *)
(* Mosh and local sessions, whatever the capacities of their queues and    *)
(* however much is written: the peer's output comes whole, and then the    *)
(* end and nothing after it.                                               *)
(*                                                                         *)
(* The property compares two counters when the end is told, which is long  *)
(* after the reader saw it.  What makes it inductive is the way the end    *)
(* takes from one thread to the other: mosh's supervisor passes the join   *)
(* only when the reader is over, and the local one waits only for a nudge  *)
(* that the reader queued last.                                            *)
(*                                                                         *)
(* The second part is about Streams.  A fold of the community modules is a *)
(* recursive function over sets of indexes: the first lemmas show that it  *)
(* has a solution, so that a decoder is a run of turns.  Then a turn looks *)
(* only at the bytes in front of it; the decoder of a part stops on the    *)
(* way of that of the whole, or before the same error; and what two peers  *)
(* have left to say is a number that every turn lowers.                    *)
(*                                                                         *)
(* The third part is about paths.  A path's meaning is where a walk along  *)
(* it ends.  normalize() is a fold that keeps the meaning and whose result *)
(* has names only, behind a relative path's leading "..": so what join()   *)
(* accepts has the base as its beginning, or the base is the root or the   *)
(* working directory, and from there on every component leads down.        *)
(***************************************************************************)
EXTENDS ThreadSession, Streams, SequenceTheorems, FiniteSetTheorems, WellFoundedInduction, TLAPS

\* Every chunk written is in the pipe, in the reader's hands or queued; telnet
\* answers some itself, and a reader that nobody listens to loses one.
Counted ==
  LET held == IF rd = "data" THEN 1 ELSE 0
  IN /\ delivered + pipe + held <= produced
     /\ kind # "telnet" /\ handle = "held" => delivered + pipe + held = produced

\* The steps after a thread's first.
Later == SupSteps \ {"connect", "spawn"}

TypeInv == /\ TypeOK /\ Counted
           /\ sup \notin Later => rd = "none"

\* What the end of a process's session rests on.
EndInv ==
  kind # "telnet" =>
    /\ ~shut
    /\ sup \notin {"connect", "connectFailed", "announce"}
    /\ rd \notin {"reply", "tellClosed", "tellError"}
    /\ handle = "held" /\ rd \in {"eof", "done", "refused"} => peer = "ended" /\ pipe = 0
    /\ over => sup = "done" /\ (handle = "held" => rd \in RdOver)

\* mosh's supervisor has joined its reader when it goes on to the end.
JoinInv ==
  kind = "mosh" => /\ sup # "kill"
                   /\ sup \in {"unknown", "end", "done"} => rd \in RdOver

\* While the pane lives, only its reader's nudge makes the local session end.
NudgeInv ==
  kind = "local" =>
    /\ ~failed /\ sup \notin {"spawn", "spawnFailed", "report", "join", "unknown"}
    /\ handle = "held" =>
         /\ \A i \in DOMAIN cmds : cmds[i] # "stop" /\ (cmds[i] = "eof" => rd = "done")
         /\ sup # "reap"
         /\ sup \in {"wait", "end"} => rd = "done"

OverInv == EndInv /\ JoinInv /\ NudgeInv

(* What one more event does to the queue, or nobody's absence. *)
LEMMA EmitKeeps ==
  ASSUME TypeOK, NEW e \in EventNames, Emit(e)
  PROVE  events' \in Seq(EventNames) /\ Len(events') <= EventCap
<1>1. events \in Seq(EventNames) /\ Len(events) <= EventCap /\ Len(events) \in Nat
  BY DEF TypeOK
<1>2. Append(events, e) \in Seq(EventNames) /\ Len(Append(events, e)) = Len(events) + 1
  BY <1>1, AppendProperties
<1> QED
  BY <1>1, <1>2, CapsAssumption DEF Emit

(* A bounded queue takes one more if it has room. *)
LEMMA Queued ==
  ASSUME TypeOK, NEW c \in Commands, Len(cmds) < CmdCap
  PROVE  Append(cmds, c) \in Seq(Commands) /\ Len(Append(cmds, c)) <= CmdCap
<1>1. cmds \in Seq(Commands) /\ Len(cmds) \in Nat
  BY DEF TypeOK
<1>2. Append(cmds, c) \in Seq(Commands) /\ Len(Append(cmds, c)) = Len(cmds) + 1
  BY <1>1, AppendProperties
<1> QED
  BY <1>1, <1>2, CapsAssumption

(* What is left of a queue whose first element is taken. *)
LEMMA Taken ==
  ASSUME NEW T, NEW s \in Seq(T), s # <<>>
  PROVE  /\ Head(s) \in T /\ Tail(s) \in Seq(T) /\ Len(Tail(s)) < Len(s) /\ Len(s) \in Nat
         /\ Len(Tail(s)) \in Nat /\ 1 \in DOMAIN s /\ s[1] = Head(s)
         /\ \A i \in DOMAIN Tail(s) : i + 1 \in DOMAIN s /\ Tail(s)[i] = s[i + 1]
<1>1. /\ Tail(s) \in Seq(T) /\ Len(s) \in Nat /\ Len(s) # 0 /\ Len(Tail(s)) = Len(s) - 1
      /\ \A i \in 1 .. Len(Tail(s)) : Tail(s)[i] = s[i + 1]
  BY HeadTailProperties, EmptySeq
<1>2. Head(s) \in T /\ Head(s) = s[1]
  BY HeadTailProperties
<1>3. DOMAIN s = 1 .. Len(s) /\ DOMAIN Tail(s) = 1 .. Len(Tail(s))
  BY <1>1
<1> QED
  BY <1>1, <1>2, <1>3

(* Every step keeps the types and loses no chunk. *)
LEMMA TypeStep == TypeInv /\ [Next]_vars => TypeInv'
<1> SUFFICES ASSUME TypeInv, [Next]_vars
             PROVE  TypeInv'
  OBVIOUS
<1> USE MaxAssumption, CapsAssumption
<1>0. /\ events \in Seq(EventNames) /\ Len(events) <= EventCap /\ Len(events) \in Nat
      /\ cmds \in Seq(Commands) /\ Len(cmds) <= CmdCap /\ Len(cmds) \in Nat
  BY DEF TypeInv, TypeOK
<1>1. ASSUME NEW step \in SupSteps, NEW e \in EventNames, NEW next \in Later, Tell(step, e, next)
      PROVE  TypeInv'
  <2>1. events' \in Seq(EventNames) /\ Len(events') <= EventCap
    BY <1>1, EmitKeeps DEF TypeInv, Tell
  <2>2. over' \in BOOLEAN
    BY <1>1 DEF Tell, TypeInv, TypeOK
  <2> QED
    BY <1>1, <2>1, <2>2 DEF Tell, TypeInv, TypeOK, Counted, Later, userVars, peerVars
<1>2. CASE Announce \/ ConnectFails \/ SpawnFails \/ ReportFailure \/ ReportUnknown \/ End
  <2>1. {"Connected", "Error", "Failure", "Closed", "Exited"} \subseteq EventNames
    BY DEF EventNames, EndEvents
  <2>2. {"announce", "serve", "connectFailed", "done", "spawnFailed", "report", "join",
         "unknown", "end"} \subseteq SupSteps \cap Later
    BY DEF SupSteps, Later
  <2>3. (IF kind = "mosh" THEN "Exited" ELSE "Closed") \in EventNames
    BY <2>1
  <2> QED
    BY <1>1, <1>2, <2>1, <2>2, <2>3
       DEF Announce, ConnectFails, SpawnFails, ReportFailure, ReportUnknown, End
<1>3. CASE Connect \/ SpawnReader \/ Kill \/ Join
  <2>1. sup \in {"connect", "spawn"} => rd = "none"
    BY DEF TypeInv, Later
  <2> QED
    BY <1>3, <2>1 DEF Connect, SpawnReader, Kill, Join, JoinNobody, TypeInv, TypeOK, Counted, Later,
              SupSteps, RdSteps, userVars, peerVars, outVars
<1>4. CASE Wait
  <2>1. sup' \in {"end", "report", "join"}
    BY <1>4 DEF Wait
  <2> QED
    BY <1>4, <2>1 DEF Wait, TypeInv, TypeOK, Counted, SupSteps, Later, userVars, peerVars, outVars
<1>5. ASSUME Stopped \/ WriteFailed
      PROVE  sup' \in Later /\ shut' \in BOOLEAN /\ failed' \in BOOLEAN
  <2>1. /\ (shut \/ kind = "telnet") \in BOOLEAN /\ (kind = "mosh") \in BOOLEAN
        /\ failed \in BOOLEAN /\ kind \in {"telnet", "mosh", "local"}
    BY KindsAssumption DEF TypeInv, TypeOK
  <2>2. shut' \in BOOLEAN /\ failed' \in BOOLEAN
    BY <1>5, <2>1, Zenon DEF Stopped, WriteFailed
  <2>3. sup' \in {"done", "reap", "kill"}
    BY <1>5, <2>1 DEF Stopped, WriteFailed
  <2> QED
    BY <2>2, <2>3 DEF SupSteps, Later
<1>6. CASE Serve
  <2>1. cmds' \in Seq(Commands) /\ Len(cmds') <= CmdCap
    <3>1. CASE cmds # <<>> /\ cmds' = Tail(cmds)
      BY <1>0, <3>1, Taken
    <3> QED
      BY <1>0, <1>6, <3>1 DEF Serve, ServeUntilStop
  <2>2. sup' \in Later /\ shut' \in BOOLEAN /\ failed' \in BOOLEAN
    <3>1. CASE Stopped
      BY <1>5, <3>1
    <3>2. CASE sup' \in {"write", "serve", "wait"} /\ UNCHANGED <<shut, failed>>
      BY <3>2 DEF TypeInv, TypeOK, SupSteps, Later
    <3>3. Head(cmds) \in Commands \/ Stopped
      BY <1>0, <1>6, Taken DEF Serve, ServeUntilStop
    <3> QED
      BY <1>6, <3>1, <3>2, <3>3 DEF Serve, ServeUntilStop, Commands
  <2>3. UNCHANGED <<kind, status, rd, userVars, peer, pipe, produced, outVars>>
    BY <1>6 DEF Serve, ServeUntilStop
  <2> QED
    BY <2>1, <2>2, <2>3 DEF TypeInv, TypeOK, Counted, Later, userVars, outVars
<1>7. CASE WriteReturns \/ PeerTakes
  <2>1. sup' \in Later /\ shut' \in BOOLEAN /\ failed' \in BOOLEAN
    <3>1. CASE sup' = "serve" /\ UNCHANGED <<shut, failed>>
      BY <3>1 DEF TypeInv, TypeOK, SupSteps, Later
    <3> QED
      BY <1>5, <1>7, <3>1 DEF WriteReturns, PeerTakes, supVars, peerVars
  <2>2. UNCHANGED <<kind, status, rd, cmds, userVars, peer, pipe, produced, outVars>>
    BY <1>7 DEF WriteReturns, PeerTakes, peerVars
  <2> QED
    BY <2>1, <2>2 DEF TypeInv, TypeOK, Counted, Later, userVars, outVars
<1>8. CASE ReadData \/ ReadNegotiation \/ Reply \/ ReadEnd
  BY <1>8 DEF ReadData, ReadNegotiation, Reply, ReadEnd, ReadEndEarly, TypeInv, TypeOK, Counted, Later,
              RdSteps, rdFrame, supVars, userVars, peerVars, outVars
<1>9. CASE SendData
  <2>1. events' \in Seq(EventNames) /\ Len(events') <= EventCap
    BY <1>9, EmitKeeps DEF SendData, TypeInv, EventNames
  <2>2. \/ delivered' = delivered + 1 /\ rd' \in {"read", "reply"}
        \/ delivered' = delivered /\ rd' = "done" /\ handle # "held"
    BY <1>9 DEF SendData, Receiving
  <2>3. rd = "data" /\ UNCHANGED <<rdFrame, cmds, peerVars, over>>
    BY <1>9 DEF SendData
  <2>4. Counted'
    <3>1. /\ delivered \in Nat /\ pipe \in Nat /\ produced \in Nat /\ delivered + pipe + 1 <= produced
          /\ kind # "telnet" /\ handle = "held" => delivered + pipe + 1 = produced
      BY <2>3 DEF TypeInv, TypeOK, Counted, Later
    <3>2. rd' # "data" /\ UNCHANGED <<pipe, produced, kind, handle>>
      BY <2>2, <2>3 DEF rdFrame, userVars, peerVars
    <3> QED
      BY <2>2, <3>1, <3>2 DEF Counted
  <2>5. delivered' \in 0 .. produced' /\ rd' \in RdSteps /\ rd = "data"
    BY <2>2, <2>3, <2>4 DEF TypeInv, TypeOK, Counted, Later, RdSteps, peerVars
  <2> QED
    BY <2>1, <2>3, <2>4, <2>5 DEF TypeInv, TypeOK, Later, rdFrame, supVars, userVars, peerVars
<1>10. CASE TellEnd
  <2>1. events' \in Seq(EventNames) /\ Len(events') <= EventCap
    <3>1. (IF rd = "tellClosed" THEN "Closed" ELSE "Error") \in EventNames
      BY DEF EventNames, EndEvents
    <3> QED
      BY <1>10, <3>1, EmitKeeps DEF TellEnd, TypeInv
  <2> QED
    BY <1>10, <2>1 DEF TellEnd, TypeInv, TypeOK, Counted, Later, RdSteps, rdFrame, supVars, userVars, peerVars
<1>11. ASSUME NEW c \in Commands, Len(cmds) < CmdCap, cmds' = Append(cmds, c)
       PROVE  cmds' \in Seq(Commands) /\ Len(cmds') <= CmdCap
  BY <1>11, Queued DEF TypeInv
<1>12. CASE TellEof
  <2>1. cmds' \in Seq(Commands) /\ Len(cmds') <= CmdCap
    BY <1>0, <1>11, <1>12 DEF TellEof, Commands
  <2>2. rd' \in {"done", "refused"} /\ rd = "eof" /\ UNCHANGED <<rdFrame, peerVars, outVars>>
    BY <1>12 DEF TellEof
  <2> QED
    BY <2>1, <2>2 DEF TypeInv, TypeOK, Counted, Later, RdSteps, rdFrame, supVars, userVars, peerVars, outVars
<1>13. CASE SendInput \/ SendStop
  <2>1. PICK c \in Commands : Send(c)
    BY <1>13 DEF SendInput, SendStop, Commands
  <2>2. cmds' \in Seq(Commands) /\ Len(cmds') <= CmdCap
    BY <1>11, <2>1 DEF Send
  <2> QED
    BY <2>1, <2>2 DEF Send, TypeInv, TypeOK, Counted, Later, supVars, peerVars, outVars
<1>14. CASE DropHandle
  <2>1. cmds' \in Seq(Commands) /\ Len(cmds') <= CmdCap
    BY <1>0, <1>11, <1>14 DEF DropHandle, Commands
  <2> QED
    BY <1>14, <2>1 DEF DropHandle, TypeInv, TypeOK, Counted, Later, supVars, peerVars, outVars
<1>15. CASE Watch \/ WatchEnds
  <2>1. events' \in Seq(EventNames) /\ Len(events') <= EventCap
    <3>1. CASE events # <<>> /\ events' = Tail(events)
      BY <1>0, <3>1, Taken
    <3> QED
      BY <1>0, <1>15, <3>1 DEF Watch, WatchEnds, outVars
  <2>2. watch' \in {"off", "told", "on"}
    BY <1>15 DEF Watch, WatchEnds
  <2>3. UNCHANGED <<kind, supVars, rd, cmds, sent, handle, peerVars, delivered, over>>
    BY <1>15 DEF Watch, WatchEnds, outVars
  <2> QED
    BY <2>1, <2>2, <2>3 DEF TypeInv, TypeOK, Counted, Later, supVars, peerVars
<1>16. CASE Produce
  <2>1. /\ produced \in Nat /\ pipe \in 0 .. produced /\ produced < MaxOutput
        /\ produced' = produced + 1 /\ pipe' = pipe + 1 /\ delivered \in 0 .. produced
    BY <1>16 DEF Produce, TypeInv, TypeOK
  <2>2. /\ produced' \in 0 .. MaxOutput /\ pipe' \in 0 .. produced' /\ delivered \in 0 .. produced'
        /\ produced' - pipe' = produced - pipe
    BY <2>1
  <2>3. UNCHANGED <<kind, supVars, rd, cmds, userVars, peer, shut, outVars>>
    BY <1>16 DEF Produce
  <2> QED
    BY <2>1, <2>2, <2>3 DEF TypeInv, TypeOK, Counted, Later, supVars, userVars, outVars
<1>17. CASE PeerEnds \/ UNCHANGED vars
  BY <1>17 DEF PeerEnds, vars, TypeInv, TypeOK, Counted, Later, supVars, userVars, outVars
<1> QED
  BY <1>2, <1>3, <1>4, <1>6, <1>7, <1>8, <1>9, <1>10, <1>12, <1>13, <1>14, <1>15, <1>16, <1>17
     DEF Next, Supervise, ReadLoop

(* Every step keeps what the end rests on. *)
LEMMA OverStep == TypeInv /\ OverInv /\ [Next]_vars => OverInv'
<1> SUFFICES ASSUME TypeInv, OverInv, [Next]_vars
             PROVE  OverInv'
  OBVIOUS
<1> USE DEF OverInv, EndInv, JoinInv, NudgeInv
<1>0. /\ cmds \in Seq(Commands) /\ kind \in {"telnet", "mosh", "local"}
      /\ sup \notin Later => rd = "none"
  BY KindsAssumption DEF TypeInv, TypeOK
<1>1. CASE Announce \/ ConnectFails \/ SpawnFails \/ ReportFailure \/ ReportUnknown
  <2>1. UNCHANGED <<kind, status, failed, rd, cmds, userVars, peerVars, delivered>>
    BY <1>1 DEF Announce, ConnectFails, SpawnFails, ReportFailure, ReportUnknown, Tell
  <2>2. over \in BOOLEAN /\ "Failure" \notin EndEvents
    BY DEF TypeInv, TypeOK, EndEvents
  <2>3. CASE Announce \/ ConnectFails
    BY <1>0, <2>1, <2>3 DEF Announce, ConnectFails, Tell, userVars, peerVars
  <2>4. CASE SpawnFails \/ ReportFailure \/ ReportUnknown
    <3>1. over' = over
      BY <2>2, <2>4, Zenon DEF SpawnFails, ReportFailure, ReportUnknown, Tell
    <3>2. \/ sup = "spawnFailed" /\ sup' = "serve"
          \/ sup = "report" /\ sup' = "join"
          \/ sup = "unknown" /\ sup' = "end"
      BY <2>4 DEF SpawnFails, ReportFailure, ReportUnknown, Tell
    <3> QED
      BY <1>0, <2>1, <3>1, <3>2 DEF userVars, peerVars
  <2> QED
    BY <1>1, <2>3, <2>4
<1>2. CASE End
  BY <1>0, <1>2 DEF End, Tell, userVars, peerVars, RdOver
<1>3. CASE Connect \/ SpawnReader
  BY <1>0, <1>3 DEF Connect, SpawnReader, Later, userVars, peerVars, outVars, RdOver
<1>4. CASE Kill \/ Wait \/ Join
  <2>1. CASE Kill \/ Join
    BY <1>0, <2>1 DEF Kill, Join, JoinNobody, userVars, peerVars, outVars, RdOver
  <2>2. CASE Wait
    <3>1. /\ sup = "wait" /\ sup' \in {"end", "report", "join"} /\ (kind = "local" <=> sup' = "end")
          /\ UNCHANGED <<kind, failed, rd, cmds, userVars, peerVars, outVars>>
      <4>1. CASE kind = "local"
        BY <2>2, <4>1 DEF Wait
      <4>2. CASE kind # "local" /\ failed
        BY <2>2, <4>2 DEF Wait
      <4>3. CASE kind # "local" /\ ~failed
        BY <2>2, <4>3 DEF Wait
      <4> QED
        BY <4>1, <4>2, <4>3
    <3> QED
      BY <1>0, <3>1 DEF userVars, peerVars, outVars
  <2> QED
    BY <1>4, <2>1, <2>2
<1>a. ASSUME Stopped \/ WriteFailed
      PROVE  /\ kind # "telnet" => shut' = shut
             /\ kind = "local" /\ ~failed => ~failed'
             /\ Stopped => sup' \in {"done", "reap"} /\ (kind # "telnet" => sup' = "reap")
             /\ WriteFailed /\ kind = "mosh" => sup' = "reap"
             /\ WriteFailed /\ kind = "local" => sup' = "kill"
  <2>1. shut \in BOOLEAN
    BY DEF TypeInv, TypeOK
  <2>2. kind # "telnet" => shut' = shut
    BY <1>a, <2>1, Zenon DEF Stopped, WriteFailed
  <2> QED
    BY <1>a, <2>2 DEF Stopped, WriteFailed
<1>5. CASE Serve
  <2>1. UNCHANGED <<kind, status, rd, userVars, peer, pipe, produced, outVars>>
    BY <1>5 DEF Serve, ServeUntilStop
  <2>2. CASE ServeUntilStop
    <3>1. /\ Head(cmds) = cmds[1] /\ 1 \in DOMAIN cmds
          /\ \A i \in DOMAIN cmds' : i + 1 \in DOMAIN cmds /\ cmds'[i] = cmds[i + 1]
      BY <1>0, <2>2, Taken DEF ServeUntilStop
    <3>2. \/ sup' \in {"write", "serve"} /\ UNCHANGED <<shut, failed>>
          \/ cmds[1] = "eof" /\ sup' = "wait" /\ UNCHANGED <<shut, failed>>
          \/ cmds[1] = "stop" /\ Stopped
      <4>1. cmds[1] \in Commands
        BY <1>0, <3>1
      <4> QED
        BY <2>2, <3>1, <4>1 DEF ServeUntilStop, Commands
    <3>3. sup = "serve"
      BY <2>2 DEF ServeUntilStop
    <3> QED
      BY <1>0, <1>a, <2>1, <3>1, <3>2, <3>3 DEF userVars, outVars
  <2>3. CASE ~ServeUntilStop
    <3>1. sup = "serve" /\ handle = "dropped" /\ Stopped /\ UNCHANGED cmds
      BY <1>5, <2>3 DEF Serve
    <3> QED
      BY <1>0, <1>a, <2>1, <3>1 DEF userVars, outVars
  <2> QED
    BY <2>2, <2>3
<1>6. CASE WriteReturns \/ PeerTakes
  <2>1. /\ sup = "write" /\ UNCHANGED <<kind, rd, cmds, userVars, peer, pipe, produced, outVars>>
        /\ WriteFailed \/ (sup' = "serve" /\ UNCHANGED <<shut, failed>>)
    BY <1>6 DEF WriteReturns, PeerTakes, peerVars, supVars
  <2> QED
    BY <1>0, <1>a, <2>1 DEF userVars, outVars
<1>7. CASE ReadData \/ ReadNegotiation \/ Reply \/ ReadEnd \/ SendData \/ TellEnd
  BY <1>0, <1>7 DEF ReadData, ReadNegotiation, Reply, ReadEnd, ReadEndEarly, SendData, TellEnd,
                    Receiving, rdFrame, supVars, userVars, peerVars, outVars, RdOver
<1>8. CASE TellEof
  <2>1. ASSUME CommandsOpen, Len(cmds) < CmdCap, cmds' = Append(cmds, "eof")
        PROVE  \A i \in DOMAIN cmds' : cmds'[i] = "eof" \/ (i \in DOMAIN cmds /\ cmds'[i] = cmds[i])
    BY <1>0, <2>1
  <2> QED
    BY <1>0, <1>8, <2>1 DEF TellEof, rdFrame, supVars, userVars, peerVars, outVars, RdOver
<1>9. CASE SendInput \/ SendStop
  <2>1. PICK c \in Commands : Send(c) /\ c # "eof" /\ (kind = "local" => c # "stop")
    BY <1>9 DEF SendInput, SendStop, Commands
  <2>2. \A i \in DOMAIN cmds' : cmds'[i] = c \/ (i \in DOMAIN cmds /\ cmds'[i] = cmds[i])
    BY <1>0, <2>1 DEF Send
  <2> QED
    BY <1>0, <2>1, <2>2 DEF Send, supVars, peerVars, outVars
<1>10. CASE DropHandle
  BY <1>0, <1>10 DEF DropHandle, supVars, peerVars, outVars
<1>11. CASE Watch \/ WatchEnds \/ Produce \/ PeerEnds \/ UNCHANGED vars
  BY <1>0, <1>11 DEF Watch, WatchEnds, Produce, PeerEnds, vars, supVars, userVars, peerVars, outVars
<1> QED
  BY <1>1, <1>2, <1>3, <1>4, <1>5, <1>6, <1>7, <1>8, <1>9, <1>10, <1>11
     DEF Next, Supervise, ReadLoop

(* The sessions begin so, of each kind. *)
LEMMA InitHolds == Init => TypeInv /\ OverInv
<1> SUFFICES ASSUME Init PROVE TypeInv /\ OverInv
  OBVIOUS
<1>1. kind \in Kinds /\ kind \in {"telnet", "mosh", "local"}
  BY KindsAssumption DEF Init
<1>2. events \in Seq(EventNames) /\ Len(events) <= EventCap
  <2>1. <<>> \in Seq(EventNames) /\ Len(<<>>) = 0
    OBVIOUS
  <2>2. <<"Connected">> \in Seq(EventNames) /\ Len(<<"Connected">>) = 1
    BY DEF EventNames
  <2> QED
    BY <2>1, <2>2, CapsAssumption DEF Init
<1>3. cmds = <<>> /\ cmds \in Seq(Commands) /\ Len(cmds) <= CmdCap
  BY CapsAssumption DEF Init
<1>4. TypeInv
  <2>1. sup \in {"connect", "spawn", "serve"} /\ (sup = "serve" \/ rd = "none") /\ rd \in {"read", "none"}
    BY <1>1 DEF Init
  <2>2. TypeOK
    <3>1. /\ sent \in 0 .. MaxInput /\ produced \in 0 .. MaxOutput /\ pipe \in 0 .. produced
          /\ delivered \in 0 .. produced
      BY MaxAssumption DEF Init
    <3>2. /\ status \in {"none", "exited", "unknown"} /\ failed \in BOOLEAN /\ shut \in BOOLEAN
          /\ over \in BOOLEAN /\ handle \in {"held", "dropped"} /\ watch \in {"on", "told", "off"}
          /\ peer \in {"up", "killed", "ended"}
      BY DEF Init
    <3>3. sup \in SupSteps /\ rd \in RdSteps
      BY <2>1 DEF SupSteps, RdSteps
    <3> QED
      BY <1>1, <1>2, <1>3, <3>1, <3>2, <3>3 DEF TypeOK
  <2>3. Counted
    BY <2>1 DEF Init, Counted
  <2>4. sup \notin Later => rd = "none"
    BY <2>1 DEF Later, SupSteps
  <2> QED
    BY <2>2, <2>3, <2>4 DEF TypeInv
<1>5. OverInv
  BY <1>1, <1>3 DEF Init, OverInv, EndInv, JoinInv, NudgeInv
<1> QED
  BY <1>4, <1>5

(* The type invariant, for queues of any capacity and any amount of input and *)
(* output: neither queue ever holds more than it has room for.                *)
THEOREM TypesKept == Spec => []TypeOK
<1>1. Init => TypeInv
  BY InitHolds
<1>2. TypeInv => TypeOK
  BY DEF TypeInv
<1> QED
  BY <1>1, <1>2, TypeStep, PTL DEF Spec

(* Whatever the capacities of the queues and however they fill, a mosh or    *)
(* local session whose handle is held queues all output of its process, then *)
(* the end, and nothing after it.                                            *)
THEOREM OutputBeforeEnd == Spec => OutputThenEnd
<1>1. TypeInv /\ OverInv => OutputWhole
  <2> SUFFICES ASSUME TypeInv, OverInv, over, handle = "held", kind # "telnet", rd # "gaveUp"
               PROVE  delivered = produced /\ pipe = 0
    BY DEF OutputWhole
  <2>1. rd \in {"done", "refused"}
    BY DEF OverInv, EndInv, RdOver
  <2>2. pipe = 0
    BY <2>1 DEF OverInv, EndInv
  <2>3. delivered + pipe + 0 = produced /\ delivered \in Nat
    BY <2>1 DEF TypeInv, TypeOK, Counted
  <2> QED
    BY <2>2, <2>3
<1>2. TypeInv /\ OverInv /\ [Next]_vars => EndIsLast
  <2> SUFFICES ASSUME TypeInv, OverInv, [Next]_vars, over, kind # "telnet", handle = "held"
               PROVE  Len(events') <= Len(events)
    BY DEF EndIsLast
  <2>1. sup = "done" /\ rd \in RdOver /\ events \in Seq(EventNames) /\ Len(events) \in Nat
    BY DEF OverInv, EndInv, TypeInv, TypeOK
  <2>2. CASE Watch
    <3>1. events # <<>> /\ events' = Tail(events)
      BY <2>2 DEF Watch
    <3> QED
      BY <2>1, <3>1, Taken
  <2>3. CASE UNCHANGED events
    BY <2>1, <2>3
  <2>4. ~Supervise
    BY <2>1 DEF Supervise, Connect, ConnectFails, SpawnReader, SpawnFails, Announce, Serve,
                ServeUntilStop, WriteReturns, Kill, Wait, ReportFailure, Join, JoinNobody,
                ReportUnknown, End, Tell
  <2>5. ~ReadLoop
    BY <2>1 DEF ReadLoop, ReadData, ReadNegotiation, SendData, Reply, ReadEnd, ReadEndEarly,
                TellEnd, TellEof, RdOver
  <2> QED
    BY <2>2, <2>3, <2>4, <2>5 DEF Next, PeerTakes, SendInput, SendStop, Send, DropHandle,
       WatchEnds, Produce, PeerEnds, vars, outVars
<1>3. TypeInv /\ OverInv /\ [Next]_vars => (TypeInv /\ OverInv)'
  BY TypeStep, OverStep
<1> QED
  BY <1>1, <1>2, <1>3, InitHolds, PTL DEF Spec, OutputThenEnd

------------------------------------------------------------------------------
(* Streams: a stream read by folds *)

Less == OpToRel(<, Nat)

(* A set of naturals that is not empty has a least element.                *)
LEMMA LeastNatural ==
  ASSUME NEW S \in SUBSET Nat, S # {}
  PROVE  \E n \in S : \A m \in S : n <= m
<1>1. IsWellFoundedOn(Less, Nat)
  BY NatLessThanWellFounded DEF Less
<1>2. \A m \in Nat : \A n \in Nat : <<m, n>> \in Less <=> m < n
  BY DEF Less, OpToRel
<1> HIDE DEF Less
<1>3. PICK n \in S : \A m \in S : ~ (<<m, n>> \in Less)
  BY <1>1, WFMin, Zenon
<1>4. ASSUME NEW m \in S PROVE n <= m
  <2>1. m \in Nat /\ n \in Nat /\ ~ (<<m, n>> \in Less)
    BY <1>3
  <2>2. ~ (m < n)
    BY <1>2, <2>1
  <2> QED
    BY <2>1, <2>2
<1> QED
  BY <1>4

(* What holds of 0 and of the next of each holds of every natural.         *)
LEMMA Induction ==
  ASSUME NEW S, 0 \in S, \A n \in Nat : n \in S => n + 1 \in S
  PROVE  \A n \in Nat : n \in S
<1> SUFFICES ASSUME Nat \ S # {} PROVE FALSE
  OBVIOUS
<1>1. PICK n \in Nat \ S : \A m \in Nat \ S : n <= m
  BY LeastNatural
<1>2. n # 0 /\ n - 1 \in Nat /\ n - 1 < n
  BY <1>1
<1>3. n - 1 \in S
  BY <1>1, <1>2
<1> QED
  BY <1>1, <1>2, <1>3

(* Induction up to a bound, as it is used over the steps of a fold.          *)
LEMMA InductionTo ==
  ASSUME NEW N \in Nat, NEW S, 0 \in S, \A n \in 0 .. N - 1 : n \in S => n + 1 \in S
  PROVE  \A n \in 0 .. N : n \in S
<1> DEFINE T == {n \in Nat : n <= N => n \in S}
<1>1. 0 \in T
  OBVIOUS
<1>2. ASSUME NEW n \in Nat, n \in T PROVE n + 1 \in T
  BY <1>2
<1>3. \A n \in Nat : n \in T
  <2> HIDE DEF T
  <2> QED
    BY <1>1, <1>2, Induction
<1> QED
  BY <1>3

(* The greatest index, which a fold takes next.                              *)
LEMMA MaxOfPart ==
  ASSUME NEW n \in Nat, NEW s \in SUBSET (1 .. n), s # {}
  PROVE  Max(s) \in s /\ \A m \in s : m <= Max(s)
<1> DEFINE T == {n - m : m \in s}
<1>1. T \in SUBSET Nat /\ T # {}
  <2>1. \A m \in s : n - m \in Nat
    OBVIOUS
  <2> QED
    BY <2>1
<1>2. PICK k \in T : \A m \in T : k <= m
  <2> HIDE DEF T
  <2> QED
    BY <1>1, LeastNatural
<1>3. PICK x \in s : k = n - x
  BY <1>2
<1>4. \A m \in s : x >= m
  BY <1>2, <1>3
<1>5. \E y \in s : \A m \in s : y >= m
  BY <1>4
<1>6. Max(s) \in s /\ \A m \in s : Max(s) >= m
  BY <1>5 DEF Max
<1> QED
  BY <1>6

(* What FoldLeft's recursion says of the value f[s] of each part s of the    *)
(* indexes, where g is the step.                                             *)
FoldsBy(f, g, base, seq) ==
  \A s \in SUBSET (1 .. Len(seq)) :
    f[s] = IF s = {} THEN base ELSE g[<<f[s \ {Max(s)}], seq[Max(s)]>>]

(* The recursion of FoldLeft has a solution for any step that is a function. *)
LEMMA FoldRecursion ==
  ASSUME NEW T, NEW X, NEW g \in [T \X X -> T], NEW base \in T, NEW seq \in Seq(X)
  PROVE  \E f \in [SUBSET (1 .. Len(seq)) -> T] : FoldsBy(f, g, base, seq)
<1> DEFINE Solves(f, n) ==
             \A s \in SUBSET (1 .. n) :
               f[s] = IF s = {} THEN base ELSE g[<<f[s \ {Max(s)}], seq[Max(s)]>>]
           S == {n \in Nat : \E f \in [SUBSET (1 .. n) -> T] : Solves(f, n)}
<1>0. Len(seq) \in Nat /\ DOMAIN seq = 1 .. Len(seq) /\ \A i \in 1 .. Len(seq) : seq[i] \in X
  BY LenProperties
<1>1. 0 \in S
  <2> DEFINE f == [s \in SUBSET (1 .. 0) |-> base]
  <2>1. SUBSET (1 .. 0) = {{}}
    OBVIOUS
  <2>2. Solves(f, 0) /\ f \in [SUBSET (1 .. 0) -> T]
    BY <2>1
  <2> QED
    BY <2>2
<1>2. ASSUME NEW n \in 0 .. Len(seq) - 1, n \in S PROVE n + 1 \in S
  <2>1. PICK f \in [SUBSET (1 .. n) -> T] : Solves(f, n)
    BY <1>2
  <2>2. n \in Nat /\ n + 1 \in Nat /\ n + 1 \in 1 .. Len(seq)
    BY <1>0
  <2> DEFINE h == [s \in SUBSET (1 .. n + 1) |->
                     IF n + 1 \in s THEN g[<<f[s \ {n + 1}], seq[n + 1]>>] ELSE f[s]]
  <2>3. ASSUME NEW s \in SUBSET (1 .. n + 1), n + 1 \in s
        PROVE  /\ s # {} /\ Max(s) = n + 1
               /\ s \ {n + 1} \in SUBSET (1 .. n)
               /\ h[s \ {n + 1}] = f[s \ {n + 1}]
    <3>1. Max(s) \in s /\ n + 1 <= Max(s) /\ Max(s) \in 1 .. n + 1
      BY <2>2, <2>3, MaxOfPart
    <3>2. Max(s) = n + 1
      BY <3>1, <2>2
    <3>3. s \ {n + 1} \in SUBSET (1 .. n)
      <4>1. \A i \in s \ {n + 1} : i \in 1 .. n
        BY <2>2
      <4> QED
        BY <4>1
    <3>4. s \ {n + 1} \in SUBSET (1 .. n + 1) /\ n + 1 \notin s \ {n + 1}
      OBVIOUS
    <3>5. h[s \ {n + 1}] = f[s \ {n + 1}]
      BY <3>4
    <3> QED
      BY <2>3, <3>2, <3>3, <3>5
  <2>4. ASSUME NEW s \in SUBSET (1 .. n + 1), n + 1 \notin s, s # {}
        PROVE  /\ s \in SUBSET (1 .. n) /\ s \ {Max(s)} \in SUBSET (1 .. n)
               /\ h[s \ {Max(s)}] = f[s \ {Max(s)}]
    <3>1. \A i \in s : i \in 1 .. n
      BY <2>2, <2>4
    <3>2. s \ {Max(s)} \in SUBSET (1 .. n + 1) /\ n + 1 \notin s \ {Max(s)}
      BY <2>4
    <3>3. h[s \ {Max(s)}] = f[s \ {Max(s)}]
      BY <3>2
    <3> QED
      BY <3>1, <3>3
  <2>5. ASSUME NEW s \in SUBSET (1 .. n + 1)
        PROVE  h[s] = (IF s = {} THEN base ELSE g[<<h[s \ {Max(s)}], seq[Max(s)]>>]) /\ h[s] \in T
    <3>1. CASE n + 1 \in s
      <4>1. h[s] = g[<<f[s \ {n + 1}], seq[n + 1]>>]
        BY <3>1
      <4>2. f[s \ {n + 1}] \in T /\ seq[n + 1] \in X
        BY <2>3, <3>1, <2>2, <1>0
      <4> HIDE DEF h
      <4> QED
        BY <3>1, <2>3, <4>1, <4>2
    <3>2. CASE n + 1 \notin s /\ s # {}
      <4>1. h[s] = f[s] /\ s \in SUBSET (1 .. n)
        BY <3>2, <2>4
      <4>2. f[s] = g[<<f[s \ {Max(s)}], seq[Max(s)]>>]
        BY <2>1, <3>2, <4>1
      <4> HIDE DEF h
      <4> QED
        BY <3>2, <2>4, <4>1, <4>2
    <3>3. CASE s = {}
      <4>1. h[s] = f[s] /\ s \in SUBSET (1 .. n)
        BY <3>3
      <4>2. f[s] = base
        BY <2>1, <3>3, <4>1
      <4> QED
        BY <3>3, <4>1, <4>2
    <3> QED
      BY <3>1, <3>2, <3>3
  <2>6. h \in [SUBSET (1 .. n + 1) -> T] /\ Solves(h, n + 1)
    <3>1. h = [s \in SUBSET (1 .. n + 1) |-> h[s]]
      OBVIOUS
    <3> HIDE DEF h
    <3> QED
      BY <2>5, <3>1
  <2> HIDE DEF h, Solves
  <2> QED
    BY <2>2, <2>6
<1>3. Len(seq) \in S
  <2> HIDE DEF S
  <2>1. \A n \in 0 .. Len(seq) : n \in S
    BY <1>0, <1>1, <1>2, InductionTo
  <2> QED
    BY <1>0, <2>1
<1> QED
  BY <1>0, <1>3 DEF FoldsBy

(* The index taken last of the first k, and those that are left.             *)
LEMMA FirstIndexes ==
  ASSUME NEW n \in Nat, NEW k \in 1 .. n
  PROVE  /\ 1 .. k \in SUBSET (1 .. n) /\ 1 .. k # {}
         /\ Max(1 .. k) = k /\ (1 .. k) \ {Max(1 .. k)} = 1 .. k - 1
<1>1. 1 .. k \in SUBSET (1 .. k) /\ 1 .. k # {} /\ k \in 1 .. k /\ k \in Nat
  OBVIOUS
<1>2. Max(1 .. k) \in 1 .. k /\ k <= Max(1 .. k)
  BY <1>1, MaxOfPart
<1>3. Max(1 .. k) = k /\ (1 .. k) \ {k} = 1 .. k - 1
  BY <1>2
<1> QED
  BY <1>3

(* The states of a scan of a subnegotiation. *)
ScanOuts == {"more", "pending", "complete", "malformed", "tooLarge"}
ScanStates == [at : Nat \ {0}, payload : Seq(Byte), out : ScanOuts]
ScanStart == [at |-> 4, payload |-> <<>>, out |-> "more"]

(* A step of the scan leaves a scan.                                         *)
LEMMA ScanStepTypes ==
  ASSUME NEW input \in Seq(Byte), NEW s \in ScanStates
  PROVE  ScanStep(input, s) \in ScanStates
<1>1. CASE s.out = "more" /\ s.at <= Len(input)
  <2> DEFINE b == input[s.at]
             payload == Append(s.payload, b)
  <2>1. b \in Byte /\ payload \in Seq(Byte)
    BY <1>1, ElementOfSeq, AppendProperties DEF ScanStates
  <2>2. \A w \in {1, 2} : s.at + w \in Nat \ {0}
    BY DEF ScanStates
  <2> HIDE DEF payload
  <2>3. payload = Append(s.payload, b)
    BY DEF payload
  <2> QED
    BY <1>1, <2>1, <2>2, <2>3 DEF ScanStep, ScanStates, ScanOuts
<1>2. CASE ~(s.out = "more" /\ s.at <= Len(input))
  BY <1>2 DEF ScanStep, ScanStates, ScanOuts
<1> QED
  BY <1>1, <1>2

(* Scan() as the states it goes through. *)
LEMMA ScanRuns ==
  ASSUME NEW input \in Seq(Byte)
  PROVE  \E run \in [0 .. Len(input) -> ScanStates] :
           /\ run[0] = ScanStart
           /\ \A k \in 1 .. Len(input) : run[k] = ScanStep(input, run[k - 1])
           /\ Scan(input) = run[Len(input)]
<1> DEFINE n == Len(input)
           seq == [i \in 1 .. n |-> i]
           g == [x \in ScanStates \X Nat |-> ScanStep(input, x[1])]
           Solves(f) == f = [s \in SUBSET (1 .. n) |->
                               IF s = {} THEN ScanStart ELSE ScanStep(input, f[s \ {Max(s)}])]
           fold == CHOOSE f : Solves(f)
           run == [k \in 0 .. n |-> fold[1 .. k]]
<1>1. /\ n \in Nat /\ seq \in Seq(Nat) /\ Len(seq) = n /\ DOMAIN seq = 1 .. n
      /\ \A i \in 1 .. n : seq[i] \in Nat
  BY DEF ScanStates, ScanStart, ScanOuts
<1>0. ScanStart \in ScanStates
  BY DEF ScanStates, ScanStart, ScanOuts
<1>4. Scan(input) = fold[1 .. n]
  BY <1>1 DEF Scan, FoldLeft, MapThenFoldSet, ScanStart
<1> HIDE DEF seq, n
<1>2. \E f : Solves(f)
  <2>1. g \in [ScanStates \X Nat -> ScanStates]
    BY ScanStepTypes DEF n
  <2> HIDE DEF g
  <2>2. PICK f \in [SUBSET (1 .. Len(seq)) -> ScanStates] : FoldsBy(f, g, ScanStart, seq)
    BY <1>0, <1>1, <2>1, FoldRecursion
  <2>3. ASSUME NEW s \in SUBSET (1 .. n), s # {}
        PROVE  g[<<f[s \ {Max(s)}], seq[Max(s)]>>] = ScanStep(input, f[s \ {Max(s)}])
    <3>1. Max(s) \in 1 .. n /\ s \ {Max(s)} \in SUBSET (1 .. n)
      BY <1>1, <2>3, MaxOfPart
    <3>2. f[s \ {Max(s)}] \in ScanStates /\ seq[Max(s)] \in Nat
      BY <1>1, <2>2, <3>1
    <3> QED
      BY <3>2 DEF g
  <2>4. f = [s \in SUBSET (1 .. n) |->
               IF s = {} THEN ScanStart ELSE ScanStep(input, f[s \ {Max(s)}])]
    BY <1>1, <2>2, <2>3 DEF FoldsBy
  <2> QED
    BY <2>4
<1>3. Solves(fold)
  BY <1>2
<1> HIDE DEF fold
<1>5. run[0] = ScanStart /\ \A k \in 1 .. n : run[k] = ScanStep(input, run[k - 1])
  <2>1. 1 .. 0 = {} /\ {} \in SUBSET (1 .. n)
    OBVIOUS
  <2>2. run[0] = ScanStart
    BY <1>1, <1>3, <2>1
  <2>3. ASSUME NEW k \in 1 .. n PROVE run[k] = ScanStep(input, run[k - 1])
    <3>1. /\ 1 .. k # {} /\ 1 .. k \in SUBSET (1 .. n)
          /\ (1 .. k) \ {Max(1 .. k)} = 1 .. k - 1
      BY <1>1, FirstIndexes
    <3>2. fold[1 .. k] = ScanStep(input, fold[(1 .. k) \ {Max(1 .. k)}])
      BY <1>3, <3>1
    <3>3. fold[1 .. k] = ScanStep(input, fold[1 .. k - 1])
      BY <3>1, <3>2
    <3>4. k \in 0 .. n /\ k - 1 \in 0 .. n
      BY <1>1
    <3> QED
      BY <3>3, <3>4
  <2> QED
    BY <2>2, <2>3
<1> HIDE DEF run
<1>6. \A k \in 0 .. n : run[k] \in ScanStates
  <2> DEFINE S == {k \in 0 .. n : run[k] \in ScanStates}
  <2>1. 0 \in S
    BY <1>0, <1>1, <1>5
  <2>2. \A k \in 0 .. n - 1 : k \in S => k + 1 \in S
    BY <1>1, <1>5, ScanStepTypes
  <2>3. \A k \in 0 .. n : k \in S
    <3> HIDE DEF S
    <3> QED
      BY <1>1, <2>1, <2>2, InductionTo
  <2> QED
    BY <2>3
<1>7. run \in [0 .. n -> ScanStates] /\ Scan(input) = run[n]
  BY <1>1, <1>4, <1>6 DEF run
<1> QED
  BY <1>5, <1>7 DEF n

(* What is left behind the first n elements of two sequences in a row.       *)
LEMMA RestOfConcat ==
  ASSUME NEW S, NEW s \in Seq(S), NEW t \in Seq(S), NEW n \in 0 .. Len(s)
  PROVE  /\ SubSeq(s, n + 1, Len(s)) \in Seq(S)
         /\ Len(SubSeq(s, n + 1, Len(s))) = Len(s) - n
         /\ SubSeq(s \o t, n + 1, Len(s \o t)) = SubSeq(s, n + 1, Len(s)) \o t
<1> DEFINE a == SubSeq(s, n + 1, Len(s))
           b == SubSeq(s \o t, n + 1, Len(s \o t))
<1>1. Len(s) \in Nat /\ Len(t) \in Nat /\ \A i \in 1 .. Len(s) : s[i] \in S
  BY LenProperties, ElementOfSeq
<1>2. /\ a \in Seq(S) /\ Len(a) = Len(s) - n
      /\ \A i \in 1 .. Len(s) - n : a[i] = s[n + i]
  BY <1>1, SubSeqProperties
<1>3. /\ s \o t \in Seq(S) /\ Len(s \o t) = Len(s) + Len(t)
      /\ \A i \in 1 .. Len(s) + Len(t) : (s \o t)[i] = IF i <= Len(s) THEN s[i] ELSE t[i - Len(s)]
      /\ \A i \in 1 .. Len(s) + Len(t) : (s \o t)[i] \in S
  BY <1>1, ConcatProperties, ElementOfSeq
<1>4. /\ b \in Seq(S) /\ Len(b) = Len(s) + Len(t) - n
      /\ \A i \in 1 .. Len(s) + Len(t) - n : b[i] = (s \o t)[n + i]
  BY <1>1, <1>3, SubSeqProperties
<1> HIDE DEF a, b
<1>5. /\ a \o t \in Seq(S) /\ Len(a \o t) = Len(s) - n + Len(t)
      /\ \A i \in 1 .. Len(s) - n + Len(t) : (a \o t)[i] = IF i <= Len(s) - n THEN a[i] ELSE t[i - (Len(s) - n)]
  <2>1. /\ a \o t \in Seq(S) /\ Len(a \o t) = Len(a) + Len(t)
        /\ \A i \in 1 .. Len(a) + Len(t) : (a \o t)[i] = IF i <= Len(a) THEN a[i] ELSE t[i - Len(a)]
    BY <1>2, ConcatProperties
  <2> QED
    BY <1>2, <2>1
<1>6. ASSUME NEW i \in 1 .. Len(s) - n + Len(t) PROVE b[i] = (a \o t)[i]
  <2>1. n + i \in 1 .. Len(s) + Len(t) /\ b[i] = (s \o t)[n + i]
    BY <1>1, <1>4
  <2>2. CASE i <= Len(s) - n
    BY <1>1, <1>2, <1>3, <1>5, <2>1, <2>2
  <2>3. CASE i > Len(s) - n
    <3>1. (s \o t)[n + i] = t[n + i - Len(s)]
      BY <1>1, <1>3, <2>1, <2>3
    <3>2. (a \o t)[i] = t[i - (Len(s) - n)]
      BY <1>1, <1>5, <2>3
    <3>3. n + i - Len(s) = i - (Len(s) - n)
      BY <1>1
    <3> QED
      BY <2>1, <3>1, <3>2, <3>3
  <2>4. i <= Len(s) - n \/ i > Len(s) - n
    BY <1>1
  <2> QED
    BY <2>2, <2>3, <2>4, Zenon
<1>7. b = a \o t
  <2>1. Len(b) = Len(a \o t)
    BY <1>1, <1>4, <1>5
  <2> QED
    BY <1>4, <1>5, <1>6, <2>1, SeqEqual
<1> QED
  BY <1>2, <1>7 DEF a, b

(* What every state of a scan satisfies: how far k steps took it, and what   *)
(* its end says of the bytes.                                                *)
Scanning(input, k, s) ==
  /\ s.out = "more" =>
       /\ s.at >= 4 + k /\ (k > 0 => s.at <= Len(input) + 1)
       /\ Len(s.payload) <= MaxSubnegotiation /\ s.at <= 4 + 2 * Len(s.payload)
  /\ s.out = "pending" => Len(input) <= 4 + 2 * MaxSubnegotiation
  /\ s.out = "complete" => s.at - 1 \in 5 .. Len(input)

(* A step of the scan keeps its count of the bytes: it never passes the      *)
(* limit.                                                                    *)
LEMMA ScanStepCounts ==
  ASSUME NEW input \in Seq(Byte), NEW k \in Nat, NEW s \in ScanStates, Scanning(input, k, s)
  PROVE  Scanning(input, k + 1, ScanStep(input, s))
<1>0. Len(input) \in Nat /\ MaxSubnegotiation \in Nat /\ s.at \in Nat /\ Len(s.payload) \in Nat
  BY LenProperties, SubnegotiationAssumption DEF ScanStates
<1>1. CASE s.out = "more" /\ s.at <= Len(input)
  <2> DEFINE b == input[s.at]
             payload == Append(s.payload, b)
  <2>1. b \in Byte /\ payload \in Seq(Byte) /\ Len(payload) = Len(s.payload) + 1
    BY <1>1, ElementOfSeq, AppendProperties DEF ScanStates
  <2> HIDE DEF payload
  <2>2. payload = Append(s.payload, b)
    BY DEF payload
  <2> HIDE DEF b
  <2>3. b = input[s.at]
    BY DEF b
  <2>4. CASE b # "IAC"
    BY <1>0, <1>1, <2>1, <2>2, <2>3, <2>4 DEF ScanStep, ScanStates, Scanning
  <2>5. CASE b = "IAC" /\ s.at = Len(input)
    BY <1>0, <1>1, <2>1, <2>2, <2>3, <2>5 DEF ScanStep, ScanStates, Scanning
  <2>6. CASE b = "IAC" /\ s.at # Len(input) /\ input[s.at + 1] = "SE"
    BY <1>0, <1>1, <2>1, <2>2, <2>3, <2>6 DEF ScanStep, ScanStates, Scanning
  <2>7. CASE b = "IAC" /\ s.at # Len(input) /\ input[s.at + 1] = "IAC"
    BY <1>0, <1>1, <2>1, <2>2, <2>3, <2>7 DEF ScanStep, ScanStates, Scanning
  <2>8. CASE b = "IAC" /\ s.at # Len(input) /\ input[s.at + 1] \notin {"SE", "IAC"}
    BY <1>0, <1>1, <2>1, <2>2, <2>3, <2>8 DEF ScanStep, ScanStates, Scanning
  <2> QED
    BY <2>4, <2>5, <2>6, <2>7, <2>8
<1>2. CASE s.out = "more" /\ ~(s.at <= Len(input))
  BY <1>0, <1>2 DEF ScanStep, ScanStates, Scanning
<1>3. CASE s.out # "more"
  BY <1>0, <1>3 DEF ScanStep, ScanStates, Scanning
<1> QED
  BY <1>1, <1>2, <1>3

(* A scan ends with a verdict on what it read: a payload whose end is there, *)
(* an error, or bytes that are missing and then few are there.               *)
LEMMA ScanEnds ==
  ASSUME NEW input \in Seq(Byte)
  PROVE  /\ Scan(input) \in ScanStates
         /\ Len(input) > 0 => Scan(input).out # "more"
         /\ Scan(input).out = "pending" => Len(input) <= 4 + 2 * MaxSubnegotiation
         /\ Scan(input).out = "complete" => Scan(input).at - 1 \in 5 .. Len(input)
<1>1. PICK run \in [0 .. Len(input) -> ScanStates] :
        /\ run[0] = ScanStart
        /\ \A k \in 1 .. Len(input) : run[k] = ScanStep(input, run[k - 1])
        /\ Scan(input) = run[Len(input)]
  BY ScanRuns
<1>2. Len(input) \in Nat
  BY LenProperties
<1> DEFINE S == {k \in 0 .. Len(input) : Scanning(input, k, run[k])}
<1>3. 0 \in S
  BY <1>1, <1>2, SubnegotiationAssumption DEF Scanning, ScanStart
<1>4. \A k \in 0 .. Len(input) - 1 : k \in S => k + 1 \in S
  <2> SUFFICES ASSUME NEW k \in 0 .. Len(input) - 1, k \in S PROVE k + 1 \in S
    OBVIOUS
  <2>1. run[k + 1] = ScanStep(input, run[k]) /\ k \in Nat /\ k + 1 \in 0 .. Len(input)
    BY <1>1, <1>2
  <2> QED
    BY <1>1, <2>1, ScanStepCounts
<1>5. Len(input) \in S
  <2> HIDE DEF S
  <2>1. \A k \in 0 .. Len(input) : k \in S
    BY <1>2, <1>3, <1>4, InductionTo
  <2> QED
    BY <1>2, <2>1
<1>6. Scanning(input, Len(input), Scan(input)) /\ Scan(input) \in ScanStates
  BY <1>1, <1>2, <1>5
<1> QED
  BY <1>2, <1>6 DEF Scanning, ScanStates

(* More bytes do not change a verdict.                                       *)
LEMMA ScanStepOfMore ==
  ASSUME NEW input \in Seq(Byte), NEW more \in Seq(Byte), NEW s \in ScanStates,
         ScanStep(input, s).out # "pending"
  PROVE  ScanStep(input \o more, s) = ScanStep(input, s)
<1>1. /\ Len(input) \in Nat /\ Len(more) \in Nat /\ Len(input \o more) = Len(input) + Len(more)
      /\ \A i \in 1 .. Len(input) : (input \o more)[i] = input[i]
  BY LenProperties, ConcatProperties
<1>2. CASE s.out = "more" /\ s.at < Len(input)
  <2>1. (input \o more)[s.at] = input[s.at] /\ (input \o more)[s.at + 1] = input[s.at + 1]
    BY <1>1, <1>2 DEF ScanStates
  <2> QED
    BY <1>1, <1>2, <2>1 DEF ScanStep, ScanStates
<1>3. CASE s.out = "more" /\ s.at = Len(input)
  <2>1. (input \o more)[s.at] = input[s.at]
    BY <1>1, <1>3 DEF ScanStates
  <2>2. input[s.at] # "IAC"
    BY <1>1, <1>3 DEF ScanStep, ScanStates
  <2> QED
    BY <1>1, <1>3, <2>1, <2>2 DEF ScanStep, ScanStates
<1>4. CASE s.out = "more" /\ s.at > Len(input)
  BY <1>1, <1>4 DEF ScanStep, ScanStates
<1>5. CASE s.out # "more"
  BY <1>5 DEF ScanStep
<1> QED
  BY <1>1, <1>2, <1>3, <1>4, <1>5 DEF ScanStates

(* A scan that has ended has ended the same way when more bytes follow.      *)
LEMMA ScanOfMore ==
  ASSUME NEW input \in Seq(Byte), NEW more \in Seq(Byte),
         Scan(input).out \notin {"more", "pending"}
  PROVE  Scan(input \o more) = Scan(input)
<1> DEFINE whole == input \o more
           n == Len(input)
           m == Len(whole)
<1>1. n \in Nat /\ m \in Nat /\ n <= m /\ whole \in Seq(Byte)
  BY LenProperties, ConcatProperties
<1>2. PICK run \in [0 .. n -> ScanStates] :
        /\ run[0] = ScanStart
        /\ \A k \in 1 .. n : run[k] = ScanStep(input, run[k - 1])
        /\ Scan(input) = run[n]
  BY ScanRuns
<1>3. PICK long \in [0 .. m -> ScanStates] :
        /\ long[0] = ScanStart
        /\ \A k \in 1 .. m : long[k] = ScanStep(whole, long[k - 1])
        /\ Scan(whole) = long[m]
  BY <1>1, ScanRuns
<1> HIDE DEF whole, m, n
<1> DEFINE S == {k \in 0 .. m : IF k <= n THEN run[k].out = "pending" \/ long[k] = run[k]
                                ELSE run[n].out = "pending" \/ run[n].out = "more" \/ long[k] = run[n]}
<1>4. 0 \in S
  BY <1>1, <1>2, <1>3
<1>5. \A k \in 0 .. m - 1 : k \in S => k + 1 \in S
  <2> SUFFICES ASSUME NEW k \in 0 .. m - 1, k \in S PROVE k + 1 \in S
    OBVIOUS
  <2>0. long[k + 1] = ScanStep(whole, long[k]) /\ k + 1 \in 0 .. m /\ k \in 0 .. m
    BY <1>1, <1>3
  <2>1. CASE k < n
    <3>1. run[k + 1] = ScanStep(input, run[k]) /\ run[k] \in ScanStates
      BY <1>1, <1>2, <2>1
    <3>2. CASE run[k].out = "pending"
      <4>1. run[k + 1] = run[k]
        BY <3>1, <3>2 DEF ScanStep
      <4> QED
        BY <1>1, <2>0, <2>1, <3>2, <4>1
    <3>3. CASE long[k] = run[k] /\ run[k + 1].out # "pending"
      <4>1. long[k + 1] = run[k + 1]
        BY <2>0, <3>1, <3>3, ScanStepOfMore DEF whole
      <4> QED
        BY <1>1, <2>0, <2>1, <4>1
    <3> QED
      BY <1>1, <2>0, <2>1, <3>2, <3>3
  <2>2. CASE k >= n
    <3>1. run[n].out = "pending" \/ run[n].out = "more" \/ long[k] = run[n]
      BY <1>1, <2>2
    <3>2. CASE long[k] = run[n] /\ run[n].out # "more"
      <4>1. long[k + 1] = run[n]
        BY <2>0, <3>2 DEF ScanStep
      <4> QED
        BY <1>1, <2>0, <2>2, <4>1
    <3> QED
      BY <1>1, <2>0, <2>2, <3>1, <3>2
  <2> QED
    BY <1>1, <2>1, <2>2
<1>6. m \in S
  <2> HIDE DEF S
  <2>1. \A k \in 0 .. m : k \in S
    BY <1>1, <1>4, <1>5, InductionTo
  <2> QED
    BY <1>1, <2>1
<1> QED
  BY <1>1, <1>2, <1>3, <1>6 DEF whole

Errors == {"none", "command", "malformed", "tooLarge"}
Readings == [local : SUBSET AllowLocal, remote : SUBSET AllowRemote, input : Seq(Byte),
             data : Seq(Byte), replies : Seq(Byte), subs : Seq(Byte \X Seq(Byte)),
             halted : BOOLEAN, error : Errors]

\* What a command changes: the options and the answer to it.
Agreements == [local : SUBSET AllowLocal, remote : SUBSET AllowRemote, replies : Seq(Byte)]

(* frame() is a sequence of bytes, never an empty one.                       *)
LEMMA FrameTypes ==
  ASSUME NEW command \in Negotiations, NEW option \in Byte
  PROVE  Frame(command, option) \in Seq(Byte) /\ Frame(command, option) # <<>>
<1>1. "IAC" \in Byte /\ command \in Byte
  BY DEF Byte, Negotiations
<1> QED
  BY <1>1 DEF Frame

(* negotiate() enables only options that the policy allows.                  *)
LEMMA AgreeTypes ==
  ASSUME NEW local \in SUBSET AllowLocal, NEW remote \in SUBSET AllowRemote,
         NEW command \in Negotiations, NEW option \in Byte
  PROVE  Agree(local, remote, command, option) \in Agreements
<1>1. \A answer \in Negotiations : Frame(answer, option) \in Seq(Byte)
  BY FrameTypes
<1>2. {"WILL", "WONT", "DO", "DONT"} = Negotiations /\ <<>> \in Seq(Byte)
  BY DEF Negotiations
<1>3. CASE command = "WILL"
  BY <1>1, <1>2, <1>3 DEF Agree, Agreements
<1>4. CASE command = "DO"
  BY <1>1, <1>2, <1>4 DEF Agree, Agreements
<1>5. CASE command = "WONT"
  BY <1>2, <1>5 DEF Agree, Agreements
<1>6. CASE command = "DONT"
  BY <1>2, <1>6 DEF Agree, Agreements
<1> QED
  BY <1>2, <1>3, <1>4, <1>5, <1>6

(* What one turn makes of the bytes in front of it, apart from what was made  *)
(* of those before: whether it waits for more, what is wrong with them, how   *)
(* many it takes, and what comes out.                                         *)
Waits(input) ==
  /\ input[1] = "IAC"
  /\ \/ Len(input) < 2
     \/ Len(input) < 3 /\ input[2] \in Negotiations \cup {"SB"}
     \/ input[2] = "SB" /\ Scan(input).out \in {"pending", "more"}

Fault(input) ==
  IF input[1] # "IAC" \/ input[2] \in {"IAC", "NOP"} \cup Negotiations THEN "none"
  ELSE IF input[2] # "SB" THEN "command"
  ELSE IF Scan(input).out = "complete" THEN "none" ELSE Scan(input).out

Width(input) ==
  IF input[1] # "IAC" THEN 1
  ELSE IF input[2] \in Negotiations THEN 3
  ELSE IF input[2] = "SB" THEN Scan(input).at - 1 ELSE 2

Plain(input) ==
  IF input[1] # "IAC" THEN <<input[1]>> ELSE IF input[2] = "IAC" THEN <<"IAC">> ELSE <<>>

Sub(input) ==
  IF input[1] = "IAC" /\ input[2] = "SB" THEN << <<input[3], Scan(input).payload>> >> ELSE <<>>

Agreement(local, remote, input) ==
  IF input[1] = "IAC" /\ input[2] \in Negotiations THEN Agree(local, remote, input[2], input[3])
  ELSE [local |-> local, remote |-> remote, replies |-> <<>>]

(* Bytes that are enough stay enough, and mean the same.                      *)
LEMMA TakenOfMore ==
  ASSUME NEW input \in Seq(Byte), input # <<>>, NEW more \in Seq(Byte), ~Waits(input)
  PROVE  /\ input \o more # <<>> /\ ~Waits(input \o more)
         /\ Fault(input \o more) = Fault(input) /\ Width(input \o more) = Width(input)
         /\ Plain(input \o more) = Plain(input) /\ Sub(input \o more) = Sub(input)
         /\ \A l, r : Agreement(l, r, input \o more) = Agreement(l, r, input)
<1>1. /\ Len(input) \in Nat \ {0} /\ Len(more) \in Nat /\ Len(input \o more) = Len(input) + Len(more)
      /\ input \o more \in Seq(Byte)
      /\ \A i \in 1 .. Len(input) : (input \o more)[i] = input[i]
  BY LenProperties, ConcatProperties, EmptySeq
<1>2. (input \o more)[1] = input[1] /\ input \o more # <<>>
  BY <1>1
<1>3. CASE input[1] # "IAC"
  BY <1>2, <1>3 DEF Waits, Fault, Width, Plain, Sub, Agreement
<1>4. CASE input[1] = "IAC" /\ input[2] \notin Negotiations \cup {"SB"}
  <2>1. (input \o more)[2] = input[2] /\ ~(Len(input \o more) < 2)
    BY <1>1, <1>4 DEF Waits
  <2> QED
    BY <1>2, <1>4, <2>1 DEF Waits, Fault, Width, Plain, Sub, Agreement
<1>5. CASE input[1] = "IAC" /\ input[2] \in Negotiations \cup {"SB"}
  <2>1. /\ (input \o more)[2] = input[2] /\ (input \o more)[3] = input[3]
        /\ ~(Len(input \o more) < 2) /\ ~(Len(input \o more) < 3)
    BY <1>1, <1>5 DEF Waits
  <2>2. input[2] = "SB" => Scan(input \o more) = Scan(input)
    BY <1>5, ScanOfMore DEF Waits
  <2>3. "SB" \notin Negotiations
    BY DEF Negotiations
  <2>4. CASE input[2] = "SB"
    BY <1>2, <1>5, <2>1, <2>2, <2>3, <2>4 DEF Waits, Fault, Width, Plain, Sub, Agreement
  <2>5. CASE input[2] \in Negotiations
    BY <1>2, <1>5, <2>1, <2>3, <2>5 DEF Waits, Fault, Width, Plain, Sub, Agreement
  <2> QED
    BY <1>5, <2>4, <2>5
<1> QED
  BY <1>3, <1>4, <1>5

(* What a turn takes of an input it does not wait for.                       *)
LEMMA TakenTypes ==
  ASSUME NEW input \in Seq(Byte), input # <<>>, ~Waits(input)
  PROVE  /\ Fault(input) \in Errors
         /\ Fault(input) = "none" => Width(input) \in 1 .. Len(input)
         /\ Plain(input) \in Seq(Byte) /\ Sub(input) \in Seq(Byte \X Seq(Byte))
         /\ \A l \in SUBSET AllowLocal, r \in SUBSET AllowRemote : Agreement(l, r, input) \in Agreements
<1>1. Len(input) \in Nat \ {0} /\ \A i \in 1 .. Len(input) : input[i] \in Byte
  BY LenProperties, EmptySeq, ElementOfSeq
<1>2. input[1] \in Byte /\ "IAC" \in Byte /\ "SB" \notin Negotiations /\ <<>> \in Seq(Byte)
      /\ <<>> \in Seq(Byte \X Seq(Byte)) /\ "IAC" \notin Negotiations
  BY <1>1 DEF Byte, Negotiations
<1>3. CASE input[1] # "IAC"
  BY <1>1, <1>2, <1>3 DEF Fault, Width, Plain, Sub, Agreement, Agreements, Errors
<1>4. CASE input[1] = "IAC" /\ input[2] \notin Negotiations \cup {"SB"}
  BY <1>1, <1>2, <1>4 DEF Waits, Fault, Width, Plain, Sub, Agreement, Agreements, Errors
<1>5. CASE input[1] = "IAC" /\ input[2] \in Negotiations
  <2>1. Len(input) >= 3 /\ input[3] \in Byte
    BY <1>1, <1>5 DEF Waits
  <2>2. \A l \in SUBSET AllowLocal, r \in SUBSET AllowRemote :
          Agree(l, r, input[2], input[3]) \in Agreements
    BY <1>5, <2>1, AgreeTypes
  <2> QED
    BY <1>1, <1>2, <1>5, <2>1, <2>2 DEF Fault, Width, Plain, Sub, Agreement, Errors
<1>6. CASE input[1] = "IAC" /\ input[2] = "SB"
  <2>1. Len(input) >= 3 /\ input[3] \in Byte /\ Scan(input).out \notin {"pending", "more"}
    BY <1>1, <1>6 DEF Waits
  <2>2. Scan(input).out \in {"complete", "malformed", "tooLarge"} /\ Scan(input).payload \in Seq(Byte)
        /\ (Scan(input).out = "complete" => Scan(input).at - 1 \in 5 .. Len(input))
    BY <2>1, ScanEnds DEF ScanStates, ScanOuts
  <2>3. << <<input[3], Scan(input).payload>> >> \in Seq(Byte \X Seq(Byte))
    BY <2>1, <2>2
  <2> QED
    BY <1>1, <1>2, <1>6, <2>1, <2>2, <2>3 DEF Fault, Width, Plain, Sub, Agreement, Agreements, Errors
<1> QED
  BY <1>3, <1>4, <1>5, <1>6

(* What is left of a record after several of its fields were set.             *)
LEMMA PutData ==
  ASSUME NEW c \in Readings, NEW d, NEW i
  PROVE  [[c EXCEPT !.data = d] EXCEPT !.input = i]
           = [local |-> c.local, remote |-> c.remote, input |-> i, data |-> d, replies |->
              c.replies, subs |-> c.subs, halted |-> c.halted, error |-> c.error]
<1>0. c = [local |-> c.local, remote |-> c.remote, input |-> c.input, data |-> c.data, replies
           |-> c.replies, subs |-> c.subs, halted |-> c.halted, error |-> c.error]
  BY DEF Readings
<1> DEFINE c1 == [c EXCEPT !.data = d]
<1>1. c1 = [local |-> c.local, remote |-> c.remote, input |-> c.input, data |-> d, replies |->
           c.replies, subs |-> c.subs, halted |-> c.halted, error |-> c.error]
  BY <1>0
<1> HIDE DEF c1
<1>2. [c1 EXCEPT !.input = i] = [local |-> c.local, remote |-> c.remote, input |-> i, data |-> d, replies |->
           c.replies, subs |-> c.subs, halted |-> c.halted, error |-> c.error]
  BY <1>1
<1> QED
  BY <1>2 DEF c1

(* A reading with other subnegotiations and another input, field by field.   *)
LEMMA PutSubs ==
  ASSUME NEW c \in Readings, NEW u, NEW i
  PROVE  [[c EXCEPT !.subs = u] EXCEPT !.input = i]
           = [local |-> c.local, remote |-> c.remote, input |-> i, data |-> c.data, replies |->
              c.replies, subs |-> u, halted |-> c.halted, error |-> c.error]
<1>0. c = [local |-> c.local, remote |-> c.remote, input |-> c.input, data |-> c.data, replies
           |-> c.replies, subs |-> c.subs, halted |-> c.halted, error |-> c.error]
  BY DEF Readings
<1> DEFINE c1 == [c EXCEPT !.subs = u]
<1>1. c1 = [local |-> c.local, remote |-> c.remote, input |-> c.input, data |-> c.data, replies
           |-> c.replies, subs |-> u, halted |-> c.halted, error |-> c.error]
  BY <1>0
<1> HIDE DEF c1
<1>2. [c1 EXCEPT !.input = i] = [local |-> c.local, remote |-> c.remote, input |-> i, data |-> c.data, replies |->
           c.replies, subs |-> u, halted |-> c.halted, error |-> c.error]
  BY <1>1
<1> QED
  BY <1>2 DEF c1

(* A reading with another input, field by field.                             *)
LEMMA PutInput ==
  ASSUME NEW c \in Readings, NEW i
  PROVE  [c EXCEPT !.input = i]
           = [local |-> c.local, remote |-> c.remote, input |-> i, data |-> c.data, replies |->
              c.replies, subs |-> c.subs, halted |-> c.halted, error |-> c.error]
<1>0. c = [local |-> c.local, remote |-> c.remote, input |-> c.input, data |-> c.data, replies
           |-> c.replies, subs |-> c.subs, halted |-> c.halted, error |-> c.error]
  BY DEF Readings
<1>1. [c EXCEPT !.input = i] = [local |-> c.local, remote |-> c.remote, input |-> i, data |-> c.data, replies |->
           c.replies, subs |-> c.subs, halted |-> c.halted, error |-> c.error]
  BY <1>0
<1> QED
  BY <1>1

(* One turn, told by what it makes of the bytes.                              *)
TurnTaken(c) ==
  [local |-> Agreement(c.local, c.remote, c.input).local,
   remote |-> Agreement(c.local, c.remote, c.input).remote,
   input |-> SubSeq(c.input, Width(c.input) + 1, Len(c.input)),
   data |-> c.data \o Plain(c.input),
   replies |-> c.replies \o Agreement(c.local, c.remote, c.input).replies,
   subs |-> c.subs \o Sub(c.input),
   halted |-> FALSE, error |-> c.error]

(* A turn waits, finds an error or takes the bytes of one command, and       *)
(* nothing else.                                                             *)
LEMMA TurnIs ==
  ASSUME NEW c \in Readings, ~c.halted, c.input # <<>>
  PROVE  /\ Waits(c.input) => Turn(c) = [c EXCEPT !.halted = TRUE]
         /\ ~Waits(c.input) /\ Fault(c.input) # "none" =>
              Turn(c) = [c EXCEPT !.halted = TRUE, !.error = Fault(c.input)]
         /\ ~Waits(c.input) /\ Fault(c.input) = "none" => Turn(c) = TurnTaken(c)
<1> DEFINE input == c.input
<1>0. /\ c.local \in SUBSET AllowLocal /\ c.remote \in SUBSET AllowRemote /\ input \in Seq(Byte)
      /\ c.data \in Seq(Byte) /\ c.replies \in Seq(Byte) /\ c.subs \in Seq(Byte \X Seq(Byte))
  BY DEF Readings
<1>01. c.halted = FALSE
  BY DEF Readings
<1>1. Len(input) \in Nat \ {0} /\ \A i \in 1 .. Len(input) : input[i] \in Byte
  BY <1>0, LenProperties, EmptySeq, ElementOfSeq
<1>2. /\ c.data \o <<>> = c.data /\ c.replies \o <<>> = c.replies /\ c.subs \o <<>> = c.subs
      /\ \A b \in Byte : Append(c.data, b) = c.data \o <<b>>
      /\ \A e \in Byte \X Seq(Byte) : Append(c.subs, e) = c.subs \o <<e>>
  BY <1>0, ConcatEmptySeq, AppendIsConcat
<1>3. "SB" \notin Negotiations /\ "IAC" \notin Negotiations /\ "NOP" \notin Negotiations /\ "IAC" \in Byte
  BY DEF Negotiations, Byte
<1>4. CASE input[1] # "IAC"
  <2>1. Turn(c) = [local |-> c.local, remote |-> c.remote, input |-> SubSeq(input, 2, Len(input)),
                   data |-> Append(c.data, input[1]), replies |-> c.replies, subs |-> c.subs,
                   halted |-> FALSE, error |-> c.error]
    <3>1. Turn(c) = [[c EXCEPT !.data = Append(c.data, input[1])] EXCEPT !.input = SubSeq(input, 1 + 1, Len(input))]
      BY <1>4 DEF Turn
    <3>2. 1 + 1 = 2
      OBVIOUS
    <3> HIDE DEF input
    <3>3. [[c EXCEPT !.data = Append(c.data, input[1])] EXCEPT !.input = SubSeq(input, 2, Len(input))]
            = [local |-> c.local, remote |-> c.remote, input |-> SubSeq(input, 2, Len(input)),
               data |-> Append(c.data, input[1]), replies |-> c.replies, subs |-> c.subs,
               halted |-> c.halted, error |-> c.error]
      BY PutData
    <3> QED
      BY <1>01, <3>1, <3>2, <3>3
  <2>2. /\ ~Waits(input) /\ Fault(input) = "none" /\ Width(input) + 1 = 2
        /\ Plain(input) = <<input[1]>> /\ Sub(input) = <<>>
        /\ Agreement(c.local, c.remote, input)
             = [local |-> c.local, remote |-> c.remote, replies |-> <<>>]
    BY <1>4 DEF Waits, Fault, Width, Plain, Sub, Agreement
  <2>3. Append(c.data, input[1]) = c.data \o <<input[1]>>
    BY <1>1, <1>2
  <2>4. /\ Agreement(c.local, c.remote, input).local = c.local
        /\ Agreement(c.local, c.remote, input).remote = c.remote
        /\ SubSeq(input, Width(input) + 1, Len(input)) = SubSeq(input, 2, Len(input))
        /\ c.data \o Plain(input) = Append(c.data, input[1])
        /\ c.replies \o Agreement(c.local, c.remote, input).replies = c.replies
        /\ c.subs \o Sub(input) = c.subs
    BY <1>2, <2>2, <2>3
  <2>5. Turn(c) = TurnTaken(c)
    BY <2>1, <2>4 DEF TurnTaken
  <2> QED
    BY <2>2, <2>5
<1>5. CASE input[1] = "IAC" /\ Len(input) < 2
  BY <1>0, <1>1, <1>5 DEF Turn, Waits, Readings
<1>6. CASE input[1] = "IAC" /\ Len(input) >= 2 /\ input[2] = "IAC"
  <2>1. Turn(c) = [local |-> c.local, remote |-> c.remote, input |-> SubSeq(input, 2 + 1, Len(input)),
                   data |-> Append(c.data, "IAC"), replies |-> c.replies, subs |-> c.subs,
                   halted |-> FALSE, error |-> c.error]
    <3>1. Turn(c) = [[c EXCEPT !.data = Append(c.data, "IAC")] EXCEPT !.input = SubSeq(input, 2 + 1, Len(input))]
      BY <1>1, <1>6 DEF Turn
    <3> QED
      BY <1>01, <3>1, PutData
  <2>2. /\ ~Waits(input) /\ Fault(input) = "none" /\ Width(input) = 2
        /\ Plain(input) = <<"IAC">> /\ Sub(input) = <<>>
        /\ Agreement(c.local, c.remote, input)
             = [local |-> c.local, remote |-> c.remote, replies |-> <<>>]
    BY <1>1, <1>3, <1>6 DEF Waits, Fault, Width, Plain, Sub, Agreement
  <2>4. /\ Agreement(c.local, c.remote, input).local = c.local
        /\ Agreement(c.local, c.remote, input).remote = c.remote
        /\ SubSeq(input, Width(input) + 1, Len(input)) = SubSeq(input, 2 + 1, Len(input))
        /\ c.data \o Plain(input) = Append(c.data, "IAC")
        /\ c.replies \o Agreement(c.local, c.remote, input).replies = c.replies
        /\ c.subs \o Sub(input) = c.subs
    BY <1>2, <1>3, <2>2
  <2>5. Turn(c) = TurnTaken(c)
    BY <2>1, <2>4 DEF TurnTaken
  <2> QED
    BY <2>2, <2>5
<1>7. CASE input[1] = "IAC" /\ Len(input) >= 2 /\ input[2] \in Negotiations
  <2>1. CASE Len(input) < 3
    BY <1>0, <1>1, <1>3, <1>7, <2>1 DEF Turn, Waits, Readings
  <2>2. CASE Len(input) >= 3
    <3> DEFINE a == Agree(c.local, c.remote, input[2], input[3])
    <3>2. Turn(c) = [Negotiate(c, input[2], input[3]) EXCEPT !.input = SubSeq(input, 3 + 1, Len(input))]
      BY <1>0, <1>1, <1>3, <1>7, <2>2 DEF Turn
    <3>3. Negotiate(c, input[2], input[3])
             = [c EXCEPT !.local = a.local, !.remote = a.remote, !.replies = @ \o a.replies]
      BY DEF Negotiate
    <3>4. /\ ~Waits(input) /\ Fault(input) = "none" /\ Width(input) = 3 /\ Plain(input) = <<>>
          /\ Sub(input) = <<>> /\ Agreement(c.local, c.remote, input) = a
      BY <1>1, <1>3, <1>7, <2>2 DEF Waits, Fault, Width, Plain, Sub, Agreement
    <3> HIDE DEF a
    <3>6. Turn(c)
             = [local |-> a.local, remote |-> a.remote, input |-> SubSeq(input, 3 + 1, Len(input)),
                data |-> c.data, replies |-> c.replies \o a.replies, subs |-> c.subs,
                halted |-> FALSE, error |-> c.error]
      <4>1. Turn(c) = [[[[c EXCEPT !.local = a.local] EXCEPT !.remote = a.remote]
                            EXCEPT !.replies = c.replies \o a.replies]
                            EXCEPT !.input = SubSeq(input, 3 + 1, Len(input))]
        BY <3>2, <3>3
      <4> DEFINE rest == SubSeq(input, 3 + 1, Len(input))
                 l == a.local
                 r == a.remote
                 p == c.replies \o a.replies
      <4>3. Turn(c) = [[[[c EXCEPT !.local = l] EXCEPT !.remote = r] EXCEPT !.replies = p] EXCEPT !.input = rest]
        BY <4>1
      <4> HIDE DEF rest, l, r, p
      <4>4. [[[[c EXCEPT !.local = l] EXCEPT !.remote = r] EXCEPT !.replies = p] EXCEPT !.input = rest]
              = [local |-> l, remote |-> r, input |-> rest, data |-> c.data, replies |-> p,
                 subs |-> c.subs, halted |-> c.halted, error |-> c.error]
        <5>0. c = [local |-> c.local, remote |-> c.remote, input |-> c.input, data |-> c.data, replies
                   |-> c.replies, subs |-> c.subs, halted |-> c.halted, error |-> c.error]
          BY DEF Readings
        <5> DEFINE c1 == [c EXCEPT !.local = l]
        <5>1. c1 = [local |-> l, remote |-> c.remote, input |-> c.input, data |-> c.data, replies |->
                   c.replies, subs |-> c.subs, halted |-> c.halted, error |-> c.error]
          BY <5>0
        <5> HIDE DEF c1
        <5> DEFINE c2 == [c1 EXCEPT !.remote = r]
        <5>2. c2 = [local |-> l, remote |-> r, input |-> c.input, data |-> c.data, replies |->
                   c.replies, subs |-> c.subs, halted |-> c.halted, error |-> c.error]
          BY <5>1
        <5> HIDE DEF c2
        <5> DEFINE c3 == [c2 EXCEPT !.replies = p]
        <5>3. c3 = [local |-> l, remote |-> r, input |-> c.input, data |-> c.data, replies |-> p, subs
                   |-> c.subs, halted |-> c.halted, error |-> c.error]
          BY <5>2
        <5> HIDE DEF c3
        <5>4. [c3 EXCEPT !.input = rest] = [local |-> l, remote |-> r, input |-> rest, data |-> c.data, replies |-> p, subs |->
                   c.subs, halted |-> c.halted, error |-> c.error]
          BY <5>3
        <5> QED
          BY <5>4 DEF c1, c2, c3
      <4>2. Turn(c) = [local |-> a.local, remote |-> a.remote, input |-> SubSeq(input, 3 + 1, Len(input)),
                       data |-> c.data, replies |-> c.replies \o a.replies, subs |-> c.subs,
                       halted |-> c.halted, error |-> c.error]
        BY <4>3, <4>4 DEF rest, l, r, p
      <4> QED
        BY <1>01, <4>2
    <3> QED
      BY <1>2, <3>4, <3>6 DEF TurnTaken
  <2> QED
    BY <1>1, <2>1, <2>2
<1>8. CASE input[1] = "IAC" /\ Len(input) >= 2 /\ input[2] = "SB"
  <2> DEFINE scan == Scan(input)
  <2>0. scan.out \in ScanOuts /\ scan.payload \in Seq(Byte)
    BY <1>0, ScanEnds DEF ScanStates
  <2>1. CASE Len(input) < 3 \/ scan.out \in {"pending", "more"}
    <3>1. Turn(c) = [c EXCEPT !.halted = TRUE]
      BY <1>0, <1>1, <1>3, <1>8, <2>1 DEF Turn
    <3>2. Waits(input)
      BY <1>8, <2>1 DEF Waits
    <3> QED
      BY <3>1, <3>2
  <2>2. CASE Len(input) >= 3 /\ scan.out = "complete"
    <3>1. <<input[3], scan.payload>> \in Byte \X Seq(Byte)
      BY <1>1, <2>0, <2>2
    <3>2. Turn(c) = [local |-> c.local, remote |-> c.remote,
                     input |-> SubSeq(input, scan.at - 1 + 1, Len(input)),
                     data |-> c.data, replies |-> c.replies,
                     subs |-> Append(c.subs, <<input[3], scan.payload>>),
                     halted |-> FALSE, error |-> c.error]
      <4>1. Turn(c) = [[c EXCEPT !.subs = Append(c.subs, <<input[3], scan.payload>>)]
                          EXCEPT !.input = SubSeq(input, scan.at - 1 + 1, Len(input))]
        BY <1>1, <1>3, <1>8, <2>2 DEF Turn
      <4> QED
        BY <1>01, <4>1, PutSubs
    <3>3. Append(c.subs, <<input[3], scan.payload>>) = c.subs \o << <<input[3], scan.payload>> >>
      BY <1>2, <3>1
    <3>4. /\ ~Waits(input) /\ Fault(input) = "none" /\ Width(input) = scan.at - 1
          /\ Plain(input) = <<>> /\ Sub(input) = << <<input[3], scan.payload>> >>
          /\ Agreement(c.local, c.remote, input)
               = [local |-> c.local, remote |-> c.remote, replies |-> <<>>]
      BY <1>1, <1>3, <1>8, <2>2 DEF Waits, Fault, Width, Plain, Sub, Agreement
    <3>5. /\ Agreement(c.local, c.remote, input).local = c.local
          /\ Agreement(c.local, c.remote, input).remote = c.remote
          /\ SubSeq(input, Width(input) + 1, Len(input)) = SubSeq(input, scan.at - 1 + 1, Len(input))
          /\ c.data \o Plain(input) = c.data
          /\ c.replies \o Agreement(c.local, c.remote, input).replies = c.replies
          /\ c.subs \o Sub(input) = Append(c.subs, <<input[3], scan.payload>>)
      BY <1>2, <3>3, <3>4
    <3>6. Turn(c) = TurnTaken(c)
      BY <3>2, <3>5 DEF TurnTaken
    <3> QED
      BY <3>4, <3>6
  <2>3. CASE Len(input) >= 3 /\ scan.out \notin {"pending", "more", "complete"}
    <3>1. Turn(c) = [c EXCEPT !.halted = TRUE, !.error = scan.out]
      BY <1>0, <1>1, <1>3, <1>8, <2>3 DEF Turn
    <3>2. ~Waits(input) /\ Fault(input) = scan.out /\ scan.out # "none"
      BY <1>1, <1>3, <1>8, <2>0, <2>3 DEF Waits, Fault, ScanOuts
    <3> QED
      BY <3>1, <3>2
  <2>4. Len(input) < 3 \/ Len(input) >= 3
    BY <1>1
  <2> QED
    BY <2>1, <2>2, <2>3, <2>4, Zenon
<1>9. CASE input[1] = "IAC" /\ Len(input) >= 2 /\ input[2] = "NOP"
  <2>1. Turn(c) = [local |-> c.local, remote |-> c.remote, input |-> SubSeq(input, 2 + 1, Len(input)),
                   data |-> c.data, replies |-> c.replies, subs |-> c.subs,
                   halted |-> FALSE, error |-> c.error]
    <3>1. Turn(c) = [c EXCEPT !.input = SubSeq(input, 2 + 1, Len(input))]
      BY <1>1, <1>3, <1>9 DEF Turn
    <3> QED
      BY <1>01, <3>1, PutInput
  <2>2. /\ ~Waits(input) /\ Fault(input) = "none" /\ Width(input) = 2
        /\ Plain(input) = <<>> /\ Sub(input) = <<>>
        /\ Agreement(c.local, c.remote, input)
             = [local |-> c.local, remote |-> c.remote, replies |-> <<>>]
    BY <1>1, <1>3, <1>9 DEF Waits, Fault, Width, Plain, Sub, Agreement
  <2> QED
    BY <1>2, <2>1, <2>2 DEF TurnTaken
<1>10. CASE input[1] = "IAC" /\ Len(input) >= 2 /\ input[2] \notin {"IAC", "SB", "NOP"} \cup Negotiations
  BY <1>0, <1>1, <1>3, <1>10 DEF Turn, Waits, Fault, Readings
<1> QED
  BY <1>1, <1>4, <1>5, <1>6, <1>7, <1>8, <1>9, <1>10

(* A turn keeps the types; unless it halts, or has nothing to do, it takes    *)
(* bytes away; and a decoder that halted without an error waits for more.    *)
Stuck(c) == c.halted \/ c.input = <<>>

Sound(c) ==
  /\ c.error # "none" => c.halted
  /\ c.halted /\ c.error = "none" => c.input # <<>> /\ Waits(c.input)

(* A turn leaves a reading that is sound, and shortens the input unless it is*)
(* the last.                                                                 *)
LEMMA TurnTypes ==
  ASSUME NEW c \in Readings
  PROVE  /\ Turn(c) \in Readings
         /\ Stuck(c) => Turn(c) = c
         /\ Sound(c) => Sound(Turn(c))
         /\ Stuck(Turn(c)) \/ Len(Turn(c).input) < Len(c.input)
<1>0. /\ c.local \in SUBSET AllowLocal /\ c.remote \in SUBSET AllowRemote /\ c.input \in Seq(Byte)
      /\ c.data \in Seq(Byte) /\ c.replies \in Seq(Byte) /\ c.subs \in Seq(Byte \X Seq(Byte))
      /\ c.error \in Errors /\ c.halted \in BOOLEAN
  BY DEF Readings
<1>1. CASE Stuck(c)
  <2>1. Turn(c) = c
    BY <1>1 DEF Stuck, Turn
  <2> QED
    BY <1>1, <2>1
<1>2. CASE ~Stuck(c) /\ Waits(c.input)
  <2>1. Turn(c) = [c EXCEPT !.halted = TRUE]
    BY <1>2, TurnIs DEF Stuck
  <2>2. [c EXCEPT !.halted = TRUE] \in Readings
    BY DEF Readings
  <2>3. /\ [c EXCEPT !.halted = TRUE].halted /\ [c EXCEPT !.halted = TRUE].input = c.input
        /\ [c EXCEPT !.halted = TRUE].error = c.error
    BY DEF Readings
  <2>4. Turn(c) \in Readings /\ Turn(c).halted /\ Turn(c).input = c.input /\ Turn(c).error = c.error
    BY <2>1, <2>2, <2>3
  <2> QED
    BY <1>2, <2>4 DEF Stuck, Sound
<1>3. CASE ~Stuck(c) /\ ~Waits(c.input) /\ Fault(c.input) # "none"
  <2> DEFINE d == [c EXCEPT !.halted = TRUE]
             fault == Fault(c.input)
  <2>1. Turn(c) = [d EXCEPT !.error = fault]
    BY <1>3, TurnIs DEF Stuck
  <2>2. fault \in Errors /\ fault # "none"
    BY <1>0, <1>3, TakenTypes DEF Stuck
  <2>3. d \in Readings /\ d.halted
    BY DEF Readings
  <2> HIDE DEF d, fault
  <2>4. [d EXCEPT !.error = fault] \in Readings
    BY <2>2, <2>3 DEF Readings
  <2>5. [d EXCEPT !.error = fault].halted /\ [d EXCEPT !.error = fault].error = fault
    BY <2>3 DEF Readings
  <2> QED
    BY <1>3, <2>1, <2>2, <2>4, <2>5 DEF Stuck, Sound
<1>4. CASE ~Stuck(c) /\ ~Waits(c.input) /\ Fault(c.input) = "none"
  <2> DEFINE w == Width(c.input)
             rest == SubSeq(c.input, w + 1, Len(c.input))
             a == Agreement(c.local, c.remote, c.input)
  <2>1. Turn(c) = TurnTaken(c)
    BY <1>4, TurnIs DEF Stuck
  <2>2. w \in 1 .. Len(c.input) /\ Len(c.input) \in Nat
    BY <1>0, <1>4, TakenTypes DEF Stuck
  <2>3. Plain(c.input) \in Seq(Byte) /\ Sub(c.input) \in Seq(Byte \X Seq(Byte)) /\ a \in Agreements
    BY <1>0, <1>4, TakenTypes DEF Stuck
  <2>4. rest \in Seq(Byte) /\ Len(rest) < Len(c.input)
    <3>1. w \in 0 .. Len(c.input) /\ <<>> \in Seq(Byte)
      BY <2>2
    <3>2. rest \in Seq(Byte) /\ Len(rest) = Len(c.input) - w
      <4> HIDE DEF w
      <4> QED
        BY <1>0, <3>1, RestOfConcat
    <3> QED
      BY <2>2, <3>2
  <2>5. /\ c.data \o Plain(c.input) \in Seq(Byte) /\ c.replies \o a.replies \in Seq(Byte)
        /\ c.subs \o Sub(c.input) \in Seq(Byte \X Seq(Byte))
    BY <1>0, <2>3, ConcatProperties DEF Agreements
  <2>6. a.local \in SUBSET AllowLocal /\ a.remote \in SUBSET AllowRemote
    BY <2>3 DEF Agreements
  <2>7. TurnTaken(c) \in Readings /\ TurnTaken(c).input = rest /\ ~TurnTaken(c).halted /\ TurnTaken(c).error = c.error
    BY <1>0, <2>4, <2>5, <2>6 DEF TurnTaken, Readings
  <2> QED
    BY <1>4, <2>1, <2>4, <2>7 DEF Stuck, Sound
<1> QED
  BY <1>1, <1>2, <1>3, <1>4

(* What a decoder comes to from c, turn by turn.                             *)
Reached(c) ==
  {d \in Readings :
     \A S \in SUBSET Readings : c \in S /\ (\A x \in S : Turn(x) \in S) => d \in S}

(* What turns reach is closed under turns, and is the least such set.        *)
LEMMA ReachedIs ==
  ASSUME NEW c \in Readings
  PROVE  /\ c \in Reached(c)
         /\ \A d \in Reached(c) : d \in Readings /\ Turn(d) \in Reached(c)
         /\ \A S \in SUBSET Readings : c \in S /\ (\A x \in S : Turn(x) \in S) => Reached(c) \subseteq S
<1>1. c \in Reached(c) /\ \A d \in Reached(c) : d \in Readings
  BY DEF Reached
<1>2. ASSUME NEW d \in Reached(c) PROVE Turn(d) \in Reached(c)
  <2>1. d \in Readings /\ Turn(d) \in Readings
    BY <1>2, TurnTypes DEF Reached
  <2>2. ASSUME NEW S \in SUBSET Readings, c \in S, \A x \in S : Turn(x) \in S PROVE Turn(d) \in S
    BY <1>2, <2>2 DEF Reached
  <2> QED
    BY <2>1, <2>2 DEF Reached
<1>3. \A S \in SUBSET Readings : c \in S /\ (\A x \in S : Turn(x) \in S) => Reached(c) \subseteq S
  BY DEF Reached
<1> QED
  BY <1>1, <1>2, <1>3

(* Nothing comes after a decoder that is stuck, and only one such is reached. *)
LEMMA StuckIsLast ==
  ASSUME NEW c \in Readings, NEW d \in Reached(c), NEW e \in Reached(c), Stuck(e)
  PROVE  e \in Reached(d) /\ (Stuck(d) => d = e)
<1> DEFINE S == {x \in Readings : e \in Reached(x)}
<1>0. e \in Readings /\ d \in Readings
  BY ReachedIs
<1>1. ASSUME NEW x \in S PROVE Turn(x) \in S
  <2>1. x \in Readings /\ e \in Reached(x) /\ Turn(x) \in Readings
    BY <1>1, TurnTypes
  <2> DEFINE T == {x} \cup Reached(Turn(x))
  <2>2. T \in SUBSET Readings
    BY <2>1, ReachedIs
  <2>3. x \in T /\ \A y \in T : Turn(y) \in T
    BY <2>1, ReachedIs
  <2>4. e \in T
    <3> HIDE DEF T
    <3> QED
      BY <2>1, <2>2, <2>3, ReachedIs
  <2>5. CASE e = x
    <3>1. Turn(x) = x
      BY <2>1, <2>5, TurnTypes
    <3> QED
      BY <1>1, <3>1
  <2>6. CASE e \in Reached(Turn(x))
    BY <2>1, <2>6
  <2> QED
    BY <2>4, <2>5, <2>6
<1>2. c \in S /\ S \in SUBSET Readings
  OBVIOUS
<1>3. d \in S
  <2> HIDE DEF S
  <2> QED
    BY <1>1, <1>2, ReachedIs
<1>4. ASSUME Stuck(d) PROVE d = e
  <2>1. Turn(d) = d
    BY <1>0, <1>4, TurnTypes
  <2>2. {d} \in SUBSET Readings /\ d \in {d} /\ \A x \in {d} : Turn(x) \in {d}
    BY <1>0, <2>1
  <2>3. Reached(d) \subseteq {d}
    BY <1>0, <2>2, ReachedIs
  <2> QED
    BY <1>3, <2>3
<1> QED
  BY <1>3, <1>4

(* Decoded() as the states it goes through.                                  *)
LEMMA DecodedRuns ==
  ASSUME NEW start \in Readings
  PROVE  \E run \in [0 .. Len(start.input) -> Readings] :
           /\ run[0] = start
           /\ \A k \in 1 .. Len(start.input) : run[k] = Turn(run[k - 1])
           /\ Decoded(start) = run[Len(start.input)]
<1> DEFINE n == Len(start.input)
           seq == [i \in 1 .. n |-> i]
           g == [x \in Readings \X Nat |-> Turn(x[1])]
           Solves(f) == f = [s \in SUBSET (1 .. n) |->
                               IF s = {} THEN start ELSE Turn(f[s \ {Max(s)}])]
           fold == CHOOSE f : Solves(f)
           run == [k \in 0 .. n |-> fold[1 .. k]]
<1>0. start.input \in Seq(Byte)
  BY DEF Readings
<1>1. /\ n \in Nat /\ seq \in Seq(Nat) /\ Len(seq) = n /\ DOMAIN seq = 1 .. n
      /\ \A i \in 1 .. n : seq[i] \in Nat
  BY <1>0
<1>4. Decoded(start) = fold[1 .. n]
  BY <1>1 DEF Decoded, FoldLeft, MapThenFoldSet
<1> HIDE DEF seq, n
<1>2. \E f : Solves(f)
  <2>1. g \in [Readings \X Nat -> Readings]
    BY TurnTypes DEF n
  <2> HIDE DEF g
  <2>2. PICK f \in [SUBSET (1 .. Len(seq)) -> Readings] : FoldsBy(f, g, start, seq)
    BY <1>1, <2>1, FoldRecursion
  <2>3. ASSUME NEW s \in SUBSET (1 .. n), s # {}
        PROVE  g[<<f[s \ {Max(s)}], seq[Max(s)]>>] = Turn(f[s \ {Max(s)}])
    <3>1. Max(s) \in 1 .. n /\ s \ {Max(s)} \in SUBSET (1 .. n)
      BY <1>1, <2>3, MaxOfPart
    <3>2. f[s \ {Max(s)}] \in Readings /\ seq[Max(s)] \in Nat
      BY <1>1, <2>2, <3>1
    <3> QED
      BY <3>2 DEF g
  <2>4. f = [s \in SUBSET (1 .. n) |-> IF s = {} THEN start ELSE Turn(f[s \ {Max(s)}])]
    BY <1>1, <2>2, <2>3 DEF FoldsBy
  <2> QED
    BY <2>4
<1>3. Solves(fold)
  BY <1>2
<1> HIDE DEF fold
<1>5. run[0] = start /\ \A k \in 1 .. n : run[k] = Turn(run[k - 1])
  <2>1. 1 .. 0 = {} /\ {} \in SUBSET (1 .. n)
    OBVIOUS
  <2>2. run[0] = start
    BY <1>1, <1>3, <2>1
  <2>3. ASSUME NEW k \in 1 .. n PROVE run[k] = Turn(run[k - 1])
    <3>1. /\ 1 .. k # {} /\ 1 .. k \in SUBSET (1 .. n)
          /\ (1 .. k) \ {Max(1 .. k)} = 1 .. k - 1
      BY <1>1, FirstIndexes
    <3>2. fold[1 .. k] = Turn(fold[(1 .. k) \ {Max(1 .. k)}])
      BY <1>3, <3>1
    <3>3. fold[1 .. k] = Turn(fold[1 .. k - 1])
      BY <3>1, <3>2
    <3>4. k \in 0 .. n /\ k - 1 \in 0 .. n
      BY <1>1
    <3> QED
      BY <3>3, <3>4
  <2> QED
    BY <2>2, <2>3
<1> HIDE DEF run
<1>6. \A k \in 0 .. n : run[k] \in Readings
  <2> DEFINE S == {k \in 0 .. n : run[k] \in Readings}
  <2>1. 0 \in S
    BY <1>1, <1>5
  <2>2. \A k \in 0 .. n - 1 : k \in S => k + 1 \in S
    BY <1>1, <1>5, TurnTypes
  <2>3. \A k \in 0 .. n : k \in S
    <3> HIDE DEF S
    <3> QED
      BY <1>1, <2>1, <2>2, InductionTo
  <2> QED
    BY <2>3
<1>7. run \in [0 .. n -> Readings] /\ Decoded(start) = run[n]
  BY <1>1, <1>4, <1>6 DEF run
<1> QED
  BY <1>5, <1>7 DEF n

(* As many turns as there are bytes are enough.                              *)
LEMMA DecodedIsStuck ==
  ASSUME NEW start \in Readings
  PROVE  Decoded(start) \in Reached(start) /\ Stuck(Decoded(start))
<1> DEFINE n == Len(start.input)
<1>1. PICK run \in [0 .. n -> Readings] :
        /\ run[0] = start
        /\ \A k \in 1 .. n : run[k] = Turn(run[k - 1])
        /\ Decoded(start) = run[n]
  BY DecodedRuns
<1>2. n \in Nat /\ \A k \in 0 .. n : Len(run[k].input) \in Nat
  BY <1>1, LenProperties DEF Readings
<1> HIDE DEF n
<1> DEFINE S == {k \in 0 .. n : /\ run[k] \in Reached(start)
                                /\ Stuck(run[k]) \/ Len(run[k].input) + k <= n}
<1>3. 0 \in S
  BY <1>1, <1>2, ReachedIs DEF n
<1>4. \A k \in 0 .. n - 1 : k \in S => k + 1 \in S
  <2> SUFFICES ASSUME NEW k \in 0 .. n - 1, k \in S PROVE k + 1 \in S
    OBVIOUS
  <2>1. k + 1 \in 0 .. n /\ k \in 0 .. n /\ run[k + 1] = Turn(run[k]) /\ run[k] \in Readings
    BY <1>1, <1>2
  <2>2. run[k + 1] \in Reached(start)
    BY <2>1, ReachedIs
  <2>3. CASE Stuck(run[k])
    <3>1. run[k + 1] = run[k]
      BY <2>1, <2>3, TurnTypes
    <3> QED
      BY <2>1, <2>2, <2>3, <3>1
  <2>4. CASE ~Stuck(run[k])
    <3>1. Stuck(run[k + 1]) \/ Len(run[k + 1].input) < Len(run[k].input)
      BY <2>1, TurnTypes
    <3>2. Len(run[k].input) + k <= n
      BY <2>4
    <3> QED
      BY <1>2, <2>1, <2>2, <3>1, <3>2
  <2> QED
    BY <2>3, <2>4
<1>5. n \in S
  <2> HIDE DEF S
  <2>1. \A k \in 0 .. n : k \in S
    BY <1>2, <1>3, <1>4, InductionTo
  <2> QED
    BY <1>2, <2>1
<1>6. Len(run[n].input) + n <= n => run[n].input = <<>>
  <2>1. run[n].input \in Seq(Byte) /\ n \in 0 .. n
    BY <1>1, <1>2 DEF Readings
  <2> QED
    BY <1>2, <2>1, EmptySeq
<1> QED
  BY <1>1, <1>5, <1>6 DEF Stuck

(* The same decoder with more bytes behind what it has not read.             *)
Live(c, more) ==
  [local |-> c.local, remote |-> c.remote, input |-> c.input \o more, data |-> c.data,
   replies |-> c.replies, subs |-> c.subs, halted |-> FALSE, error |-> c.error]

(* What the start of a stream comes to is on the way of the whole stream; an  *)
(* error in it is the error of the whole.                                    *)
Prefix(c, start, more) ==
  /\ Sound(c)
  /\ c.error = "none" => Live(c, more) \in Reached(Live(start, more))
  /\ c.error # "none" => \E x \in Reached(Live(start, more)) : Stuck(x) /\ x.error = c.error

(* A reading with more bytes behind it is a reading.                         *)
LEMMA LiveTypes ==
  ASSUME NEW c \in Readings, NEW more \in Seq(Byte)
  PROVE  /\ Live(c, more) \in Readings /\ Live(c, more).input = c.input \o more
         /\ ~Live(c, more).halted /\ Live(c, more).error = c.error
         /\ Live(c, more).local = c.local /\ Live(c, more).remote = c.remote
         /\ Live(c, more).data = c.data /\ Live(c, more).replies = c.replies
         /\ Live(c, more).subs = c.subs
<1>1. c.input \o more \in Seq(Byte)
  BY ConcatProperties DEF Readings
<1> QED
  BY <1>1 DEF Live, Readings

(* A turn of the shorter input is one of the longer, or the shorter waits.   *)
LEMMA PrefixStep ==
  ASSUME NEW start \in Readings, NEW more \in Seq(Byte), NEW c \in Readings, Prefix(c, start, more)
  PROVE  Prefix(Turn(c), start, more)
<1> DEFINE whole == Live(start, more)
           d == Live(c, more)
           i == c.input
<1>0. whole \in Readings /\ d \in Readings /\ ~d.halted /\ d.input = i \o more /\ i \in Seq(Byte)
      /\ Sound(Turn(c))
  BY LiveTypes, TurnTypes DEF Prefix, Readings
<1>1. CASE Stuck(c)
  BY <1>1, TurnTypes
<1>2. CASE ~Stuck(c) /\ Waits(i)
  <2>1. Turn(c) = [c EXCEPT !.halted = TRUE]
    BY <1>2, TurnIs DEF Stuck
  <2>2. /\ Turn(c).local = c.local /\ Turn(c).remote = c.remote /\ Turn(c).input = c.input
        /\ Turn(c).data = c.data /\ Turn(c).replies = c.replies /\ Turn(c).subs = c.subs
        /\ Turn(c).error = c.error
    BY <2>1 DEF Readings
  <2>3. Live(Turn(c), more) = d
    BY <2>2 DEF Live
  <2> QED
    BY <1>0, <2>2, <2>3 DEF Prefix
<1>3. CASE ~Stuck(c) /\ ~Waits(i) /\ i # <<>>
  <2>1. /\ i \o more # <<>> /\ ~Waits(i \o more)
        /\ Fault(i \o more) = Fault(i) /\ Width(i \o more) = Width(i)
        /\ Plain(i \o more) = Plain(i) /\ Sub(i \o more) = Sub(i)
        /\ Agreement(c.local, c.remote, i \o more) = Agreement(c.local, c.remote, i)
    BY <1>0, <1>3, TakenOfMore
  <2>2. c.error = "none" /\ d \in Reached(whole)
    BY <1>3 DEF Prefix, Sound, Stuck
  <2>3. Turn(d) \in Reached(whole)
    BY <1>0, <2>2, ReachedIs
  <2>4. CASE Fault(i) # "none"
    <3> DEFINE fault == Fault(i)
    <3>1. Turn(c) = [c EXCEPT !.halted = TRUE, !.error = fault]
      BY <1>3, <2>4, TurnIs DEF Stuck
    <3>2. Turn(d) = [d EXCEPT !.halted = TRUE, !.error = fault]
      BY <1>0, <2>1, <2>4, TurnIs
    <3> HIDE DEF d, whole, fault
    <3>3. Turn(c).error = fault
      BY <3>1 DEF Readings
    <3>4. Turn(d).error = fault /\ Turn(d).halted
      BY <1>0, <3>2 DEF Readings
    <3>5. fault # "none"
      BY <2>4 DEF fault
    <3> QED
      BY <1>0, <2>3, <3>3, <3>4, <3>5 DEF Prefix, Stuck, whole
  <2>5. CASE Fault(i) = "none"
    <3> DEFINE w == Width(i)
               a == Agreement(c.local, c.remote, i)
    <3>1. Turn(c) = TurnTaken(c)
      BY <1>3, <2>5, TurnIs DEF Stuck
    <3>2. Turn(d) = TurnTaken(d)
      BY <1>0, <2>1, <2>5, TurnIs
    <3>3. /\ d.local = c.local /\ d.remote = c.remote /\ d.data = c.data /\ d.replies = c.replies
          /\ d.subs = c.subs /\ d.error = c.error
      BY LiveTypes
    <3>4. SubSeq(i \o more, w + 1, Len(i \o more)) = SubSeq(i, w + 1, Len(i)) \o more
      <4>1. w \in 0 .. Len(i)
        BY <1>0, <1>3, <2>5, TakenTypes
      <4> HIDE DEF w, i
      <4> QED
        BY <1>0, <4>1, RestOfConcat
    <3> HIDE DEF d
    <3>5. TurnTaken(d) = [local |-> a.local, remote |-> a.remote,
                      input |-> SubSeq(i, w + 1, Len(i)) \o more, data |-> c.data \o Plain(i),
                      replies |-> c.replies \o a.replies, subs |-> c.subs \o Sub(i),
                      halted |-> FALSE, error |-> c.error]
      BY <1>0, <2>1, <3>3, <3>4 DEF TurnTaken
    <3>6. /\ TurnTaken(c).local = a.local /\ TurnTaken(c).remote = a.remote
          /\ TurnTaken(c).input = SubSeq(i, w + 1, Len(i)) /\ TurnTaken(c).data = c.data \o Plain(i)
          /\ TurnTaken(c).replies = c.replies \o a.replies /\ TurnTaken(c).subs = c.subs \o Sub(i)
          /\ TurnTaken(c).error = c.error
      BY DEF TurnTaken
    <3>7. Live(TurnTaken(c), more) = TurnTaken(d)
      BY <3>5, <3>6 DEF Live
    <3> QED
      BY <1>0, <2>2, <2>3, <3>1, <3>2, <3>6, <3>7 DEF Prefix
  <2> QED
    BY <2>4, <2>5
<1> QED
  BY <1>1, <1>2, <1>3 DEF Stuck

(* The decoder of the first part stops on the way of that of the whole.      *)
LEMMA PrefixOfDecoded ==
  ASSUME NEW start \in Readings, ~start.halted, start.error = "none", NEW more \in Seq(Byte)
  PROVE  Prefix(Decoded(start), start, more)
<1> DEFINE S == {c \in Readings : Prefix(c, start, more)}
<1>1. Live(start, more) \in Readings
  BY LiveTypes
<1>2. start \in S
  BY <1>1, ReachedIs DEF Prefix, Sound
<1>3. \A c \in S : Turn(c) \in S
  BY PrefixStep, TurnTypes
<1>4. S \in SUBSET Readings
  OBVIOUS
<1>5. Decoded(start) \in S
  <2> HIDE DEF S
  <2> QED
    BY <1>2, <1>3, <1>4, ReachedIs, DecodedIsStuck
<1> QED
  BY <1>5

(* The same decoder with what was read, answered and told before.            *)
After(b, c) ==
  [local |-> c.local, remote |-> c.remote, input |-> c.input, data |-> b.data \o c.data,
   replies |-> b.replies \o c.replies, subs |-> b.subs \o c.subs,
   halted |-> c.halted, error |-> c.error]

(* A reading behind another is a reading.                                    *)
LEMMA AfterTypes ==
  ASSUME NEW b \in Readings, NEW c \in Readings
  PROVE  /\ After(b, c) \in Readings /\ After(b, c).input = c.input
         /\ After(b, c).halted = c.halted /\ After(b, c).error = c.error
         /\ After(b, c).local = c.local /\ After(b, c).remote = c.remote
         /\ After(b, c).data = b.data \o c.data /\ After(b, c).replies = b.replies \o c.replies
         /\ After(b, c).subs = b.subs \o c.subs
<1>1. /\ b.data \o c.data \in Seq(Byte) /\ b.replies \o c.replies \in Seq(Byte)
      /\ b.subs \o c.subs \in Seq(Byte \X Seq(Byte))
  BY ConcatProperties DEF Readings
<1> QED
  BY <1>1 DEF After, Readings

(* Three runs of bytes may be joined in either order.                        *)
LEMMA BytesConcat ==
  ASSUME NEW s \in Seq(Byte), NEW t \in Seq(Byte), NEW u \in Seq(Byte)
  PROVE  (s \o t) \o u = s \o (t \o u)
OBVIOUS

(* So may three runs of subnegotiations.                                     *)
LEMMA SubsConcat ==
  ASSUME NEW s \in Seq(Byte \X Seq(Byte)), NEW t \in Seq(Byte \X Seq(Byte)), NEW u \in Seq(Byte \X Seq(Byte))
  PROVE  (s \o t) \o u = s \o (t \o u)
OBVIOUS

(* Two readings with the same fields are the same.                           *)
LEMMA SameReading ==
  ASSUME NEW x \in Readings, NEW y \in Readings,
         x.local = y.local, x.remote = y.remote, x.input = y.input, x.data = y.data,
         x.replies = y.replies, x.subs = y.subs, x.halted = y.halted, x.error = y.error
  PROVE  x = y
<1>1. x = [local |-> x.local, remote |-> x.remote, input |-> x.input, data |-> x.data,
           replies |-> x.replies, subs |-> x.subs, halted |-> x.halted, error |-> x.error]
  BY DEF Readings
<1>2. y = [local |-> y.local, remote |-> y.remote, input |-> y.input, data |-> y.data,
           replies |-> y.replies, subs |-> y.subs, halted |-> y.halted, error |-> y.error]
  BY DEF Readings
<1> QED
  BY <1>1, <1>2

(* A turn does not look at what came out before it.                          *)
LEMMA AfterTurn ==
  ASSUME NEW b \in Readings, NEW c \in Readings
  PROVE  Turn(After(b, c)) = After(b, Turn(c))
<1> DEFINE d == After(b, c)
           i == c.input
<1>0. /\ d \in Readings /\ d.input = i /\ d.halted = c.halted /\ d.error = c.error
      /\ d.local = c.local /\ d.remote = c.remote /\ d.data = b.data \o c.data
      /\ d.replies = b.replies \o c.replies /\ d.subs = b.subs \o c.subs
  BY AfterTypes
<1> HIDE DEF d
<1>1. CASE Stuck(c)
  <2>1. Stuck(d)
    BY <1>0, <1>1 DEF Stuck
  <2> QED
    BY <1>0, <1>1, <2>1, TurnTypes DEF d
<1>2. CASE ~Stuck(c) /\ Waits(i)
  <2>1. Turn(c) = [c EXCEPT !.halted = TRUE]
    BY <1>2, TurnIs DEF Stuck
  <2>2. Turn(d) = [d EXCEPT !.halted = TRUE]
    BY <1>0, <1>2, TurnIs DEF Stuck
  <2>3. /\ Turn(c).local = c.local /\ Turn(c).remote = c.remote /\ Turn(c).input = c.input
        /\ Turn(c).data = c.data /\ Turn(c).replies = c.replies /\ Turn(c).subs = c.subs
        /\ Turn(c).error = c.error /\ Turn(c).halted = TRUE
    BY <2>1 DEF Readings
  <2>4. /\ Turn(d) \in Readings /\ Turn(d).local = d.local /\ Turn(d).remote = d.remote
        /\ Turn(d).input = d.input /\ Turn(d).data = d.data /\ Turn(d).replies = d.replies
        /\ Turn(d).subs = d.subs /\ Turn(d).error = d.error /\ Turn(d).halted = TRUE
    BY <1>0, <2>2 DEF Readings
  <2>5. /\ Turn(c) \in Readings
        /\ After(b, Turn(c)) \in Readings /\ After(b, Turn(c)).input = Turn(c).input
        /\ After(b, Turn(c)).halted = Turn(c).halted /\ After(b, Turn(c)).error = Turn(c).error
        /\ After(b, Turn(c)).local = Turn(c).local /\ After(b, Turn(c)).remote = Turn(c).remote
        /\ After(b, Turn(c)).data = b.data \o Turn(c).data
        /\ After(b, Turn(c)).replies = b.replies \o Turn(c).replies
        /\ After(b, Turn(c)).subs = b.subs \o Turn(c).subs
    BY TurnTypes, AfterTypes
  <2>6. Turn(d) = After(b, Turn(c))
    <3> DEFINE x == Turn(d)
               y == After(b, Turn(c))
    <3>1. /\ x \in Readings /\ y \in Readings
          /\ x.local = y.local /\ x.remote = y.remote /\ x.input = y.input /\ x.data = y.data
          /\ x.replies = y.replies /\ x.subs = y.subs /\ x.halted = y.halted /\ x.error = y.error
      BY <1>0, <2>3, <2>4, <2>5
    <3> HIDE DEF x, y
    <3>2. x = y
      BY <3>1, SameReading
    <3> QED
      BY <3>2 DEF x, y
  <2> QED
    BY <2>6 DEF d
<1>3. CASE ~Stuck(c) /\ ~Waits(i) /\ Fault(i) # "none"
  <2> DEFINE fault == Fault(i)
             one == [d EXCEPT !.halted = TRUE]
             two == [c EXCEPT !.halted = TRUE]
  <2>1. Turn(c) = [two EXCEPT !.error = fault]
    BY <1>3, TurnIs DEF Stuck
  <2>2. Turn(d) = [one EXCEPT !.error = fault]
    BY <1>0, <1>3, TurnIs DEF Stuck
  <2>3. one \in Readings /\ one.halted = TRUE /\ one.local = d.local /\ one.remote = d.remote
        /\ one.input = d.input /\ one.data = d.data /\ one.replies = d.replies /\ one.subs = d.subs
    BY <1>0 DEF Readings
  <2>4. two \in Readings /\ two.halted = TRUE /\ two.local = c.local /\ two.remote = c.remote
        /\ two.input = c.input /\ two.data = c.data /\ two.replies = c.replies /\ two.subs = c.subs
    BY DEF Readings
  <2>0. Turn(c) \in Readings /\ Turn(d) \in Readings
    BY <1>0, TurnTypes
  <2> HIDE DEF one, two, fault
  <2>5. /\ Turn(d).local = d.local /\ Turn(d).remote = d.remote
        /\ Turn(d).input = d.input /\ Turn(d).data = d.data /\ Turn(d).replies = d.replies
        /\ Turn(d).subs = d.subs /\ Turn(d).error = fault /\ Turn(d).halted = TRUE
    BY <2>2, <2>3 DEF Readings
  <2>6. /\ Turn(c).local = c.local /\ Turn(c).remote = c.remote
        /\ Turn(c).input = c.input /\ Turn(c).data = c.data /\ Turn(c).replies = c.replies
        /\ Turn(c).subs = c.subs /\ Turn(c).error = fault /\ Turn(c).halted = TRUE
    BY <2>1, <2>4 DEF Readings
  <2>7. /\ After(b, Turn(c)) \in Readings /\ After(b, Turn(c)).input = Turn(c).input
        /\ After(b, Turn(c)).halted = Turn(c).halted /\ After(b, Turn(c)).error = Turn(c).error
        /\ After(b, Turn(c)).local = Turn(c).local /\ After(b, Turn(c)).remote = Turn(c).remote
        /\ After(b, Turn(c)).data = b.data \o Turn(c).data
        /\ After(b, Turn(c)).replies = b.replies \o Turn(c).replies
        /\ After(b, Turn(c)).subs = b.subs \o Turn(c).subs
    BY <2>0, AfterTypes
  <2>8. Turn(d) = After(b, Turn(c))
    <3> DEFINE x == Turn(d)
               y == After(b, Turn(c))
    <3>1. /\ x \in Readings /\ y \in Readings
          /\ x.local = y.local /\ x.remote = y.remote /\ x.input = y.input /\ x.data = y.data
          /\ x.replies = y.replies /\ x.subs = y.subs /\ x.halted = y.halted /\ x.error = y.error
      BY <1>0, <2>0, <2>5, <2>6, <2>7
    <3> HIDE DEF x, y
    <3>2. x = y
      BY <3>1, SameReading
    <3> QED
      BY <3>2 DEF x, y
  <2> QED
    BY <2>8 DEF d
<1>4. CASE ~Stuck(c) /\ ~Waits(i) /\ Fault(i) = "none"
  <2> DEFINE a == Agreement(c.local, c.remote, i)
             rest == SubSeq(i, Width(i) + 1, Len(i))
  <2>1. Turn(c) = TurnTaken(c) /\ Turn(d) = TurnTaken(d)
    BY <1>0, <1>4, TurnIs DEF Stuck
  <2>2. /\ TurnTaken(c).local = a.local /\ TurnTaken(c).remote = a.remote /\ TurnTaken(c).input = rest
        /\ TurnTaken(c).data = c.data \o Plain(i) /\ TurnTaken(c).replies = c.replies \o a.replies
        /\ TurnTaken(c).subs = c.subs \o Sub(i) /\ TurnTaken(c).halted = FALSE /\ TurnTaken(c).error = c.error
    BY DEF TurnTaken
  <2>3. /\ (b.data \o c.data) \o Plain(i) = b.data \o (c.data \o Plain(i))
        /\ (b.replies \o c.replies) \o a.replies = b.replies \o (c.replies \o a.replies)
        /\ (b.subs \o c.subs) \o Sub(i) = b.subs \o (c.subs \o Sub(i))
    <3>1. /\ b.data \in Seq(Byte) /\ c.data \in Seq(Byte) /\ b.replies \in Seq(Byte)
          /\ c.replies \in Seq(Byte) /\ b.subs \in Seq(Byte \X Seq(Byte))
          /\ c.subs \in Seq(Byte \X Seq(Byte)) /\ i \in Seq(Byte)
          /\ c.local \in SUBSET AllowLocal /\ c.remote \in SUBSET AllowRemote
      BY DEF Readings
    <3>2. Plain(i) \in Seq(Byte) /\ Sub(i) \in Seq(Byte \X Seq(Byte)) /\ a \in Agreements
      BY <1>4, <3>1, TakenTypes DEF Stuck
    <3>3. a.replies \in Seq(Byte)
      BY <3>2 DEF Agreements
    <3>4. (b.data \o c.data) \o Plain(i) = b.data \o (c.data \o Plain(i))
      <4> DEFINE x == b.data
                 y == c.data
                 z == Plain(i)
      <4>1. x \in Seq(Byte) /\ y \in Seq(Byte) /\ z \in Seq(Byte)
        BY <3>1, <3>2
      <4> HIDE DEF x, y, z
      <4>2. (x \o y) \o z = x \o (y \o z)
        BY <4>1
      <4> QED
        BY <4>2 DEF x, y, z
    <3>5. (b.replies \o c.replies) \o a.replies = b.replies \o (c.replies \o a.replies)
      <4> DEFINE x == b.replies
                 y == c.replies
                 z == a.replies
      <4>1. x \in Seq(Byte) /\ y \in Seq(Byte) /\ z \in Seq(Byte)
        BY <3>1, <3>3
      <4> HIDE DEF x, y, z
      <4>2. (x \o y) \o z = x \o (y \o z)
        BY <4>1
      <4> QED
        BY <4>2 DEF x, y, z
    <3>6. (b.subs \o c.subs) \o Sub(i) = b.subs \o (c.subs \o Sub(i))
      <4> DEFINE x == b.subs
                 y == c.subs
                 z == Sub(i)
      <4>1. x \in Seq(Byte \X Seq(Byte)) /\ y \in Seq(Byte \X Seq(Byte)) /\ z \in Seq(Byte \X Seq(Byte))
        BY <3>1, <3>2
      <4> HIDE DEF x, y, z
      <4>2. (x \o y) \o z = x \o (y \o z)
        BY <4>1, SubsConcat
      <4> QED
        BY <4>2 DEF x, y, z
    <3> QED
      BY <3>4, <3>5, <3>6
  <2>4. TurnTaken(d) = [local |-> a.local, remote |-> a.remote, input |-> rest,
                    data |-> (b.data \o c.data) \o Plain(i),
                    replies |-> (b.replies \o c.replies) \o a.replies,
                    subs |-> (b.subs \o c.subs) \o Sub(i), halted |-> FALSE, error |-> c.error]
    BY <1>0 DEF TurnTaken
  <2>5. After(b, TurnTaken(c)) = [local |-> a.local, remote |-> a.remote, input |-> rest,
                    data |-> b.data \o (c.data \o Plain(i)),
                    replies |-> b.replies \o (c.replies \o a.replies),
                    subs |-> b.subs \o (c.subs \o Sub(i)), halted |-> FALSE, error |-> c.error]
    BY <2>2 DEF After
  <2>6. TurnTaken(d) = After(b, TurnTaken(c))
    BY <2>3, <2>4, <2>5
  <2> QED
    BY <2>1, <2>6 DEF d
<1> QED
  BY <1>1, <1>2, <1>3, <1>4

(* Nor does a decoder: it adds to what came out before it.                   *)
LEMMA AfterDecoded ==
  ASSUME NEW b \in Readings, NEW c \in Readings
  PROVE  Decoded(After(b, c)) = After(b, Decoded(c))
<1> DEFINE d == After(b, c)
           S == {x \in Readings : After(b, x) \in Reached(d)}
<1>0. d \in Readings
  BY AfterTypes
<1>1. c \in S
  BY <1>0, ReachedIs
<1>2. ASSUME NEW x \in S PROVE Turn(x) \in S
  <2>1. Turn(x) \in Readings /\ Turn(After(b, x)) = After(b, Turn(x))
    BY TurnTypes, AfterTurn
  <2> QED
    BY <1>0, <2>1, ReachedIs
<1>3. Decoded(c) \in S
  <2>1. S \in SUBSET Readings
    OBVIOUS
  <2> HIDE DEF S
  <2> QED
    BY <1>1, <1>2, <2>1, ReachedIs, DecodedIsStuck
<1>4. Decoded(c) \in Readings /\ Stuck(Decoded(c))
  BY <1>3, DecodedIsStuck
<1>5. Stuck(After(b, Decoded(c)))
  <2> DEFINE e == Decoded(c)
  <2>1. e \in Readings /\ (e.halted \/ e.input = <<>>)
    BY <1>4 DEF Stuck
  <2> HIDE DEF e
  <2>2. After(b, e).halted = e.halted /\ After(b, e).input = e.input
    BY <2>1, AfterTypes
  <2> QED
    BY <2>1, <2>2 DEF Stuck, e
<1>6. Decoded(d) \in Reached(d) /\ Stuck(Decoded(d))
  BY <1>0, DecodedIsStuck
<1> QED
  BY <1>0, <1>3, <1>5, <1>6, StuckIsLast

Codecs == [local : SUBSET AllowLocal, remote : SUBSET AllowRemote, pending : Seq(Byte)]

(* receive() begins with a sound reading.                                    *)
LEMMA BeginTypes ==
  ASSUME NEW codec \in Codecs, NEW bytes \in Seq(Byte)
  PROVE  /\ Begin(codec, bytes) \in Readings /\ Sound(Begin(codec, bytes))
         /\ ~Begin(codec, bytes).halted /\ Begin(codec, bytes).error = "none"
<1>1. codec.pending \o bytes \in Seq(Byte) /\ <<>> \in Seq(Byte) /\ <<>> \in Seq(Byte \X Seq(Byte))
  BY ConcatProperties DEF Codecs
<1> QED
  BY <1>1 DEF Begin, Readings, Sound, Codecs, Errors

(* Where a decoder ends: little is kept, and the codec is one again.         *)
LEMMA ReceiveEnds ==
  ASSUME NEW start \in Readings, Sound(start)
  PROVE  /\ Decoded(start) \in Readings /\ Outcome(Decoded(start)).codec \in Codecs
         /\ Len(Outcome(Decoded(start)).codec.pending) <= 4 + 2 * MaxSubnegotiation
<1> DEFINE end == Decoded(start)
           S == {c \in Readings : Sound(c)}
<1>1. end \in Reached(start) /\ Stuck(end)
  BY DecodedIsStuck
<1>2. start \in S /\ S \in SUBSET Readings /\ \A c \in S : Turn(c) \in S
  BY TurnTypes
<1> HIDE DEF end
<1>3. end \in S
  <2> HIDE DEF S
  <2> QED
    BY <1>1, <1>2, ReachedIs
<1>4. MaxSubnegotiation \in Nat /\ end.input \in Seq(Byte) /\ Len(end.input) \in Nat
      /\ end.local \in SUBSET AllowLocal /\ end.remote \in SUBSET AllowRemote
  BY <1>3, SubnegotiationAssumption, LenProperties DEF Readings
<1>5. Kept(end) \in Seq(Byte) /\ Len(Kept(end)) <= 4 + 2 * MaxSubnegotiation
  <2>1. CASE Kept(end) = <<>>
    BY <1>4, <2>1
  <2>2. CASE end.error = "none" /\ end.halted /\ Kept(end) = end.input
    <3>1. Waits(end.input) /\ end.input # <<>>
      BY <1>3, <2>2 DEF Sound
    <3>2. Len(end.input) > 0
      BY <1>4, <3>1, EmptySeq
    <3>3. Len(end.input) < 3 \/ Scan(end.input).out \in {"pending", "more"}
      BY <1>4, <3>1 DEF Waits
    <3>4. Len(end.input) <= 4 + 2 * MaxSubnegotiation
      <4>1. CASE Len(end.input) < 3
        BY <1>4, <4>1
      <4>2. CASE Scan(end.input).out \in {"pending", "more"}
        BY <1>4, <3>2, <4>2, ScanEnds
      <4> QED
        BY <3>3, <4>1, <4>2
    <3> QED
      BY <1>4, <2>2, <3>4
  <2> QED
    BY <1>1, <2>1, <2>2 DEF Stuck, Kept
<1>6. Outcome(end).codec = [local |-> end.local, remote |-> end.remote, pending |-> Kept(end)]
  BY DEF Outcome
<1>7. Outcome(end).codec \in Codecs /\ Outcome(end).codec.pending = Kept(end)
  BY <1>4, <1>5, <1>6 DEF Codecs
<1> QED
  BY <1>3, <1>5, <1>7 DEF end

(* Two calls in a row tell what one call with both their bytes tells.        *)
LEMMA CutIsWhole ==
  ASSUME NEW codec \in Codecs, NEW bytes \in Seq(Byte), NEW more \in Seq(Byte)
  PROVE  LET whole == Receive(codec, bytes \o more)
             one == Receive(codec, bytes)
             cut == Both(one, Receive(one.codec, more))
         IN IF whole.error = "none" THEN cut = whole ELSE cut.error = whole.error
<1> DEFINE start == Begin(codec, bytes)
           end == Decoded(start)
           long == Begin(codec, bytes \o more)
           far == Decoded(long)
           next == Begin(Outcome(end).codec, more)
           last == Decoded(next)
<1>1. /\ start \in Readings /\ Sound(start) /\ ~start.halted /\ start.error = "none"
      /\ long \in Readings
  <2>1. bytes \o more \in Seq(Byte)
    BY ConcatProperties
  <2> QED
    BY <2>1, BeginTypes
<1>2. Live(start, more) = long
  <2>1. (codec.pending \o bytes) \o more = codec.pending \o (bytes \o more)
    BY BytesConcat DEF Codecs
  <2> QED
    BY <2>1 DEF Begin, Live
<1> HIDE DEF start
<1>3. end \in Readings /\ Outcome(end).codec \in Codecs /\ Prefix(end, start, more)
  BY <1>1, ReceiveEnds, PrefixOfDecoded
<1> HIDE DEF long
<1>4. far \in Reached(long) /\ Stuck(far)
  BY <1>1, DecodedIsStuck
<1>5. next \in Readings
  BY <1>3, BeginTypes
<1> HIDE DEF end, next
<1>6. last \in Readings
  BY <1>5, DecodedIsStuck, ReachedIs
<1> HIDE DEF far, last
<1>7. CASE end.error # "none"
  <2>1. PICK x \in Reached(long) : Stuck(x) /\ x.error = end.error
    BY <1>2, <1>3, <1>7 DEF Prefix
  <2>2. far.error = end.error
    BY <1>1, <1>4, <2>1, StuckIsLast
  <2>3. Outcome(far).error = end.error /\ Outcome(end).error = end.error
    BY <2>2 DEF Outcome
  <2>4. Both(Outcome(end), Outcome(last)).error = end.error
    BY <1>7, <2>3 DEF Both
  <2> QED
    BY <1>7, <2>3, <2>4 DEF Receive, start, end, long, far, next, last
<1>8. CASE end.error = "none"
  <2> DEFINE mid == Live(end, more)
  <2>1. mid \in Reached(long)
    BY <1>2, <1>3, <1>8 DEF Prefix
  <2>2. mid = After(end, next)
    <3>1. Outcome(end).codec.local = end.local /\ Outcome(end).codec.remote = end.remote
          /\ Outcome(end).codec.pending = end.input
      BY <1>8 DEF Outcome, Kept
    <3>2. /\ next.local = end.local /\ next.remote = end.remote /\ next.input = end.input \o more
          /\ next.data = <<>> /\ next.replies = <<>> /\ next.subs = <<>>
          /\ next.halted = FALSE /\ next.error = "none"
      BY <3>1 DEF next, Begin
    <3>3. end.data \o <<>> = end.data /\ end.replies \o <<>> = end.replies /\ end.subs \o <<>> = end.subs
      BY <1>3, ConcatEmptySeq DEF Readings
    <3> QED
      BY <1>8, <3>2, <3>3 DEF Live, After
  <2> HIDE DEF mid
  <2>3. far = After(end, last)
    <3>1. far \in Reached(mid) /\ mid \in Readings
      BY <1>1, <1>4, <2>1, StuckIsLast, ReachedIs
    <3>2. Decoded(mid) \in Reached(mid) /\ Stuck(Decoded(mid))
      BY <3>1, DecodedIsStuck
    <3>3. Decoded(mid) = far
      BY <1>4, <3>1, <3>2, StuckIsLast
    <3>4. Decoded(mid) = After(end, last)
      BY <1>3, <1>5, <2>2, AfterDecoded DEF last
    <3> QED
      BY <3>3, <3>4
  <2>4. /\ far.input = last.input /\ far.error = last.error /\ far.local = last.local
        /\ far.remote = last.remote /\ far.data = end.data \o last.data
        /\ far.replies = end.replies \o last.replies /\ far.subs = end.subs \o last.subs
    BY <1>3, <1>6, <2>3, AfterTypes
  <2>5. Kept(far) = Kept(last)
    BY <2>4 DEF Kept
  <2>6. Outcome(far) = [codec |-> [local |-> last.local, remote |-> last.remote, pending |-> Kept(last)],
                        data |-> end.data \o last.data, replies |-> end.replies \o last.replies,
                        subs |-> end.subs \o last.subs, error |-> last.error]
    BY <2>4, <2>5 DEF Outcome
  <2>7. /\ Outcome(end).data = end.data /\ Outcome(end).replies = end.replies
        /\ Outcome(end).subs = end.subs /\ Outcome(end).error = "none"
    BY <1>8 DEF Outcome
  <2>8. /\ Outcome(last).codec = [local |-> last.local, remote |-> last.remote, pending |-> Kept(last)]
        /\ Outcome(last).data = last.data /\ Outcome(last).replies = last.replies
        /\ Outcome(last).subs = last.subs /\ Outcome(last).error = last.error
    BY DEF Outcome
  <2>9. Both(Outcome(end), Outcome(last)) = Outcome(far)
    BY <2>6, <2>7, <2>8 DEF Both
  <2>10. Outcome(far).error = "none" \/ Both(Outcome(end), Outcome(last)).error = Outcome(far).error
    BY <2>9
  <2> QED
    BY <2>9 DEF Receive, start, end, long, far, next, last
<1> QED
  BY <1>7, <1>8

(* A stream that is cut is the stream.                                       *)
LEMMA CutAndJoined ==
  ASSUME NEW S, NEW s \in Seq(S), NEW k \in 0 .. Len(s)
  PROVE  /\ SubSeq(s, 1, k) \in Seq(S) /\ SubSeq(s, k + 1, Len(s)) \in Seq(S)
         /\ Len(SubSeq(s, 1, k)) = k /\ Len(SubSeq(s, k + 1, Len(s))) = Len(s) - k
         /\ SubSeq(s, 1, k) \o SubSeq(s, k + 1, Len(s)) = s
<1>0. Len(s) \in Nat /\ \A i \in 1 .. Len(s) : s[i] \in S
  BY LenProperties, ElementOfSeq
<1>1. /\ SubSeq(s, 1, k) \in Seq(S) /\ Len(SubSeq(s, 1, k)) = k
      /\ \A i \in 1 .. k : SubSeq(s, 1, k)[i] = s[i]
  BY <1>0, SubSeqProperties
<1>2. /\ SubSeq(s, k + 1, Len(s)) \in Seq(S) /\ Len(SubSeq(s, k + 1, Len(s))) = Len(s) - k
      /\ \A i \in 1 .. Len(s) - k : SubSeq(s, k + 1, Len(s))[i] = s[k + i]
  BY <1>0, SubSeqProperties
<1> DEFINE a == SubSeq(s, 1, k)
           b == SubSeq(s, k + 1, Len(s))
<1> HIDE DEF a, b
<1>3. /\ a \in Seq(S) /\ b \in Seq(S) /\ Len(a) = k /\ Len(b) = Len(s) - k
      /\ \A i \in 1 .. k : a[i] = s[i]
      /\ \A i \in 1 .. Len(s) - k : b[i] = s[k + i]
  BY <1>1, <1>2 DEF a, b
<1>4. /\ a \o b \in Seq(S) /\ Len(a \o b) = Len(a) + Len(b)
      /\ \A i \in 1 .. Len(a) + Len(b) : (a \o b)[i] = IF i <= Len(a) THEN a[i] ELSE b[i - Len(a)]
  BY <1>3, ConcatProperties
<1>5. \A i \in 1 .. Len(s) : (a \o b)[i] = s[i]
  <2> SUFFICES ASSUME NEW i \in 1 .. Len(s) PROVE (a \o b)[i] = s[i]
    OBVIOUS
  <2>1. CASE i <= k
    BY <1>0, <1>3, <1>4, <2>1
  <2>2. CASE i > k
    <3>1. (a \o b)[i] = b[i - k] /\ i - k \in 1 .. Len(s) - k
      BY <1>0, <1>3, <1>4, <2>2
    <3>2. b[i - k] = s[k + (i - k)] /\ k + (i - k) = i
      BY <1>0, <1>3, <3>1
    <3> QED
      BY <3>1, <3>2
  <2>3. i <= k \/ i > k
    BY <1>0
  <2> QED
    BY <2>1, <2>2, <2>3, Zenon
<1>6. a \o b = s
  <2>1. Len(a \o b) = Len(s)
    BY <1>0, <1>3, <1>4
  <2> QED
    BY <1>4, <1>5, <2>1, SeqEqual
<1> QED
  BY <1>1, <1>2, <1>6 DEF a, b

(* A telnet stream means the same whole or cut, from any codec on.           *)
THEOREM AnyStreamReadsTheSame ==
  ASSUME NEW codec \in Codecs, NEW bytes \in Seq(Byte), NEW k \in 0 .. Len(bytes)
  PROVE  LET whole == Receive(codec, bytes)
         IN /\ Len(whole.codec.pending) <= 4 + 2 * MaxSubnegotiation
            /\ IF whole.error = "none" THEN ReceiveCut(codec, bytes, k) = whole
               ELSE ReceiveCut(codec, bytes, k).error = whole.error
<1> DEFINE a == SubSeq(bytes, 1, k)
           b == SubSeq(bytes, k + 1, Len(bytes))
<1>1. a \in Seq(Byte) /\ b \in Seq(Byte) /\ a \o b = bytes
  BY CutAndJoined
<1> HIDE DEF a, b
<1>2. LET whole == Receive(codec, a \o b)
          one == Receive(codec, a)
          cut == Both(one, Receive(one.codec, b))
      IN IF whole.error = "none" THEN cut = whole ELSE cut.error = whole.error
  BY <1>1, CutIsWhole
<1>3. ReceiveCut(codec, bytes, k) = Both(Receive(codec, a), Receive(Receive(codec, a).codec, b))
  BY DEF ReceiveCut, a, b
<1>4. Len(Receive(codec, bytes).codec.pending) <= 4 + 2 * MaxSubnegotiation
  BY BeginTypes, ReceiveEnds DEF Receive
<1> QED
  BY <1>1, <1>2, <1>3, <1>4

(* A telnet stream of any bytes means the same whole or cut.                 *)
LEMMA ChunksNeverMatter ==
  ASSUME task = "telnet" => in \in Seq(Byte)
  PROVE  ChunksDoNotMatter
<1> SUFFICES ASSUME in \in Seq(Byte)
             PROVE  LET whole == Receive(NewCodec, in)
                    IN /\ Len(whole.codec.pending) <= 4 + 2 * MaxSubnegotiation
                       /\ \A k \in 0..Len(in) :
                            IF whole.error = "none" THEN ReceiveCut(NewCodec, in, k) = whole
                            ELSE ReceiveCut(NewCodec, in, k).error = whole.error
  BY DEF ChunksDoNotMatter
<1>1. NewCodec \in Codecs /\ 0 \in 0 .. Len(in)
  <2>1. <<>> \in Seq(Byte) /\ Len(in) \in Nat
    BY LenProperties
  <2> QED
    BY <2>1 DEF NewCodec, Codecs
<1> QED
  BY <1>1, AnyStreamReadsTheSame

Options == [local : SUBSET AllowLocal, remote : SUBSET AllowRemote]
Offers == Negotiations \X Byte

(* What a conversation can still cost: three for a request, two for any other *)
(* command in flight, and one for each option that a peer may yet enable.     *)
Asks(command) == command[1] \in {"WILL", "DO"}
Requests(queue) == {i \in 1 .. Len(queue) : Asks(queue[i])}
Weight(queue) == 2 * Len(queue) + Cardinality(Requests(queue))
Cost(command) == IF Asks(command) THEN 3 ELSE 2
Spare(options) == Cardinality(AllowLocal \ options.local) + Cardinality(AllowRemote \ options.remote)

(* A queue has as many requests as it has commands, or fewer.                *)
LEMMA RequestsFinite ==
  ASSUME NEW queue \in Seq(Offers)
  PROVE  /\ IsFiniteSet(Requests(queue)) /\ Cardinality(Requests(queue)) \in Nat
         /\ Cardinality(Requests(queue)) <= Len(queue)
         /\ Weight(queue) \in Nat
<1>1. Len(queue) \in Nat
  BY LenProperties
<1>2. IsFiniteSet(1 .. Len(queue)) /\ Cardinality(1 .. Len(queue)) = Len(queue)
  <2>1. 1 \in Int /\ Len(queue) \in Int
    BY <1>1
  <2> DEFINE n == Len(queue)
  <2> HIDE DEF n
  <2>2. n \in Nat
    BY <1>1 DEF n
  <2>3. IsFiniteSet(1 .. n) /\ Cardinality(1 .. n) = IF 1 > n THEN 0 ELSE n - 1 + 1
    BY <2>2, FS_Interval
  <2> QED
    BY <2>2, <2>3 DEF n
<1>3. Requests(queue) \in SUBSET (1 .. Len(queue))
  BY DEF Requests
<1>4. IsFiniteSet(Requests(queue)) /\ Cardinality(Requests(queue)) <= Len(queue)
  BY <1>2, <1>3, FS_Subset
<1>5. Cardinality(Requests(queue)) \in Nat
  BY <1>4, FS_CardinalityType
<1> QED
  BY <1>1, <1>4, <1>5 DEF Weight

(* A command that is queued adds its cost.                                   *)
LEMMA WeightOfAppend ==
  ASSUME NEW queue \in Seq(Offers), NEW command \in Offers
  PROVE  /\ queue \o <<command>> \in Seq(Offers)
         /\ Weight(queue \o <<command>>) = Weight(queue) + Cost(command)
<1> DEFINE n == Len(queue)
           long == queue \o <<command>>
<1>1. n \in Nat /\ <<command>> \in Seq(Offers) /\ Len(<<command>>) = 1 /\ <<command>>[1] = command
  BY LenProperties
<1>2. /\ long \in Seq(Offers) /\ Len(long) = n + 1
      /\ \A i \in 1 .. n : long[i] = queue[i]
      /\ long[n + 1] = command
  <2>1. /\ long \in Seq(Offers) /\ Len(long) = n + 1
        /\ \A i \in 1 .. n + 1 : long[i] = IF i <= n THEN queue[i] ELSE <<command>>[i - n]
    BY <1>1, ConcatProperties
  <2> HIDE DEF long, n
  <2>2. long[n + 1] = <<command>>[n + 1 - n] /\ n + 1 - n = 1
    BY <1>1, <2>1
  <2> QED
    BY <1>1, <2>1, <2>2
<1> HIDE DEF long
<1>3. Requests(long) = Requests(queue) \cup (IF Asks(command) THEN {n + 1} ELSE {})
  BY <1>1, <1>2 DEF Requests
<1>4. IsFiniteSet(Requests(queue)) /\ n + 1 \notin Requests(queue) /\ Cardinality(Requests(queue)) \in Nat
  BY <1>1, RequestsFinite DEF Requests
<1>5. Cardinality(Requests(queue) \cup {n + 1}) = Cardinality(Requests(queue)) + 1
  BY <1>4, FS_AddElement
<1>6. Weight(long) = 2 * (n + 1) + Cardinality(Requests(long))
  BY <1>2 DEF Weight
<1>7. CASE Asks(command)
  <2>1. Requests(long) = Requests(queue) \cup {n + 1} /\ Cost(command) = 3
    BY <1>3, <1>7 DEF Cost
  <2>2. Cardinality(Requests(long)) = Cardinality(Requests(queue)) + 1
    BY <1>5, <2>1
  <2>3. Weight(long) = Weight(queue) + Cost(command)
    BY <1>1, <1>4, <1>6, <2>1, <2>2 DEF Weight
  <2> QED
    BY <1>2, <2>3 DEF long
<1>8. CASE ~Asks(command)
  <2>1. Requests(long) = Requests(queue) /\ Cost(command) = 2
    BY <1>3, <1>8 DEF Cost
  <2>2. Weight(long) = Weight(queue) + Cost(command)
    BY <1>1, <1>4, <1>6, <2>1 DEF Weight
  <2> QED
    BY <1>2, <2>2 DEF long
<1> QED
  BY <1>7, <1>8

(* A command that is read takes its cost away.                               *)
LEMMA WeightOfTail ==
  ASSUME NEW queue \in Seq(Offers), queue # <<>>
  PROVE  /\ Head(queue) \in Offers /\ Tail(queue) \in Seq(Offers)
         /\ Weight(queue) = Weight(Tail(queue)) + Cost(Head(queue))
<1> DEFINE n == Len(queue)
           rest == Tail(queue)
           A == Requests(rest)
           B == {i \in 2 .. n : Asks(queue[i])}
           f == [i \in A |-> i + 1]
<1>1. /\ n \in Nat \ {0} /\ Head(queue) = queue[1] /\ Head(queue) \in Offers
      /\ rest \in Seq(Offers) /\ Len(rest) = n - 1 /\ \A i \in 1 .. n - 1 : rest[i] = queue[i + 1]
  BY LenProperties, EmptySeq, HeadTailProperties
<1> HIDE DEF rest
<1>2. IsFiniteSet(A) /\ Cardinality(A) \in Nat
  BY <1>1, RequestsFinite
<1>3. ExistsBijection(A, B)
  <2>1. \A i \in A : i \in 1 .. n - 1 /\ i + 1 \in B
    BY <1>1 DEF Requests
  <2>2. \A j \in B : j - 1 \in A
    BY <1>1 DEF Requests
  <2>3. f \in [A -> B]
    BY <2>1
  <2>4. \A i, j \in A : f[i] = f[j] => i = j
    BY <2>1
  <2>5. \A j \in B : \E i \in A : f[i] = j
    <3> SUFFICES ASSUME NEW j \in B PROVE \E i \in A : f[i] = j
      OBVIOUS
    <3>1. j - 1 \in A /\ f[j - 1] = j - 1 + 1 /\ j \in 2 .. n
      BY <2>2
    <3> QED
      BY <3>1
  <2> HIDE DEF f, A, B
  <2>6. f \in Bijection(A, B)
    BY <2>3, <2>4, <2>5 DEF Bijection, Injection, Surjection, IsInjective
  <2> QED
    BY <2>6 DEF ExistsBijection
<1>4. IsFiniteSet(B) /\ Cardinality(B) = Cardinality(A)
  BY <1>2, <1>3, FS_Bijection
<1>5. Requests(queue) = B \cup (IF Asks(queue[1]) THEN {1} ELSE {}) /\ 1 \notin B
  BY <1>1 DEF Requests
<1> HIDE DEF A, B
<1>6. Cardinality(B \cup {1}) = Cardinality(B) + 1
  BY <1>4, <1>5, FS_AddElement
<1>7. Weight(rest) = 2 * (n - 1) + Cardinality(A)
  BY <1>1 DEF Weight, A
<1>8. CASE Asks(queue[1])
  <2>1. Weight(queue) = 2 * n + Cardinality(A) + 1 /\ Cost(Head(queue)) = 3
    BY <1>1, <1>2, <1>4, <1>5, <1>6, <1>8 DEF Weight, Cost
  <2> QED
    BY <1>1, <1>2, <1>7, <2>1 DEF rest
<1>9. CASE ~Asks(queue[1])
  <2>1. Weight(queue) = 2 * n + Cardinality(A) /\ Cost(Head(queue)) = 2
    BY <1>1, <1>2, <1>4, <1>5, <1>9 DEF Weight, Cost
  <2> QED
    BY <1>1, <1>2, <1>7, <2>1 DEF rest
<1> QED
  BY <1>8, <1>9

(* What an option set that grows or shrinks by one leaves to be enabled.     *)
LEMMA SpareOf ==
  ASSUME NEW allowed, IsFiniteSet(allowed), NEW set \in SUBSET allowed, NEW option
  PROVE  /\ Cardinality(allowed \ set) \in Nat
         /\ Cardinality(allowed \ set) <= Cardinality(allowed)
         /\ Cardinality(allowed \ (set \ {option})) <= Cardinality(allowed \ set) + 1
         /\ option \in allowed \ set =>
              Cardinality(allowed \ (set \cup {option})) = Cardinality(allowed \ set) - 1
<1> DEFINE left == allowed \ set
<1>1. left \in SUBSET allowed /\ IsFiniteSet(left) /\ Cardinality(left) <= Cardinality(allowed)
  BY FS_Subset
<1>2. Cardinality(left) \in Nat
  BY <1>1, FS_CardinalityType
<1>3. /\ IsFiniteSet(left \cup {option})
      /\ Cardinality(left \cup {option}) <= Cardinality(left) + 1
  <2> HIDE DEF left
  <2>1. /\ IsFiniteSet(left \cup {option})
        /\ Cardinality(left \cup {option}) = IF option \in left THEN Cardinality(left) ELSE Cardinality(left) + 1
    BY <1>1, FS_AddElement
  <2> QED
    BY <1>2, <2>1
<1>4. Cardinality(allowed \ (set \ {option})) <= Cardinality(left) + 1
  <2> DEFINE more == allowed \ (set \ {option})
  <2>1. more \in SUBSET (left \cup {option})
    OBVIOUS
  <2> HIDE DEF more, left
  <2>2. IsFiniteSet(more) /\ Cardinality(more) <= Cardinality(left \cup {option})
    BY <1>3, <2>1, FS_Subset
  <2>3. Cardinality(more) \in Nat /\ Cardinality(left \cup {option}) \in Nat
    BY <1>3, <2>2, FS_CardinalityType
  <2> QED
    BY <1>2, <1>3, <2>2, <2>3 DEF more
<1>5. ASSUME option \in left PROVE Cardinality(allowed \ (set \cup {option})) = Cardinality(left) - 1
  <2>1. allowed \ (set \cup {option}) = left \ {option}
    OBVIOUS
  <2> HIDE DEF left
  <2>2. Cardinality(left \ {option}) = Cardinality(left) - 1
    BY <1>1, <1>5, FS_RemoveElement
  <2> QED
    BY <2>1, <2>2
<1> QED
  BY <1>1, <1>2, <1>4, <1>5

(* An answer costs less than the command it answers.                         *)
LEMMA AnswerCosts ==
  ASSUME NEW o \in Options, NEW command \in Offers
  PROVE  /\ Enabled(Answer(o, command)) \in Options
         /\ Spare(o) \in Nat /\ Spare(Enabled(Answer(o, command))) \in Nat
         /\ \/ /\ AsCommand(Answer(o, command).replies) = <<>>
               /\ Spare(Enabled(Answer(o, command))) < Spare(o) + Cost(command)
            \/ \E reply \in Offers :
                 /\ AsCommand(Answer(o, command).replies) = <<reply>>
                 /\ Spare(Enabled(Answer(o, command))) + Cost(reply) < Spare(o) + Cost(command)
<1> DEFINE word == command[1]
           option == command[2]
           d == Answer(o, command)
<1>0. /\ o.local \in SUBSET AllowLocal /\ o.remote \in SUBSET AllowRemote
      /\ word \in Negotiations /\ option \in Byte
  BY DEF Options, Offers
<1>01. /\ Cardinality(AllowLocal \ o.local) \in Nat /\ Cardinality(AllowRemote \ o.remote) \in Nat
       /\ Cardinality(AllowLocal \ (o.local \ {option})) <= Cardinality(AllowLocal \ o.local) + 1
       /\ Cardinality(AllowRemote \ (o.remote \ {option})) <= Cardinality(AllowRemote \ o.remote) + 1
       /\ option \in AllowLocal \ o.local =>
            Cardinality(AllowLocal \ (o.local \cup {option})) = Cardinality(AllowLocal \ o.local) - 1
       /\ option \in AllowRemote \ o.remote =>
            Cardinality(AllowRemote \ (o.remote \cup {option})) = Cardinality(AllowRemote \ o.remote) - 1
  BY <1>0, OptionsAssumption, SpareOf
<1>1. d \in Agreements
  BY <1>0, AgreeTypes DEF Answer
<1>2. Enabled(d) \in Options /\ Enabled(d).local = d.local /\ Enabled(d).remote = d.remote
  BY <1>1 DEF Agreements, Enabled, Options
<1>3. Spare(o) \in Nat /\ Spare(Enabled(d)) \in Nat
  <2>1. /\ Cardinality(AllowLocal \ d.local) \in Nat /\ Cardinality(AllowRemote \ d.remote) \in Nat
    BY <1>1, OptionsAssumption, SpareOf DEF Agreements
  <2> QED
    BY <1>01, <1>2, <2>1 DEF Spare
<1>4. {"WILL", "WONT", "DO", "DONT"} = Negotiations
  BY DEF Negotiations
<1>5. \A answer : /\ AsCommand(Frame(answer, option)) = << <<answer, option>> >>
                  /\ Frame(answer, option) # <<>>
  BY DEF AsCommand, Frame
<1>6. AsCommand(<<>>) = <<>>
  BY DEF AsCommand
<1>7. CASE word = "WILL"
  <2>0. Cost(command) = 3
    BY <1>7 DEF Cost, Asks
  <2>1. CASE option \in o.remote
    <3>1. d.local = o.local /\ d.remote = o.remote /\ d.replies = <<>>
      BY <1>7, <2>1 DEF Answer, Agree
    <3>2. Spare(Enabled(d)) = Spare(o)
      BY <1>2, <3>1 DEF Spare
    <3> HIDE DEF d
    <3>3. AsCommand(d.replies) = <<>> /\ Spare(Enabled(d)) < Spare(o) + Cost(command)
      BY <1>3, <1>6, <2>0, <3>1, <3>2
    <3> QED
      BY <1>2, <1>3, <3>3 DEF d
  <2>2. CASE option \notin o.remote /\ option \in AllowRemote
    <3>1. d.local = o.local /\ d.remote = o.remote \cup {option} /\ d.replies = Frame("DO", option)
      BY <1>7, <2>2 DEF Answer, Agree
    <3>2. Spare(Enabled(d)) = Spare(o) - 1
      BY <1>01, <1>2, <2>2, <3>1 DEF Spare
    <3> DEFINE reply == <<"DO", option>>
    <3> HIDE DEF d
    <3>3. reply \in Offers /\ AsCommand(d.replies) = <<reply>> /\ Cost(reply) = 3
      BY <1>0, <1>4, <1>5, <3>1 DEF Offers, Cost, Asks
    <3>4. Spare(Enabled(d)) + Cost(reply) < Spare(o) + Cost(command)
      BY <1>3, <2>0, <3>2, <3>3
    <3> QED
      BY <1>2, <1>3, <3>3, <3>4 DEF d
  <2>3. CASE option \notin o.remote /\ option \notin AllowRemote
    <3>1. d.local = o.local /\ d.remote = o.remote /\ d.replies = Frame("DONT", option)
      BY <1>7, <2>3 DEF Answer, Agree
    <3>2. Spare(Enabled(d)) = Spare(o)
      BY <1>2, <3>1 DEF Spare
    <3> DEFINE reply == <<"DONT", option>>
    <3> HIDE DEF d
    <3>3. reply \in Offers /\ AsCommand(d.replies) = <<reply>> /\ Cost(reply) = 2
      BY <1>0, <1>4, <1>5, <3>1 DEF Offers, Cost, Asks
    <3>4. Spare(Enabled(d)) + Cost(reply) < Spare(o) + Cost(command)
      BY <1>3, <2>0, <3>2, <3>3
    <3> QED
      BY <1>2, <1>3, <3>3, <3>4 DEF d
  <2> QED
    BY <2>1, <2>2, <2>3
<1>8. CASE word = "DO"
  <2>0. Cost(command) = 3
    BY <1>8 DEF Cost, Asks
  <2>1. CASE option \in o.local
    <3>1. d.local = o.local /\ d.remote = o.remote /\ d.replies = <<>>
      BY <1>8, <2>1 DEF Answer, Agree
    <3>2. Spare(Enabled(d)) = Spare(o)
      BY <1>2, <3>1 DEF Spare
    <3> HIDE DEF d
    <3>3. AsCommand(d.replies) = <<>> /\ Spare(Enabled(d)) < Spare(o) + Cost(command)
      BY <1>3, <1>6, <2>0, <3>1, <3>2
    <3> QED
      BY <1>2, <1>3, <3>3 DEF d
  <2>2. CASE option \notin o.local /\ option \in AllowLocal
    <3>1. d.local = o.local \cup {option} /\ d.remote = o.remote /\ d.replies = Frame("WILL", option)
      BY <1>8, <2>2 DEF Answer, Agree
    <3>2. Spare(Enabled(d)) = Spare(o) - 1
      BY <1>01, <1>2, <2>2, <3>1 DEF Spare
    <3> DEFINE reply == <<"WILL", option>>
    <3> HIDE DEF d
    <3>3. reply \in Offers /\ AsCommand(d.replies) = <<reply>> /\ Cost(reply) = 3
      BY <1>0, <1>4, <1>5, <3>1 DEF Offers, Cost, Asks
    <3>4. Spare(Enabled(d)) + Cost(reply) < Spare(o) + Cost(command)
      BY <1>3, <2>0, <3>2, <3>3
    <3> QED
      BY <1>2, <1>3, <3>3, <3>4 DEF d
  <2>3. CASE option \notin o.local /\ option \notin AllowLocal
    <3>1. d.local = o.local /\ d.remote = o.remote /\ d.replies = Frame("WONT", option)
      BY <1>8, <2>3 DEF Answer, Agree
    <3>2. Spare(Enabled(d)) = Spare(o)
      BY <1>2, <3>1 DEF Spare
    <3> DEFINE reply == <<"WONT", option>>
    <3> HIDE DEF d
    <3>3. reply \in Offers /\ AsCommand(d.replies) = <<reply>> /\ Cost(reply) = 2
      BY <1>0, <1>4, <1>5, <3>1 DEF Offers, Cost, Asks
    <3>4. Spare(Enabled(d)) + Cost(reply) < Spare(o) + Cost(command)
      BY <1>3, <2>0, <3>2, <3>3
    <3> QED
      BY <1>2, <1>3, <3>3, <3>4 DEF d
  <2> QED
    BY <2>1, <2>2, <2>3
<1>9. CASE word \in {"WONT", "DONT"}
  <2>0. Cost(command) = 2
    BY <1>9 DEF Cost, Asks
  <2>1. /\ d.replies = <<>>
        /\ \/ d.local = o.local /\ d.remote = o.remote \ {option}
           \/ d.local = o.local \ {option} /\ d.remote = o.remote
    BY <1>9 DEF Answer, Agree
  <2>2. Spare(Enabled(d)) <= Spare(o) + 1
    <3>1. CASE d.local = o.local /\ d.remote = o.remote \ {option}
      <4> HIDE DEF d
      <4>1. Cardinality(AllowRemote \ d.remote) \in Nat
        BY <1>1, OptionsAssumption, SpareOf DEF Agreements
      <4>2. Cardinality(AllowRemote \ d.remote) <= Cardinality(AllowRemote \ o.remote) + 1
        BY <1>01, <3>1
      <4>3. Spare(Enabled(d)) = Cardinality(AllowLocal \ o.local) + Cardinality(AllowRemote \ d.remote)
        BY <1>2, <3>1 DEF Spare
      <4> QED
        BY <1>01, <4>1, <4>2, <4>3 DEF Spare
    <3>2. CASE d.local = o.local \ {option} /\ d.remote = o.remote
      <4> HIDE DEF d
      <4>1. Cardinality(AllowLocal \ d.local) \in Nat
        BY <1>1, OptionsAssumption, SpareOf DEF Agreements
      <4>2. Cardinality(AllowLocal \ d.local) <= Cardinality(AllowLocal \ o.local) + 1
        BY <1>01, <3>2
      <4>3. Spare(Enabled(d)) = Cardinality(AllowLocal \ d.local) + Cardinality(AllowRemote \ o.remote)
        BY <1>2, <3>2 DEF Spare
      <4> QED
        BY <1>01, <4>1, <4>2, <4>3 DEF Spare
    <3> QED
      BY <2>1, <3>1, <3>2
  <2> HIDE DEF d
  <2>3. AsCommand(d.replies) = <<>> /\ Spare(Enabled(d)) < Spare(o) + Cost(command)
    BY <1>3, <1>6, <2>0, <2>1, <2>2
  <2> QED
    BY <1>2, <1>3, <2>3 DEF d
<1> QED
  BY <1>0, <1>4, <1>7, <1>8, <1>9

Conversations ==
  [mine : Options, yours : Options, toMe : Seq(Offers), toYou : Seq(Offers)]
Potential(s) == Spare(s.mine) + Spare(s.yours) + Weight(s.toMe) + Weight(s.toYou)
Silent(s) == s.toMe = <<>> /\ s.toYou = <<>>

(* The queue that an answer, or none, was put into.                          *)
LEMMA WeightOfAnswer ==
  ASSUME NEW o \in Options, NEW command \in Offers, NEW queue \in Seq(Offers)
  PROVE  LET d == Answer(o, command)
         IN /\ queue \o AsCommand(d.replies) \in Seq(Offers)
            /\ Spare(Enabled(d)) + Weight(queue \o AsCommand(d.replies))
                 < Spare(o) + Weight(queue) + Cost(command)
<1> DEFINE d == Answer(o, command)
           reply == AsCommand(d.replies)
           spare == Spare(Enabled(d))
<1>1. spare \in Nat /\ Spare(o) \in Nat /\ Weight(queue) \in Nat
  BY AnswerCosts, RequestsFinite
<1>2. CASE reply = <<>> /\ spare < Spare(o) + Cost(command)
  <2>1. queue \o <<>> = queue
    BY ConcatEmptySeq
  <2> HIDE DEF reply, spare
  <2>2. queue \o reply \in Seq(Offers) /\ spare + Weight(queue \o reply) < Spare(o) + Weight(queue) + Cost(command)
    BY <1>1, <1>2, <2>1 DEF Cost
  <2> QED
    BY <2>2 DEF reply, spare
<1>3. ASSUME NEW x \in Offers, reply = <<x>>, spare + Cost(x) < Spare(o) + Cost(command)
      PROVE  /\ queue \o reply \in Seq(Offers)
             /\ spare + Weight(queue \o reply) < Spare(o) + Weight(queue) + Cost(command)
  <2>1. queue \o <<x>> \in Seq(Offers) /\ Weight(queue \o <<x>>) = Weight(queue) + Cost(x)
    BY WeightOfAppend
  <2> HIDE DEF reply, spare
  <2> QED
    BY <1>1, <1>3, <2>1 DEF Cost
<1>4. \/ reply = <<>> /\ spare < Spare(o) + Cost(command)
      \/ \E x \in Offers : reply = <<x>> /\ spare + Cost(x) < Spare(o) + Cost(command)
  BY AnswerCosts
<1> QED
  BY <1>2, <1>3, <1>4

(* What is read costs more than what it is answered with, whatever else is in*)
(* flight.                                                                   *)
LEMMA CostsLess ==
  ASSUME NEW a \in Nat, NEW b \in Nat, NEW r \in Nat, NEW q \in Nat, NEW m \in Nat, NEW w \in Nat,
         NEW k \in {2, 3}, a + q < m + w + k
  PROVE  a + b + r + q < m + b + (r + k) + w /\ b + a + q + r < b + m + w + (r + k)
OBVIOUS

(* Each turn of two peers that are not silent lowers what is left to say.    *)
LEMMA ExchangeStepCosts ==
  ASSUME NEW s \in Conversations
  PROVE  /\ ExchangeStep(s) \in Conversations
         /\ Potential(s) \in Nat
         /\ Silent(s) => ExchangeStep(s) = s
         /\ ~Silent(s) => Potential(ExchangeStep(s)) < Potential(s)
<1>0. /\ s.mine \in Options /\ s.yours \in Options /\ s.toMe \in Seq(Offers) /\ s.toYou \in Seq(Offers)
  BY DEF Conversations
<1>1. /\ Weight(s.toMe) \in Nat /\ Weight(s.toYou) \in Nat
      /\ Spare(s.mine) \in Nat /\ Spare(s.yours) \in Nat
  <2>1. \A o \in Options : Spare(o) \in Nat
    <3>1. <<"WILL", "a">> \in Offers
      BY DEF Offers, Negotiations, Byte
    <3> QED
      BY <3>1, AnswerCosts
  <2> QED
    BY <1>0, <2>1, RequestsFinite
<1>2. Potential(s) \in Nat
  BY <1>1 DEF Potential
<1>3. CASE Silent(s)
  BY <1>2, <1>3 DEF Silent, ExchangeStep
<1>4. CASE s.toMe # <<>>
  <2> DEFINE command == Head(s.toMe)
             rest == Tail(s.toMe)
             d == Answer(s.mine, command)
             queue == s.toYou \o AsCommand(d.replies)
             o == Enabled(d)
  <2>1. command \in Offers /\ rest \in Seq(Offers) /\ Weight(s.toMe) = Weight(rest) + Cost(command)
    BY <1>0, <1>4, WeightOfTail
  <2>2. /\ queue \in Seq(Offers)
        /\ Spare(o) + Weight(queue) < Spare(s.mine) + Weight(s.toYou) + Cost(command)
    BY <1>0, <2>1, WeightOfAnswer
  <2>3. o \in Options /\ Spare(o) \in Nat
    BY <1>0, <2>1, AnswerCosts
  <2>4. Weight(rest) \in Nat /\ Weight(queue) \in Nat
    BY <2>1, <2>2, RequestsFinite
  <2>5. ExchangeStep(s) = [mine |-> o, yours |-> s.yours, toMe |-> rest, toYou |-> queue]
    BY <1>4 DEF ExchangeStep
  <2> HIDE DEF command, rest, queue, o
  <2>6. /\ ExchangeStep(s) \in Conversations /\ ExchangeStep(s).mine = o /\ ExchangeStep(s).yours = s.yours
        /\ ExchangeStep(s).toMe = rest /\ ExchangeStep(s).toYou = queue
    BY <1>0, <2>1, <2>2, <2>3, <2>5 DEF Conversations
  <2>7. Potential(ExchangeStep(s)) = Spare(o) + Spare(s.yours) + Weight(rest) + Weight(queue)
    BY <2>6 DEF Potential
  <2>8. Potential(ExchangeStep(s)) < Potential(s)
    <3>1. Potential(s) = Spare(s.mine) + Spare(s.yours) + Weight(s.toMe) + Weight(s.toYou)
      BY DEF Potential
    <3>2. Cost(command) \in {2, 3}
      BY DEF Cost
    <3> DEFINE a == Spare(o)
               b == Spare(s.yours)
               r == Weight(rest)
               q == Weight(queue)
               m == Spare(s.mine)
               w == Weight(s.toYou)
               k == Cost(command)
    <3>3. /\ a \in Nat /\ b \in Nat /\ r \in Nat /\ q \in Nat /\ m \in Nat /\ w \in Nat
          /\ k \in {2, 3} /\ a + q < m + w + k
      BY <1>1, <2>2, <2>3, <2>4, <3>2
    <3>4. Potential(ExchangeStep(s)) = a + b + r + q /\ Potential(s) = m + b + (r + k) + w
      BY <2>1, <2>7, <3>1
    <3> HIDE DEF a, b, r, q, m, w, k
    <3>5. a + b + r + q < m + b + (r + k) + w
      BY <3>3, CostsLess
    <3> QED
      BY <3>4, <3>5
  <2> QED
    BY <1>2, <1>4, <2>6, <2>8 DEF Silent
<1>5. CASE s.toMe = <<>> /\ s.toYou # <<>>
  <2> DEFINE command == Head(s.toYou)
             rest == Tail(s.toYou)
             d == Answer(s.yours, command)
             queue == s.toMe \o AsCommand(d.replies)
             o == Enabled(d)
  <2>1. command \in Offers /\ rest \in Seq(Offers) /\ Weight(s.toYou) = Weight(rest) + Cost(command)
    BY <1>0, <1>5, WeightOfTail
  <2>2. /\ queue \in Seq(Offers)
        /\ Spare(o) + Weight(queue) < Spare(s.yours) + Weight(s.toMe) + Cost(command)
    BY <1>0, <2>1, WeightOfAnswer
  <2>3. o \in Options /\ Spare(o) \in Nat
    BY <1>0, <2>1, AnswerCosts
  <2>4. Weight(rest) \in Nat /\ Weight(queue) \in Nat
    BY <2>1, <2>2, RequestsFinite
  <2>5. ExchangeStep(s) = [mine |-> s.mine, yours |-> o, toMe |-> queue, toYou |-> rest]
    BY <1>5 DEF ExchangeStep
  <2> HIDE DEF command, rest, queue, o
  <2>6. /\ ExchangeStep(s) \in Conversations /\ ExchangeStep(s).mine = s.mine /\ ExchangeStep(s).yours = o
        /\ ExchangeStep(s).toMe = queue /\ ExchangeStep(s).toYou = rest
    BY <1>0, <2>1, <2>2, <2>3, <2>5 DEF Conversations
  <2>7. Potential(ExchangeStep(s)) = Spare(s.mine) + Spare(o) + Weight(queue) + Weight(rest)
    BY <2>6 DEF Potential
  <2>8. Potential(ExchangeStep(s)) < Potential(s)
    <3>1. Potential(s) = Spare(s.mine) + Spare(s.yours) + Weight(s.toMe) + Weight(s.toYou)
      BY DEF Potential
    <3>2. Cost(command) \in {2, 3}
      BY DEF Cost
    <3> DEFINE a == Spare(o)
               b == Spare(s.mine)
               r == Weight(rest)
               q == Weight(queue)
               m == Spare(s.yours)
               w == Weight(s.toMe)
               k == Cost(command)
    <3>3. /\ a \in Nat /\ b \in Nat /\ r \in Nat /\ q \in Nat /\ m \in Nat /\ w \in Nat
          /\ k \in {2, 3} /\ a + q < m + w + k
      BY <1>1, <2>2, <2>3, <2>4, <3>2
    <3>4. Potential(ExchangeStep(s)) = b + a + q + r /\ Potential(s) = b + m + w + (r + k)
      BY <2>1, <2>7, <3>1
    <3> HIDE DEF a, b, r, q, m, w, k
    <3>5. b + a + q + r < b + m + w + (r + k)
      BY <3>3, CostsLess
    <3> QED
      BY <3>4, <3>5
  <2> QED
    BY <1>2, <1>5, <2>6, <2>8 DEF Silent
<1> QED
  BY <1>3, <1>4, <1>5 DEF Silent

Opening(mine, yours, toMe) ==
  [mine |-> Enabled(mine), yours |-> Enabled(yours), toMe |-> toMe, toYou |-> <<>>]

(* Exchange() as the states it goes through.                                 *)
Exchanges(run, mine, yours, toMe, turns) ==
  /\ run \in [0 .. turns -> Conversations]
  /\ run[0] = Opening(mine, yours, toMe)
  /\ \A k \in 1 .. turns : run[k] = ExchangeStep(run[k - 1])
  /\ Exchange(mine, yours, toMe, turns) = run[turns].toMe \o run[turns].toYou

(* The fold of ExchangeStep() has such a run.                                *)
LEMMA ExchangeRuns ==
  ASSUME NEW mine, NEW yours, NEW toMe, NEW turns \in Nat, Opening(mine, yours, toMe) \in Conversations
  PROVE  \E run : Exchanges(run, mine, yours, toMe, turns)
<1> DEFINE start == Opening(mine, yours, toMe)
           seq == [i \in 1 .. turns |-> i]
           g == [x \in Conversations \X Nat |-> ExchangeStep(x[1])]
           Solves(f) == f = [s \in SUBSET (1 .. turns) |->
                               IF s = {} THEN start ELSE ExchangeStep(f[s \ {Max(s)}])]
           fold == CHOOSE f : Solves(f)
           run == [k \in 0 .. turns |-> fold[1 .. k]]
<1>1. /\ seq \in Seq(Nat) /\ Len(seq) = turns /\ DOMAIN seq = 1 .. turns
      /\ \A i \in 1 .. turns : seq[i] \in Nat
  OBVIOUS
<1>4. Exchange(mine, yours, toMe, turns) = fold[1 .. turns].toMe \o fold[1 .. turns].toYou
  BY <1>1 DEF Exchange, FoldLeft, MapThenFoldSet, Opening
<1> HIDE DEF seq
<1>0. start \in Conversations
  OBVIOUS
<1> HIDE DEF start
<1>2. \E f : Solves(f)
  <2>1. g \in [Conversations \X Nat -> Conversations]
    BY ExchangeStepCosts
  <2> HIDE DEF g
  <2>2. PICK f \in [SUBSET (1 .. Len(seq)) -> Conversations] : FoldsBy(f, g, start, seq)
    BY <1>0, <1>1, <2>1, FoldRecursion
  <2>3. ASSUME NEW s \in SUBSET (1 .. turns), s # {}
        PROVE  g[<<f[s \ {Max(s)}], seq[Max(s)]>>] = ExchangeStep(f[s \ {Max(s)}])
    <3>1. Max(s) \in 1 .. turns /\ s \ {Max(s)} \in SUBSET (1 .. turns)
      BY <1>1, <2>3, MaxOfPart
    <3>2. f[s \ {Max(s)}] \in Conversations /\ seq[Max(s)] \in Nat
      BY <1>1, <2>2, <3>1
    <3> QED
      BY <3>2 DEF g
  <2>4. f = [s \in SUBSET (1 .. turns) |-> IF s = {} THEN start ELSE ExchangeStep(f[s \ {Max(s)}])]
    BY <1>1, <2>2, <2>3 DEF FoldsBy
  <2> QED
    BY <2>4
<1>3. Solves(fold)
  BY <1>2
<1> HIDE DEF fold
<1>5. run[0] = start /\ \A k \in 1 .. turns : run[k] = ExchangeStep(run[k - 1])
  <2>1. 1 .. 0 = {} /\ {} \in SUBSET (1 .. turns)
    OBVIOUS
  <2>2. run[0] = start
    BY <1>1, <1>3, <2>1
  <2>3. ASSUME NEW k \in 1 .. turns PROVE run[k] = ExchangeStep(run[k - 1])
    <3>1. /\ 1 .. k # {} /\ 1 .. k \in SUBSET (1 .. turns)
          /\ (1 .. k) \ {Max(1 .. k)} = 1 .. k - 1
      BY FirstIndexes
    <3>2. fold[1 .. k] = ExchangeStep(fold[(1 .. k) \ {Max(1 .. k)}])
      BY <1>3, <3>1
    <3>3. fold[1 .. k] = ExchangeStep(fold[1 .. k - 1])
      BY <3>1, <3>2
    <3>4. k \in 0 .. turns /\ k - 1 \in 0 .. turns
      OBVIOUS
    <3> QED
      BY <3>3, <3>4
  <2> QED
    BY <2>2, <2>3
<1> HIDE DEF run
<1>6. \A k \in 0 .. turns : run[k] \in Conversations
  <2> DEFINE S == {k \in 0 .. turns : run[k] \in Conversations}
  <2>1. 0 \in S
    BY <1>0, <1>5
  <2>2. \A k \in 0 .. turns - 1 : k \in S => k + 1 \in S
    BY <1>5, ExchangeStepCosts
  <2>3. \A k \in 0 .. turns : k \in S
    <3> HIDE DEF S
    <3> QED
      BY <2>1, <2>2, InductionTo
  <2> QED
    BY <2>3
<1>7. run \in [0 .. turns -> Conversations]
      /\ Exchange(mine, yours, toMe, turns) = run[turns].toMe \o run[turns].toYou
  <2>1. run = [k \in 0 .. turns |-> run[k]] /\ run[turns] = fold[1 .. turns]
    BY DEF run
  <2> HIDE DEF run
  <2> QED
    BY <1>4, <1>6, <2>1
<1> QED
  BY <1>5, <1>7 DEF start, Exchanges

(* Whatever is in flight, the turns given are enough for silence.            *)
THEOREM AnyNegotiationEnds ==
  ASSUME NEW mine, NEW yours, NEW toMe \in Seq(Offers),
         Enabled(mine) \in Options, Enabled(yours) \in Options
  PROVE  Exchange(mine, yours, toMe,
                  3 * Len(toMe) + 2 * Cardinality(AllowLocal) + 2 * Cardinality(AllowRemote)) = <<>>
<1> DEFINE n == 3 * Len(toMe) + 2 * Cardinality(AllowLocal) + 2 * Cardinality(AllowRemote)
           start == Opening(mine, yours, toMe)
<1>1. Len(toMe) \in Nat /\ Cardinality(AllowLocal) \in Nat /\ Cardinality(AllowRemote) \in Nat
  BY LenProperties, OptionsAssumption, FS_CardinalityType
<1>2. n \in Nat
  BY <1>1
<1>3. start \in Conversations
  <2>1. <<>> \in Seq(Offers)
    OBVIOUS
  <2> QED
    BY <2>1 DEF Conversations, Opening
<1>4. Potential(start) <= n
  <2>1. \A o \in Options : /\ Spare(o) \in Nat
                           /\ Spare(o) <= Cardinality(AllowLocal) + Cardinality(AllowRemote)
    <3> SUFFICES ASSUME NEW o \in Options
                 PROVE  Spare(o) \in Nat /\ Spare(o) <= Cardinality(AllowLocal) + Cardinality(AllowRemote)
      OBVIOUS
    <3>1. /\ Cardinality(AllowLocal \ o.local) \in Nat
          /\ Cardinality(AllowLocal \ o.local) <= Cardinality(AllowLocal)
          /\ Cardinality(AllowRemote \ o.remote) \in Nat
          /\ Cardinality(AllowRemote \ o.remote) <= Cardinality(AllowRemote)
      BY OptionsAssumption, SpareOf DEF Options
    <3> QED
      BY <1>1, <3>1 DEF Spare
  <2>2. Weight(toMe) \in Nat /\ Weight(toMe) <= 3 * Len(toMe)
    <3>1. Cardinality(Requests(toMe)) \in Nat /\ Cardinality(Requests(toMe)) <= Len(toMe)
      BY RequestsFinite
    <3> QED
      BY <1>1, <3>1 DEF Weight
  <2>3. Weight(<<>>) = 0
    <3>1. Requests(<<>>) = {} /\ Len(<<>>) = 0
      BY DEF Requests
    <3>2. Cardinality(Requests(<<>>)) = 0
      BY <3>1, FS_EmptySet
    <3> QED
      BY <3>1, <3>2 DEF Weight
  <2>4. Potential(start) = Spare(Enabled(mine)) + Spare(Enabled(yours)) + Weight(toMe) + Weight(<<>>)
    BY DEF Potential, Opening
  <2> DEFINE a == Spare(Enabled(mine))
             b == Spare(Enabled(yours))
  <2>5. /\ a \in Nat /\ a <= Cardinality(AllowLocal) + Cardinality(AllowRemote)
        /\ b \in Nat /\ b <= Cardinality(AllowLocal) + Cardinality(AllowRemote)
    BY <2>1
  <2> HIDE DEF a, b
  <2>6. Potential(start) = a + b + Weight(toMe)
    BY <2>2, <2>3, <2>4, <2>5 DEF a, b
  <2> QED
    BY <1>1, <2>2, <2>5, <2>6
<1> HIDE DEF n
<1>12. PICK run : Exchanges(run, mine, yours, toMe, n)
  BY <1>2, <1>3, ExchangeRuns
<1>5. /\ run \in [0 .. n -> Conversations] /\ run[0] = start
      /\ \A k \in 1 .. n : run[k] = ExchangeStep(run[k - 1])
      /\ Exchange(mine, yours, toMe, n) = run[n].toMe \o run[n].toYou
  BY <1>12 DEF Exchanges
<1> HIDE DEF start
<1> DEFINE S == {k \in 0 .. n : Silent(run[k]) \/ Potential(run[k]) + k <= n}
<1>6. 0 \in S
  <2>1. Potential(run[0]) + 0 <= n
    BY <1>2, <1>3, <1>4, <1>5, ExchangeStepCosts
  <2> QED
    BY <1>2, <2>1
<1>7. \A k \in 0 .. n - 1 : k \in S => k + 1 \in S
  <2> SUFFICES ASSUME NEW k \in 0 .. n - 1, k \in S PROVE k + 1 \in S
    OBVIOUS
  <2>1. k + 1 \in 0 .. n /\ k \in 0 .. n /\ run[k + 1] = ExchangeStep(run[k]) /\ run[k] \in Conversations
    BY <1>2, <1>5
  <2>2. CASE Silent(run[k])
    <3>1. run[k + 1] = run[k]
      BY <2>1, <2>2, ExchangeStepCosts
    <3> QED
      BY <2>1, <2>2, <3>1
  <2>3. CASE ~Silent(run[k])
    <3>1. /\ Potential(run[k]) \in Nat /\ Potential(run[k + 1]) < Potential(run[k])
          /\ Potential(run[k + 1]) \in Nat
      BY <1>5, <2>1, <2>3, ExchangeStepCosts
    <3>2. Potential(run[k]) + k <= n
      BY <2>3
    <3> QED
      BY <1>2, <2>1, <3>1, <3>2
  <2> QED
    BY <2>2, <2>3
<1>8. n \in S
  <2> HIDE DEF S
  <2>1. \A k \in 0 .. n : k \in S
    BY <1>2, <1>6, <1>7, InductionTo
  <2> QED
    BY <1>2, <2>1
<1>9. run[n] \in Conversations
  BY <1>2, <1>5
<1>10. Silent(run[n])
  <2> SUFFICES ASSUME Potential(run[n]) + n <= n PROVE Silent(run[n])
    BY <1>8
  <2> DEFINE s == run[n]
  <2>1. Potential(s) = 0
    BY <1>2, <1>9, ExchangeStepCosts
  <2> HIDE DEF s
  <2>2. s \in Conversations
    BY <1>9 DEF s
  <2>3. s = ExchangeStep(s) \/ Potential(ExchangeStep(s)) < 0
    BY <2>1, <2>2, ExchangeStepCosts
  <2>4. Potential(ExchangeStep(s)) \in Nat
    BY <2>2, ExchangeStepCosts
  <2>5. Silent(s)
    BY <2>1, <2>2, <2>4, ExchangeStepCosts
  <2> QED
    BY <2>5 DEF s
<1>11. Exchange(mine, yours, toMe, n) = <<>>
  <2>1. <<>> \o <<>> = <<>>
    OBVIOUS
  <2> QED
    BY <1>5, <1>10, <2>1 DEF Silent
<1> QED
  BY <1>11 DEF n

(* Two peers that answer by this policy always fall silent.                  *)
LEMMA NegotiationsAlwaysEnd ==
  ASSUME task = "negotiation" => in \in [mine : Codecs, yours : Codecs, toMe : Seq(Offers)]
  PROVE  NegotiationEnds
<1> SUFFICES ASSUME in \in [mine : Codecs, yours : Codecs, toMe : Seq(Offers)]
             PROVE  Exchange(in.mine, in.yours, in.toMe,
                             3 * Len(in.toMe) + 2 * Cardinality(AllowLocal) + 2 * Cardinality(AllowRemote)) = <<>>
  BY DEF NegotiationEnds
<1>1. \A codec \in Codecs : Enabled(codec) \in Options
  BY DEF Codecs, Enabled, Options
<1>2. Enabled(in.mine) \in Options /\ Enabled(in.yours) \in Options /\ in.toMe \in Seq(Offers)
  BY <1>1
<1> QED
  BY <1>2, AnyNegotiationEnds

Octets == 0 .. 255
Phases == {"greeting", "request", "connect", "refused"}
Clients == [phase : Phases, buf : Seq(Octets), replies : Nat, target : Seq(Seq(Octets))]
Client(phase, buf, replies, target) ==
  [phase |-> phase, buf |-> buf, replies |-> replies, target |-> target]

(* A SOCKS byte is a number below 256.                                       *)
LEMMA OctetIs ==
  ASSUME NEW b \in Octets
  PROVE  b \in Nat /\ b <= 255
BY DEF Octets

(* A client of a dynamic forward, field by field.                            *)
LEMMA ClientIs ==
  ASSUME NEW s \in Clients
  PROVE  s = Client(s.phase, s.buf, s.replies, s.target)
BY DEF Clients, Client

(* Fields of the right kind make a client.                                   *)
LEMMA ClientTypes ==
  ASSUME NEW p \in Phases, NEW b \in Seq(Octets), NEW r \in Nat, NEW t \in Seq(Seq(Octets))
  PROVE  /\ Client(p, b, r, t) \in Clients
         /\ Client(p, b, r, t).phase = p /\ Client(p, b, r, t).buf = b
         /\ Client(p, b, r, t).replies = r /\ Client(p, b, r, t).target = t
BY DEF Clients, Client

(* What is read inside the bytes that are there is read inside more of them. *)
LEMMA PartOfMore ==
  ASSUME NEW S, NEW s \in Seq(S), NEW t \in Seq(S), NEW m \in Nat \ {0}, NEW n \in Nat, n <= Len(s)
  PROVE  /\ SubSeq(s \o t, m, n) = SubSeq(s, m, n)
         /\ SubSeq(s, m, n) \in Seq(S)
         /\ \A i \in 1 .. Len(s) : (s \o t)[i] = s[i]
         /\ Len(s \o t) = Len(s) + Len(t) /\ s \o t \in Seq(S)
<1>0. Len(s) \in Nat /\ Len(t) \in Nat /\ \A i \in 1 .. Len(s) : s[i] \in S
  BY LenProperties, ElementOfSeq
<1>1. /\ s \o t \in Seq(S) /\ Len(s \o t) = Len(s) + Len(t)
      /\ \A i \in 1 .. Len(s) : (s \o t)[i] = s[i]
  BY <1>0, ConcatProperties
<1>2. \A i \in 1 .. Len(s) + Len(t) : (s \o t)[i] \in S
  BY <1>1, ElementOfSeq
<1> DEFINE a == SubSeq(s \o t, m, n)
           b == SubSeq(s, m, n)
           k == IF m <= n THEN n - m + 1 ELSE 0
<1>3. a \in Seq(S) /\ Len(a) = k /\ \A i \in 1 .. k : a[i] = (s \o t)[m + i - 1]
  BY <1>0, <1>1, <1>2, SubSeqProperties
<1>4. b \in Seq(S) /\ Len(b) = k /\ \A i \in 1 .. k : b[i] = s[m + i - 1]
  BY <1>0, SubSeqProperties
<1>5. \A i \in 1 .. k : m + i - 1 \in 1 .. Len(s)
  BY <1>0
<1> HIDE DEF a, b, k
<1>6. \A i \in 1 .. Len(a) : a[i] = b[i]
  BY <1>1, <1>3, <1>4, <1>5
<1>7. a = b
  BY <1>3, <1>4, <1>6, SeqEqual
<1> QED
  BY <1>1, <1>4, <1>7 DEF a, b

(* decode_greeting(): what is not ready is short, and what is stays so.      *)
LEMMA GreetingIs ==
  ASSUME NEW buf \in Seq(Octets)
  PROVE  /\ Forwards!DecodeGreeting(buf).ready \in BOOLEAN
         /\ Forwards!DecodeGreeting(buf).ok \in BOOLEAN
         /\ ~Forwards!DecodeGreeting(buf).ready => ~(Len(buf) > MaxGreeting)
         /\ Forwards!DecodeGreeting(buf).ready =>
              \A more \in Seq(Octets) :
                Forwards!DecodeGreeting(buf \o more) = Forwards!DecodeGreeting(buf)
         /\ Forwards!DecodeGreeting(buf).ready /\ Forwards!DecodeGreeting(buf).ok =>
              Forwards!DecodeGreeting(buf).consumed \in 0 .. Len(buf)
<1>0. /\ Len(buf) \in Nat /\ \A i \in 1 .. Len(buf) : buf[i] \in Octets
      /\ MaxGreeting \in Nat /\ MaxGreeting >= 257
  BY LenProperties, ElementOfSeq, HandshakeAssumption
<1>1. CASE Len(buf) < 2
  BY <1>0, <1>1 DEF Forwards!DecodeGreeting, Forwards!More
<1>2. CASE Len(buf) >= 2 /\ buf[1] # 5
  <2>1. Forwards!DecodeGreeting(buf) = Forwards!Bad
    BY <1>0, <1>2 DEF Forwards!DecodeGreeting
  <2>2. ASSUME NEW more \in Seq(Octets) PROVE Forwards!DecodeGreeting(buf \o more) = Forwards!Bad
    <3>1. Len(buf \o more) >= 2 /\ (buf \o more)[1] = buf[1]
      <4>1. Len(more) \in Nat
        BY LenProperties
      <4> QED
        BY <1>0, <1>2, <4>1, PartOfMore
    <3> QED
      BY <1>0, <1>2, <3>1 DEF Forwards!DecodeGreeting
  <2> QED
    BY <2>1, <2>2 DEF Forwards!Bad
<1>3. CASE Len(buf) >= 2 /\ buf[1] = 5 /\ Len(buf) < 2 + buf[2]
  <2>1. buf[2] \in Octets
    BY <1>0, <1>3
  <2>2. Forwards!DecodeGreeting(buf) = Forwards!More
    BY <1>0, <1>3 DEF Forwards!DecodeGreeting
  <2>3. ~(Len(buf) > MaxGreeting)
    <3> DEFINE b == buf[2]
               l == Len(buf)
    <3>1. b \in Nat /\ b <= 255 /\ l \in Nat /\ l < 2 + b
      BY <1>0, <1>3, <2>1, OctetIs
    <3> HIDE DEF b, l
    <3>2. ~(l > MaxGreeting)
      BY <1>0, <3>1
    <3> QED
      BY <3>2 DEF l
  <2> QED
    BY <2>2, <2>3 DEF Forwards!More
<1>4. CASE Len(buf) >= 2 /\ buf[1] = 5 /\ Len(buf) >= 2 + buf[2]
  <2> DEFINE n == 2 + buf[2]
             G == [ready |-> TRUE, ok |-> TRUE,
                   method |-> Forwards!Contains(SubSeq(buf, 3, n), 0), consumed |-> n]
  <2>1. buf[2] \in Octets /\ n \in Nat /\ n <= Len(buf)
    <3>1. buf[2] \in Octets
      BY <1>0, <1>4
    <3>2. buf[2] \in Nat
      BY <3>1, OctetIs
    <3> QED
      BY <1>4, <3>1, <3>2
  <2>2. Forwards!DecodeGreeting(buf) = G
    BY <1>0, <1>4, <2>1 DEF Forwards!DecodeGreeting, Octets
  <2>3. ASSUME NEW more \in Seq(Octets) PROVE Forwards!DecodeGreeting(buf \o more) = G
    <3> DEFINE whole == buf \o more
    <3>0. Len(more) \in Nat
      BY LenProperties
    <3>1. Len(whole) = Len(buf) + Len(more) /\ whole[1] = buf[1] /\ whole[2] = buf[2]
      BY <1>0, <1>4, <3>0, PartOfMore
    <3>2. SubSeq(whole, 3, n) = SubSeq(buf, 3, n)
      <4> HIDE DEF n
      <4>1. 3 \in Nat \ {0}
        OBVIOUS
      <4> QED
        BY <2>1, <4>1, PartOfMore
    <3> HIDE DEF whole
    <3>3. Forwards!DecodeGreeting(whole)
            = [ready |-> TRUE, ok |-> TRUE,
               method |-> Forwards!Contains(SubSeq(whole, 3, n), 0), consumed |-> n]
      BY <1>0, <1>4, <2>1, <3>0, <3>1 DEF Forwards!DecodeGreeting, Octets
    <3> QED
      BY <3>2, <3>3 DEF whole
  <2>4. G.ready = TRUE /\ G.ok = TRUE /\ G.consumed = n
    OBVIOUS
  <2> HIDE DEF G
  <2>5. n \in 0 .. Len(buf)
    BY <1>0, <2>1
  <2> HIDE DEF n
  <2> DEFINE d == Forwards!DecodeGreeting(buf)
  <2>6. d = G
    BY <2>2
  <2>7. \A more \in Seq(Octets) : Forwards!DecodeGreeting(buf \o more) = d
    BY <2>3, <2>6
  <2> HIDE DEF d
  <2>8. d.ready = TRUE /\ d.ok = TRUE /\ d.consumed \in 0 .. Len(buf)
    BY <2>4, <2>5, <2>6
  <2> QED
    BY <2>7, <2>8 DEF d
<1>5. buf[1] # 5 \/ Len(buf) < 2 + buf[2] \/ Len(buf) >= 2 + buf[2] \/ Len(buf) < 2
  <2>1. CASE Len(buf) >= 2
    <3>1. buf[2] \in Octets
      BY <1>0, <2>1
    <3> DEFINE b == buf[2]
               l == Len(buf)
    <3>2. b \in Nat /\ l \in Nat
      BY <1>0, <3>1, OctetIs
    <3> HIDE DEF b, l
    <3>3. l < 2 + b \/ l >= 2 + b
      BY <3>2
    <3> QED
      BY <3>3 DEF b, l
  <2> QED
    BY <1>0, <2>1
<1>6. Len(buf) < 2 \/ Len(buf) >= 2
  BY <1>0
<1> QED
  BY <1>1, <1>2, <1>3, <1>4, <1>5, <1>6, Zenon

(* decode_connect(): likewise.                                               *)
LEMMA ConnectIs ==
  ASSUME NEW buf \in Seq(Octets)
  PROVE  /\ Forwards!DecodeConnect(buf).ready \in BOOLEAN
         /\ Forwards!DecodeConnect(buf).ok \in BOOLEAN
         /\ ~Forwards!DecodeConnect(buf).ready => ~(Len(buf) > MaxRequest)
         /\ Forwards!DecodeConnect(buf).ready =>
              \A more \in Seq(Octets) :
                Forwards!DecodeConnect(buf \o more) = Forwards!DecodeConnect(buf)
         /\ Forwards!DecodeConnect(buf).ready /\ Forwards!DecodeConnect(buf).ok =>
              <<Forwards!DecodeConnect(buf).host, Forwards!DecodeConnect(buf).port>> \in Seq(Seq(Octets))
<1> DEFINE span == Forwards!AddressSpan(buf)
           port == span.at + span.width
<1>0. /\ Len(buf) \in Nat /\ \A i \in 1 .. Len(buf) : buf[i] \in Octets
      /\ MaxRequest \in Nat /\ MaxRequest >= 262
  BY LenProperties, ElementOfSeq, HandshakeAssumption
<1>1. CASE Len(buf) < 4
  BY <1>0, <1>1 DEF Forwards!DecodeConnect, Forwards!More
<1>2. CASE Len(buf) >= 4 /\ (buf[1] # 5 \/ buf[2] # 1 \/ buf[3] # 0 \/ buf[4] \notin {1, 3, 4})
  <2>1. Forwards!DecodeConnect(buf) = Forwards!Bad
    BY <1>0, <1>2 DEF Forwards!DecodeConnect
  <2>2. ASSUME NEW more \in Seq(Octets) PROVE Forwards!DecodeConnect(buf \o more) = Forwards!Bad
    <3>0. Len(more) \in Nat
      BY LenProperties
    <3>1. Len(buf \o more) >= 4 /\ \A i \in 1 .. 4 : (buf \o more)[i] = buf[i]
      BY <1>0, <1>2, <3>0, PartOfMore
    <3> HIDE DEF span, port
    <3>2. ~(Len(buf \o more) < 4)
      BY <1>0, <3>0, <3>1, PartOfMore
    <3>3. /\ (buf \o more)[1] = buf[1] /\ (buf \o more)[2] = buf[2]
          /\ (buf \o more)[3] = buf[3] /\ (buf \o more)[4] = buf[4]
      BY <3>1
    <3> QED
      BY <1>2, <3>2, <3>3 DEF Forwards!DecodeConnect
  <2> QED
    BY <2>1, <2>2 DEF Forwards!Bad
<1>3. CASE Len(buf) >= 4 /\ buf[1] = 5 /\ buf[2] = 1 /\ buf[3] = 0 /\ buf[4] \in {1, 3, 4}
  <2>1. /\ span.at \in {5, 6} /\ span.width \in Octets /\ port \in Nat /\ port + 1 <= 262 /\ port >= 5
        /\ span.at <= port
        /\ (buf[4] = 3 /\ Len(buf) < 5 => port + 1 = 8)
    <3>1. CASE buf[4] = 1
      BY <3>1 DEF Forwards!AddressSpan, Octets
    <3>2. CASE buf[4] = 4
      BY <3>2 DEF Forwards!AddressSpan, Octets
    <3>3. CASE buf[4] = 3 /\ Len(buf) < 5
      BY <3>3 DEF Forwards!AddressSpan, Octets
    <3>4. CASE buf[4] = 3 /\ ~(Len(buf) < 5)
      <4>1. buf[5] \in Octets
        BY <1>0, <3>4
      <4> DEFINE w == buf[5]
      <4>2. span = [at |-> 6, width |-> w]
        BY <3>4 DEF Forwards!AddressSpan
      <4>3. w \in Nat /\ w <= 255 /\ w \in Octets
        BY <4>1, OctetIs
      <4> HIDE DEF span, w
      <4>4. span.at = 6 /\ span.width = w
        BY <4>2
      <4> QED
        BY <3>4, <4>3, <4>4
    <3> QED
      BY <1>3, <3>1, <3>2, <3>3, <3>4
  <2> HIDE DEF span
  <2>2. CASE Len(buf) < port + 1
    <3>1. Forwards!DecodeConnect(buf) = Forwards!More
      BY <1>0, <1>3, <2>2 DEF Forwards!DecodeConnect, span
    <3>2. ~(Len(buf) > MaxRequest)
      BY <1>0, <2>1, <2>2
    <3> QED
      BY <3>1, <3>2 DEF Forwards!More
  <2>3. CASE ~(Len(buf) < port + 1)
    <3> DEFINE C == [ready |-> TRUE, ok |-> TRUE, host |-> SubSeq(buf, span.at, port - 1),
                     port |-> SubSeq(buf, port, port + 1)]
    <3>1. Forwards!DecodeConnect(buf) = C
      BY <1>0, <1>3, <2>3 DEF Forwards!DecodeConnect, span
    <3>2. ~(buf[4] = 3 /\ Len(buf) < 5)
      BY <1>0, <2>1, <2>3
    <3>3. /\ span.at \in Nat \ {0} /\ port \in Nat \ {0} /\ port - 1 \in Nat /\ port - 1 <= Len(buf)
          /\ port + 1 \in Nat /\ port + 1 <= Len(buf)
      BY <1>0, <2>1, <2>3
    <3>4. ASSUME NEW more \in Seq(Octets) PROVE Forwards!DecodeConnect(buf \o more) = C
      <4> DEFINE whole == buf \o more
      <4>0. Len(more) \in Nat
        BY LenProperties
      <4>1. /\ Len(whole) = Len(buf) + Len(more) /\ whole[1] = buf[1] /\ whole[2] = buf[2]
            /\ whole[3] = buf[3] /\ whole[4] = buf[4] /\ (Len(buf) >= 5 => whole[5] = buf[5])
        <5>1. Len(whole) = Len(buf) + Len(more) /\ \A i \in 1 .. Len(buf) : whole[i] = buf[i]
          BY PartOfMore
        <5> HIDE DEF whole
        <5> QED
          BY <1>0, <1>3, <5>1
      <4>2. /\ SubSeq(whole, span.at, port - 1) = SubSeq(buf, span.at, port - 1)
            /\ SubSeq(whole, port, port + 1) = SubSeq(buf, port, port + 1)
        <5> DEFINE at == span.at
                   m == port - 1
                   n == port + 1
        <5>1. /\ at \in Nat \ {0} /\ m \in Nat /\ m <= Len(buf)
              /\ port \in Nat \ {0} /\ n \in Nat /\ n <= Len(buf)
          BY <3>3
        <5> HIDE DEF at, m, n, port
        <5>2. SubSeq(whole, at, m) = SubSeq(buf, at, m)
          BY <5>1, PartOfMore
        <5>3. SubSeq(whole, port, n) = SubSeq(buf, port, n)
          BY <5>1, PartOfMore
        <5> QED
          BY <5>2, <5>3 DEF at, m, n
      <4> HIDE DEF whole
      <4>3. Forwards!AddressSpan(whole) = span
        BY <1>0, <1>3, <3>2, <4>0, <4>1 DEF Forwards!AddressSpan, span
      <4>4. ~(Len(whole) < 4) /\ ~(Len(whole) < port + 1)
        BY <1>0, <1>3, <2>1, <2>3, <4>0, <4>1
      <4>5. Forwards!DecodeConnect(whole)
              = [ready |-> TRUE, ok |-> TRUE, host |-> SubSeq(whole, span.at, port - 1),
                 port |-> SubSeq(whole, port, port + 1)]
        BY <1>3, <4>1, <4>3, <4>4 DEF Forwards!DecodeConnect
      <4> QED
        BY <4>2, <4>5 DEF whole
    <3>5. C.ready = TRUE /\ C.ok = TRUE /\ C.host = SubSeq(buf, span.at, port - 1)
          /\ C.port = SubSeq(buf, port, port + 1)
      OBVIOUS
    <3>6. C.host \in Seq(Octets) /\ C.port \in Seq(Octets)
      <4>1. <<>> \in Seq(Octets)
        OBVIOUS
      <4>2. SubSeq(buf, span.at, port - 1) \in Seq(Octets) /\ SubSeq(buf, port, port + 1) \in Seq(Octets)
        <5> DEFINE at == span.at
                   m == port - 1
                   n == port + 1
        <5>1. /\ at \in Nat \ {0} /\ m \in Nat /\ m <= Len(buf)
              /\ port \in Nat \ {0} /\ n \in Nat /\ n <= Len(buf)
          BY <3>3
        <5> HIDE DEF at, m, n, port
        <5>2. SubSeq(buf, at, m) \in Seq(Octets)
          BY <4>1, <5>1, PartOfMore
        <5>3. SubSeq(buf, port, n) \in Seq(Octets)
          BY <4>1, <5>1, PartOfMore
        <5> QED
          BY <5>2, <5>3 DEF at, m, n
      <4> QED
        BY <3>5, <4>2
    <3> HIDE DEF C
    <3> DEFINE d == Forwards!DecodeConnect(buf)
    <3>7. d = C
      BY <3>1
    <3>8. \A more \in Seq(Octets) : Forwards!DecodeConnect(buf \o more) = d
      BY <3>4, <3>7
    <3> HIDE DEF d
    <3>9. d.ready = TRUE /\ d.ok = TRUE
      BY <3>5, <3>7
    <3>10. d.host \in Seq(Octets) /\ d.port \in Seq(Octets)
      BY <3>6, <3>7
    <3>11. <<d.host, d.port>> \in Seq(Seq(Octets))
      BY <3>10
    <3> QED
      BY <3>8, <3>9, <3>11 DEF d
  <2> QED
    BY <2>2, <2>3
<1>4. Len(buf) < 4 \/ Len(buf) >= 4
  BY <1>0
<1> QED
  BY <1>1, <1>2, <1>3, <1>4, Zenon

(* What a read makes of the bytes kept and those that came, in each phase.    *)
Requested(buf, replies, target) ==
  LET d == Forwards!DecodeConnect(buf)
  IN IF ~d.ready THEN Client("request", buf, replies, target)
     ELSE IF ~d.ok THEN Client("refused", buf, replies, target)
     ELSE Client("connect", buf, replies, <<d.host, d.port>>)

Greeted(buf, replies, target) ==
  LET d == Forwards!DecodeGreeting(buf)
      rest == SubSeq(buf, d.consumed + 1, Len(buf))
  IN IF ~d.ready THEN Client("greeting", buf, replies, target)
     ELSE IF ~d.ok THEN Client("refused", buf, replies, target)
     ELSE IF d.method THEN Requested(rest, replies + 1, target)
     ELSE Client("refused", rest, replies + 1, target)

(* Whoever has a client's bytes in one piece or in two has the same of it.    *)
Alike(s, t) ==
  /\ s.phase = t.phase /\ s.replies = t.replies /\ s.target = t.target
  /\ s.phase \in {"greeting", "request"} => s.buf = t.buf

(* What a request leaves is a client, which waits, is refused or is          *)
(* connected.                                                                *)
LEMMA RequestedTypes ==
  ASSUME NEW b \in Seq(Octets), NEW r \in Nat, NEW t \in Seq(Seq(Octets))
  PROVE  /\ Requested(b, r, t) \in Clients
         /\ Requested(b, r, t).phase \in {"request", "refused", "connect"}
<1> DEFINE d == Forwards!DecodeConnect(b)
<1>1. d.ready \in BOOLEAN /\ d.ok \in BOOLEAN
      /\ (d.ready /\ d.ok => <<d.host, d.port>> \in Seq(Seq(Octets)))
  BY ConnectIs
<1>2. Requested(b, r, t) = IF ~d.ready THEN Client("request", b, r, t)
                           ELSE IF ~d.ok THEN Client("refused", b, r, t)
                           ELSE Client("connect", b, r, <<d.host, d.port>>)
  BY DEF Requested
<1> HIDE DEF d
<1>3. {"request", "refused", "connect"} \subseteq Phases
  BY DEF Phases
<1>4. CASE ~d.ready
  BY <1>2, <1>3, <1>4, ClientTypes
<1>5. CASE d.ready /\ ~d.ok
  BY <1>2, <1>3, <1>5, ClientTypes
<1>6. CASE d.ready /\ d.ok
  <2> DEFINE u == <<d.host, d.port>>
  <2>1. u \in Seq(Seq(Octets)) /\ Requested(b, r, t) = Client("connect", b, r, u)
    BY <1>1, <1>2, <1>6
  <2> HIDE DEF u
  <2> QED
    BY <1>3, <2>1, ClientTypes
<1> QED
  BY <1>4, <1>5, <1>6

(* What a greeting leaves is a client.                                       *)
LEMMA GreetedTypes ==
  ASSUME NEW b \in Seq(Octets), NEW r \in Nat, NEW t \in Seq(Seq(Octets))
  PROVE  Greeted(b, r, t) \in Clients
<1> DEFINE d == Forwards!DecodeGreeting(b)
           rest == SubSeq(b, d.consumed + 1, Len(b))
<1>1. d.ready \in BOOLEAN /\ d.ok \in BOOLEAN /\ (d.ready /\ d.ok => d.consumed \in 0 .. Len(b))
  BY GreetingIs
<1>2. Greeted(b, r, t) = IF ~d.ready THEN Client("greeting", b, r, t)
                         ELSE IF ~d.ok THEN Client("refused", b, r, t)
                         ELSE IF d.method THEN Requested(rest, r + 1, t)
                         ELSE Client("refused", rest, r + 1, t)
  BY DEF Greeted
<1>3. {"greeting", "request", "refused", "connect"} \subseteq Phases /\ r + 1 \in Nat
  BY DEF Phases
<1>6. ASSUME d.ready, d.ok PROVE rest \in Seq(Octets)
  <2> DEFINE n == d.consumed
  <2>1. n \in 0 .. Len(b)
    BY <1>1, <1>6
  <2> HIDE DEF n
  <2>2. SubSeq(b, n + 1, Len(b)) \in Seq(Octets)
    BY <2>1, CutAndJoined
  <2> QED
    BY <2>2 DEF n
<1> HIDE DEF d, rest
<1>4. CASE ~d.ready
  BY <1>2, <1>3, <1>4, ClientTypes
<1>5. CASE d.ready /\ ~d.ok
  BY <1>2, <1>3, <1>5, ClientTypes
<1>7. CASE d.ready /\ d.ok /\ d.method
  BY <1>2, <1>3, <1>6, <1>7, RequestedTypes
<1>8. CASE d.ready /\ d.ok /\ ~d.method
  BY <1>2, <1>3, <1>6, <1>8, ClientTypes
<1> QED
  BY <1>1, <1>4, <1>5, <1>7, <1>8

(* The fields of a client, whatever they are.                                *)
LEMMA ClientFields ==
  ASSUME NEW p, NEW b, NEW r, NEW t
  PROVE  /\ Client(p, b, r, t).phase = p /\ Client(p, b, r, t).buf = b
         /\ Client(p, b, r, t).replies = r /\ Client(p, b, r, t).target = t
BY DEF Client

(* The read of a request, by what it decodes: MAX_REQUEST never refuses a    *)
(* request that is whole.                                                    *)
LEMMA ReadRequestIs ==
  ASSUME NEW b \in Seq(Octets), NEW r \in Nat, NEW t \in Seq(Seq(Octets))
  PROVE  Forwards!ReadRequest(Client("request", b, r, t)) = Requested(b, r, t)
<1> DEFINE d == Forwards!DecodeConnect(b)
           s == Client("request", b, r, t)
<1>1. d.ready \in BOOLEAN /\ d.ok \in BOOLEAN /\ (~d.ready => ~(Len(b) > MaxRequest))
  BY ConnectIs
<1>2. s.buf = b /\ s = [phase |-> "request", buf |-> b, replies |-> r, target |-> t]
  BY DEF Client
<1>3. Forwards!ReadRequest(s) =
        IF ~d.ready THEN IF Len(b) > MaxRequest THEN [s EXCEPT !.phase = "refused"] ELSE s
        ELSE IF ~d.ok THEN [s EXCEPT !.phase = "refused"]
        ELSE [s EXCEPT !.phase = "connect", !.target = <<d.host, d.port>>]
  BY <1>2 DEF Forwards!ReadRequest
<1>4. Requested(b, r, t) = IF ~d.ready THEN Client("request", b, r, t)
                           ELSE IF ~d.ok THEN Client("refused", b, r, t)
                           ELSE Client("connect", b, r, <<d.host, d.port>>)
  BY DEF Requested
<1>5. [s EXCEPT !.phase = "refused"] = Client("refused", b, r, t)
  BY DEF Client
<1> DEFINE u == <<d.host, d.port>>
           reading == [s EXCEPT !.phase = "connect"]
           done == [reading EXCEPT !.target = u]
<1>6. Forwards!ReadRequest(s) =
        IF ~d.ready THEN IF Len(b) > MaxRequest THEN [s EXCEPT !.phase = "refused"] ELSE s
        ELSE IF ~d.ok THEN [s EXCEPT !.phase = "refused"] ELSE done
  BY <1>3
<1>7. done = Client("connect", b, r, u)
  <2>1. reading = Client("connect", b, r, t)
    BY DEF Client
  <2> HIDE DEF reading, u
  <2>2. [Client("connect", b, r, t) EXCEPT !.target = u] = Client("connect", b, r, u)
    BY DEF Client
  <2>3. done = [Client("connect", b, r, t) EXCEPT !.target = u]
    BY <2>1
  <2> QED
    BY <2>2, <2>3
<1> HIDE DEF done, reading
<1>8. /\ Forwards!ReadRequest(s) =
           IF ~d.ready THEN IF Len(b) > MaxRequest THEN Client("refused", b, r, t) ELSE s
           ELSE IF ~d.ok THEN Client("refused", b, r, t) ELSE Client("connect", b, r, u)
  BY <1>5, <1>6, <1>7
<1> HIDE DEF d, u, s
<1>9. Forwards!ReadRequest(s) =
           IF ~d.ready THEN s
           ELSE IF ~d.ok THEN Client("refused", b, r, t) ELSE Client("connect", b, r, u)
  BY <1>1, <1>8
<1> QED
  BY <1>4, <1>9 DEF d, s, u

(* The read of a greeting, by what it decodes.                               *)
LEMMA ReadGreetingIs ==
  ASSUME NEW b \in Seq(Octets), NEW r \in Nat, NEW t \in Seq(Seq(Octets))
  PROVE  LET d == Forwards!DecodeGreeting(b)
             rest == SubSeq(b, d.consumed + 1, Len(b))
         IN Forwards!ReadGreeting(Client("greeting", b, r, t)) =
              IF ~d.ready THEN Client("greeting", b, r, t)
              ELSE IF ~d.ok THEN Client("refused", b, r, t)
              ELSE Client(IF d.method THEN "request" ELSE "refused", rest, r + 1, t)
<1> DEFINE d == Forwards!DecodeGreeting(b)
           rest == SubSeq(b, d.consumed + 1, Len(b))
           s == Client("greeting", b, r, t)
           p == IF d.method THEN "request" ELSE "refused"
<1>1. d.ready \in BOOLEAN /\ d.ok \in BOOLEAN /\ (~d.ready => ~(Len(b) > MaxGreeting))
  BY GreetingIs
<1>2. s.buf = b /\ s.replies = r
  BY ClientFields
<1> DEFINE more == r + 1
           one == [s EXCEPT !.replies = @ + 1]
           two == [one EXCEPT !.buf = SubSeq(@, d.consumed + 1, Len(@))]
           three == [two EXCEPT !.phase = p]
<1>3. Forwards!ReadGreeting(s) =
        IF ~d.ready THEN IF Len(b) > MaxGreeting THEN [s EXCEPT !.phase = "refused"] ELSE s
        ELSE IF ~d.ok THEN [s EXCEPT !.phase = "refused"] ELSE three
  BY <1>2 DEF Forwards!ReadGreeting
<1>5. [s EXCEPT !.phase = "refused"] = Client("refused", b, r, t)
  BY DEF Client
<1>6. three = Client(p, rest, more, t)
  <2>1. one = Client("greeting", b, more, t)
    <3>1. one = [s EXCEPT !.replies = more]
      BY <1>2
    <3> HIDE DEF one, more
    <3> QED
      BY <3>1 DEF Client
  <2> HIDE DEF one, more
  <2>2. one.buf = b
    BY <2>1, ClientFields
  <2>3. two = [one EXCEPT !.buf = rest]
    BY <2>2
  <2> HIDE DEF rest, two
  <2>4. two = Client("greeting", rest, more, t)
    BY <2>1, <2>3 DEF Client
  <2> HIDE DEF p
  <2>5. [Client("greeting", rest, more, t) EXCEPT !.phase = p] = Client(p, rest, more, t)
    BY DEF Client
  <2>6. three = [Client("greeting", rest, more, t) EXCEPT !.phase = p]
    BY <2>4
  <2> QED
    BY <2>5, <2>6
<1> HIDE DEF three, two, one
<1>7. Forwards!ReadGreeting(s) =
        IF ~d.ready THEN IF Len(b) > MaxGreeting THEN Client("refused", b, r, t) ELSE s
        ELSE IF ~d.ok THEN Client("refused", b, r, t) ELSE Client(p, rest, more, t)
  BY <1>3, <1>5, <1>6
<1> HIDE DEF d, s, more, p, rest
<1>8. Forwards!ReadGreeting(s) =
        IF ~d.ready THEN s
        ELSE IF ~d.ok THEN Client("refused", b, r, t) ELSE Client(p, rest, more, t)
  BY <1>1, <1>7
<1> QED
  BY <1>8 DEF d, s, rest, p, more

(* negotiate(), by what it finds.                                             *)
LEMMA NegotiateIs ==
  ASSUME NEW s \in Clients, NEW chunk \in Seq(Octets)
  PROVE  /\ s.buf \o chunk \in Seq(Octets)
         /\ Forwards!Negotiate(s, chunk) \in Clients
         /\ s.phase = "greeting" =>
              Forwards!Negotiate(s, chunk) = Greeted(s.buf \o chunk, s.replies, s.target)
         /\ s.phase = "request" =>
              Forwards!Negotiate(s, chunk) = Requested(s.buf \o chunk, s.replies, s.target)
         /\ s.phase \notin {"greeting", "request"} => Forwards!Negotiate(s, chunk) = s
<1> DEFINE b == s.buf \o chunk
           p == s.phase
           r == s.replies
           t == s.target
           read == [s EXCEPT !.buf = @ \o chunk]
           greeted == IF read.phase = "greeting" THEN Forwards!ReadGreeting(read) ELSE read
<1>1. b \in Seq(Octets) /\ p \in Phases /\ r \in Nat /\ t \in Seq(Seq(Octets))
  BY DEF Clients
<1>2. read = Client(p, b, r, t)
  <2>1. read = [s EXCEPT !.buf = b] /\ s = Client(p, s.buf, r, t)
    BY ClientIs
  <2> DEFINE kept == s.buf
  <2>2. s = Client(p, kept, r, t)
    BY <2>1
  <2> HIDE DEF b, p, r, t, kept, read
  <2> QED
    BY <2>1, <2>2 DEF Client
<1>3. Forwards!Negotiate(s, chunk) =
        IF p \notin {"greeting", "request"} THEN s
        ELSE IF greeted.phase = "request" THEN Forwards!ReadRequest(greeted) ELSE greeted
  BY DEF Forwards!Negotiate
<1> HIDE DEF b, p, r, t, read
<1>4. read.phase = p
  BY <1>2, ClientFields
<1>5. CASE p \notin {"greeting", "request"}
  BY <1>1, <1>3, <1>5 DEF b, p
<1>6. CASE p = "request"
  <2>1. greeted = Client("request", b, r, t) /\ Client("request", b, r, t).phase = "request"
    BY <1>2, <1>4, <1>6, ClientFields
  <2>2. Forwards!Negotiate(s, chunk) = Requested(b, r, t)
    BY <1>1, <1>3, <1>6, <2>1, ReadRequestIs
  <2> QED
    BY <1>1, <1>6, <2>2, RequestedTypes DEF b, p, r, t
<1>7. CASE p = "greeting"
  <2> DEFINE d == Forwards!DecodeGreeting(b)
             rest == SubSeq(b, d.consumed + 1, Len(b))
             more == r + 1
  <2>1. greeted =
          IF ~d.ready THEN Client("greeting", b, r, t)
          ELSE IF ~d.ok THEN Client("refused", b, r, t)
          ELSE Client(IF d.method THEN "request" ELSE "refused", rest, more, t)
    BY <1>1, <1>2, <1>4, <1>7, ReadGreetingIs
  <2>2. Greeted(b, r, t) =
          IF ~d.ready THEN Client("greeting", b, r, t)
          ELSE IF ~d.ok THEN Client("refused", b, r, t)
          ELSE IF d.method THEN Requested(rest, more, t) ELSE Client("refused", rest, more, t)
    BY DEF Greeted
  <2>3. d.ready \in BOOLEAN /\ d.ok \in BOOLEAN /\ (d.ready /\ d.ok => d.consumed \in 0 .. Len(b))
    BY <1>1, GreetingIs
  <2>4. ASSUME d.ready, d.ok PROVE rest \in Seq(Octets)
    <3> DEFINE n == d.consumed
    <3>1. n \in 0 .. Len(b)
      BY <2>3, <2>4
    <3> HIDE DEF n
    <3>2. SubSeq(b, n + 1, Len(b)) \in Seq(Octets)
      BY <1>1, <3>1, CutAndJoined
    <3> QED
      BY <3>2 DEF n
  <2>5. more \in Nat
    BY <1>1
  <2> HIDE DEF d, rest, more, greeted
  <2>6. Forwards!Negotiate(s, chunk) =
          IF greeted.phase = "request" THEN Forwards!ReadRequest(greeted) ELSE greeted
    BY <1>3, <1>7 DEF greeted
  <2>7. Forwards!Negotiate(s, chunk) = Greeted(b, r, t)
    <3>1. CASE ~d.ready
      <4>1. greeted = Client("greeting", b, r, t) /\ Greeted(b, r, t) = Client("greeting", b, r, t)
        BY <2>1, <2>2, <3>1
      <4>2. greeted.phase = "greeting"
        BY <4>1, ClientFields
      <4> QED
        BY <2>6, <4>1, <4>2
    <3>2. CASE d.ready /\ ~d.ok
      <4>1. greeted = Client("refused", b, r, t) /\ Greeted(b, r, t) = Client("refused", b, r, t)
        BY <2>1, <2>2, <3>2
      <4>2. greeted.phase = "refused"
        BY <4>1, ClientFields
      <4> QED
        BY <2>6, <4>1, <4>2
    <3>3. CASE d.ready /\ d.ok /\ d.method
      <4>1. greeted = Client("request", rest, more, t) /\ Greeted(b, r, t) = Requested(rest, more, t)
        BY <2>1, <2>2, <3>3
      <4>2. greeted.phase = "request"
        BY <4>1, ClientFields
      <4>3. Forwards!ReadRequest(Client("request", rest, more, t)) = Requested(rest, more, t)
        BY <1>1, <2>4, <2>5, <3>3, ReadRequestIs
      <4> QED
        BY <2>6, <4>1, <4>2, <4>3
    <3>4. CASE d.ready /\ d.ok /\ ~d.method
      <4>1. greeted = Client("refused", rest, more, t) /\ Greeted(b, r, t) = Client("refused", rest, more, t)
        BY <2>1, <2>2, <3>4
      <4>2. greeted.phase = "refused"
        BY <4>1, ClientFields
      <4> QED
        BY <2>6, <4>1, <4>2
    <3> QED
      BY <2>3, <3>1, <3>2, <3>3, <3>4
  <2> QED
    BY <1>1, <1>7, <2>7, GreetedTypes DEF b, p, r, t
<1> QED
  BY <1>5, <1>6, <1>7

(* A request that comes in two pieces.                                        *)
LEMMA RequestInTwo ==
  ASSUME NEW b \in Seq(Octets), NEW c \in Seq(Octets), NEW r \in Nat, NEW t \in Seq(Seq(Octets))
  PROVE  Alike(Forwards!Negotiate(Requested(b, r, t), c), Requested(b \o c, r, t))
<1> DEFINE d == Forwards!DecodeConnect(b)
           s == Requested(b, r, t)
           whole == Requested(b \o c, r, t)
<1>1. s \in Clients /\ s.phase \in {"request", "refused", "connect"} /\ b \o c \in Seq(Octets)
  <2>1. b \o c \in Seq(Octets)
    BY ConcatProperties
  <2> QED
    BY <2>1, RequestedTypes
<1>2. d.ready \in BOOLEAN /\ d.ok \in BOOLEAN /\ (d.ready => Forwards!DecodeConnect(b \o c) = d)
  BY ConnectIs
<1>3. s = IF ~d.ready THEN Client("request", b, r, t)
          ELSE IF ~d.ok THEN Client("refused", b, r, t)
          ELSE Client("connect", b, r, <<d.host, d.port>>)
  BY DEF Requested
<1>4. d.ready => whole = IF ~d.ok THEN Client("refused", b \o c, r, t)
                         ELSE Client("connect", b \o c, r, <<d.host, d.port>>)
  BY <1>2 DEF Requested
<1>5. CASE ~d.ready
  <2>1. s = Client("request", b, r, t)
    BY <1>3, <1>5
  <2> HIDE DEF s
  <2>2. s.phase = "request" /\ s.buf = b /\ s.replies = r /\ s.target = t
    BY <2>1, ClientFields
  <2>3. Forwards!Negotiate(s, c) = whole
    BY <1>1, <2>2, NegotiateIs
  <2> QED
    BY <2>3 DEF s, Alike
<1>6. CASE d.ready /\ ~d.ok
  <2>1. s = Client("refused", b, r, t) /\ whole = Client("refused", b \o c, r, t)
    BY <1>3, <1>4, <1>6
  <2> HIDE DEF s, whole
  <2>2. /\ s.phase = "refused" /\ s.replies = r /\ s.target = t
        /\ whole.phase = "refused" /\ whole.replies = r /\ whole.target = t
    BY <2>1, ClientFields
  <2>3. Forwards!Negotiate(s, c) = s
    BY <1>1, <2>2, NegotiateIs
  <2> QED
    BY <2>2, <2>3 DEF s, whole, Alike
<1>7. CASE d.ready /\ d.ok
  <2> DEFINE u == <<d.host, d.port>>
  <2>1. s = Client("connect", b, r, u) /\ whole = Client("connect", b \o c, r, u)
    BY <1>3, <1>4, <1>7
  <2> HIDE DEF s, whole, u
  <2>2. /\ s.phase = "connect" /\ s.replies = r /\ s.target = u
        /\ whole.phase = "connect" /\ whole.replies = r /\ whole.target = u
    BY <2>1, ClientFields
  <2>3. Forwards!Negotiate(s, c) = s
    BY <1>1, <2>2, NegotiateIs
  <2> QED
    BY <2>2, <2>3 DEF s, whole, Alike
<1> QED
  BY <1>2, <1>5, <1>6, <1>7

(* A greeting that comes in two pieces, what follows it in either of them.    *)
LEMMA GreetingInTwo ==
  ASSUME NEW b \in Seq(Octets), NEW c \in Seq(Octets), NEW r \in Nat, NEW t \in Seq(Seq(Octets))
  PROVE  Alike(Forwards!Negotiate(Greeted(b, r, t), c), Greeted(b \o c, r, t))
<1> DEFINE d == Forwards!DecodeGreeting(b)
           s == Greeted(b, r, t)
           whole == Greeted(b \o c, r, t)
           rest == SubSeq(b, d.consumed + 1, Len(b))
           more == r + 1
<1>1. s \in Clients /\ b \o c \in Seq(Octets) /\ more \in Nat
  <2>1. b \o c \in Seq(Octets)
    BY ConcatProperties
  <2> QED
    BY <2>1, GreetedTypes
<1>2. d.ready \in BOOLEAN /\ d.ok \in BOOLEAN /\ (d.ready => Forwards!DecodeGreeting(b \o c) = d)
  BY GreetingIs
<1>3. s = IF ~d.ready THEN Client("greeting", b, r, t)
          ELSE IF ~d.ok THEN Client("refused", b, r, t)
          ELSE IF d.method THEN Requested(rest, more, t) ELSE Client("refused", rest, more, t)
  BY DEF Greeted
<1>4. ASSUME d.ready, d.ok
      PROVE  rest \in Seq(Octets) /\ SubSeq(b \o c, d.consumed + 1, Len(b \o c)) = rest \o c
  <2> DEFINE n == d.consumed
  <2>1. n \in 0 .. Len(b)
    BY <1>4, GreetingIs
  <2> HIDE DEF n
  <2>2. /\ SubSeq(b, n + 1, Len(b)) \in Seq(Octets)
        /\ SubSeq(b \o c, n + 1, Len(b \o c)) = SubSeq(b, n + 1, Len(b)) \o c
    BY <2>1, RestOfConcat
  <2> QED
    BY <2>2 DEF n
<1>5. d.ready =>
        whole = IF ~d.ok THEN Client("refused", b \o c, r, t)
                ELSE IF d.method THEN Requested(SubSeq(b \o c, d.consumed + 1, Len(b \o c)), more, t)
                ELSE Client("refused", SubSeq(b \o c, d.consumed + 1, Len(b \o c)), more, t)
  BY <1>2 DEF Greeted
<1> HIDE DEF d, rest, more
<1>6. CASE ~d.ready
  <2>1. s = Client("greeting", b, r, t)
    BY <1>3, <1>6
  <2> HIDE DEF s
  <2>2. s.phase = "greeting" /\ s.buf = b /\ s.replies = r /\ s.target = t
    BY <2>1, ClientFields
  <2>3. Forwards!Negotiate(s, c) = whole
    BY <1>1, <2>2, NegotiateIs
  <2> QED
    BY <2>3 DEF s, Alike
<1>7. CASE d.ready /\ ~d.ok
  <2>1. s = Client("refused", b, r, t) /\ whole = Client("refused", b \o c, r, t)
    BY <1>3, <1>5, <1>7
  <2> HIDE DEF s, whole
  <2>2. /\ s.phase = "refused" /\ s.replies = r /\ s.target = t
        /\ whole.phase = "refused" /\ whole.replies = r /\ whole.target = t
    BY <2>1, ClientFields
  <2>3. Forwards!Negotiate(s, c) = s
    BY <1>1, <2>2, NegotiateIs
  <2> QED
    BY <2>2, <2>3 DEF s, whole, Alike
<1>8. CASE d.ready /\ d.ok /\ ~d.method
  <2>1. s = Client("refused", rest, more, t) /\ whole = Client("refused", rest \o c, more, t)
    BY <1>3, <1>4, <1>5, <1>8
  <2> HIDE DEF s, whole
  <2>2. /\ s.phase = "refused" /\ s.replies = more /\ s.target = t
        /\ whole.phase = "refused" /\ whole.replies = more /\ whole.target = t
    BY <2>1, ClientFields
  <2>3. Forwards!Negotiate(s, c) = s
    BY <1>1, <2>2, NegotiateIs
  <2> QED
    BY <2>2, <2>3 DEF s, whole, Alike
<1>9. CASE d.ready /\ d.ok /\ d.method
  <2>1. s = Requested(rest, more, t) /\ whole = Requested(rest \o c, more, t)
    BY <1>3, <1>4, <1>5, <1>9
  <2>2. Alike(Forwards!Negotiate(Requested(rest, more, t), c), Requested(rest \o c, more, t))
    BY <1>1, <1>4, <1>9, RequestInTwo
  <2> QED
    BY <2>1, <2>2
<1> QED
  BY <1>2, <1>6, <1>7, <1>8, <1>9

(* Two reads are one read of both pieces, whatever the client has done.       *)
LEMMA TwoReadsAreOne ==
  ASSUME NEW s \in Clients, NEW a \in Seq(Octets), NEW c \in Seq(Octets)
  PROVE  Alike(Forwards!Negotiate(Forwards!Negotiate(s, a), c), Forwards!Negotiate(s, a \o c))
<1> DEFINE b == s.buf
           r == s.replies
           t == s.target
<1>1. b \in Seq(Octets) /\ r \in Nat /\ t \in Seq(Seq(Octets))
  BY DEF Clients
<1>2. b \o a \in Seq(Octets) /\ a \o c \in Seq(Octets) /\ (b \o a) \o c = b \o (a \o c)
  <2>1. b \o a \in Seq(Octets) /\ a \o c \in Seq(Octets)
    BY <1>1, ConcatProperties
  <2>2. (b \o a) \o c = b \o (a \o c)
    <3> HIDE DEF b
    <3> QED
      BY <1>1
  <2> QED
    BY <2>1, <2>2
<1>3. /\ s.phase = "greeting" => Forwards!Negotiate(s, a) = Greeted(b \o a, r, t)
      /\ s.phase = "request" => Forwards!Negotiate(s, a) = Requested(b \o a, r, t)
      /\ s.phase \notin {"greeting", "request"} => Forwards!Negotiate(s, a) = s
  BY NegotiateIs
<1>4. /\ s.phase = "greeting" => Forwards!Negotiate(s, a \o c) = Greeted(b \o (a \o c), r, t)
      /\ s.phase = "request" => Forwards!Negotiate(s, a \o c) = Requested(b \o (a \o c), r, t)
      /\ s.phase \notin {"greeting", "request"} => Forwards!Negotiate(s, a \o c) = s
  BY <1>2, NegotiateIs
<1> HIDE DEF b, r, t
<1>5. CASE s.phase = "greeting"
  <2>1. Alike(Forwards!Negotiate(Greeted(b \o a, r, t), c), Greeted((b \o a) \o c, r, t))
    BY <1>1, <1>2, GreetingInTwo
  <2> QED
    BY <1>2, <1>3, <1>4, <1>5, <2>1
<1>6. CASE s.phase = "request"
  <2>1. Alike(Forwards!Negotiate(Requested(b \o a, r, t), c), Requested((b \o a) \o c, r, t))
    BY <1>1, <1>2, RequestInTwo
  <2> QED
    BY <1>2, <1>3, <1>4, <1>6, <2>1
<1>7. CASE s.phase \notin {"greeting", "request"}
  <2>1. Forwards!Negotiate(s, c) = s
    BY <1>7, NegotiateIs
  <2> QED
    BY <1>3, <1>4, <1>7, <2>1 DEF Alike
<1> QED
  BY <1>5, <1>6, <1>7

(* Clients that are alike stay so.                                            *)
LEMMA AlikeStays ==
  ASSUME NEW s \in Clients, NEW t \in Clients, NEW c \in Seq(Octets), Alike(s, t)
  PROVE  Alike(Forwards!Negotiate(s, c), Forwards!Negotiate(t, c))
<1>1. CASE s.phase \in {"greeting", "request"}
  <2>1. s = Client(s.phase, s.buf, s.replies, s.target) /\ t = Client(t.phase, t.buf, t.replies, t.target)
    BY ClientIs
  <2>2. s.phase = t.phase /\ s.buf = t.buf /\ s.replies = t.replies /\ s.target = t.target
    BY <1>1 DEF Alike
  <2>3. s = t
    BY <2>1, <2>2
  <2> QED
    BY <2>3 DEF Alike
<1>2. CASE s.phase \notin {"greeting", "request"}
  <2>1. t.phase \notin {"greeting", "request"}
    BY <1>2 DEF Alike
  <2>2. Forwards!Negotiate(s, c) = s /\ Forwards!Negotiate(t, c) = t
    BY <1>2, <2>1, NegotiateIs
  <2> QED
    BY <2>2
<1> QED
  BY <1>1, <1>2

(* Clients alike to one are alike.                                           *)
LEMMA AlikeChains ==
  ASSUME NEW s, NEW t, NEW u, Alike(s, t), Alike(t, u)
  PROVE  Alike(s, u)
BY DEF Alike

(* The states a client goes through as its bytes are read.                    *)
Reads(run, chunks) ==
  /\ run \in [0 .. Len(chunks) -> Clients]
  /\ run[0] = Forwards!NewClient
  /\ \A k \in 1 .. Len(chunks) : run[k] = Forwards!Negotiate(run[k - 1], chunks[k])
  /\ Answered(chunks) = <<run[Len(chunks)].phase, run[Len(chunks)].replies, run[Len(chunks)].target>>

(* The fold of negotiate() over the pieces has such a run.                   *)
LEMMA ReadsRun ==
  ASSUME NEW chunks \in Seq(Seq(Octets))
  PROVE  \E run : Reads(run, chunks)
<1> DEFINE n == Len(chunks)
           start == Forwards!NewClient
           X == Seq(Octets)
           g == [x \in Clients \X X |-> Forwards!Negotiate(x[1], x[2])]
           Solves(f) == f = [s \in SUBSET (1 .. n) |->
                               IF s = {} THEN start
                               ELSE Forwards!Negotiate(f[s \ {Max(s)}], chunks[Max(s)])]
           fold == CHOOSE f : Solves(f)
           run == [k \in 0 .. n |-> fold[1 .. k]]
<1>1. n \in Nat /\ DOMAIN chunks = 1 .. n /\ \A i \in 1 .. n : chunks[i] \in X
  BY LenProperties, ElementOfSeq
<1>0. start \in Clients
  <2>1. <<>> \in Seq(Octets) /\ <<>> \in Seq(Seq(Octets))
    OBVIOUS
  <2> QED
    BY <2>1 DEF Forwards!NewClient, Clients, Phases
<1>4. Answered(chunks) = <<fold[1 .. n].phase, fold[1 .. n].replies, fold[1 .. n].target>>
  BY <1>1 DEF Answered, FoldLeft, MapThenFoldSet
<1> HIDE DEF n, start, X
<1>2. \E f : Solves(f)
  <2>1. g \in [Clients \X X -> Clients]
    <3>1. \A c \in Clients : \A x \in X : Forwards!Negotiate(c, x) \in Clients
      BY NegotiateIs DEF X
    <3> QED
      BY <3>1
  <2> HIDE DEF g
  <2>2. PICK f \in [SUBSET (1 .. Len(chunks)) -> Clients] : FoldsBy(f, g, start, chunks)
    BY <1>0, <1>1, <2>1, FoldRecursion DEF X
  <2>3. ASSUME NEW s \in SUBSET (1 .. n), s # {}
        PROVE  g[<<f[s \ {Max(s)}], chunks[Max(s)]>>] = Forwards!Negotiate(f[s \ {Max(s)}], chunks[Max(s)])
    <3>1. Max(s) \in 1 .. n /\ s \ {Max(s)} \in SUBSET (1 .. n)
      BY <1>1, <2>3, MaxOfPart
    <3>2. f[s \ {Max(s)}] \in Clients /\ chunks[Max(s)] \in X
      BY <1>1, <2>2, <3>1 DEF n
    <3> QED
      BY <3>2 DEF g
  <2>4. f = [s \in SUBSET (1 .. n) |->
               IF s = {} THEN start ELSE Forwards!Negotiate(f[s \ {Max(s)}], chunks[Max(s)])]
    BY <1>1, <2>2, <2>3 DEF FoldsBy, n
  <2> QED
    BY <2>4
<1>3. Solves(fold)
  BY <1>2
<1> HIDE DEF fold
<1>5. run[0] = start /\ \A k \in 1 .. n : run[k] = Forwards!Negotiate(run[k - 1], chunks[k])
  <2>1. 1 .. 0 = {} /\ {} \in SUBSET (1 .. n)
    OBVIOUS
  <2>2. run[0] = start
    BY <1>1, <1>3, <2>1
  <2>3. ASSUME NEW k \in 1 .. n PROVE run[k] = Forwards!Negotiate(run[k - 1], chunks[k])
    <3>1. /\ 1 .. k # {} /\ 1 .. k \in SUBSET (1 .. n) /\ Max(1 .. k) = k
          /\ (1 .. k) \ {Max(1 .. k)} = 1 .. k - 1
      BY <1>1, FirstIndexes
    <3>2. fold[1 .. k] = Forwards!Negotiate(fold[(1 .. k) \ {Max(1 .. k)}], chunks[Max(1 .. k)])
      BY <1>3, <3>1
    <3>3. fold[1 .. k] = Forwards!Negotiate(fold[1 .. k - 1], chunks[k])
      BY <3>1, <3>2
    <3>4. k \in 0 .. n /\ k - 1 \in 0 .. n
      BY <1>1
    <3> QED
      BY <3>3, <3>4
  <2> QED
    BY <2>2, <2>3
<1>8. run = [k \in 0 .. n |-> run[k]] /\ run[n] = fold[1 .. n]
  BY <1>1
<1> HIDE DEF run
<1>6. \A k \in 0 .. n : run[k] \in Clients
  <2> DEFINE S == {k \in 0 .. n : run[k] \in Clients}
  <2>1. 0 \in S
    BY <1>0, <1>1, <1>5
  <2>2. \A k \in 0 .. n - 1 : k \in S => k + 1 \in S
    BY <1>1, <1>5, NegotiateIs DEF X
  <2>3. \A k \in 0 .. n : k \in S
    <3> HIDE DEF S
    <3> QED
      BY <1>1, <2>1, <2>2, InductionTo
  <2> QED
    BY <2>3
<1>7. run \in [0 .. n -> Clients] /\ Answered(chunks) = <<run[n].phase, run[n].replies, run[n].target>>
  BY <1>4, <1>6, <1>8
<1> QED
  BY <1>5, <1>7 DEF start, n, Reads

(* A client is answered the same whether its bytes come in one piece or in    *)
(* three, the pieces being any sequences of bytes.                            *)
LEMMA ThreeReadsAreOne ==
  ASSUME NEW a \in Seq(Octets), NEW b \in Seq(Octets), NEW c \in Seq(Octets)
  PROVE  Answered(<<a \o (b \o c)>>) = Answered(<<a, b, c>>)
<1> DEFINE start == Forwards!NewClient
           whole == <<a \o (b \o c)>>
           parts == <<a, b, c>>
<1>1. b \o c \in Seq(Octets) /\ a \o (b \o c) \in Seq(Octets)
  <2>1. b \o c \in Seq(Octets)
    BY ConcatProperties
  <2> DEFINE d == b \o c
  <2> HIDE DEF d
  <2>2. d \in Seq(Octets)
    BY <2>1 DEF d
  <2>3. a \o d \in Seq(Octets)
    BY <2>2, ConcatProperties
  <2> QED
    BY <2>1, <2>3 DEF d
<1>2. /\ whole \in Seq(Seq(Octets)) /\ Len(whole) = 1 /\ whole[1] = a \o (b \o c)
      /\ parts \in Seq(Seq(Octets)) /\ Len(parts) = 3 /\ parts[1] = a /\ parts[2] = b /\ parts[3] = c
  BY <1>1
<1> HIDE DEF whole, parts
<1>3. PICK one : Reads(one, whole)
  BY <1>2, ReadsRun
<1>4. PICK three : Reads(three, parts)
  BY <1>2, ReadsRun
<1>5. /\ start \in Clients /\ one[1] = Forwards!Negotiate(start, a \o (b \o c))
      /\ Answered(whole) = <<one[1].phase, one[1].replies, one[1].target>>
  <2>1. /\ one \in [0 .. 1 -> Clients] /\ one[0] = start
        /\ \A k \in 1 .. 1 : one[k] = Forwards!Negotiate(one[k - 1], whole[k])
        /\ Answered(whole) = <<one[1].phase, one[1].replies, one[1].target>>
    BY <1>2, <1>3 DEF Reads
  <2> HIDE DEF start
  <2>2. start \in Clients /\ one[1] = Forwards!Negotiate(start, whole[1])
    BY <2>1
  <2> QED
    BY <1>2, <2>1, <2>2
<1>6. /\ three[1] \in Clients /\ three[2] \in Clients /\ three[3] \in Clients
      /\ three[1] = Forwards!Negotiate(start, a)
      /\ three[2] = Forwards!Negotiate(three[1], b)
      /\ three[3] = Forwards!Negotiate(three[2], c)
      /\ Answered(parts) = <<three[3].phase, three[3].replies, three[3].target>>
  <2>1. /\ three \in [0 .. 3 -> Clients] /\ three[0] = start
        /\ \A k \in 1 .. 3 : three[k] = Forwards!Negotiate(three[k - 1], parts[k])
        /\ Answered(parts) = <<three[3].phase, three[3].replies, three[3].target>>
    BY <1>2, <1>4 DEF Reads
  <2> QED
    BY <1>2, <2>1
<1> HIDE DEF start
<1>7. Alike(three[3], Forwards!Negotiate(three[1], b \o c))
  BY <1>6, TwoReadsAreOne
<1>8. Alike(Forwards!Negotiate(three[1], b \o c), one[1])
  BY <1>1, <1>5, <1>6, TwoReadsAreOne
<1>9. Alike(three[3], one[1])
  BY <1>7, <1>8, AlikeChains
<1> QED
  BY <1>5, <1>6, <1>9 DEF Alike, whole, parts

(* A SOCKS client is answered the same, whatever it sends and however it is   *)
(* cut in three.                                                              *)
THEOREM AnyClientIsAnsweredTheSame ==
  ASSUME NEW bytes \in Seq(Octets), NEW i \in 0 .. Len(bytes), NEW j \in i .. Len(bytes)
  PROVE  Answered(<<bytes>>)
           = Answered(<<SubSeq(bytes, 1, i), SubSeq(bytes, i + 1, j), SubSeq(bytes, j + 1, Len(bytes))>>)
<1> DEFINE a == SubSeq(bytes, 1, i)
           b == SubSeq(bytes, i + 1, j)
           c == SubSeq(bytes, j + 1, Len(bytes))
           rest == SubSeq(bytes, i + 1, Len(bytes))
<1>0. Len(bytes) \in Nat /\ i \in Nat /\ j \in Nat /\ i <= j /\ j <= Len(bytes)
      /\ \A k \in 1 .. Len(bytes) : bytes[k] \in Octets
  BY LenProperties, ElementOfSeq
<1>1. a \in Seq(Octets) /\ rest \in Seq(Octets) /\ Len(rest) = Len(bytes) - i /\ a \o rest = bytes
  BY <1>0, CutAndJoined
<1>2. /\ b \in Seq(Octets) /\ Len(b) = j - i /\ \A k \in 1 .. j - i : b[k] = bytes[i + k]
      /\ c \in Seq(Octets) /\ Len(c) = Len(bytes) - j
      /\ \A k \in 1 .. Len(bytes) - j : c[k] = bytes[j + k]
  <2>1. /\ b \in Seq(Octets) /\ Len(b) = j - i /\ \A k \in 1 .. j - i : b[k] = bytes[i + k]
    BY <1>0, SubSeqProperties
  <2>2. /\ c \in Seq(Octets) /\ Len(c) = Len(bytes) - j
        /\ \A k \in 1 .. Len(bytes) - j : c[k] = bytes[j + k]
    BY <1>0, SubSeqProperties
  <2> QED
    BY <2>1, <2>2
<1>3. \A k \in 1 .. Len(bytes) - i : rest[k] = bytes[i + k]
  BY <1>0, SubSeqProperties
<1> HIDE DEF a, b, c, rest
<1>4. /\ b \o c \in Seq(Octets) /\ Len(b \o c) = Len(b) + Len(c)
      /\ \A k \in 1 .. Len(b) + Len(c) : (b \o c)[k] = IF k <= Len(b) THEN b[k] ELSE c[k - Len(b)]
  BY <1>2, ConcatProperties
<1>5. ASSUME NEW k \in 1 .. Len(bytes) - i PROVE (b \o c)[k] = rest[k]
  <2>1. CASE k <= j - i
    BY <1>0, <1>2, <1>3, <1>4, <2>1
  <2>2. CASE ~(k <= j - i)
    <3>1. (b \o c)[k] = c[k - (j - i)] /\ k - (j - i) \in 1 .. Len(bytes) - j
      BY <1>0, <1>2, <1>4, <2>2
    <3>2. c[k - (j - i)] = bytes[j + (k - (j - i))] /\ j + (k - (j - i)) = i + k
      BY <1>0, <1>2, <3>1
    <3> QED
      BY <1>3, <3>1, <3>2
  <2> QED
    BY <2>1, <2>2
<1>6. b \o c = rest
  <2>1. Len(b \o c) = Len(rest) /\ \A k \in 1 .. Len(b \o c) : (b \o c)[k] = rest[k]
    <3>1. Len(b \o c) = Len(bytes) - i
      BY <1>0, <1>2, <1>4
    <3>2. \A k \in 1 .. Len(bytes) - i : (b \o c)[k] = rest[k]
      BY <1>5
    <3> QED
      BY <1>1, <3>1, <3>2
  <2> QED
    BY <1>1, <1>4, <2>1, SeqEqual
<1>7. Answered(<<a \o (b \o c)>>) = Answered(<<a, b, c>>)
  BY <1>1, <1>2, ThreeReadsAreOne
<1>8. Answered(<<bytes>>) = Answered(<<a, b, c>>)
  BY <1>1, <1>6, <1>7
<1> QED
  BY <1>8 DEF a, b, c

(* A SOCKS client is answered the same however it is cut, whatever it sends. *)
LEMMA ClientsAreAnsweredTheSame ==
  ASSUME task = "socks" => in \in [greeting : Seq(Octets), request : Seq(Octets)]
  PROVE  SocksChunksDoNotMatter
<1> SUFFICES ASSUME task = "socks", in \in [greeting : Seq(Octets), request : Seq(Octets)]
             PROVE  SocksChunksDoNotMatter
  BY DEF SocksChunksDoNotMatter
<1> DEFINE bytes == in.greeting \o in.request
<1>1. in.greeting \in Seq(Octets) /\ in.request \in Seq(Octets)
  OBVIOUS
<1>2. bytes \in Seq(Octets)
  BY <1>1, ConcatProperties
<1> HIDE DEF bytes
<1>3. \A i \in 0 .. Len(bytes) : \A j \in i .. Len(bytes) :
        Answered(<<bytes>>)
          = Answered(<<SubSeq(bytes, 1, i), SubSeq(bytes, i + 1, j), SubSeq(bytes, j + 1, Len(bytes))>>)
  BY <1>2, AnyClientIsAnsweredTheSame
<1> QED
  BY <1>3 DEF SocksChunksDoNotMatter, bytes

------------------------------------------------------------------------------
(* Paths: a join leads where its parts lead, and not out of the base *)

(* What holds of no element and of one more holds of every sequence.         *)
LEMMA SequenceInduction ==
  ASSUME NEW X, NEW S, <<>> \in S, \A s \in Seq(X) : \A e \in X : s \in S => Append(s, e) \in S
  PROVE  \A s \in Seq(X) : s \in S
<1> DEFINE N == {n \in Nat : \A s \in Seq(X) : Len(s) = n => s \in S}
<1>1. 0 \in N
  <2>1. \A s \in Seq(X) : Len(s) = 0 => s = <<>>
    BY EmptySeq
  <2> QED
    BY <2>1
<1>2. ASSUME NEW n \in Nat, n \in N PROVE n + 1 \in N
  <2>1. ASSUME NEW s \in Seq(X), Len(s) = n + 1 PROVE s \in S
    <3>1. s # <<>>
      BY <2>1, EmptySeq
    <3>2. PICK t \in Seq(X), e \in X : s = Append(t, e)
      BY <3>1, SequenceEmptyOrAppend
    <3>3. Len(t) = n
      BY <2>1, <3>2, AppendProperties, LenProperties
    <3> QED
      BY <1>2, <3>2, <3>3
  <2> QED
    BY <2>1
<1>3. \A n \in Nat : n \in N
  <2> HIDE DEF N
  <2> QED
    BY <1>1, <1>2, Induction
<1> QED
  BY <1>3, LenProperties

(* A fold as the values it goes through. *)
RunsBy(run, g, base, seq) ==
  run[0] = base /\ \A k \in 1 .. Len(seq) : run[k] = g[<<run[k - 1], seq[k]>>]

(* That the fold by g ends in a value, all its values being in T. *)
EndsIn(value, T, g, base, seq) ==
  \E run \in [0 .. Len(seq) -> T] : RunsBy(run, g, base, seq) /\ run[Len(seq)] = value

(* What a function has in common with the fold that FoldLeft chooses: each    *)
(* value that is reached through T comes of the step g.                      *)
FoldsIn(f, T, g, base, seq) ==
  /\ f[{}] = base
  /\ \A s \in SUBSET (1 .. Len(seq)) :
       s # {} /\ f[s \ {Max(s)}] \in T => f[s] = g[<<f[s \ {Max(s)}], seq[Max(s)]>>]

(* The values of the fold that FoldLeft chooses, once they are known to be    *)
(* of the type of its step.                                                  *)
LEMMA FoldRuns ==
  ASSUME NEW T, NEW X, NEW g \in [T \X X -> T], NEW base \in T, NEW seq \in Seq(X), NEW f,
         FoldsIn(f, T, g, base, seq)
  PROVE  EndsIn(f[1 .. Len(seq)], T, g, base, seq)
<1> DEFINE n == Len(seq)
           run == [k \in 0 .. n |-> f[1 .. k]]
<1>1. n \in Nat /\ \A i \in 1 .. n : seq[i] \in X
  BY LenProperties, ElementOfSeq
<1>2. run[0] = base
  <2>1. 1 .. 0 = {}
    OBVIOUS
  <2> QED
    BY <1>1, <2>1 DEF FoldsIn
<1>3. ASSUME NEW k \in 1 .. n, run[k - 1] \in T
      PROVE  run[k] = g[<<run[k - 1], seq[k]>>]
  <2>1. /\ 1 .. k # {} /\ 1 .. k \in SUBSET (1 .. n) /\ Max(1 .. k) = k
        /\ (1 .. k) \ {Max(1 .. k)} = 1 .. k - 1
    BY <1>1, FirstIndexes
  <2>2. k \in 0 .. n /\ k - 1 \in 0 .. n
    BY <1>1
  <2>3. f[1 .. k - 1] \in T
    BY <1>3, <2>2
  <2>4. f[1 .. k] = g[<<f[1 .. k - 1], seq[k]>>]
    BY <2>1, <2>3 DEF FoldsIn
  <2> QED
    BY <2>2, <2>4
<1>4. run = [k \in 0 .. n |-> run[k]] /\ run[n] = f[1 .. n]
  BY <1>1
<1> HIDE DEF run
<1>5. \A k \in 0 .. n : run[k] \in T
  <2> DEFINE S == {k \in 0 .. n : run[k] \in T}
  <2>1. 0 \in S
    BY <1>1, <1>2
  <2>2. ASSUME NEW k \in 0 .. n - 1, k \in S PROVE k + 1 \in S
    <3>1. k + 1 \in 1 .. n /\ k + 1 \in 0 .. n /\ (k + 1) - 1 = k /\ run[k] \in T
      BY <1>1, <2>2
    <3>2. run[k + 1] = g[<<run[k], seq[k + 1]>>]
      BY <1>3, <3>1
    <3> QED
      BY <1>1, <3>1, <3>2
  <2>3. \A k \in 0 .. n : k \in S
    <3> HIDE DEF S
    <3> QED
      BY <1>1, <2>1, <2>2, InductionTo
  <2> QED
    BY <2>3
<1>6. run \in [0 .. n -> T]
  BY <1>4, <1>5
<1>7. \A k \in 1 .. n : k - 1 \in 0 .. n
  BY <1>1
<1> QED
  BY <1>2, <1>3, <1>4, <1>5, <1>6, <1>7 DEF RunsBy, EndsIn, n

(* The fold of no element is its base, and that of one element more takes one *)
(* step more.                                                                *)
LEMMA EndOfMore ==
  ASSUME NEW T, NEW X, NEW g, NEW base, NEW s \in Seq(X), NEW e \in X, NEW u, NEW v, NEW w,
         EndsIn(u, T, g, base, <<>>), EndsIn(v, T, g, base, s), EndsIn(w, T, g, base, Append(s, e))
  PROVE  u = base /\ v \in T /\ w = g[<<v, e>>]
<1> DEFINE n == Len(s)
           t == Append(s, e)
<1>1. /\ n \in Nat /\ Len(t) = n + 1 /\ t[n + 1] = e
      /\ \A i \in 1 .. n : t[i] = s[i]
  BY LenProperties, AppendProperties
<1>2. PICK r \in [0 .. n -> T] : RunsBy(r, g, base, s) /\ r[n] = v
  BY DEF EndsIn
<1>3. PICK q \in [0 .. Len(t) -> T] : RunsBy(q, g, base, t) /\ q[Len(t)] = w
  BY DEF EndsIn
<1>4. u = base
  BY DEF EndsIn, RunsBy
<1> HIDE DEF t, n
<1>5. q[0] = r[0]
  BY <1>2, <1>3 DEF RunsBy
<1>6. ASSUME NEW k \in 0 .. n - 1, q[k] = r[k] PROVE q[k + 1] = r[k + 1]
  <2>1. k + 1 \in 1 .. n /\ k + 1 \in 1 .. n + 1 /\ (k + 1) - 1 = k
    BY <1>1
  <2>2. r[k + 1] = g[<<r[k], s[k + 1]>>]
    BY <1>2, <2>1 DEF RunsBy, n
  <2>3. q[k + 1] = g[<<q[k], t[k + 1]>>]
    BY <1>1, <1>3, <2>1 DEF RunsBy
  <2> QED
    BY <1>1, <1>6, <2>1, <2>2, <2>3
<1>7. q[n] = r[n]
  <2> DEFINE S == {k \in 0 .. n : q[k] = r[k]}
  <2>1. 0 \in S /\ \A k \in 0 .. n - 1 : k \in S => k + 1 \in S
    BY <1>1, <1>5, <1>6
  <2>2. \A k \in 0 .. n : k \in S
    <3> HIDE DEF S
    <3> QED
      BY <1>1, <2>1, InductionTo
  <2> QED
    BY <1>1, <2>2
<1>8. n + 1 \in 1 .. n + 1 /\ (n + 1) - 1 = n
  BY <1>1
<1>9. q[n + 1] = g[<<q[n], t[n + 1]>>]
  BY <1>1, <1>3, <1>8 DEF RunsBy
<1>10. v \in T
  BY <1>1, <1>2
<1> QED
  BY <1>1, <1>2, <1>3, <1>4, <1>7, <1>9, <1>10

(* The front and the last of a sequence with an element appended.            *)
LEMMA FrontAndLast ==
  ASSUME NEW X, NEW s \in Seq(X), NEW e \in X
  PROVE  Front(Append(s, e)) = s /\ Last(Append(s, e)) = e
<1> DEFINE t == Append(s, e)
<1>1. /\ Len(s) \in Nat /\ Len(t) = Len(s) + 1 /\ t[Len(s) + 1] = e
      /\ \A i \in 1 .. Len(s) : t[i] = s[i] /\ t[i] \in X
  BY LenProperties, AppendProperties, ElementOfSeq
<1>2. Len(t) - 1 = Len(s)
  BY <1>1
<1> HIDE DEF t
<1>3. /\ SubSeq(t, 1, Len(s)) \in Seq(X) /\ Len(SubSeq(t, 1, Len(s))) = Len(s)
      /\ \A i \in 1 .. Len(s) : SubSeq(t, 1, Len(s))[i] = t[i]
  BY <1>1, SubSeqProperties
<1>4. SubSeq(t, 1, Len(s)) = s
  BY <1>1, <1>3, SeqEqual
<1> QED
  BY <1>1, <1>2, <1>4 DEF Front, Last, t

(* The texts of a path, and the directories that lead to a place. *)
Texts == Seq(Components)

(* The front of texts is texts.                                              *)
LEMMA FrontOfTexts ==
  ASSUME NEW X, NEW s \in Seq(X), s # <<>>
  PROVE  Front(s) \in Seq(X) /\ Last(s) \in X /\ s = Append(Front(s), Last(s))
<1>1. PICK t \in Seq(X), e \in X : s = Append(t, e)
  BY SequenceEmptyOrAppend
<1> QED
  BY <1>1, FrontAndLast

(* A step of a walk leads to a place, and a component leaves components.      *)
LEMMA StepTypes ==
  ASSUME NEW at \in Texts, NEW c \in Components, NEW absolute \in BOOLEAN
  PROVE  WalkStep(at, c) \in Texts /\ Paths!Collapse(at, c, absolute) \in Texts
<1>0. ".." \in Components
  BY NamesAssumption
<1>1. Append(at, c) \in Texts /\ Append(at, "..") \in Texts
  BY <1>0, AppendProperties DEF Texts
<1>2. at # <<>> => Front(at) \in Texts
  BY FrontOfTexts DEF Texts
<1>3. WalkStep(at, c) \in Texts
  BY <1>1, <1>2 DEF WalkStep
<1>4. Paths!Collapse(at, c, absolute) \in Texts
  BY <1>1, <1>2 DEF Paths!Collapse, Paths!Front, Front
<1> QED
  BY <1>3, <1>4

(* The walk as the places it goes through. *)
WalkOf == [x \in Texts \X Components |-> WalkStep(x[1], x[2])]

LEMMA WalkRuns ==
  ASSUME NEW at \in Texts, NEW parts \in Texts
  PROVE  EndsIn(Walk(at, parts), Texts, WalkOf, at, parts)
<1> DEFINE n == Len(parts)
           Solves(f) == f = [s \in SUBSET (1 .. n) |->
                               IF s = {} THEN at ELSE WalkStep(f[s \ {Max(s)}], parts[Max(s)])]
           fold == CHOOSE f : Solves(f)
<1>1. /\ n \in Nat /\ DOMAIN parts = 1 .. n /\ (\A i \in 1 .. n : parts[i] \in Components)
      /\ parts \in Seq(Components)
  BY LenProperties, ElementOfSeq DEF Texts
<1>2. Walk(at, parts) = fold[1 .. n]
  BY <1>1 DEF Walk, FoldLeft, MapThenFoldSet
<1>3. WalkOf \in [Texts \X Components -> Texts]
  BY StepTypes DEF WalkOf
<1>4. \A p \in Texts : \A c \in Components : WalkOf[<<p, c>>] = WalkStep(p, c)
  BY DEF WalkOf
<1> HIDE DEF n
<1>5. \A s \in SUBSET (1 .. n) : s # {} => Max(s) \in 1 .. n /\ s \ {Max(s)} \in SUBSET (1 .. n)
  BY <1>1, MaxOfPart
<1>6. \E f : Solves(f)
  <2>1. PICK f \in [SUBSET (1 .. n) -> Texts] : FoldsBy(f, WalkOf, at, parts)
    BY <1>1, <1>3, FoldRecursion DEF n
  <2>2. ASSUME NEW s \in SUBSET (1 .. n), s # {}
        PROVE  WalkOf[<<f[s \ {Max(s)}], parts[Max(s)]>>] = WalkStep(f[s \ {Max(s)}], parts[Max(s)])
    BY <1>1, <1>4, <1>5, <2>1, <2>2
  <2>3. f = [s \in SUBSET (1 .. n) |-> IF s = {} THEN at ELSE WalkStep(f[s \ {Max(s)}], parts[Max(s)])]
    BY <2>1, <2>2 DEF FoldsBy, n
  <2> QED
    BY <2>3
<1>7. Solves(fold)
  BY <1>6
<1> HIDE DEF fold
<1>8. fold[{}] = at
  BY <1>7
<1>9. ASSUME NEW s \in SUBSET (1 .. Len(parts)), s # {}, fold[s \ {Max(s)}] \in Texts
      PROVE  fold[s] = WalkOf[<<fold[s \ {Max(s)}], parts[Max(s)]>>]
  <2>1. fold[s] = WalkStep(fold[s \ {Max(s)}], parts[Max(s)])
    BY <1>7, <1>9 DEF n
  <2>2. parts[Max(s)] \in Components
    BY <1>1, <1>5, <1>9 DEF n
  <2> QED
    BY <1>4, <1>9, <2>1, <2>2
<1>10. FoldsIn(fold, Texts, WalkOf, at, parts)
  BY <1>8, <1>9 DEF FoldsIn
<1>11. EndsIn(fold[1 .. Len(parts)], Texts, WalkOf, at, parts)
  BY <1>1, <1>3, <1>10, FoldRuns
<1> QED
  BY <1>2, <1>11 DEF n

(* A walk of one component more takes one step more.                         *)
LEMMA WalkOfMore ==
  ASSUME NEW at \in Texts, NEW parts \in Texts, NEW c \in Components
  PROVE  /\ Walk(at, <<>>) = at /\ Walk(at, parts) \in Texts
         /\ Walk(at, Append(parts, c)) = WalkStep(Walk(at, parts), c)
<1>1. <<>> \in Texts /\ Len(<<>>) = 0 /\ parts \in Seq(Components) /\ Append(parts, c) \in Texts
      /\ Len(parts) \in Nat /\ Len(Append(parts, c)) = Len(parts) + 1
  <2>1. /\ Append(parts, c) \in Seq(Components) /\ Len(parts) \in Nat
        /\ Len(Append(parts, c)) = Len(parts) + 1
    BY AppendProperties, LenProperties DEF Texts
  <2> QED
    BY <2>1, EmptySeq DEF Texts
<1>2. EndsIn(Walk(at, <<>>), Texts, WalkOf, at, <<>>)
  BY <1>1, WalkRuns
<1>3. EndsIn(Walk(at, parts), Texts, WalkOf, at, parts)
  BY WalkRuns
<1>4. EndsIn(Walk(at, Append(parts, c)), Texts, WalkOf, at, Append(parts, c))
  BY <1>1, WalkRuns
<1>5. /\ Walk(at, <<>>) = at /\ Walk(at, parts) \in Texts
      /\ Walk(at, Append(parts, c)) = WalkOf[<<Walk(at, parts), c>>]
  BY <1>1, <1>2, <1>3, <1>4, EndOfMore
<1> QED
  BY <1>5 DEF WalkOf

(* What normalize() has of a path's components, as the fold of Normalize. *)
Collapsed(absolute, path) ==
  Paths!FoldLeft(LAMBDA ps, c : Paths!Collapse(ps, c, absolute), <<>>, path)

CollapseOf(absolute) == [x \in Texts \X Components |-> Paths!Collapse(x[1], x[2], absolute)]

(* normalize() as the components it has after each of the path's.             *)
LEMMA CollapseRuns ==
  ASSUME NEW absolute \in BOOLEAN, NEW path \in Texts
  PROVE  EndsIn(Collapsed(absolute, path), Texts, CollapseOf(absolute), <<>>, path)
<1> DEFINE n == Len(path)
           g == CollapseOf(absolute)
           Solves(f) == f = [s \in SUBSET (1 .. n) |->
                               IF s = {} THEN <<>>
                               ELSE Paths!Collapse(f[s \ {Max(s)}], path[Max(s)], absolute)]
           fold == CHOOSE f : Solves(f)
<1>1. /\ n \in Nat /\ DOMAIN path = 1 .. n /\ (\A i \in 1 .. n : path[i] \in Components)
      /\ path \in Seq(Components) /\ <<>> \in Texts
  BY LenProperties, ElementOfSeq, EmptySeq DEF Texts
<1>2. Collapsed(absolute, path) = fold[1 .. n]
  BY <1>1 DEF Collapsed, Paths!FoldLeft, Paths!MapThenFoldSet, Paths!Max, Max
<1>3. g \in [Texts \X Components -> Texts]
  BY StepTypes DEF CollapseOf
<1>4. \A p \in Texts : \A c \in Components : g[<<p, c>>] = Paths!Collapse(p, c, absolute)
  BY DEF CollapseOf
<1> HIDE DEF n, g
<1>5. \A s \in SUBSET (1 .. n) : s # {} => Max(s) \in 1 .. n /\ s \ {Max(s)} \in SUBSET (1 .. n)
  BY <1>1, MaxOfPart
<1>6. \E f : Solves(f)
  <2>1. PICK f \in [SUBSET (1 .. n) -> Texts] : FoldsBy(f, g, <<>>, path)
    BY <1>1, <1>3, FoldRecursion DEF n
  <2>2. ASSUME NEW s \in SUBSET (1 .. n), s # {}
        PROVE  g[<<f[s \ {Max(s)}], path[Max(s)]>>]
                 = Paths!Collapse(f[s \ {Max(s)}], path[Max(s)], absolute)
    BY <1>1, <1>4, <1>5, <2>1, <2>2
  <2>3. f = [s \in SUBSET (1 .. n) |->
               IF s = {} THEN <<>> ELSE Paths!Collapse(f[s \ {Max(s)}], path[Max(s)], absolute)]
    BY <2>1, <2>2 DEF FoldsBy, n
  <2> QED
    BY <2>3
<1>7. Solves(fold)
  BY <1>6
<1> HIDE DEF fold
<1>8. fold[{}] = <<>>
  BY <1>7
<1>9. ASSUME NEW s \in SUBSET (1 .. Len(path)), s # {}, fold[s \ {Max(s)}] \in Texts
      PROVE  fold[s] = g[<<fold[s \ {Max(s)}], path[Max(s)]>>]
  <2>1. fold[s] = Paths!Collapse(fold[s \ {Max(s)}], path[Max(s)], absolute)
    BY <1>7, <1>9 DEF n
  <2>2. path[Max(s)] \in Components
    BY <1>1, <1>5, <1>9 DEF n
  <2> QED
    BY <1>4, <1>9, <2>1, <2>2
<1>10. FoldsIn(fold, Texts, g, <<>>, path)
  BY <1>8, <1>9 DEF FoldsIn
<1>11. EndsIn(fold[1 .. Len(path)], Texts, g, <<>>, path)
  BY <1>1, <1>3, <1>10, FoldRuns
<1> QED
  BY <1>2, <1>11 DEF n, g

(* A path of one component more collapses that component last.               *)
LEMMA CollapseOfMore ==
  ASSUME NEW absolute \in BOOLEAN, NEW path \in Texts, NEW c \in Components
  PROVE  /\ Collapsed(absolute, <<>>) = <<>> /\ Collapsed(absolute, path) \in Texts
         /\ Collapsed(absolute, Append(path, c))
              = Paths!Collapse(Collapsed(absolute, path), c, absolute)
<1>1. <<>> \in Texts /\ Len(<<>>) = 0 /\ path \in Seq(Components) /\ Append(path, c) \in Texts
      /\ Len(path) \in Nat /\ Len(Append(path, c)) = Len(path) + 1
  <2>1. /\ Append(path, c) \in Seq(Components) /\ Len(path) \in Nat
        /\ Len(Append(path, c)) = Len(path) + 1
    BY AppendProperties, LenProperties DEF Texts
  <2> QED
    BY <2>1, EmptySeq DEF Texts
<1>2. EndsIn(Collapsed(absolute, <<>>), Texts, CollapseOf(absolute), <<>>, <<>>)
  BY <1>1, CollapseRuns
<1>3. EndsIn(Collapsed(absolute, path), Texts, CollapseOf(absolute), <<>>, path)
  BY CollapseRuns
<1>4. EndsIn(Collapsed(absolute, Append(path, c)), Texts, CollapseOf(absolute), <<>>, Append(path, c))
  BY <1>1, CollapseRuns
<1>5. /\ Collapsed(absolute, <<>>) = <<>> /\ Collapsed(absolute, path) \in Texts
      /\ Collapsed(absolute, Append(path, c)) = CollapseOf(absolute)[<<Collapsed(absolute, path), c>>]
  BY <1>1, <1>2, <1>3, <1>4, EndOfMore
<1> QED
  BY <1>5 DEF CollapseOf

(* normalize() by what it has of the components.                              *)
LEMMA NormalizeIs ==
  ASSUME NEW path \in Texts
  PROVE  Paths!Normalize(path) =
           LET parts == Collapsed(Paths!Absolute(path), path)
           IN CASE Paths!Absolute(path) /\ parts = <<>>  -> Paths!Root
                [] Paths!Absolute(path) /\ parts # <<>>  -> <<Paths!Blank>> \o parts
                [] ~Paths!Absolute(path) /\ parts = <<>> -> Paths!Here
                [] OTHER                                -> parts
  BY DEF Paths!Normalize, Collapsed

(* A sequence of one, and one behind two in a row.                            *)
LEMMA OneMore ==
  ASSUME NEW s \in Texts, NEW t \in Texts, NEW e \in Components
  PROVE  /\ <<e>> \in Texts /\ <<e>> = Append(<<>>, e)
         /\ s \o Append(t, e) = Append(s \o t, e)
<1>1. <<e>> \in Texts /\ <<e>> = Append(<<>>, e)
  BY DEF Texts
<1>2. Append(t, e) = t \o <<e>>
  BY AppendIsConcat DEF Texts
<1>3. s \o t \in Texts
  BY ConcatProperties DEF Texts
<1>4. Append(s \o t, e) = (s \o t) \o <<e>>
  BY <1>3, AppendIsConcat DEF Texts
<1>5. s \o (t \o <<e>>) = (s \o t) \o <<e>>
  <2> DEFINE one == <<e>>
  <2>1. one \in Texts
    BY <1>1
  <2> HIDE DEF one
  <2>2. s \o (t \o one) = (s \o t) \o one
    BY <2>1, ConcatAssociative DEF Texts
  <2> QED
    BY <2>2 DEF one
<1> QED
  BY <1>1, <1>2, <1>4, <1>5

(* Nothing between two slashes is neither "." nor "..".                       *)
LEMMA BlankIs == Paths!Blank # "." /\ Paths!Blank # ".." /\ {Paths!Blank, ".", ".."} \subseteq Components
  BY NamesAssumption, Zenon DEF Paths!Blank

(* A component that names something, and components that normalize() leaves *)
(* as they are: names, behind a relative path's leading "..".               *)
Named(c) == c \notin {Paths!Blank, ".", ".."}

Normal(parts, absolute) ==
  \A i \in 1 .. Len(parts) :
    /\ parts[i] \notin {Paths!Blank, "."}
    /\ parts[i] = ".." => ~absolute /\ \A j \in 1 .. i - 1 : parts[j] = ".."

(* A component of what is normal, and those in front of it.                   *)
LEMMA NormalAt ==
  ASSUME NEW absolute \in BOOLEAN, NEW parts, Normal(parts, absolute), NEW i \in 1 .. Len(parts)
  PROVE  /\ parts[i] \notin {Paths!Blank, "."} /\ (absolute => Named(parts[i]))
         /\ parts[i] = ".." => \A j \in 1 .. i - 1 : parts[j] = ".."
  BY DEF Normal, Named

(* Where a path of that kind may start from. *)
StartsAt(at, absolute) == at \in Texts /\ (absolute => at = <<>>)

(* What normalize() keeps is normal, and leads where the path has led.        *)
LEMMA CollapseStep ==
  ASSUME NEW absolute \in BOOLEAN, NEW parts \in Texts, Normal(parts, absolute), NEW c \in Components
  PROVE  /\ Normal(Paths!Collapse(parts, c, absolute), absolute)
         /\ \A at : StartsAt(at, absolute) =>
              Walk(at, Paths!Collapse(parts, c, absolute)) = WalkStep(Walk(at, parts), c)
<1> DEFINE next == Paths!Collapse(parts, c, absolute)
<1>0. parts \in Seq(Components) /\ Len(parts) \in Nat /\ ".." \in Components
  BY NamesAssumption, LenProperties DEF Texts
<1>1. ASSUME NEW e \in Components, Named(e) \/ (e = ".." /\ ~absolute /\ (parts = <<>> \/ Last(parts) = ".."))
      PROVE  Normal(Append(parts, e), absolute)
  <2> DEFINE t == Append(parts, e)
  <2>1. /\ Len(t) = Len(parts) + 1 /\ t[Len(parts) + 1] = e
        /\ \A i \in 1 .. Len(parts) : t[i] = parts[i]
    BY <1>0, AppendProperties
  <2> HIDE DEF t
  <2>2. ASSUME e = "..", NEW j \in 1 .. Len(parts) PROVE parts[j] = ".."
    <3>1. parts # <<>> /\ Last(parts) = ".."
      BY <1>0, <1>1, <2>2, EmptySeq DEF Named
    <3>2. Len(parts) \in 1 .. Len(parts) /\ parts[Len(parts)] = ".."
      BY <1>0, <2>2, <3>1 DEF Last
    <3>3. \A k \in 1 .. Len(parts) - 1 : parts[k] = ".."
      BY <3>2, NormalAt
    <3>4. j \in 1 .. Len(parts) - 1 \/ j = Len(parts)
      BY <1>0
    <3> QED
      BY <3>2, <3>3, <3>4
  <2>3. ASSUME NEW i \in 1 .. Len(t)
        PROVE  /\ t[i] \notin {Paths!Blank, "."}
               /\ t[i] = ".." => ~absolute /\ \A j \in 1 .. i - 1 : t[j] = ".."
    <3>1. CASE i = Len(parts) + 1
      <4>1. t[i] = e
        BY <2>1, <3>1
      <4>2. e \notin {Paths!Blank, "."} /\ (e = ".." => ~absolute)
        BY <1>1, BlankIs DEF Named
      <4>3. e = ".." => \A j \in 1 .. i - 1 : t[j] = ".."
        <5>1. \A j \in 1 .. i - 1 : j \in 1 .. Len(parts)
          BY <1>0, <3>1
        <5> QED
          BY <2>1, <2>2, <5>1
      <4> QED
        BY <4>1, <4>2, <4>3
    <3>2. CASE i # Len(parts) + 1
      <4>1. i \in 1 .. Len(parts) /\ \A j \in 1 .. i - 1 : j \in 1 .. Len(parts)
        BY <1>0, <2>1, <3>2
      <4> QED
        BY <2>1, <4>1 DEF Normal
    <3> QED
      BY <3>1, <3>2
  <2> QED
    BY <2>3 DEF Normal, t
<1>2. CASE c \in {Paths!Blank, "."}
  BY <1>2, BlankIs DEF Paths!Collapse, WalkStep
<1>3. CASE c = ".." /\ parts # <<>> /\ Last(parts) # ".."
  <2>1. PICK q \in Seq(Components), e \in Components : parts = Append(q, e)
    BY <1>0, <1>3, SequenceEmptyOrAppend
  <2>2. Front(parts) = q /\ Last(parts) = e
    BY <2>1, FrontAndLast
  <2>3. next = q
    BY <1>3, <2>2 DEF Paths!Collapse, Paths!Front, Paths!Last, Front, Last
  <2>4. /\ Len(q) \in Nat /\ Len(parts) = Len(q) + 1 /\ parts[Len(q) + 1] = e
        /\ \A i \in 1 .. Len(q) : parts[i] = q[i]
    BY <2>1, AppendProperties, LenProperties
  <2>5. Named(e)
    <3>1. Len(q) + 1 \in 1 .. Len(parts)
      BY <2>4
    <3>2. e \notin {Paths!Blank, "."} /\ e # ".."
      BY <1>3, <2>2, <2>4, <3>1, NormalAt
    <3> QED
      BY <3>2 DEF Named
  <2>6. Normal(q, absolute)
    <3>1. ASSUME NEW i \in 1 .. Len(q)
          PROVE  /\ q[i] \notin {Paths!Blank, "."}
                 /\ q[i] = ".." => ~absolute /\ \A j \in 1 .. i - 1 : q[j] = ".."
      <4>1. i \in 1 .. Len(parts) /\ \A j \in 1 .. i - 1 : j \in 1 .. Len(q)
        BY <2>4
      <4> QED
        BY <2>4, <4>1 DEF Normal
    <3> QED
      BY <3>1 DEF Normal
  <2>7. ASSUME NEW at, StartsAt(at, absolute) PROVE Walk(at, q) = WalkStep(Walk(at, parts), c)
    <3>1. at \in Texts /\ q \in Texts
      BY <2>7 DEF StartsAt, Texts
    <3>2. Walk(at, q) \in Texts /\ Walk(at, parts) = WalkStep(Walk(at, q), e)
      BY <2>1, <3>1, WalkOfMore
    <3>3. Walk(at, parts) = Append(Walk(at, q), e)
      BY <2>5, <3>2 DEF WalkStep, Named
    <3>4. Walk(at, parts) # <<>> /\ Front(Walk(at, parts)) = Walk(at, q)
      BY <3>2, <3>3, FrontAndLast, AppendProperties DEF Texts
    <3> QED
      BY <1>3, <3>4 DEF WalkStep
  <2> HIDE DEF next
  <2> QED
    BY <2>3, <2>6, <2>7 DEF next
<1>4. CASE c = ".." /\ (parts = <<>> \/ Last(parts) = "..") /\ absolute
  <2>1. next = parts
    BY <1>4 DEF Paths!Collapse, Paths!Last, Last
  <2>2. parts = <<>>
    <3>1. ASSUME parts # <<>> PROVE FALSE
      <4>1. Len(parts) \in 1 .. Len(parts)
        BY <1>0, <3>1, EmptySeq
      <4> QED
        BY <1>4, <3>1, <4>1 DEF Normal, Last
    <3> QED
      BY <3>1
  <2>3. ASSUME NEW at, StartsAt(at, absolute) PROVE Walk(at, parts) = WalkStep(Walk(at, parts), c)
    <3>1. at = <<>> /\ at \in Texts
      BY <1>4, <2>3 DEF StartsAt
    <3>2. Walk(at, parts) = <<>>
      BY <1>0, <2>2, <3>1, WalkOfMore
    <3> QED
      BY <1>4, <3>2 DEF WalkStep
  <2> HIDE DEF next
  <2> QED
    BY <2>1, <2>3 DEF next
<1>5. CASE Named(c) \/ (c = ".." /\ (parts = <<>> \/ Last(parts) = "..") /\ ~absolute)
  <2>1. next = Append(parts, c)
    BY <1>5 DEF Paths!Collapse, Paths!Last, Last, Named
  <2>2. Normal(Append(parts, c), absolute)
    BY <1>1, <1>5
  <2>3. ASSUME NEW at, StartsAt(at, absolute)
        PROVE  Walk(at, Append(parts, c)) = WalkStep(Walk(at, parts), c)
    BY <2>3, WalkOfMore DEF StartsAt
  <2> HIDE DEF next
  <2> QED
    BY <2>1, <2>2, <2>3 DEF next
<1> QED
  BY <1>2, <1>3, <1>4, <1>5, BlankIs DEF Named

(* The same of a whole path.                                                  *)
LEMMA CollapsedLeads ==
  ASSUME NEW absolute \in BOOLEAN
  PROVE  \A path \in Texts :
           /\ Collapsed(absolute, path) \in Texts /\ Normal(Collapsed(absolute, path), absolute)
           /\ \A at : StartsAt(at, absolute) => Walk(at, Collapsed(absolute, path)) = Walk(at, path)
<1> DEFINE Holds(path) ==
             /\ Collapsed(absolute, path) \in Texts /\ Normal(Collapsed(absolute, path), absolute)
             /\ \A at : StartsAt(at, absolute) => Walk(at, Collapsed(absolute, path)) = Walk(at, path)
           S == {path \in Texts : Holds(path)}
<1>0. <<>> \in Texts /\ Len(<<>>) = 0 /\ Paths!Blank \in Components
  BY EmptySeq, NamesAssumption DEF Texts
<1>1. <<>> \in S
  <2>1. Collapsed(absolute, <<>>) = <<>>
    BY <1>0, CollapseOfMore
  <2>2. Normal(<<>>, absolute)
    <3>1. \A i \in 1 .. Len(<<>>) : FALSE
      OBVIOUS
    <3> QED
      BY <3>1 DEF Normal
  <2> QED
    BY <1>0, <2>1, <2>2
<1>2. ASSUME NEW s \in Seq(Components), NEW e \in Components, s \in S PROVE Append(s, e) \in S
  <2> DEFINE p == Collapsed(absolute, s)
             next == Collapsed(absolute, Append(s, e))
  <2>1. s \in Texts /\ Append(s, e) \in Texts
    BY AppendProperties DEF Texts
  <2>2. /\ p \in Texts /\ Normal(p, absolute)
        /\ \A at : StartsAt(at, absolute) => Walk(at, p) = Walk(at, s)
    BY <1>2
  <2>3. next = Paths!Collapse(p, e, absolute)
    BY <2>1, CollapseOfMore
  <2> HIDE DEF p, next
  <2>4. next \in Texts
    BY <2>2, <2>3, StepTypes
  <2>5. Normal(next, absolute)
    BY <2>2, <2>3, CollapseStep
  <2>6. ASSUME NEW at, StartsAt(at, absolute) PROVE Walk(at, next) = Walk(at, Append(s, e))
    <3>1. Walk(at, next) = WalkStep(Walk(at, p), e)
      BY <2>2, <2>3, <2>6, CollapseStep
    <3>2. Walk(at, Append(s, e)) = WalkStep(Walk(at, s), e)
      BY <2>1, <2>6, WalkOfMore DEF StartsAt
    <3> QED
      BY <2>2, <2>6, <3>1, <3>2
  <2> QED
    BY <2>1, <2>4, <2>5, <2>6 DEF next
<1>3. \A path \in Seq(Components) : path \in S
  <2> HIDE DEF S
  <2> QED
    BY <1>1, <1>2, SequenceInduction
<1> QED
  BY <1>3 DEF Texts

(* What is normal stays as it is.                                             *)
LEMMA CollapsedOfNormal ==
  ASSUME NEW absolute \in BOOLEAN
  PROVE  \A parts \in Texts : Normal(parts, absolute) => Collapsed(absolute, parts) = parts
<1> DEFINE S == {parts \in Texts : Normal(parts, absolute) => Collapsed(absolute, parts) = parts}
<1>0. <<>> \in Texts /\ Paths!Blank \in Components
  BY EmptySeq, NamesAssumption DEF Texts
<1>1. <<>> \in S
  BY <1>0, CollapseOfMore
<1>2. ASSUME NEW s \in Seq(Components), NEW e \in Components, s \in S PROVE Append(s, e) \in S
  <2> DEFINE t == Append(s, e)
  <2>1. /\ s \in Texts /\ t \in Texts /\ Len(s) \in Nat /\ Len(t) = Len(s) + 1 /\ t[Len(s) + 1] = e
        /\ \A i \in 1 .. Len(s) : t[i] = s[i]
    BY AppendProperties, LenProperties DEF Texts
  <2>2. Collapsed(absolute, t) = Paths!Collapse(Collapsed(absolute, s), e, absolute)
    BY <2>1, CollapseOfMore
  <2> HIDE DEF t
  <2>3. ASSUME Normal(t, absolute) PROVE Collapsed(absolute, t) = t
    <3>1. Normal(s, absolute)
      <4>1. ASSUME NEW i \in 1 .. Len(s)
            PROVE  /\ s[i] \notin {Paths!Blank, "."}
                   /\ s[i] = ".." => ~absolute /\ \A j \in 1 .. i - 1 : s[j] = ".."
        <5>1. i \in 1 .. Len(t) /\ \A j \in 1 .. i - 1 : j \in 1 .. Len(s)
          BY <2>1
        <5> QED
          BY <2>1, <2>3, <5>1 DEF Normal
      <4> QED
        BY <4>1 DEF Normal
    <3>2. Collapsed(absolute, s) = s
      BY <1>2, <3>1
    <3>3. Len(t) \in 1 .. Len(t) /\ t[Len(t)] = e
      BY <2>1
    <3>4. e \notin {Paths!Blank, "."} /\ (e = ".." => ~absolute /\ \A j \in 1 .. Len(s) : s[j] = "..")
      <4>1. e \notin {Paths!Blank, "."} /\ (e = ".." => ~absolute /\ \A j \in 1 .. Len(t) - 1 : t[j] = "..")
        BY <2>3, <3>3, NormalAt DEF Normal
      <4>2. Len(t) - 1 = Len(s)
        BY <2>1
      <4> QED
        BY <2>1, <4>1, <4>2
    <3>5. e = ".." => ~absolute /\ (s = <<>> \/ Last(s) = "..")
      <4>1. s # <<>> => Len(s) \in 1 .. Len(s)
        BY <2>1, EmptySeq
      <4> QED
        BY <3>4, <4>1 DEF Last
    <3>6. Paths!Collapse(s, e, absolute) = Append(s, e)
      BY <3>4, <3>5 DEF Paths!Collapse, Paths!Last, Last
    <3> QED
      BY <2>2, <3>2, <3>6 DEF t
  <2> QED
    BY <2>1, <2>3 DEF t
<1>3. \A path \in Seq(Components) : path \in S
  <2> HIDE DEF S
  <2> QED
    BY <1>1, <1>2, SequenceInduction
<1> QED
  BY <1>3 DEF Texts

(* Two paths in a row are walked one after the other.                         *)
LEMMA WalkInARow ==
  ASSUME NEW at \in Texts, NEW s \in Texts
  PROVE  \A t \in Texts : Walk(at, s \o t) = Walk(Walk(at, s), t)
<1> DEFINE S == {t \in Texts : Walk(at, s \o t) = Walk(Walk(at, s), t)}
<1>0. <<>> \in Texts /\ Paths!Blank \in Components /\ Walk(at, s) \in Texts /\ s \in Seq(Components)
  BY EmptySeq, NamesAssumption, WalkOfMore DEF Texts
<1>1. <<>> \in S
  <2>1. s \o <<>> = s
    BY <1>0, ConcatEmptySeq
  <2>2. Walk(Walk(at, s), <<>>) = Walk(at, s)
    BY <1>0, WalkOfMore
  <2> QED
    BY <1>0, <2>1, <2>2
<1>2. ASSUME NEW t \in Seq(Components), NEW e \in Components, t \in S PROVE Append(t, e) \in S
  <2>1. t \in Texts /\ Append(t, e) \in Texts /\ s \o t \in Texts
    BY <1>0, AppendProperties, ConcatProperties DEF Texts
  <2>2. s \o Append(t, e) = Append(s \o t, e)
    BY <1>0, <2>1, OneMore DEF Texts
  <2>3. Walk(at, Append(s \o t, e)) = WalkStep(Walk(at, s \o t), e)
    BY <2>1, WalkOfMore
  <2>4. Walk(Walk(at, s), Append(t, e)) = WalkStep(Walk(Walk(at, s), t), e)
    <3> DEFINE there == Walk(at, s)
    <3>1. there \in Texts
      BY <1>0
    <3> HIDE DEF there
    <3>2. Walk(there, Append(t, e)) = WalkStep(Walk(there, t), e)
      BY <2>1, <3>1, WalkOfMore
    <3> QED
      BY <3>2 DEF there
  <2> QED
    BY <1>2, <2>1, <2>2, <2>3, <2>4
<1>3. \A t \in Seq(Components) : t \in S
  <2> HIDE DEF S
  <2> QED
    BY <1>1, <1>2, SequenceInduction
<1> QED
  BY <1>3 DEF Texts

(* The slash in front of an absolute path adds no component.                  *)
LEMMA CollapsedBehindSlash ==
  ASSUME NEW absolute \in BOOLEAN
  PROVE  \A t \in Texts : Collapsed(absolute, <<Paths!Blank>> \o t) = Collapsed(absolute, t)
<1> DEFINE S == {t \in Texts : Collapsed(absolute, <<Paths!Blank>> \o t) = Collapsed(absolute, t)}
<1>0. <<>> \in Texts /\ Paths!Blank \in Components /\ <<Paths!Blank>> \in Seq(Components) /\ <<Paths!Blank>> = Append(<<>>, Paths!Blank)
  <2>1. Paths!Blank \in Components /\ <<>> \in Seq(Components)
    BY EmptySeq, NamesAssumption
  <2> QED
    BY <2>1, OneMore DEF Texts
<1>1. <<>> \in S
  <2>1. <<Paths!Blank>> \o <<>> = <<Paths!Blank>>
    BY <1>0, ConcatEmptySeq
  <2>2. Collapsed(absolute, <<>>) = <<>>
    BY <1>0, CollapseOfMore
  <2>3. Collapsed(absolute, Append(<<>>, Paths!Blank)) = Paths!Collapse(<<>>, Paths!Blank, absolute)
    BY <1>0, <2>2, CollapseOfMore
  <2>4. Paths!Collapse(<<>>, Paths!Blank, absolute) = <<>>
    BY BlankIs DEF Paths!Collapse
  <2> QED
    BY <1>0, <2>1, <2>2, <2>3, <2>4
<1>2. ASSUME NEW t \in Seq(Components), NEW e \in Components, t \in S PROVE Append(t, e) \in S
  <2>1. t \in Texts /\ Append(t, e) \in Texts /\ <<Paths!Blank>> \o t \in Texts
    BY <1>0, AppendProperties, ConcatProperties DEF Texts
  <2>2. <<Paths!Blank>> \o Append(t, e) = Append(<<Paths!Blank>> \o t, e)
    BY <1>0, <2>1, OneMore DEF Texts
  <2>3. Collapsed(absolute, Append(<<Paths!Blank>> \o t, e))
          = Paths!Collapse(Collapsed(absolute, <<Paths!Blank>> \o t), e, absolute)
    BY <2>1, CollapseOfMore
  <2>4. Collapsed(absolute, Append(t, e)) = Paths!Collapse(Collapsed(absolute, t), e, absolute)
    BY <2>1, CollapseOfMore
  <2> QED
    BY <1>2, <2>1, <2>2, <2>3, <2>4
<1>3. \A t \in Seq(Components) : t \in S
  <2> HIDE DEF S
  <2> QED
    BY <1>1, <1>2, SequenceInduction
<1> QED
  BY <1>3 DEF Texts

(* The empty path, and the path whose one component is empty. *)
Nothing == <<>>
Slash == <<Paths!Blank>>

(* The root and the working directory, as normalize() writes them.            *)
LEMMA RootAndHere ==
  /\ Nothing \in Texts /\ Len(Nothing) = 0
  /\ Slash \in Texts /\ Len(Slash) = 1 /\ Slash[1] = Paths!Blank
  /\ Paths!Root \in Texts /\ Len(Paths!Root) = 2 /\ Paths!Root[1] = Paths!Blank /\ Paths!Root[2] = Paths!Blank
  /\ Paths!Here \in Texts /\ Len(Paths!Here) = 1 /\ Paths!Here[1] = "."
  /\ \A absolute \in BOOLEAN : /\ Collapsed(absolute, Paths!Root) = Nothing
                               /\ Collapsed(absolute, Paths!Here) = Nothing
  /\ \A at \in Texts : /\ Walk(at, Slash) = at /\ Walk(at, Nothing) = at
                       /\ Walk(at, Paths!Root) = at /\ Walk(at, Paths!Here) = at
<1>1. Paths!Blank \in Components /\ "." \in Components /\ Nothing \in Texts /\ Len(Nothing) = 0
  BY NamesAssumption, EmptySeq DEF Texts, Nothing
<1>2. /\ Slash = Append(Nothing, Paths!Blank) /\ Paths!Here = Append(Nothing, ".")
      /\ Paths!Root = Append(Slash, Paths!Blank)
  BY DEF Nothing, Slash, Paths!Here, Paths!Root
<1>3. /\ Slash \in Texts /\ Len(Slash) = 1 /\ Slash[1] = Paths!Blank
      /\ Paths!Here \in Texts /\ Len(Paths!Here) = 1 /\ Paths!Here[1] = "."
  <2>1. \A c \in Components : /\ Append(Nothing, c) \in Texts /\ Len(Append(Nothing, c)) = 0 + 1
                         /\ Append(Nothing, c)[0 + 1] = c
    BY <1>1, AppendProperties DEF Texts
  <2> QED
    BY <1>1, <1>2, <2>1
<1>4. Paths!Root \in Texts /\ Len(Paths!Root) = 2 /\ Paths!Root[1] = Paths!Blank /\ Paths!Root[2] = Paths!Blank
  <2>1. ASSUME NEW s \in Texts, NEW c \in Components
        PROVE  /\ Append(s, c) \in Texts /\ Len(Append(s, c)) = Len(s) + 1
               /\ Append(s, c)[Len(s) + 1] = c /\ \A i \in 1 .. Len(s) : Append(s, c)[i] = s[i]
    BY AppendProperties DEF Texts
  <2>2. /\ Append(Slash, Paths!Blank) \in Texts
        /\ Len(Append(Slash, Paths!Blank)) = Len(Slash) + 1
        /\ Append(Slash, Paths!Blank)[Len(Slash) + 1] = Paths!Blank
        /\ \A i \in 1 .. Len(Slash) : Append(Slash, Paths!Blank)[i] = Slash[i]
    BY <1>1, <1>3, <2>1, Zenon
  <2>3. Len(Slash) = 1 /\ Len(Slash) + 1 = 2
    BY <1>3
  <2> QED
    BY <1>2, <1>3, <2>2, <2>3
<1>5. ASSUME NEW at \in Texts
      PROVE  /\ Walk(at, Slash) = at /\ Walk(at, Nothing) = at
             /\ Walk(at, Paths!Root) = at /\ Walk(at, Paths!Here) = at
  <2>1. WalkStep(at, Paths!Blank) = at /\ WalkStep(at, ".") = at
    BY BlankIs DEF WalkStep
  <2>2. Walk(at, Nothing) = at
    BY <1>1, WalkOfMore DEF Nothing
  <2>3. Walk(at, Slash) = at /\ Walk(at, Paths!Here) = at
    <3>1. \A c \in Components : Walk(at, Append(Nothing, c)) = WalkStep(Walk(at, Nothing), c)
      BY <1>1, WalkOfMore
    <3> QED
      BY <1>1, <1>2, <2>1, <2>2, <3>1
  <2>4. Walk(at, Paths!Root) = at
    BY <1>1, <1>2, <1>3, <2>1, <2>3, WalkOfMore
  <2> QED
    BY <2>2, <2>3, <2>4
<1>6. ASSUME NEW absolute \in BOOLEAN
      PROVE  Collapsed(absolute, Paths!Root) = Nothing /\ Collapsed(absolute, Paths!Here) = Nothing
  <2>1. Paths!Collapse(Nothing, Paths!Blank, absolute) = Nothing /\ Paths!Collapse(Nothing, ".", absolute) = Nothing
    BY BlankIs DEF Paths!Collapse
  <2>2. Collapsed(absolute, Nothing) = Nothing
    BY <1>1, CollapseOfMore DEF Nothing
  <2>3. Collapsed(absolute, Slash) = Nothing /\ Collapsed(absolute, Paths!Here) = Nothing
    <3>1. \A c \in Components : Collapsed(absolute, Append(Nothing, c))
                                = Paths!Collapse(Collapsed(absolute, Nothing), c, absolute)
      BY <1>1, CollapseOfMore
    <3> QED
      BY <1>1, <1>2, <2>1, <2>2, <3>1
  <2>4. Collapsed(absolute, Paths!Root) = Nothing
    BY <1>1, <1>2, <1>3, <2>1, <2>3, CollapseOfMore
  <2> QED
    BY <2>3, <2>4
<1> QED
  BY <1>1, <1>3, <1>4, <1>5, <1>6

(* What normalize() returns: it is as absolute as the path, collapses to the  *)
(* same components and leads to the same place.                              *)
LEMMA NormalizedIs ==
  ASSUME NEW path \in Texts
  PROVE  LET N == Paths!Normalize(path)
             a == Paths!Absolute(path)
         IN /\ N \in Texts /\ N # Nothing /\ a \in BOOLEAN /\ Paths!Absolute(N) = a /\ (N[1] = Paths!Blank <=> a)
            /\ Collapsed(a, N) = Collapsed(a, path)
            /\ \A at : StartsAt(at, a) => Walk(at, N) = Walk(at, path)
            /\ (N = Paths!Root => a) /\ (N = Paths!Here => ~a)
            /\ a /\ N # Paths!Root => \A i \in 2 .. Len(N) : Named(N[i])
            /\ ~a /\ N # Paths!Here => Normal(N, FALSE)
<1> DEFINE N == Paths!Normalize(path)
           a == Paths!Absolute(path)
           parts == Collapsed(a, path)
           Leads(q) == \A at : StartsAt(at, a) => Walk(at, q) = Walk(at, path)
           Goal == /\ N \in Texts /\ N # Nothing /\ a \in BOOLEAN /\ Paths!Absolute(N) = a
                   /\ (N[1] = Paths!Blank <=> a) /\ Collapsed(a, N) = parts /\ Leads(N)
                   /\ (N = Paths!Root => a) /\ (N = Paths!Here => ~a)
                   /\ a /\ N # Paths!Root => \A i \in 2 .. Len(N) : Named(N[i])
                   /\ ~a /\ N # Paths!Here => Normal(N, FALSE)
<1>1. a \in BOOLEAN
  BY DEF Paths!Absolute
<1>2. N = CASE a /\ parts = Nothing  -> Paths!Root
            [] a /\ parts # Nothing  -> Slash \o parts
            [] ~a /\ parts = Nothing -> Paths!Here
            [] OTHER              -> parts
  BY NormalizeIs DEF Nothing, Slash
<1>3. parts \in Texts /\ Normal(parts, a) /\ Leads(parts)
  BY <1>1, CollapsedLeads
<1>4. /\ Slash \in Seq(Components) /\ Slash \in Texts /\ Len(Slash) = 1 /\ Slash[1] = Paths!Blank
      /\ Len(parts) \in Nat /\ parts \in Seq(Components)
      /\ parts # Nothing => Len(parts) > 0
  BY <1>3, RootAndHere, LenProperties, EmptySeq DEF Texts, Nothing
<1> HIDE DEF N, parts
<1>5. ASSUME a /\ parts = Nothing PROVE Goal
  <2>1. N = Paths!Root
    BY <1>2, <1>5
  <2>2. Paths!Absolute(N) /\ N # Paths!Here /\ N # Nothing
    BY <2>1, RootAndHere, BlankIs DEF Paths!Absolute
  <2>3. Leads(N)
    <3>1. ASSUME NEW at, StartsAt(at, a) PROVE Walk(at, N) = Walk(at, path)
      <4>1. at \in Texts /\ Walk(at, parts) = Walk(at, path)
        BY <1>3, <3>1 DEF StartsAt
      <4>2. Walk(at, Nothing) = at /\ Walk(at, N) = at
        BY <2>1, <4>1, RootAndHere
      <4> QED
        BY <1>5, <4>1, <4>2
    <3> QED
      BY <3>1
  <2> QED
    BY <1>1, <1>5, <2>1, <2>2, <2>3, RootAndHere
<1>6. ASSUME a /\ parts # Nothing PROVE Goal
  <2> DEFINE n == Slash \o parts
  <2>1. N = n
    BY <1>2, <1>6
  <2>2. /\ n \in Seq(Components) /\ Len(n) = Len(parts) + 1 /\ n[1] = Paths!Blank
        /\ \A i \in 2 .. Len(n) : n[i] = parts[i - 1] /\ i - 1 \in 1 .. Len(parts)
    <3>1. /\ n \in Seq(Components) /\ Len(n) = 1 + Len(parts)
          /\ \A i \in 1 .. 1 + Len(parts) : n[i] = IF i <= 1 THEN Slash[i] ELSE parts[i - 1]
      <4>1. /\ n \in Seq(Components) /\ Len(n) = Len(Slash) + Len(parts)
            /\ \A i \in 1 .. Len(Slash) + Len(parts) :
                 n[i] = IF i <= Len(Slash) THEN Slash[i] ELSE parts[i - Len(Slash)]
        BY <1>4, ConcatProperties
      <4> QED
        BY <1>4, <4>1
    <3> HIDE DEF n
    <3>2. 1 \in 1 .. 1 + Len(parts)
      BY <1>4
    <3>3. n[1] = Paths!Blank
      BY <1>4, <3>1, <3>2
    <3>4. ASSUME NEW i \in 2 .. Len(n) PROVE n[i] = parts[i - 1] /\ i - 1 \in 1 .. Len(parts)
      BY <1>4, <3>1
    <3> QED
      BY <1>4, <3>1, <3>3, <3>4
  <2>3. Len(parts) > 0
    BY <1>4, <1>6
  <2>4. Collapsed(a, n) = Collapsed(a, parts) /\ Collapsed(a, parts) = parts
    BY <1>1, <1>3, CollapsedBehindSlash, CollapsedOfNormal DEF Slash
  <2>5. Leads(n)
    <3>1. ASSUME NEW at, StartsAt(at, a) PROVE Walk(at, n) = Walk(at, path)
      <4>1. at \in Texts /\ Walk(at, parts) = Walk(at, path)
        BY <1>3, <3>1 DEF StartsAt
      <4>2. Walk(at, n) = Walk(Walk(at, Slash), parts) /\ Walk(at, Slash) = at
        BY <1>3, <1>4, <4>1, WalkInARow, RootAndHere
      <4> QED
        BY <4>1, <4>2
    <3> QED
      BY <3>1
  <2> HIDE DEF n
  <2>6. Paths!Absolute(n) /\ n # Nothing
    BY <1>4, <2>2, <2>3, RootAndHere DEF Paths!Absolute
  <2>7. \A i \in 2 .. Len(n) : Named(n[i])
    <3>1. \A k \in 1 .. Len(parts) : Named(parts[k])
      BY <1>1, <1>3, <1>6, NormalAt
    <3> QED
      BY <2>2, <3>1
  <2>8. n # Paths!Here
    BY <2>2, RootAndHere, BlankIs
  <2> QED
    BY <1>1, <1>6, <2>1, <2>2, <2>4, <2>5, <2>6, <2>7, <2>8 DEF Texts
<1>7. ASSUME ~a /\ parts = Nothing PROVE Goal
  <2>1. N = Paths!Here
    BY <1>2, <1>7
  <2>2. Paths!Absolute(N) = a /\ N # Nothing /\ N[1] # Paths!Blank /\ N # Paths!Root
    <3>1. ~(Len(Paths!Here) > 1)
      BY RootAndHere
    <3>2. (Len(N) > 1 /\ N[1] = Paths!Blank) = a
      BY <1>1, <1>7, <2>1, <3>1
    <3>3. Paths!Absolute(N) = a
      BY <3>2 DEF Paths!Absolute
    <3> QED
      BY <2>1, <3>3, RootAndHere, BlankIs
  <2>3. Leads(N)
    <3>1. ASSUME NEW at, StartsAt(at, a) PROVE Walk(at, N) = Walk(at, path)
      <4>1. at \in Texts /\ Walk(at, parts) = Walk(at, path)
        BY <1>3, <3>1 DEF StartsAt
      <4>2. Walk(at, Nothing) = at /\ Walk(at, N) = at
        BY <2>1, <4>1, RootAndHere
      <4> QED
        BY <1>7, <4>1, <4>2
    <3> QED
      BY <3>1
  <2>4. N \in Texts /\ Collapsed(a, N) = parts
    BY <1>1, <1>7, <2>1, RootAndHere
  <2> HIDE DEF a
  <2> QED
    BY <1>1, <1>7, <2>1, <2>2, <2>3, <2>4
<1>8. ASSUME ~a /\ parts # Nothing PROVE Goal
  <2>1. N = parts
    BY <1>2, <1>8
  <2>2. 1 \in 1 .. Len(parts)
    <3>1. Len(parts) > 0
      BY <1>4, <1>8
    <3> QED
      BY <1>4, <3>1
  <2>3. parts[1] \notin {Paths!Blank, "."}
    BY <1>1, <1>3, <2>2, NormalAt
  <2>4. Paths!Absolute(N) = a /\ N # Paths!Here /\ N # Paths!Root
    <3>1. (Len(N) > 1 /\ N[1] = Paths!Blank) = a
      BY <1>1, <1>8, <2>1, <2>3
    <3>2. Paths!Absolute(N) = a
      BY <3>1 DEF Paths!Absolute
    <3> QED
      BY <2>1, <2>3, <3>2, RootAndHere, BlankIs
  <2>5. Collapsed(a, parts) = parts /\ Normal(parts, FALSE)
    BY <1>1, <1>3, <1>8, CollapsedOfNormal
  <2> HIDE DEF a
  <2> QED
    BY <1>1, <1>3, <1>8, <2>1, <2>3, <2>4, <2>5
<1> QED
  <2>1. Goal
    BY <1>1, <1>5, <1>6, <1>7, <1>8
  <2> QED
    BY <2>1 DEF N, a, parts

(* A path that is normalised stays as it is.                                  *)
LEMMA NormalizedOnce ==
  ASSUME NEW path \in Texts
  PROVE  Paths!Normalize(Paths!Normalize(path)) = Paths!Normalize(path)
<1> DEFINE N == Paths!Normalize(path)
           a == Paths!Absolute(path)
           Shape(parts) == CASE a /\ parts = Nothing  -> Paths!Root
                             [] a /\ parts # Nothing  -> Slash \o parts
                             [] ~a /\ parts = Nothing -> Paths!Here
                             [] OTHER              -> parts
<1>1. N \in Texts /\ Paths!Absolute(N) = a /\ Collapsed(a, N) = Collapsed(a, path)
  BY NormalizedIs
<1>2. N = Shape(Collapsed(a, path))
  BY NormalizeIs DEF Nothing, Slash
<1> HIDE DEF N
<1>3. Paths!Normalize(N) = LET parts == Collapsed(Paths!Absolute(N), N)
                           IN CASE Paths!Absolute(N) /\ parts = Nothing  -> Paths!Root
                                [] Paths!Absolute(N) /\ parts # Nothing  -> Slash \o parts
                                [] ~Paths!Absolute(N) /\ parts = Nothing -> Paths!Here
                                [] OTHER                              -> parts
  BY <1>1, NormalizeIs DEF Nothing, Slash
<1> HIDE DEF a
<1>4. Paths!Normalize(N) = Shape(Collapsed(a, N))
  BY <1>1, <1>3
<1> QED
  BY <1>1, <1>2, <1>4 DEF N

(* Where a path leads is where its normal form leads.                         *)
LEMMA NormalizedLeads ==
  ASSUME NEW path \in Texts, NEW cwd \in Texts
  PROVE  Walked(cwd, Paths!Normalize(path)) = Walked(cwd, path) /\ Walked(cwd, path) \in Texts
<1> DEFINE at == IF Paths!Absolute(path) THEN <<>> ELSE cwd
<1>1. StartsAt(at, Paths!Absolute(path)) /\ at \in Texts
  BY EmptySeq DEF StartsAt, Texts
<1>2. /\ Paths!Absolute(Paths!Normalize(path)) = Paths!Absolute(path)
      /\ Walk(at, Paths!Normalize(path)) = Walk(at, path)
  BY <1>1, NormalizedIs
<1>3. Walk(at, path) \in Texts
  <2>1. Paths!Blank \in Components
    BY NamesAssumption
  <2> HIDE DEF at
  <2> QED
    BY <1>1, <2>1, WalkOfMore
<1> QED
  BY <1>2, <1>3 DEF Walked

(* The beginnings of a path.                                                  *)
LEMMA Beginnings ==
  ASSUME NEW path \in Texts
  PROVE  /\ SubSeq(path, 1, Len(path)) = path /\ SubSeq(path, 1, 0) = Nothing /\ Len(path) \in Nat
         /\ \A i \in 0 .. Len(path) :
              /\ SubSeq(path, 1, i) \in Texts /\ Len(SubSeq(path, 1, i)) = i
              /\ \A k \in 1 .. i : SubSeq(path, 1, i)[k] = path[k]
         /\ \A i \in 1 .. Len(path) :
              /\ path[i] \in Components
              /\ SubSeq(path, 1, i) = Append(SubSeq(path, 1, i - 1), path[i])
<1>1. path \in Seq(Components) /\ Len(path) \in Nat /\ \A i \in 1 .. Len(path) : path[i] \in Components
  BY LenProperties, ElementOfSeq DEF Texts
<1>2. ASSUME NEW i \in 0 .. Len(path)
      PROVE  /\ SubSeq(path, 1, i) \in Texts /\ Len(SubSeq(path, 1, i)) = i
             /\ \A k \in 1 .. i : SubSeq(path, 1, i)[k] = path[k]
  <2>1. 1 \in Int /\ i \in Int /\ \A k \in 1 .. i : path[k] \in Components
    BY <1>1
  <2>2. /\ SubSeq(path, 1, i) \in Seq(Components)
        /\ Len(SubSeq(path, 1, i)) = IF 1 <= i THEN i - 1 + 1 ELSE 0
        /\ \A k \in 1 .. i - 1 + 1 : SubSeq(path, 1, i)[k] = path[1 + k - 1]
    BY <2>1, SubSeqProperties
  <2>3. i - 1 + 1 = i /\ \A k \in 1 .. i : 1 + k - 1 = k
    BY <1>1
  <2> QED
    BY <1>1, <2>2, <2>3 DEF Texts
<1>3. SubSeq(path, 1, Len(path)) = path
  <2>1. Len(path) \in 0 .. Len(path)
    BY <1>1
  <2> QED
    BY <1>1, <1>2, <2>1, SeqEqual DEF Texts
<1>4. SubSeq(path, 1, 0) = Nothing
  BY SubSeqEmpty DEF Nothing
<1>5. ASSUME NEW i \in 1 .. Len(path)
      PROVE  SubSeq(path, 1, i) = Append(SubSeq(path, 1, i - 1), path[i])
  <2> DEFINE s == SubSeq(path, 1, i)
             t == SubSeq(path, 1, i - 1)
             u == Append(t, path[i])
  <2>1. i \in 0 .. Len(path) /\ i - 1 \in 0 .. Len(path) /\ path[i] \in Components
    BY <1>1
  <2>2. s \in Seq(Components) /\ Len(s) = i /\ \A k \in 1 .. i : s[k] = path[k]
    BY <1>2, <2>1 DEF Texts
  <2>3. t \in Seq(Components) /\ Len(t) = i - 1 /\ \A k \in 1 .. i - 1 : t[k] = path[k]
    BY <1>2, <2>1 DEF Texts
  <2> HIDE DEF s, t
  <2>4. /\ u \in Seq(Components) /\ Len(u) = i - 1 + 1 /\ u[i - 1 + 1] = path[i]
        /\ \A k \in 1 .. i - 1 : u[k] = t[k]
    BY <2>1, <2>3, AppendProperties
  <2> HIDE DEF u
  <2>5. i - 1 + 1 = i /\ \A k \in 1 .. i : k = i \/ k \in 1 .. i - 1
    BY <1>1
  <2>6. \A k \in 1 .. Len(s) : s[k] = u[k]
    BY <2>2, <2>3, <2>4, <2>5
  <2>7. s = u
    BY <2>2, <2>4, <2>5, <2>6, SeqEqual
  <2> QED
    BY <2>7 DEF s, t, u
<1> QED
  BY <1>1, <1>2, <1>3, <1>4, <1>5

(* What join() normalises. *)
Combined(base, child) == IF Paths!Absolute(child) THEN child ELSE Paths!Normalize(base) \o child

(* It leads where the child leads from the base.                              *)
LEMMA CombinedIs ==
  ASSUME NEW base \in Texts, NEW child \in Texts
  PROVE  /\ Combined(base, child) \in Texts
         /\ Paths!Absolute(Combined(base, child)) = (Paths!Absolute(child) \/ Paths!Absolute(base))
         /\ \A cwd \in Texts : Walked(cwd, Combined(base, child)) = Walked(Walked(cwd, base), child)
<1> DEFINE b == Paths!Normalize(base)
           c == b \o child
<1>1. b \in Texts /\ b # Nothing /\ Paths!Absolute(b) = Paths!Absolute(base)
      /\ (b[1] = Paths!Blank <=> Paths!Absolute(base))
  BY NormalizedIs
<1>2. Paths!Absolute(child) \in BOOLEAN /\ Paths!Absolute(base) \in BOOLEAN /\ Paths!Absolute(c) \in BOOLEAN
  BY DEF Paths!Absolute
<1>3. CASE Paths!Absolute(child)
  BY <1>2, <1>3 DEF Combined, Walked
<1>4. CASE ~Paths!Absolute(child)
  <2>1. Combined(base, child) = c
    BY <1>4 DEF Combined
  <2> HIDE DEF b
  <2>2. b \in Seq(Components) /\ child \in Seq(Components) /\ Len(b) \in Nat /\ Len(child) \in Nat /\ Len(b) # 0
    BY <1>1, LenProperties, EmptySeq DEF Texts, Nothing
  <2>3. /\ c \in Seq(Components) /\ Len(c) = Len(b) + Len(child)
        /\ \A i \in 1 .. Len(b) + Len(child) : c[i] = IF i <= Len(b) THEN b[i] ELSE child[i - Len(b)]
    BY <2>2, ConcatProperties
  <2>4. 1 \in 1 .. Len(b) + Len(child) /\ 1 <= Len(b)
    BY <2>2
  <2>5. c[1] = b[1]
    BY <2>3, <2>4
  <2> HIDE DEF c
  <2>6. Paths!Absolute(c) = Paths!Absolute(base)
    <3>1. Paths!Absolute(base) => Paths!Absolute(c)
      <4>1. ASSUME Paths!Absolute(base) PROVE Len(b) > 1
        <5>1. Paths!Absolute(b)
          BY <1>1, <4>1
        <5> QED
          BY <5>1 DEF Paths!Absolute
      <4>2. ASSUME Paths!Absolute(base) PROVE Len(c) > 1 /\ c[1] = Paths!Blank
        BY <1>1, <2>2, <2>3, <2>5, <4>1, <4>2
      <4> QED
        BY <4>2 DEF Paths!Absolute
    <3>2. ~Paths!Absolute(base) => ~Paths!Absolute(c)
      <4>1. ~Paths!Absolute(base) => c[1] # Paths!Blank
        BY <1>1, <2>5
      <4>2. Paths!Absolute(c) => c[1] = Paths!Blank
        BY DEF Paths!Absolute
      <4> QED
        BY <4>1, <4>2
    <3> QED
      BY <1>2, <3>1, <3>2
  <2>7. ASSUME NEW cwd \in Texts PROVE Walked(cwd, c) = Walked(Walked(cwd, base), child)
    <3> DEFINE at == IF Paths!Absolute(base) THEN <<>> ELSE cwd
    <3>1. at \in Texts
      BY EmptySeq DEF Texts
    <3>2. Walked(cwd, c) = Walk(at, c) /\ Walked(cwd, b) = Walk(at, b)
      BY <1>1, <2>6 DEF Walked
    <3>3. Walk(at, c) = Walk(Walk(at, b), child)
      <4> HIDE DEF at
      <4> QED
        BY <1>1, <3>1, WalkInARow DEF c
    <3>4. Walked(cwd, b) = Walked(cwd, base)
      BY NormalizedLeads DEF b
    <3>5. Walked(Walked(cwd, base), child) = Walk(Walked(cwd, base), child)
      BY <1>4 DEF Walked
    <3> QED
      BY <3>2, <3>3, <3>4, <3>5
  <2>8. (Paths!Absolute(child) \/ Paths!Absolute(base)) = Paths!Absolute(base)
    BY <1>2, <1>4
  <2> QED
    BY <2>1, <2>3, <2>6, <2>7, <2>8 DEF Texts
<1> QED
  BY <1>3, <1>4

(* What join() returns leads where the child leads from the base.             *)
LEMMA JoinLeads ==
  ASSUME NEW base \in Texts, NEW child \in Texts
  PROVE  /\ Paths!Join(base, child).path = Paths!Normalize(Combined(base, child))
         /\ Paths!Join(base, child).ok
              = Paths!Within(Paths!Normalize(base), Paths!Join(base, child).path)
         /\ \A cwd \in Texts : Walked(cwd, Paths!Join(base, child).path) = Walked(Walked(cwd, base), child)
<1>1. /\ Paths!Join(base, child).path = Paths!Normalize(Combined(base, child))
      /\ Paths!Join(base, child).ok
           = Paths!Within(Paths!Normalize(base), Paths!Join(base, child).path)
  BY DEF Paths!Join, Combined
<1>2. ASSUME NEW cwd \in Texts
      PROVE  Walked(cwd, Paths!Join(base, child).path) = Walked(Walked(cwd, base), child)
  BY <1>1, CombinedIs, NormalizedLeads
<1> QED
  BY <1>1, <1>2

(* What normalize() returns, and what create_dir_all() makes of a path's     *)
(* beginnings: those inside the base that are neither it nor the root.       *)
Normalized(path) ==
  /\ path \in Texts /\ path # Nothing
  /\ path[1] = Paths!Blank <=> Paths!Absolute(path)
  /\ path = Paths!Root => Paths!Absolute(path)
  /\ path = Paths!Here => ~Paths!Absolute(path)
  /\ Paths!Absolute(path) /\ path # Paths!Root => \A i \in 2 .. Len(path) : Named(path[i])
  /\ ~Paths!Absolute(path) /\ path # Paths!Here => Normal(path, FALSE)

Listed(b, dir) == Last(dir) # Paths!Blank /\ dir # b /\ Paths!Within(b, dir)

(* That a path goes below b: its first m components lead where b does, and   *)
(* the others down.                                                          *)
Below(b, path, m) ==
  /\ m \in 0 .. Len(path) /\ \A i \in m + 1 .. Len(path) : Named(path[i])
  /\ Paths!Absolute(path) => m >= 1
  /\ \A at : StartsAt(at, Paths!Absolute(path)) => Walk(at, SubSeq(path, 1, m)) = Walk(at, b)

(* ... and that create_dir_all() makes the others' directories.               *)
Lists(b, path, m) == path # b => \A i \in 1 .. Len(path) : Listed(b, SubSeq(path, 1, i)) <=> i > m

(* Both of what normalize() returns.                                          *)
LEMMA NormalizedForm ==
  ASSUME NEW path \in Texts
  PROVE  /\ Normalized(Paths!Normalize(path))
         /\ Paths!Absolute(Paths!Normalize(path)) = Paths!Absolute(path)
  BY NormalizedIs DEF Normalized

(* A beginning, by its length and its ends.                                   *)
LEMMA BeginningEnds ==
  ASSUME NEW path \in Texts, NEW i \in 1 .. Len(path)
  PROVE  /\ Len(SubSeq(path, 1, i)) = i /\ Last(SubSeq(path, 1, i)) = path[i]
         /\ SubSeq(path, 1, i)[1] = path[1] /\ SubSeq(path, 1, i) \in Texts
         /\ \A k \in 1 .. i : SubSeq(path, 1, i)[k] = path[k]
<1>1. i \in 0 .. Len(path) /\ i \in 1 .. i /\ 1 \in 1 .. i
  BY Beginnings
<1>2. /\ Len(SubSeq(path, 1, i)) = i /\ SubSeq(path, 1, i) \in Texts
      /\ \A k \in 1 .. i : SubSeq(path, 1, i)[k] = path[k]
  BY <1>1, Beginnings
<1> QED
  BY <1>1, <1>2 DEF Last

(* What join() accepts goes below the base.                                   *)
LEMMA AcceptedIs ==
  ASSUME NEW b, Normalized(b), NEW J, Normalized(J), Paths!Within(b, J), b[1] # "..",
         Paths!Absolute(J) = Paths!Absolute(b)
  PROVE  \E m : Below(b, J, m) /\ Lists(b, J, m)
<1>1. b \in Texts /\ J \in Texts /\ Len(b) \in Nat /\ Len(J) \in Nat /\ Len(b) >= 1 /\ Len(J) >= 1
  <2>1. \A s \in Seq(Components) : Len(s) \in Nat /\ (s # <<>> => Len(s) # 0)
    BY LenProperties, EmptySeq
  <2> QED
    BY <2>1 DEF Normalized, Texts, Nothing
<1>2. 1 \in 1 .. Len(J) /\ (J[1] = Paths!Blank <=> Paths!Absolute(J)) /\ (b[1] = Paths!Blank <=> Paths!Absolute(b))
  BY <1>1 DEF Normalized
<1>3. ASSUME ~Paths!Absolute(J), J # Paths!Here, J[1] # ".."
      PROVE  \A i \in 1 .. Len(J) : Named(J[i])
  <2>1. Normal(J, FALSE)
    BY <1>3 DEF Normalized
  <2>2. ASSUME NEW i \in 1 .. Len(J) PROVE Named(J[i])
    <3>1. J[i] \notin {Paths!Blank, "."} /\ (J[i] = ".." => \A j \in 1 .. i - 1 : J[j] = "..")
      BY <2>1, NormalAt
    <3>2. J[i] # ".."
      <4>1. i = 1 \/ 1 \in 1 .. i - 1
        BY <1>1
      <4> QED
        BY <1>3, <3>1, <4>1
    <3> QED
      BY <3>1, <3>2 DEF Named
  <2> QED
    BY <2>2
<1>4. CASE J = b
  <2>1. Below(b, J, Len(J))
    <3>1. SubSeq(J, 1, Len(J)) = J
      BY <1>1, Beginnings
    <3>2. Len(J) \in 0 .. Len(J) /\ Len(J) + 1 .. Len(J) = {}
      BY <1>1
    <3> QED
      BY <1>1, <1>4, <3>1, <3>2 DEF Below
  <2>2. Lists(b, J, Len(J))
    BY <1>4 DEF Lists
  <2> QED
    BY <2>1, <2>2
<1>5. CASE J # b /\ b = Paths!Root
  <2>1. Paths!Absolute(J) /\ J[1] = Paths!Blank
    BY <1>2, <1>5 DEF Normalized
  <2>2. \A i \in 2 .. Len(J) : Named(J[i])
    BY <1>5, <2>1 DEF Normalized
  <2>3. SubSeq(J, 1, 1) = Slash
    <3> DEFINE s == SubSeq(J, 1, 1)
    <3>1. Len(s) = 1 /\ s[1] = J[1] /\ s \in Seq(Components)
      BY <1>1, <1>2, BeginningEnds DEF Texts
    <3> HIDE DEF s
    <3>2. Len(Slash) = 1 /\ Slash[1] = Paths!Blank /\ Slash \in Seq(Components)
      BY RootAndHere DEF Texts
    <3>3. \A i \in 1 .. Len(s) : s[i] = Slash[i]
      BY <2>1, <3>1, <3>2
    <3>4. s = Slash
      BY <3>1, <3>2, <3>3, SeqEqual
    <3> QED
      BY <3>4 DEF s
  <2>4. Below(b, J, 1)
    <3>1. ASSUME NEW at, StartsAt(at, Paths!Absolute(J)) PROVE Walk(at, SubSeq(J, 1, 1)) = Walk(at, b)
      <4>1. at \in Texts
        BY <3>1 DEF StartsAt
      <4> QED
        BY <1>5, <2>3, <4>1, RootAndHere
    <3>2. 1 \in 0 .. Len(J) /\ 1 + 1 = 2
      BY <1>1
    <3> QED
      BY <2>2, <3>1, <3>2 DEF Below
  <2>5. Lists(b, J, 1)
    <3>1. ASSUME NEW i \in 1 .. Len(J) PROVE Listed(b, SubSeq(J, 1, i)) <=> i > 1
      <4> DEFINE dir == SubSeq(J, 1, i)
      <4>1. Len(dir) = i /\ Last(dir) = J[i] /\ dir[1] = J[1] /\ \A k \in 1 .. i : dir[k] = J[k]
        BY <1>1, BeginningEnds
      <4> HIDE DEF dir
      <4>2. CASE i = 1
        BY <2>1, <4>1, <4>2 DEF Listed, dir
      <4>3. CASE i > 1
        <5>1. i \in 2 .. Len(J) /\ 2 \in 2 .. Len(J) /\ 2 \in 1 .. i
          BY <1>1, <4>3
        <5>2. Last(dir) # Paths!Blank /\ dir[2] # Paths!Blank
          BY <2>2, <4>1, <5>1 DEF Named
        <5>3. dir # b
          BY <1>5, <5>2, RootAndHere
        <5>4. Paths!Within(b, dir)
          <6>1. dir[1] # ".."
            BY <2>1, <4>1, BlankIs
          <6> QED
            BY <1>5, <6>1 DEF Paths!Within
        <5> QED
          BY <4>3, <5>2, <5>3, <5>4 DEF Listed, dir
      <4>4. i = 1 \/ i > 1
        BY <1>1
      <4> QED
        BY <4>2, <4>3, <4>4
    <3> QED
      BY <3>1 DEF Lists
  <2> QED
    BY <2>4, <2>5
<1>6. CASE J # b /\ b = Paths!Here
  <2>1. ~Paths!Absolute(J) /\ J # Paths!Here
    BY <1>6 DEF Normalized
  <2>2. J[1] # ".."
    BY <1>6 DEF Paths!Within
  <2>3. \A i \in 1 .. Len(J) : Named(J[i])
    BY <1>3, <2>1, <2>2
  <2>4. Below(b, J, 0)
    <3>1. ASSUME NEW at, StartsAt(at, Paths!Absolute(J)) PROVE Walk(at, SubSeq(J, 1, 0)) = Walk(at, b)
      <4>1. at \in Texts
        BY <3>1 DEF StartsAt
      <4>2. SubSeq(J, 1, 0) = Nothing
        BY <1>1, Beginnings
      <4> QED
        BY <1>6, <4>1, <4>2, RootAndHere
    <3>2. 0 \in 0 .. Len(J) /\ 0 + 1 = 1
      BY <1>1
    <3> QED
      BY <2>1, <2>3, <3>1, <3>2 DEF Below
  <2>5. Lists(b, J, 0)
    <3>1. ASSUME NEW i \in 1 .. Len(J) PROVE Listed(b, SubSeq(J, 1, i)) <=> i > 0
      <4> DEFINE dir == SubSeq(J, 1, i)
      <4>1. Last(dir) = J[i] /\ dir[1] = J[1]
        BY <1>1, BeginningEnds
      <4> HIDE DEF dir
      <4>2. Last(dir) # Paths!Blank /\ dir[1] # "."
        BY <1>2, <2>3, <4>1 DEF Named
      <4>3. dir # b
        BY <1>6, <4>2, RootAndHere
      <4>4. Paths!Within(b, dir)
        BY <1>6, <2>2, <4>1 DEF Paths!Within
      <4>5. i > 0
        BY <1>1
      <4> QED
        BY <4>2, <4>3, <4>4, <4>5 DEF Listed, dir
    <3> QED
      BY <3>1 DEF Lists
  <2> QED
    BY <2>4, <2>5
<1>7. CASE J # b /\ b \notin {Paths!Root, Paths!Here}
  <2> DEFINE m == Len(b)
  <2>1. m <= Len(J) /\ SubSeq(b, 1, m) = SubSeq(J, 1, m)
    BY <1>7 DEF Paths!Within, Paths!IsPrefix
  <2>2. m \in 1 .. Len(J) /\ m \in 0 .. Len(J) /\ m \in Nat
    BY <1>1, <2>1
  <2>3. SubSeq(J, 1, m) = b
    BY <1>1, <2>1, Beginnings
  <2>4. J[1] = b[1] /\ \A k \in 1 .. m : b[k] = J[k]
    BY <1>1, <2>2, <2>3, BeginningEnds
  <2> HIDE DEF m
  <2>5. \A i \in m + 1 .. Len(J) : Named(J[i])
    <3>1. CASE Paths!Absolute(J)
      <4>1. m > 1
        <5>1. Paths!Absolute(b)
          BY <3>1
        <5> QED
          BY <5>1 DEF Paths!Absolute, m
      <4>2. J # Paths!Root
        <5>1. ASSUME J = Paths!Root PROVE FALSE
          <6>1. m = 2 /\ Len(J) = 2
            BY <2>1, <2>2, <4>1, <5>1, RootAndHere
          <6>2. SubSeq(J, 1, Len(J)) = J
            BY <1>1, Beginnings
          <6> QED
            BY <1>7, <2>3, <6>1, <6>2
        <5> QED
          BY <5>1
      <4>3. \A i \in 2 .. Len(J) : Named(J[i])
        BY <3>1, <4>2 DEF Normalized
      <4>4. \A i \in m + 1 .. Len(J) : i \in 2 .. Len(J)
        BY <1>1, <2>2, <4>1
      <4> QED
        BY <4>3, <4>4
    <3>2. CASE ~Paths!Absolute(J)
      <4>1. J # Paths!Here
        <5>1. ASSUME J = Paths!Here PROVE FALSE
          <6>1. m = 1 /\ Len(J) = 1
            BY <2>2, <5>1, RootAndHere
          <6>2. SubSeq(J, 1, Len(J)) = J
            BY <1>1, Beginnings
          <6> QED
            BY <1>7, <2>3, <6>1, <6>2
        <5> QED
          BY <5>1
      <4>2. \A i \in 1 .. Len(J) : Named(J[i])
        BY <1>3, <2>4, <3>2, <4>1
      <4>3. \A i \in m + 1 .. Len(J) : i \in 1 .. Len(J)
        BY <1>1, <2>2
      <4> QED
        BY <4>2, <4>3
    <3> QED
      BY <3>1, <3>2
  <2>6. Below(b, J, m)
    <3>1. m >= 1
      BY <2>2
    <3> QED
      BY <2>2, <2>3, <2>5, <3>1 DEF Below
  <2>7. Lists(b, J, m)
    <3>1. ASSUME NEW i \in 1 .. Len(J) PROVE Listed(b, SubSeq(J, 1, i)) <=> i > m
      <4> DEFINE dir == SubSeq(J, 1, i)
      <4>1. /\ Len(dir) = i /\ Last(dir) = J[i] /\ dir \in Texts
            /\ \A k \in 1 .. i : dir[k] = J[k]
        BY <1>1, BeginningEnds
      <4>2. i \in Nat
        BY <1>1
      <4>3. CASE i < m
        <5>1. ~(Len(b) <= Len(dir))
          BY <2>2, <4>1, <4>2, <4>3 DEF m
        <5>2. ~Paths!Within(b, dir)
          BY <1>7, <5>1 DEF Paths!Within, Paths!IsPrefix
        <5>3. ~(i > m)
          BY <2>2, <4>2, <4>3
        <5> QED
          BY <5>2, <5>3 DEF Listed
      <4>4. CASE i = m
        <5>1. dir = b /\ ~(i > m)
          BY <2>2, <2>3, <4>4
        <5> QED
          BY <5>1 DEF Listed
      <4>5. CASE i > m
        <5>1. i \in m + 1 .. Len(J) /\ m \in 1 .. i /\ m <= Len(dir)
          BY <1>1, <2>2, <4>1, <4>5
        <5>2. Last(dir) # Paths!Blank
          BY <2>5, <4>1, <5>1 DEF Named
        <5>3. dir # b
          BY <2>2, <4>1, <4>5 DEF m
        <5>4. SubSeq(dir, 1, m) = b
          <6> HIDE DEF dir
          <6> DEFINE s == SubSeq(dir, 1, m)
          <6>1. m \in 1 .. Len(dir)
            BY <4>1, <5>1
          <6>2. Len(s) = m /\ s \in Seq(Components) /\ \A k \in 1 .. m : s[k] = dir[k]
            BY <4>1, <6>1, BeginningEnds DEF Texts
          <6> HIDE DEF s
          <6>3. \A k \in 1 .. m : k \in 1 .. i
            BY <2>2, <4>2, <5>1
          <6>4. \A k \in 1 .. Len(s) : s[k] = b[k]
            BY <2>4, <4>1, <6>2, <6>3
          <6>5. b \in Seq(Components) /\ Len(s) = Len(b)
            BY <1>1, <6>2 DEF Texts, m
          <6>6. s = b
            BY <6>2, <6>4, <6>5, SeqEqual
          <6> QED
            BY <6>6 DEF s
        <5>5. SubSeq(b, 1, m) = b
          BY <1>1, Beginnings DEF m
        <5>6. Paths!Within(b, dir)
          BY <1>7, <5>1, <5>4, <5>5 DEF Paths!Within, Paths!IsPrefix, m
        <5> QED
          BY <4>5, <5>2, <5>3, <5>6 DEF Listed
      <4>6. i < m \/ i = m \/ i > m
        BY <2>2, <4>2
      <4> QED
        BY <4>3, <4>4, <4>5, <4>6
    <3> QED
      BY <3>1 DEF Lists
  <2> QED
    BY <2>6, <2>7
<1> QED
  BY <1>4, <1>5, <1>6, <1>7

(* A sequence is a beginning of itself, and of itself with one more.          *)
LEMMA PrefixOfMore ==
  ASSUME NEW p \in Texts, NEW s \in Texts, NEW e \in Components
  PROVE  /\ IsPrefix(p, p)
         /\ IsPrefix(p, s) => IsPrefix(p, Append(s, e))
<1>1. Len(p) \in Nat /\ Len(s) \in Nat
  BY Beginnings
<1>2. IsPrefix(p, p)
  BY <1>1 DEF IsPrefix
<1>3. ASSUME IsPrefix(p, s) PROVE IsPrefix(p, Append(s, e))
  <2> DEFINE t == Append(s, e)
             n == Len(p)
  <2>1. t \in Texts /\ Len(t) = Len(s) + 1 /\ \A i \in 1 .. Len(s) : t[i] = s[i]
    BY AppendProperties DEF Texts
  <2>2. n <= Len(s) /\ SubSeq(p, 1, n) = SubSeq(s, 1, n)
    BY <1>3 DEF IsPrefix
  <2> HIDE DEF t
  <2> DEFINE a == SubSeq(s, 1, n)
             c == SubSeq(t, 1, n)
  <2>3. n \in 0 .. Len(s) /\ n \in 0 .. Len(t) /\ n <= Len(t)
    BY <1>1, <2>1, <2>2
  <2>4. a \in Seq(Components) /\ Len(a) = n /\ \A i \in 1 .. n : a[i] = s[i]
    BY <2>3, Beginnings DEF Texts
  <2>5. c \in Seq(Components) /\ Len(c) = n /\ \A i \in 1 .. n : c[i] = t[i]
    BY <2>1, <2>3, Beginnings DEF Texts
  <2> HIDE DEF a, c
  <2>6. \A i \in 1 .. n : i \in 1 .. Len(s)
    BY <1>1, <2>3
  <2>7. \A i \in 1 .. Len(a) : a[i] = c[i]
    BY <2>1, <2>4, <2>5, <2>6
  <2>8. a = c
    BY <2>4, <2>5, <2>7, SeqEqual
  <2> QED
    BY <2>2, <2>3, <2>8 DEF IsPrefix, t, a, c
<1> QED
  BY <1>2, <1>3

(* A path that goes below b leads below where b leads, a component at a time. *)
LEMMA GoesDown ==
  ASSUME NEW b \in Texts, NEW J \in Texts, NEW m, Below(b, J, m), NEW at, StartsAt(at, Paths!Absolute(J))
  PROVE  /\ m \in 0 .. Len(J) /\ Walk(at, SubSeq(J, 1, m)) = Walk(at, b)
         /\ \A i \in m + 1 .. Len(J) :
              Front(Walk(at, SubSeq(J, 1, i))) = Walk(at, SubSeq(J, 1, i - 1))
         /\ IsPrefix(Walk(at, b), Walk(at, J))
<1> DEFINE There(i) == Walk(at, SubSeq(J, 1, i))
           n == Len(J)
<1>0. /\ n \in Nat /\ m \in 0 .. n /\ at \in Texts
      /\ Paths!Blank \in Components
  BY Beginnings, NamesAssumption DEF Below, StartsAt
<1>1. There(m) = Walk(at, b) /\ Walk(at, b) \in Texts /\ There(n) = Walk(at, J)
  <2>1. There(m) = Walk(at, b)
    BY DEF Below
  <2>2. Walk(at, b) \in Texts
    BY <1>0, WalkOfMore
  <2>3. SubSeq(J, 1, n) = J
    BY Beginnings
  <2> QED
    BY <2>1, <2>2, <2>3
<1>2. ASSUME NEW i \in m + 1 .. n
      PROVE  /\ i - 1 \in m .. n /\ There(i - 1) \in Texts /\ J[i] \in Components
             /\ There(i) = Append(There(i - 1), J[i])
  <2>1. i \in 1 .. n /\ i - 1 \in 0 .. n /\ i - 1 \in m .. n
    BY <1>0
  <2> DEFINE s == SubSeq(J, 1, i - 1)
  <2>2. s \in Texts /\ J[i] \in Components /\ SubSeq(J, 1, i) = Append(s, J[i])
    BY <2>1, Beginnings
  <2> HIDE DEF s
  <2>3. Walk(at, s) \in Texts /\ Walk(at, Append(s, J[i])) = WalkStep(Walk(at, s), J[i])
    BY <1>0, <2>2, WalkOfMore
  <2>4. Named(J[i])
    BY DEF Below
  <2>5. WalkStep(Walk(at, s), J[i]) = Append(Walk(at, s), J[i])
    BY <2>4 DEF WalkStep, Named
  <2> QED
    BY <2>1, <2>2, <2>3, <2>5 DEF s
<1>3. ASSUME NEW i \in m + 1 .. n PROVE Front(There(i)) = There(i - 1)
  <2> HIDE DEF There, n
  <2>1. There(i - 1) \in Seq(Components) /\ J[i] \in Components /\ There(i) = Append(There(i - 1), J[i])
    BY <1>2 DEF Texts
  <2> QED
    BY <2>1, FrontAndLast
<1>4. IsPrefix(Walk(at, b), There(n))
  <2> DEFINE S == {k \in 0 .. n - m : IsPrefix(Walk(at, b), There(m + k))}
  <2> HIDE DEF There, n
  <2>1. n - m \in Nat /\ m + (n - m) = n /\ m + 0 = m /\ m \in Nat
    BY <1>0
  <2>2. 0 \in S
    <3>1. IsPrefix(Walk(at, b), There(m + 0))
      BY <1>0, <1>1, <2>1, PrefixOfMore
    <3>2. 0 \in 0 .. n - m
      BY <2>1
    <3> QED
      BY <3>1, <3>2
  <2>3. ASSUME NEW k \in 0 .. n - m - 1, k \in S PROVE k + 1 \in S
    <3>1. m + (k + 1) \in m + 1 .. n /\ m + (k + 1) - 1 = m + k /\ k + 1 \in 0 .. n - m
      BY <1>0, <2>1
    <3>2. There(m + k) \in Texts /\ J[m + (k + 1)] \in Components
          /\ There(m + (k + 1)) = Append(There(m + k), J[m + (k + 1)])
      <4> DEFINE i == m + (k + 1)
      <4>1. i \in m + 1 .. n /\ i - 1 = m + k
        BY <1>0, <2>1
      <4> HIDE DEF i
      <4>2. There(i - 1) \in Texts /\ J[i] \in Components /\ There(i) = Append(There(i - 1), J[i])
        BY <1>2, <4>1
      <4> QED
        BY <4>1, <4>2 DEF i
    <3>3. IsPrefix(Walk(at, b), There(m + k))
      BY <2>3
    <3>4. IsPrefix(Walk(at, b), There(m + (k + 1)))
      BY <1>1, <3>2, <3>3, PrefixOfMore
    <3> QED
      BY <3>1, <3>4
  <2>4. \A k \in 0 .. n - m : k \in S
    <3> HIDE DEF S
    <3> QED
      BY <2>1, <2>2, <2>3, InductionTo
  <2>5. n - m \in 0 .. n - m
    BY <2>1
  <2>6. n - m \in S
    BY <2>4, <2>5
  <2> QED
    BY <2>1, <2>6
<1> QED
  BY <1>0, <1>1, <1>3, <1>4

(* A beginning that is below b is as absolute as the path.                    *)
LEMMA AbsoluteBelow ==
  ASSUME NEW b, NEW J, Normalized(J), NEW m, Below(b, J, m), NEW i \in m + 1 .. Len(J)
  PROVE  Paths!Absolute(SubSeq(J, 1, i)) = Paths!Absolute(J)
<1> DEFINE s == SubSeq(J, 1, i)
<1>1. m \in 0 .. Len(J) /\ Len(J) \in Nat /\ J \in Texts /\ (J[1] = Paths!Blank <=> Paths!Absolute(J))
  BY Beginnings DEF Below, Normalized
<1>2. i \in 1 .. Len(J)
  BY <1>1
<1>3. Len(s) = i /\ s[1] = J[1]
  BY <1>1, <1>2, BeginningEnds
<1> HIDE DEF s
<1>4. Paths!Absolute(J) => i > 1
  <2>1. Paths!Absolute(J) => m >= 1
    BY DEF Below
  <2> QED
    BY <1>1, <2>1
<1>5. Paths!Absolute(J) \in BOOLEAN
  BY DEF Paths!Absolute
<1>6. (Len(s) > 1 /\ s[1] = Paths!Blank) = Paths!Absolute(J)
  BY <1>1, <1>2, <1>3, <1>4, <1>5
<1> QED
  BY <1>6 DEF Paths!Absolute, s

(* The directories of a path that create_dir_all() makes, as the fold of     *)
(* Ancestors.                                                                *)
MadeOf(b, dirs) ==
  Paths!FoldLeft(LAMBDA made, built : IF Listed(b, built) THEN Append(made, built) ELSE made, <<>>, dirs)

MakeOf(b) ==
  [x \in Seq(Texts) \X Texts |-> IF Listed(b, x[2]) THEN Append(x[1], x[2]) ELSE x[1]]

LEMMA MadeRuns ==
  ASSUME NEW b, NEW dirs \in Seq(Texts)
  PROVE  EndsIn(MadeOf(b, dirs), Seq(Texts), MakeOf(b), <<>>, dirs)
<1> DEFINE n == Len(dirs)
           g == MakeOf(b)
           T == Seq(Texts)
           Step(made, dir) == IF Listed(b, dir) THEN Append(made, dir) ELSE made
           Solves(f) == f = [s \in SUBSET (1 .. n) |->
                               IF s = {} THEN <<>> ELSE Step(f[s \ {Max(s)}], dirs[Max(s)])]
           fold == CHOOSE f : Solves(f)
<1>1. /\ n \in Nat /\ DOMAIN dirs = 1 .. n /\ (\A i \in 1 .. n : dirs[i] \in Texts)
      /\ <<>> \in T
  BY LenProperties, ElementOfSeq, EmptySeq
<1>2. MadeOf(b, dirs) = fold[1 .. n]
  BY <1>1 DEF MadeOf, Paths!FoldLeft, Paths!MapThenFoldSet, Paths!Max, Max
<1>3. g \in [T \X Texts -> T]
  <2>1. ASSUME NEW x \in T \X Texts PROVE (IF Listed(b, x[2]) THEN Append(x[1], x[2]) ELSE x[1]) \in T
    <3>1. x[1] \in Seq(Texts) /\ x[2] \in Texts
      BY <2>1
    <3>2. Append(x[1], x[2]) \in Seq(Texts)
      BY <3>1, AppendProperties
    <3> QED
      BY <3>1, <3>2
  <2> QED
    BY <2>1 DEF MakeOf
<1>4. \A p \in T : \A c \in Texts : g[<<p, c>>] = Step(p, c)
  BY DEF MakeOf
<1> HIDE DEF n, g, T, Step
<1>5. \A s \in SUBSET (1 .. n) : s # {} => Max(s) \in 1 .. n /\ s \ {Max(s)} \in SUBSET (1 .. n)
  BY <1>1, MaxOfPart
<1>6. \E f : Solves(f)
  <2>1. PICK f \in [SUBSET (1 .. n) -> T] : FoldsBy(f, g, <<>>, dirs)
    BY <1>1, <1>3, FoldRecursion DEF n
  <2>2. ASSUME NEW s \in SUBSET (1 .. n), s # {}
        PROVE  g[<<f[s \ {Max(s)}], dirs[Max(s)]>>] = Step(f[s \ {Max(s)}], dirs[Max(s)])
    BY <1>1, <1>4, <1>5, <2>1, <2>2
  <2>3. f = [s \in SUBSET (1 .. n) |-> IF s = {} THEN <<>> ELSE Step(f[s \ {Max(s)}], dirs[Max(s)])]
    BY <2>1, <2>2 DEF FoldsBy, n
  <2> QED
    BY <2>3
<1>7. Solves(fold)
  BY <1>6
<1> HIDE DEF fold
<1>8. fold[{}] = <<>>
  BY <1>7
<1>9. ASSUME NEW s \in SUBSET (1 .. Len(dirs)), s # {}, fold[s \ {Max(s)}] \in T
      PROVE  fold[s] = g[<<fold[s \ {Max(s)}], dirs[Max(s)]>>]
  <2>1. fold[s] = Step(fold[s \ {Max(s)}], dirs[Max(s)])
    BY <1>7, <1>9 DEF n
  <2>2. dirs[Max(s)] \in Texts
    BY <1>1, <1>5, <1>9 DEF n
  <2> QED
    BY <1>4, <1>9, <2>1, <2>2
<1>10. FoldsIn(fold, T, g, <<>>, dirs)
  BY <1>8, <1>9 DEF FoldsIn
<1>11. EndsIn(fold[1 .. Len(dirs)], T, g, <<>>, dirs)
  BY <1>1, <1>3, <1>10, FoldRuns
<1> QED
  BY <1>2, <1>11 DEF n, g, T

BeginningsOf(path) == [i \in 1 .. Len(path) |-> SubSeq(path, 1, i)]

(* They are those below b, in order.                                          *)
LEMMA MadeIs ==
  ASSUME NEW b, NEW J \in Texts, J # b, NEW m, Below(b, J, m), Lists(b, J, m)
  PROVE  /\ Len(MadeOf(b, BeginningsOf(J))) = Len(J) - m
         /\ \A j \in 1 .. Len(J) - m : MadeOf(b, BeginningsOf(J))[j] = SubSeq(J, 1, m + j)
<1> DEFINE n == Len(J)
           dirs == BeginningsOf(J)
           g == MakeOf(b)
<1>1. n \in Nat /\ m \in 0 .. n /\ \A i \in 1 .. n : SubSeq(J, 1, i) \in Texts
  BY Beginnings, BeginningEnds DEF Below
<1>2. dirs \in Seq(Texts) /\ Len(dirs) = n /\ \A i \in 1 .. n : dirs[i] = SubSeq(J, 1, i)
  BY <1>1 DEF BeginningsOf
<1> HIDE DEF n, dirs
<1>3. EndsIn(MadeOf(b, dirs), Seq(Texts), g, <<>>, dirs)
  BY <1>2, MadeRuns
<1>4. PICK run \in [0 .. n -> Seq(Texts)] : RunsBy(run, g, <<>>, dirs) /\ run[n] = MadeOf(b, dirs)
  BY <1>2, <1>3 DEF EndsIn
<1> DEFINE S == {k \in 0 .. n : /\ Len(run[k]) = (IF k <= m THEN 0 ELSE k - m)
                                /\ \A j \in 1 .. Len(run[k]) : run[k][j] = SubSeq(J, 1, m + j)}
<1>5. 0 \in S
  <2>1. run[0] = <<>>
    BY <1>4 DEF RunsBy
  <2>2. Len(run[0]) = 0 /\ 0 <= m /\ 0 \in 0 .. n
    BY <1>1, <2>1
  <2> QED
    BY <2>2
<1>6. ASSUME NEW k \in 0 .. n - 1, k \in S PROVE k + 1 \in S
  <2> DEFINE r == run[k]
             d == dirs[k + 1]
             q == run[k + 1]
  <2>1. /\ k \in 0 .. n /\ k + 1 \in 1 .. n /\ k + 1 \in 0 .. n /\ k + 1 - 1 = k /\ k + 1 \in 1 .. Len(dirs)
        /\ k \in Nat /\ m \in Nat
    BY <1>1, <1>2
  <2>2. r \in Seq(Texts) /\ d = SubSeq(J, 1, k + 1) /\ d \in Texts
    BY <1>1, <1>2, <1>4, <2>1
  <2>3. q = g[<<r, d>>]
    BY <1>4, <2>1 DEF RunsBy
  <2>4. Listed(b, d) <=> k + 1 > m
    BY <2>1, <2>2 DEF Lists, n
  <2>5. /\ Len(r) = (IF k <= m THEN 0 ELSE k - m)
        /\ \A j \in 1 .. Len(r) : r[j] = SubSeq(J, 1, m + j)
    BY <1>6
  <2> HIDE DEF r, d, q
  <2>6. q = IF Listed(b, d) THEN Append(r, d) ELSE r
    BY <2>2, <2>3 DEF MakeOf
  <2>7. CASE k + 1 > m
    <3>1. q = Append(r, d) /\ Len(r) = k - m
      BY <2>1, <2>4, <2>5, <2>6, <2>7
    <3>2. /\ Len(q) = Len(r) + 1 /\ q[Len(r) + 1] = d
          /\ \A j \in 1 .. Len(r) : q[j] = r[j]
      BY <2>2, <3>1, AppendProperties
    <3>3. Len(q) = k + 1 - m /\ Len(r) \in Nat
      BY <2>1, <2>7, <3>1, <3>2
    <3>4. ASSUME NEW j \in 1 .. Len(q) PROVE q[j] = SubSeq(J, 1, m + j)
      <4>1. CASE j = Len(r) + 1
        <5>1. m + j = k + 1
          BY <2>1, <3>1, <4>1
        <5> QED
          BY <2>2, <3>2, <4>1, <5>1
      <4>2. CASE j \in 1 .. Len(r)
        BY <2>5, <3>2, <4>2
      <4> QED
        BY <3>2, <3>3, <4>1, <4>2
    <3>5. ~(k + 1 <= m)
      BY <2>1, <2>7
    <3> QED
      BY <2>1, <3>3, <3>4, <3>5 DEF q
  <2>8. CASE k + 1 <= m
    <3>1. q = r /\ Len(r) = 0
      BY <2>1, <2>4, <2>5, <2>6, <2>8
    <3>2. Len(q) = 0 /\ \A j \in 1 .. Len(q) : q[j] = SubSeq(J, 1, m + j)
      BY <2>5, <3>1
    <3> QED
      BY <2>1, <2>8, <3>2 DEF q
  <2>9. k + 1 > m \/ k + 1 <= m
    BY <2>1
  <2> QED
    BY <2>7, <2>8, <2>9
<1>7. \A k \in 0 .. n : k \in S
  <2> HIDE DEF S
  <2> QED
    BY <1>1, <1>5, <1>6, InductionTo
<1>8. n \in S
  BY <1>1, <1>7
<1>9. Len(run[n]) = n - m
  <2>1. Len(run[n]) = IF n <= m THEN 0 ELSE n - m
    BY <1>8
  <2> QED
    BY <1>1, <2>1
<1>10. \A j \in 1 .. n - m : run[n][j] = SubSeq(J, 1, m + j)
  BY <1>8, <1>9
<1> QED
  BY <1>4, <1>9, <1>10 DEF n, dirs

(* The directories create_dir_all() makes, as those of the target.            *)
LEMMA AncestorsIs ==
  ASSUME NEW base, NEW child
  PROVE  LET b == Paths!Normalize(base)
             J == Paths!Join(base, child).path
         IN Paths!Ancestors(base, child)
              = IF J = b THEN <<>> ELSE MadeOf(b, BeginningsOf(J))
  BY DEF Paths!Ancestors, BeginningsOf, MadeOf, Listed, Paths!Last, Last, Paths!FoldLeft, Paths!MapThenFoldSet

(* What is said of a path that join() accepts: it leads into the base, and   *)
(* each directory on the way is made in the one before it.                   *)
StaysInside(cwd, base, child) ==
  LET b == Paths!Normalize(base)
      made == Paths!Ancestors(base, child)
  IN /\ IsPrefix(Walked(cwd, base), Walked(cwd, Paths!Join(base, child).path))
     /\ \A i \in 1 .. Len(made) :
          Front(Walked(cwd, made[i])) = Walked(cwd, IF i = 1 THEN b ELSE made[i - 1])

LEMMA AcceptedStaysInside ==
  ASSUME NEW base \in Texts, NEW child \in Texts, NEW cwd \in Texts, Paths!Join(base, child).ok,
         Paths!Normalize(base)[1] # "..", Paths!Absolute(base) \/ ~Paths!Absolute(child)
  PROVE  StaysInside(cwd, base, child)
<1> DEFINE b == Paths!Normalize(base)
           J == Paths!Join(base, child).path
           made == Paths!Ancestors(base, child)
           at == IF Paths!Absolute(base) THEN <<>> ELSE cwd
<1>1. Normalized(b) /\ Paths!Absolute(b) = Paths!Absolute(base) /\ b \in Texts
  BY NormalizedForm DEF Normalized
<1>2. /\ J = Paths!Normalize(Combined(base, child)) /\ Paths!Within(b, J)
      /\ Combined(base, child) \in Texts
      /\ Paths!Absolute(Combined(base, child)) = (Paths!Absolute(child) \/ Paths!Absolute(base))
  BY JoinLeads, CombinedIs
<1>3. Normalized(J) /\ Paths!Absolute(J) = Paths!Absolute(base) /\ J \in Texts
  <2>1. Paths!Absolute(base) \in BOOLEAN /\ Paths!Absolute(child) \in BOOLEAN
    BY DEF Paths!Absolute
  <2>2. (Paths!Absolute(child) \/ Paths!Absolute(base)) = Paths!Absolute(base)
    BY <2>1
  <2>3. Normalized(J) /\ Paths!Absolute(J) = Paths!Absolute(Combined(base, child))
    BY <1>2, NormalizedForm
  <2> QED
    BY <1>2, <2>2, <2>3 DEF Normalized
<1>4. made = IF J = b THEN <<>> ELSE MadeOf(b, BeginningsOf(J))
  BY AncestorsIs
<1>5. b[1] # ".."
  OBVIOUS
<1>6. StartsAt(at, Paths!Absolute(J)) /\ at \in Texts
  BY <1>3, EmptySeq DEF StartsAt, Texts
<1>7. Walked(cwd, base) = Walk(at, b) /\ Walked(cwd, b) = Walk(at, b) /\ Walked(cwd, J) = Walk(at, J)
  BY <1>1, <1>3, NormalizedLeads DEF Walked
<1> HIDE DEF b, J, made
<1>8. PICK m : Below(b, J, m) /\ Lists(b, J, m)
  BY <1>1, <1>2, <1>3, <1>5, AcceptedIs
<1>9. /\ m \in 0 .. Len(J) /\ Walk(at, SubSeq(J, 1, m)) = Walk(at, b) /\ Len(J) \in Nat
      /\ \A i \in m + 1 .. Len(J) :
           Front(Walk(at, SubSeq(J, 1, i))) = Walk(at, SubSeq(J, 1, i - 1))
      /\ IsPrefix(Walk(at, b), Walk(at, J))
  <2> HIDE DEF at
  <2> QED
    BY <1>1, <1>3, <1>6, <1>8, GoesDown, Beginnings
<1>10. ASSUME NEW i \in m + 1 .. Len(J) PROVE Walked(cwd, SubSeq(J, 1, i)) = Walk(at, SubSeq(J, 1, i))
  <2>1. Paths!Absolute(SubSeq(J, 1, i)) = Paths!Absolute(base)
    BY <1>3, <1>8, AbsoluteBelow
  <2> QED
    BY <2>1 DEF Walked
<1>11. ASSUME NEW i \in 1 .. Len(made)
       PROVE  Front(Walked(cwd, made[i])) = Walked(cwd, IF i = 1 THEN b ELSE made[i - 1])
  <2>1. J # b
    <3>1. ASSUME J = b PROVE FALSE
      <4>1. Len(made) = 0
        BY <1>4, <3>1
      <4> QED
        BY <4>1
    <3> QED
      BY <3>1
  <2>2. Len(made) = Len(J) - m /\ \A j \in 1 .. Len(J) - m : made[j] = SubSeq(J, 1, m + j)
    BY <1>3, <1>4, <1>8, <2>1, MadeIs
  <2> DEFINE k == m + i
  <2>3. k \in m + 1 .. Len(J) /\ made[i] = SubSeq(J, 1, k)
    BY <1>9, <2>2
  <2>4. Front(Walked(cwd, made[i])) = Walk(at, SubSeq(J, 1, k - 1))
    <3> HIDE DEF k, at
    <3> QED
      BY <1>9, <1>10, <2>3
  <2>5. CASE i = 1
    <3>1. k - 1 = m
      BY <1>9, <2>5
    <3>2. Walk(at, SubSeq(J, 1, k - 1)) = Walked(cwd, b)
      <4> HIDE DEF k, at
      <4> QED
        BY <1>7, <1>9, <3>1
    <3> QED
      BY <2>4, <2>5, <3>2
  <2>6. CASE i # 1
    <3>1. i - 1 \in 1 .. Len(J) - m /\ m + (i - 1) = k - 1 /\ k - 1 \in m + 1 .. Len(J)
      BY <1>9, <2>2, <2>6
    <3> HIDE DEF k, at
    <3>2. made[i - 1] = SubSeq(J, 1, k - 1)
      BY <2>2, <3>1
    <3>3. Walked(cwd, made[i - 1]) = Walk(at, SubSeq(J, 1, k - 1))
      BY <1>10, <3>1, <3>2
    <3> QED
      BY <2>4, <2>6, <3>3
  <2> QED
    BY <2>5, <2>6
<1> HIDE DEF at
<1> QED
  BY <1>7, <1>9, <1>11 DEF StaysInside, b, J, made

(* Whatever the base, the child and the working directory: normalize() is    *)
(* done once and leads where the path leads, what join() returns leads where *)
(* the child leads from the base, and what it accepts stays inside, but for a *)
(* base that starts with ".." and a relative base with an absolute child.      *)
THEOREM AnyPathStaysInside ==
  ASSUME NEW base \in Seq(Components), NEW child \in Seq(Components), NEW cwd \in Seq(Components)
  PROVE  /\ Paths!Normalize(Paths!Normalize(child)) = Paths!Normalize(child)
         /\ Walked(cwd, Paths!Normalize(child)) = Walked(cwd, child)
         /\ Walked(cwd, Paths!Join(base, child).path) = Walked(Walked(cwd, base), child)
         /\ /\ Paths!Join(base, child).ok /\ Paths!Normalize(base)[1] # ".."
            /\ Paths!Absolute(base) \/ ~Paths!Absolute(child)
            => StaysInside(cwd, base, child)
<1>1. base \in Texts /\ child \in Texts /\ cwd \in Texts
  BY DEF Texts
<1>2. /\ Paths!Normalize(Paths!Normalize(child)) = Paths!Normalize(child)
      /\ Walked(cwd, Paths!Normalize(child)) = Walked(cwd, child)
  BY <1>1, NormalizedOnce, NormalizedLeads
<1>3. Walked(cwd, Paths!Join(base, child).path) = Walked(Walked(cwd, base), child)
  BY <1>1, JoinLeads
<1>4. /\ Paths!Join(base, child).ok /\ Paths!Normalize(base)[1] # ".."
      /\ Paths!Absolute(base) \/ ~Paths!Absolute(child)
      => StaysInside(cwd, base, child)
  BY <1>1, AcceptedStaysInside
<1> QED
  BY <1>2, <1>3, <1>4

(* PathsStayInside for every pair of paths. *)
THEOREM PathsAlwaysStayInside ==
  ASSUME task = "path" => in \in [base : Seq(Components), child : Seq(Components)]
  PROVE  PathsStayInside
<1> SUFFICES ASSUME task = "path" PROVE PathsStayInside
  BY DEF PathsStayInside
<1>1. in.base \in Seq(Components) /\ in.child \in Seq(Components)
  OBVIOUS
<1> DEFINE base == in.base
           child == in.child
<1> HIDE DEF base, child
<1>2. base \in Seq(Components) /\ child \in Seq(Components)
  BY <1>1 DEF base, child
<1>3. Paths!Normalize(Paths!Normalize(child)) = Paths!Normalize(child)
  BY <1>2, NormalizedOnce DEF Texts
<1>4. ASSUME NEW cwd \in WorkingDirs
      PROVE  /\ Walked(cwd, Paths!Normalize(child)) = Walked(cwd, child)
             /\ Walked(cwd, Paths!Join(base, child).path) = Walked(Walked(cwd, base), child)
             /\ /\ Paths!Join(base, child).ok /\ Paths!Normalize(base)[1] # ".."
                /\ Paths!Absolute(base) \/ ~Paths!Absolute(child)
                => StaysInside(cwd, base, child)
  <2>1. cwd \in Seq(Components)
    BY WorkingDirsAssumption
  <2> QED
    BY <1>2, <2>1, AnyPathStaysInside
<1> QED
  BY <1>3, <1>4 DEF PathsStayInside, StaysInside, base, child

(* The inputs: a telnet stream is any bytes, a negotiation any two codecs and *)
(* any commands in flight, a SOCKS client any octets, a path any components.  *)
AnyInput ==
  /\ task = "telnet" => in \in Seq(Byte)
  /\ task = "negotiation" => in \in [mine : Codecs, yours : Codecs, toMe : Seq(Offers)]
  /\ task = "socks" => in \in [greeting : Seq(Octets), request : Seq(Octets)]
  /\ task = "path" => in \in [base : Seq(Components), child : Seq(Components)]

(* Whatever a telnet peer, two of them or a SOCKS client send, and however    *)
(* the network cuts it, it is read the same; two codecs that answer each      *)
(* other fall silent; and whatever path is joined, it leads where its parts   *)
(* lead (receive() of protocol.rs, negotiate() of forward.rs, path.rs).       *)
THEOREM InputsAlwaysMeanTheSame ==
  ASSUME AnyInput
  PROVE  InputsMeanTheSame
<1>1. ChunksDoNotMatter
  BY ChunksNeverMatter DEF AnyInput
<1>2. NegotiationEnds
  BY NegotiationsAlwaysEnd DEF AnyInput
<1>3. SocksChunksDoNotMatter
  BY ClientsAreAnsweredTheSame DEF AnyInput
<1>4. PathsStayInside
  BY PathsAlwaysStayInside DEF AnyInput
<1> QED
  BY <1>1, <1>2, <1>3, <1>4 DEF InputsMeanTheSame
==============================================================================
