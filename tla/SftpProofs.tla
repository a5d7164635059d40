----------------------------- MODULE SftpProofs -----------------------------
(***************************************************************************)
(* What SftpChannel guarantees for any number of attempts and any buffer.  *)
(*                                                                         *)
(* OneClient is not inductive: a connect call that fails clears the pane's *)
(* attempt, which is harmless only because an attempt without an answer    *)
(* has no client yet (ClientInv).  HandleInv says who has the handle's     *)
(* lock: the one attempt whose serve() waits for its channel to be opened. *)
(*                                                                         *)
(* What TreeTransfer guarantees for any trees, any depth and any attempts  *)
(* is the second part.  The whole tree is at the destination when the walk *)
(* ends because at each of its steps some set of directories is done with  *)
(* (WalkInv), and each one that the walk leaves joins that set: it is the  *)
(* top of the stack, and all it has was taken.                             *)
(***************************************************************************)
EXTENDS SftpChannel, TreeTransfer, SequenceTheorems, WellFoundedInduction, TLAPS

------------------------------------------------------------------------------
(* Attaching *)

HandleInv ==
  \A c \in Clients :
    /\ lock = c <=> serve[c] = "open"
    /\ connect[c] = "idle" => serve[c] = "none"

ClientInv == \A c \in Clients : connect[c] # "Ok" => client[c] = "none"

AttachInv == TypeOK /\ OneClient /\ ClientInv /\ HandleInv

(* Every step of the module keeps the types, one client and the lock. *)
LEMMA AttachStep == AttachInv /\ [Next]_vars => AttachInv'
<1> SUFFICES ASSUME AttachInv, [Next]_vars
             PROVE  AttachInv'
  OBVIOUS
<1> USE NoneAssumption, BufferAssumption DEF AttachInv, ui, core, sftp, pump
<1>1. ASSUME NEW c \in Clients, Attach(c)
      PROVE  AttachInv'
  <2>1. TypeOK'
    <3>1. CASE driver' = [driver EXCEPT ![c] = "over"] /\ UNCHANGED serve
      BY <1>1, <3>1 DEF TypeOK, Attach, Dropped
    <3>2. CASE serve' = [serve EXCEPT ![c] = "queued"] /\ driver' = [driver EXCEPT ![c] = "queued"]
      BY <1>1, <3>2 DEF TypeOK, Attach, Dropped
    <3> QED
      BY <1>1, <3>1, <3>2 DEF Attach
  <2>2. OneClient' /\ ClientInv'
    BY <1>1 DEF TypeOK, OneClient, ClientInv, Attach, Dropped
  <2>3. HandleInv'
    BY <1>1 DEF TypeOK, HandleInv, Attach, Dropped
  <2> QED
    BY <2>1, <2>2, <2>3
<1>2. ASSUME NEW c \in Clients, Return(c)
      PROVE  AttachInv'
  <2>1. TypeOK'
    BY <1>2 DEF TypeOK, Return, Answered
  <2>2. OneClient' /\ ClientInv'
    <3>1. CASE ready[c] = "Ok"
      BY <1>2, <3>1 DEF TypeOK, OneClient, ClientInv, Return, Answered
    <3>2. CASE ready[c] # "Ok"
      BY <1>2, <3>2 DEF TypeOK, OneClient, ClientInv, Return, Answered
    <3> QED
      BY <3>1, <3>2
  <2>3. HandleInv'
    BY <1>2 DEF TypeOK, HandleInv, Return, Answered
  <2> QED
    BY <2>1, <2>2, <2>3
<1>3. ASSUME NEW c \in Clients, Request(c)
      PROVE  AttachInv'
  <2>1. TypeOK'
    BY <1>3 DEF TypeOK, Request
  <2>2. OneClient' /\ ClientInv'
    BY <1>3 DEF TypeOK, OneClient, ClientInv, Request
  <2>3. HandleInv'
    BY <1>3 DEF TypeOK, HandleInv, Request
  <2> QED
    BY <2>1, <2>2, <2>3
<1>4. ASSUME NEW c \in Clients, TakeSetup(c)
      PROVE  AttachInv'
  <2>1. TypeOK'
    BY <1>4 DEF TypeOK, TakeSetup
  <2>2. OneClient' /\ ClientInv'
    BY <1>4 DEF TypeOK, OneClient, ClientInv, TakeSetup
  <2>3. HandleInv'
    BY <1>4 DEF TypeOK, HandleInv, TakeSetup
  <2> QED
    BY <2>1, <2>2, <2>3
<1>5. ASSUME NEW c \in Clients, TakeLock(c)
      PROVE  AttachInv'
  <2>1. TypeOK'
    BY <1>5 DEF TypeOK, TakeLock
  <2>2. OneClient' /\ ClientInv'
    BY <1>5 DEF TypeOK, OneClient, ClientInv, TakeLock
  <2>3. HandleInv'
    BY <1>5 DEF TypeOK, HandleInv, TakeLock
  <2> QED
    BY <2>1, <2>2, <2>3
<1>6. ASSUME NEW c \in Clients, TellOpened(c)
      PROVE  AttachInv'
  <2>1. TypeOK'
    BY <1>6 DEF TypeOK, TellOpened
  <2>2. OneClient' /\ ClientInv'
    BY <1>6 DEF TypeOK, OneClient, ClientInv, TellOpened
  <2>3. HandleInv'
    BY <1>6 DEF TypeOK, HandleInv, TellOpened
  <2> QED
    BY <2>1, <2>2, <2>3
<1>7. ASSUME NEW c \in Clients, TellRefused(c)
      PROVE  AttachInv'
  <2>1. TypeOK'
    BY <1>7 DEF TypeOK, TellRefused
  <2>2. OneClient' /\ ClientInv'
    BY <1>7 DEF TypeOK, OneClient, ClientInv, TellRefused
  <2>3. HandleInv'
    BY <1>7 DEF TypeOK, HandleInv, TellRefused
  <2> QED
    BY <2>1, <2>2, <2>3
<1>8. ASSUME NEW c \in Clients, TakeJob(c)
      PROVE  AttachInv'
  <2>1. TypeOK'
    <3>1. CASE UNCHANGED serve
      BY <1>8, <3>1 DEF TypeOK, TakeJob
    <3>2. CASE UNCHANGED driver
      BY <1>8, <3>2 DEF TypeOK, TakeJob
    <3> QED
      BY <1>8, <3>1, <3>2 DEF TakeJob
  <2>2. OneClient' /\ ClientInv'
    BY <1>8 DEF TypeOK, OneClient, ClientInv, TakeJob
  <2>3. HandleInv'
    BY <1>8 DEF TypeOK, HandleInv, TakeJob
  <2> QED
    BY <2>1, <2>2, <2>3
<1>9. ASSUME NEW c \in Clients, ChannelAnswered(c)
      PROVE  AttachInv'
  <2>1. TypeOK'
    BY <1>9 DEF TypeOK, ChannelAnswered, Unlocked
  <2>2. OneClient' /\ ClientInv'
    BY <1>9 DEF TypeOK, OneClient, ClientInv, ChannelAnswered, Unlocked
  <2>3. HandleInv'
    BY <1>9 DEF TypeOK, HandleInv, ChannelAnswered, Unlocked
  <2> QED
    BY <2>1, <2>2, <2>3
<1>10. ASSUME NEW c \in Clients, SubsystemAnswered(c)
      PROVE  AttachInv'
  <2>1. TypeOK'
    <3>1. CASE UNCHANGED remote
      BY <1>10, <3>1 DEF TypeOK, SubsystemAnswered
    <3>2. CASE remote' = [remote EXCEPT ![c] = "open"] /\ serve' = [serve EXCEPT ![c] = "accepted"]
      BY <1>10, <3>2 DEF TypeOK, SubsystemAnswered
    <3> QED
      BY <1>10, <3>1, <3>2 DEF SubsystemAnswered
  <2>2. OneClient' /\ ClientInv'
    BY <1>10 DEF TypeOK, OneClient, ClientInv, SubsystemAnswered
  <2>3. HandleInv'
    BY <1>10 DEF TypeOK, HandleInv, SubsystemAnswered
  <2> QED
    BY <2>1, <2>2, <2>3
<1>11. ASSUME NEW c \in Clients, Timeout(c)
      PROVE  AttachInv'
  <2>1. TypeOK'
    BY <1>11 DEF TypeOK, Timeout, Unlocked
  <2>2. OneClient' /\ ClientInv'
    BY <1>11 DEF TypeOK, OneClient, ClientInv, Timeout, Unlocked
  <2>3. HandleInv'
    BY <1>11 DEF TypeOK, HandleInv, Timeout, Unlocked
  <2> QED
    BY <2>1, <2>2, <2>3
<1>12. ASSUME NEW c \in Clients, DriverOpened(c)
      PROVE  AttachInv'
  <2>1. TypeOK'
    BY <1>12 DEF TypeOK, DriverOpened, DriverGoes
  <2>2. OneClient' /\ ClientInv'
    BY <1>12 DEF TypeOK, OneClient, ClientInv, DriverOpened, DriverGoes
  <2>3. HandleInv'
    BY <1>12 DEF TypeOK, HandleInv, DriverOpened, DriverGoes
  <2> QED
    BY <2>1, <2>2, <2>3
<1>13. ASSUME NEW c \in Clients, HandshakeFails(c)
      PROVE  AttachInv'
  <2>1. TypeOK'
    BY <1>13 DEF TypeOK, HandshakeFails, DriverGoes
  <2>2. OneClient' /\ ClientInv'
    BY <1>13 DEF TypeOK, OneClient, ClientInv, HandshakeFails, DriverGoes
  <2>3. HandleInv'
    BY <1>13 DEF TypeOK, HandleInv, HandshakeFails, DriverGoes
  <2> QED
    BY <2>1, <2>2, <2>3
<1>14. ASSUME NEW c \in Clients, TellReady(c)
      PROVE  AttachInv'
  <2>1. TypeOK'
    BY <1>14 DEF TypeOK, TellReady, DriverGoes
  <2>2. OneClient' /\ ClientInv'
    BY <1>14 DEF TypeOK, OneClient, ClientInv, TellReady, DriverGoes
  <2>3. HandleInv'
    BY <1>14 DEF TypeOK, HandleInv, TellReady, DriverGoes
  <2> QED
    BY <2>1, <2>2, <2>3
<1>15. ASSUME NEW c \in Clients, Dispatch(c)
      PROVE  AttachInv'
  <2>1. TypeOK'
    BY <1>15 DEF TypeOK, Dispatch
  <2>2. OneClient' /\ ClientInv'
    BY <1>15 DEF TypeOK, OneClient, ClientInv, Dispatch
  <2>3. HandleInv'
    BY <1>15 DEF TypeOK, HandleInv, Dispatch
  <2> QED
    BY <2>1, <2>2, <2>3
<1>16. ASSUME NEW c \in Clients, DriverEnds(c)
      PROVE  AttachInv'
  <2>1. TypeOK'
    BY <1>16 DEF TypeOK, DriverEnds, DriverGoes
  <2>2. OneClient' /\ ClientInv'
    BY <1>16 DEF TypeOK, OneClient, ClientInv, DriverEnds, DriverGoes
  <2>3. HandleInv'
    BY <1>16 DEF TypeOK, HandleInv, DriverEnds, DriverGoes
  <2> QED
    BY <2>1, <2>2, <2>3
<1>17. ASSUME NEW c \in Clients, Reply(c)
      PROVE  AttachInv'
  <2>1. TypeOK'
    BY <1>17 DEF TypeOK, Reply
  <2>2. OneClient' /\ ClientInv'
    BY <1>17 DEF TypeOK, OneClient, ClientInv, Reply
  <2>3. HandleInv'
    BY <1>17 DEF TypeOK, HandleInv, Reply
  <2> QED
    BY <2>1, <2>2, <2>3
<1>18. ASSUME NEW c \in Clients, RemoteSends(c)
      PROVE  AttachInv'
  <2>1. TypeOK'
    BY <1>18 DEF TypeOK, RemoteSends
  <2>2. OneClient' /\ ClientInv'
    BY <1>18 DEF TypeOK, OneClient, ClientInv, RemoteSends
  <2>3. HandleInv'
    BY <1>18 DEF TypeOK, HandleInv, RemoteSends
  <2> QED
    BY <2>1, <2>2, <2>3
<1>19. ASSUME NEW c \in Clients, FromRemoteEnds(c)
      PROVE  AttachInv'
  <2>1. TypeOK'
    <3>1. incoming' \in [Clients -> [chunks : 0..Buffer, closed : BOOLEAN]]
      <4>1. incoming[c] \in [chunks : 0..Buffer, closed : BOOLEAN]
        BY DEF TypeOK
      <4>2. [incoming[c] EXCEPT !.closed = TRUE] \in [chunks : 0..Buffer, closed : BOOLEAN]
        BY <4>1
      <4>3. incoming' = [incoming EXCEPT ![c] = [incoming[c] EXCEPT !.closed = TRUE]]
        BY <1>19 DEF FromRemoteEnds
      <4> QED
        BY <4>2, <4>3 DEF TypeOK
    <3> QED
      BY <1>19, <3>1 DEF TypeOK, FromRemoteEnds
  <2>2. OneClient' /\ ClientInv'
    BY <1>19 DEF TypeOK, OneClient, ClientInv, FromRemoteEnds
  <2>3. HandleInv'
    BY <1>19 DEF TypeOK, HandleInv, FromRemoteEnds
  <2> QED
    BY <2>1, <2>2, <2>3
<1>20. ASSUME NEW c \in Clients, ToRemoteEnds(c)
      PROVE  AttachInv'
  <2>1. TypeOK'
    BY <1>20 DEF TypeOK, ToRemoteEnds
  <2>2. OneClient' /\ ClientInv'
    BY <1>20 DEF TypeOK, OneClient, ClientInv, ToRemoteEnds
  <2>3. HandleInv'
    BY <1>20 DEF TypeOK, HandleInv, ToRemoteEnds
  <2> QED
    BY <2>1, <2>2, <2>3
<1>21. ASSUME NEW c \in Clients, Read(c)
      PROVE  AttachInv'
  <2>1. TypeOK'
    <3>1. CASE UNCHANGED reader
      <4>1. incoming[c] \in [chunks : 0..Buffer, closed : BOOLEAN]
        BY DEF TypeOK
      <4>2. CASE UNCHANGED incoming
        BY <1>21, <3>1, <4>2 DEF TypeOK, Read, DriverGoes
      <4>3. CASE /\ incoming[c].chunks > 0
                 /\ incoming' = [incoming EXCEPT ![c].chunks = @ - 1]
        <5>1. [incoming[c] EXCEPT !.chunks = @ - 1] \in [chunks : 0..Buffer, closed : BOOLEAN]
          BY <4>1, <4>3
        <5>2. incoming' \in [Clients -> [chunks : 0..Buffer, closed : BOOLEAN]]
          BY <4>3, <5>1 DEF TypeOK
        <5>3. driver' \in [Clients -> {"none", "queued", "opened", "hello", "started",
                                      "failed", "serving", "over"}]
          BY <1>21 DEF TypeOK, Read, DriverGoes
        <5> QED
          BY <1>21, <3>1, <5>2, <5>3 DEF TypeOK, Read
      <4> QED
        BY <1>21, <4>2, <4>3 DEF Read
    <3>2. CASE UNCHANGED <<incoming, driver>>
      BY <1>21, <3>2 DEF TypeOK, Read
    <3> QED
      BY <1>21, <3>1, <3>2 DEF Read
  <2>2. OneClient' /\ ClientInv'
    BY <1>21 DEF TypeOK, OneClient, ClientInv, Read, DriverGoes
  <2>3. HandleInv'
    BY <1>21 DEF TypeOK, HandleInv, Read, DriverGoes
  <2> QED
    BY <2>1, <2>2, <2>3
<1>22. ASSUME NEW c \in Clients, RemoteCloses(c)
      PROVE  AttachInv'
  <2>1. TypeOK'
    BY <1>22 DEF TypeOK, RemoteCloses
  <2>2. OneClient' /\ ClientInv'
    BY <1>22 DEF TypeOK, OneClient, ClientInv, RemoteCloses
  <2>3. HandleInv'
    BY <1>22 DEF TypeOK, HandleInv, RemoteCloses
  <2> QED
    BY <2>1, <2>2, <2>3
<1>23. CASE Detach
  <2>1. TypeOK'
    BY <1>23 DEF TypeOK, Detach, Dropped
  <2>2. OneClient' /\ ClientInv'
    BY <1>23 DEF TypeOK, OneClient, ClientInv, Detach, Dropped
  <2>3. HandleInv'
    BY <1>23 DEF TypeOK, HandleInv, Detach, Dropped
  <2> QED
    BY <2>1, <2>2, <2>3
<1>24. CASE SessionEnds
  <2>1. TypeOK'
    BY <1>24 DEF TypeOK, SessionEnds, Each
  <2>2. OneClient' /\ ClientInv'
    BY <1>24 DEF TypeOK, OneClient, ClientInv, SessionEnds, Each
  <2>3. HandleInv'
    BY <1>24 DEF TypeOK, HandleInv, SessionEnds, Each
  <2> QED
    BY <2>1, <2>2, <2>3
<1>25. CASE UNCHANGED vars
  <2>1. TypeOK'
    BY <1>25 DEF TypeOK, vars
  <2>2. OneClient' /\ ClientInv'
    BY <1>25 DEF TypeOK, OneClient, ClientInv, vars
  <2>3. HandleInv'
    BY <1>25 DEF TypeOK, HandleInv, vars
  <2> QED
    BY <2>1, <2>2, <2>3
<1> QED
  BY <1>1, <1>2, <1>3, <1>4, <1>5, <1>6, <1>7, <1>8, <1>9, <1>10, <1>11, <1>12, <1>13, <1>14, <1>15, <1>16, <1>17, <1>18, <1>19, <1>20, <1>21, <1>22, <1>23, <1>24, <1>25 DEF Next, ServeStep, DriverStep

(* No attempt has been made at first, and no client is held.               *)
LEMMA AttachInit == Init => AttachInv
BY NoneAssumption, BufferAssumption
   DEF Init, AttachInv, TypeOK, OneClient, ClientInv, HandleInv, Each

(* The invariant holds throughout.                                         *)
LEMMA AttachInvariant == Spec => []AttachInv
<1>1. Init => AttachInv
  BY AttachInit
<1>2. AttachInv /\ [Next]_vars => AttachInv'
  BY AttachStep
<1> QED
  BY <1>1, <1>2, PTL DEF Spec

(* Every variable keeps its type, the incoming channel its bound. *)
THEOREM AttachTypes == Spec => []TypeOK
<1>1. AttachInv => TypeOK
  BY DEF AttachInv
<1> QED
  BY <1>1, AttachInvariant, PTL

(* However attaching, detaching and connecting interleave, the pane holds   *)
(* no client but that of the attempt it follows.                            *)
THEOREM OneClientAlways == Spec => []OneClient
<1>1. AttachInv => OneClient
  BY DEF AttachInv
<1> QED
  BY <1>1, AttachInvariant, PTL

------------------------------------------------------------------------------
(* The levels of a tree *)

(* The order of the naturals. *)
Less == OpToRel(<, Nat)

(* A set of naturals that is not empty has a least element.                *)
LEMMA LeastNatural ==
  ASSUME NEW S \in SUBSET Nat, S # {}
  PROVE  \E n \in S : \A m \in S : n <= m
<1>1. IsWellFoundedOn(Less, Nat)
  BY NatLessThanWellFounded DEF Less
<1>2. \A m \in Nat : \A n \in Nat : <<m, n>> \in Less <=> m < n
  BY DEF Less, OpToRel
<1> HIDE DEF Less
<1>3. PICK n \in S : \A m \in S : ~ (<<m, n>> \in Less)
  BY <1>1, WFMin, Zenon
<1>4. ASSUME NEW m \in S PROVE n <= m
  <2>1. m \in Nat /\ n \in Nat /\ ~ (<<m, n>> \in Less)
    BY <1>3
  <2>2. ~ (m < n)
    BY <1>2, <2>1
  <2> QED
    BY <2>1, <2>2
<1> QED
  BY <1>4

(* What holds of 0 and of the next of each holds of every natural.         *)
LEMMA Induction ==
  ASSUME NEW S, 0 \in S, \A n \in Nat : n \in S => n + 1 \in S
  PROVE  \A n \in Nat : n \in S
<1> SUFFICES ASSUME Nat \ S # {} PROVE FALSE
  OBVIOUS
<1>1. PICK n \in Nat \ S : \A m \in Nat \ S : n <= m
  BY LeastNatural
<1>2. n # 0 /\ n - 1 \in Nat /\ n - 1 < n
  BY <1>1
<1>3. n - 1 \in S
  BY <1>1, <1>2
<1> QED
  BY <1>1, <1>2, <1>3

(* What a recursion over the levels computes.                               *)
LevelBody(l, t, N) ==
  [n \in 0..N |-> IF n = 0 THEN {<<Top, <<>>>>} ELSE Below(t, l[n - 1], "Dir")]

(* The recursion has a solution, however deep.                              *)
LEMMA LevelRecursion ==
  ASSUME NEW t, NEW N \in Nat
  PROVE  \E l : l = LevelBody(l, t, N)
<1> DEFINE S == {n \in Nat : \E l : l = LevelBody(l, t, n)}
<1>1. 0 \in S
  <2> DEFINE l == [n \in 0..0 |-> {<<Top, <<>>>>}]
  <2>1. l = LevelBody(l, t, 0)
    BY DEF LevelBody
  <2> QED
    BY <2>1
<1>2. ASSUME NEW n \in Nat, n \in S PROVE n + 1 \in S
  <2>1. PICK l : l = LevelBody(l, t, n)
    BY <1>2
  <2> DEFINE m == [i \in 0..n + 1 |-> IF i = n + 1 THEN Below(t, l[n], "Dir") ELSE l[i]]
  <2>2. \A i \in 0..n : l[i] = IF i = 0 THEN {<<Top, <<>>>>} ELSE Below(t, l[i - 1], "Dir")
    BY <2>1 DEF LevelBody
  <2>3. \A i \in 1..n + 1 : m[i - 1] = l[i - 1]
    OBVIOUS
  <2>4. ASSUME NEW i \in 0..n + 1
        PROVE  m[i] = IF i = 0 THEN {<<Top, <<>>>>} ELSE Below(t, m[i - 1], "Dir")
    <3>1. CASE i = n + 1
      <4>1. m[i] = Below(t, l[n], "Dir") /\ i # 0 /\ i - 1 = n /\ m[i - 1] = l[n]
        BY <3>1, <2>3
      <4> HIDE DEF m
      <4> QED
        BY <4>1
    <3>2. CASE i \in 0..n
      <4>1. m[i] = l[i]
        BY <3>2
      <4>2. i # 0 => m[i - 1] = l[i - 1]
        BY <2>3
      <4> HIDE DEF m
      <4> QED
        BY <3>2, <4>1, <4>2, <2>2
    <3> QED
      BY <3>1, <3>2
  <2>5. m = LevelBody(m, t, n + 1)
    <3>1. m = [i \in 0..n + 1 |-> m[i]]
      OBVIOUS
    <3> HIDE DEF m
    <3> QED
      BY <2>4, <3>1 DEF LevelBody
  <2> HIDE DEF m
  <2> QED
    BY <2>5
<1> HIDE DEF S
<1>3. N \in S
  BY <1>1, <1>2, Induction
<1> QED
  BY <1>3 DEF S

(* The levels of a tree are that solution.                                  *)
LEMMA LevelSolved ==
  ASSUME NEW t \in Trees
  PROVE  /\ Levels[t][0] = {<<Top, <<>>>>}
         /\ \A n \in 0..MaxTreeDepth : Levels[t][n + 1] = Below(t, Levels[t][n], "Dir")
<1> DEFINE l == CHOOSE l : l = LevelBody(l, t, MaxTreeDepth + 1)
<1>1. MaxTreeDepth + 1 \in Nat /\ MaxTreeDepth \in Nat
  BY BoundsAssumption
<1>2. l = LevelBody(l, t, MaxTreeDepth + 1)
  BY <1>1, LevelRecursion
<1>3. Levels[t] = l
  BY DEF Levels, LevelBody
<1> HIDE DEF l
<1>4. \A n \in 0..MaxTreeDepth + 1 :
        l[n] = IF n = 0 THEN {<<Top, <<>>>>} ELSE Below(t, l[n - 1], "Dir")
  BY <1>2 DEF LevelBody
<1>5. l[0] = {<<Top, <<>>>>}
  BY <1>1, <1>4
<1>6. ASSUME NEW n \in 0..MaxTreeDepth
      PROVE  l[n + 1] = Below(t, l[n], "Dir")
  <2>1. n + 1 \in 0..MaxTreeDepth + 1 /\ n + 1 # 0 /\ (n + 1) - 1 = n
    BY <1>1
  <2> QED
    BY <1>4, <2>1
<1> QED
  BY <1>3, <1>5, <1>6

(* What the entries of a directory lead to.                                 *)
LEMMA BelowHas ==
  ASSUME NEW t, NEW D, NEW kind, NEW d \in D, NEW i \in DOMAIN t[d[1]],
         PlainName(t[d[1]][i].name), t[d[1]][i].kind = kind
  PROVE  <<t[d[1]][i].dir, d[2] \o t[d[1]][i].name>> \in Below(t, D, kind)
<1> DEFINE Of(b) == {<<t[b[1]][k].dir, b[2] \o t[b[1]][k].name>> :
                       k \in {j \in DOMAIN t[b[1]] : PlainName(t[b[1]][j].name)
                                                     /\ t[b[1]][j].kind = kind}}
<1>1. <<t[d[1]][i].dir, d[2] \o t[d[1]][i].name>> \in Of(d)
  BY Zenon
<1>2. Below(t, D, kind) = UNION {Of(b) : b \in D}
  BY Zenon DEF Below
<1> HIDE DEF Of
<1> QED
  BY <1>1, <1>2

(* What is put at a path is there, and the rest stays.                      *)
LEMMA PutAt ==
  ASSUME NEW path, NEW what, Put(path, what)
  PROVE  /\ DOMAIN dest' = DOMAIN dest \cup {path}
         /\ \A p : At(p)' = IF p = path THEN what ELSE At(p)
         /\ \A p \in DOMAIN dest' : dest'[p] = IF p = path THEN what ELSE dest[p]
BY DEF Put, At

(* What is removed is gone, and the rest stays.                            *)
LEMMA WithoutAt ==
  ASSUME NEW path, dest' = Without(path)
  PROVE  /\ DOMAIN dest' = DOMAIN dest \ {path}
         /\ \A p : At(p)' = IF p = path THEN "absent" ELSE At(p)
         /\ \A p \in DOMAIN dest' : dest'[p] = dest[p]
BY DEF Without, At

(* What is left of the stack without the innermost directory.               *)
LEMMA StackFront ==
  ASSUME NEW S, stack \in Seq(S), stack # <<>>
  PROVE  /\ Front(stack) \in Seq(S) /\ Len(Front(stack)) = Len(stack) - 1
         /\ \A i \in 1..Len(stack) - 1 : Front(stack)[i] = stack[i]
         /\ Len(stack) \in Nat \ {0}
<1>1. Len(stack) \in Nat \ {0}
  BY EmptySeq, LenProperties
<1>2. 1 \in 1..Len(stack) + 1 /\ Len(stack) - 1 \in 1 - 1..Len(stack)
  BY <1>1
<1>3. \A i \in 1..Len(stack) : stack[i] \in S
  BY ElementOfSeq
<1>4. \A i \in 1..Len(stack) - 1 : stack[i] \in S
  BY <1>1, <1>3
<1>5. /\ SubSeq(stack, 1, Len(stack) - 1) \in Seq(S)
      /\ Len(SubSeq(stack, 1, Len(stack) - 1)) = Len(stack) - 1
      /\ \A i \in 1..Len(stack) - 1 : SubSeq(stack, 1, Len(stack) - 1)[i] = stack[i]
  <2> DEFINE s == [i \in 1..Len(stack) - 1 |-> stack[i]]
  <2>1. SubSeq(stack, 1, Len(stack) - 1) = s
    BY <1>1, SMT
  <2>2. s \in [1..Len(stack) - 1 -> S] /\ Len(stack) - 1 \in Nat
    BY <1>1, <1>4
  <2>3. s \in Seq(S)
    BY <2>2
  <2>4. Len(s) = Len(stack) - 1
    BY <2>2, <2>3, LenProperties
  <2> QED
    BY <2>1, <2>3, <2>4
<1> QED
  BY <1>1, <1>5 DEF Front

(* The innermost directory goes on to another step.                         *)
LEMMA TopSet ==
  ASSUME NEW S, NEW f \in S, stack \in Seq(S), stack # <<>>, SetTop(f)
  PROVE  /\ stack' \in Seq(S) /\ Len(stack') = Len(stack) /\ stack' # <<>>
         /\ Len(stack) \in Nat \ {0}
         /\ \A i \in 1..Len(stack) - 1 : stack'[i] = stack[i]
         /\ stack'[Len(stack)] = f
<1>1. /\ Front(stack) \in Seq(S) /\ Len(Front(stack)) = Len(stack) - 1
      /\ \A i \in 1..Len(stack) - 1 : Front(stack)[i] = stack[i]
      /\ Len(stack) \in Nat \ {0}
  BY StackFront
<1>2. /\ stack' \in Seq(S) /\ Len(stack') = Len(Front(stack)) + 1
      /\ \A i \in 1..Len(Front(stack)) : stack'[i] = Front(stack)[i]
      /\ stack'[Len(Front(stack)) + 1] = f
  BY <1>1, AppendProperties DEF SetTop
<1> QED
  BY <1>1, <1>2

(* It is left.                                                              *)
LEMMA TopLeft ==
  ASSUME NEW S, stack \in Seq(S), stack # <<>>, stack' = Front(stack)
  PROVE  /\ stack' \in Seq(S) /\ Len(stack') = Len(stack) - 1 /\ Len(stack) \in Nat \ {0}
         /\ \A i \in 1..Len(stack) - 1 : stack'[i] = stack[i]
         /\ stack' = <<>> <=> Len(stack) = 1
<1>1. /\ Front(stack) \in Seq(S) /\ Len(Front(stack)) = Len(stack) - 1
      /\ \A i \in 1..Len(stack) - 1 : Front(stack)[i] = stack[i]
      /\ Len(stack) \in Nat \ {0}
  BY StackFront
<1>2. Front(stack) = <<>> <=> Len(Front(stack)) = 0
  BY <1>1, EmptySeq
<1> QED
  BY <1>1, <1>2

(* Another is entered below it.                                             *)
LEMMA TopPushed ==
  ASSUME NEW S, NEW f \in S, NEW g \in S, stack \in Seq(S), stack # <<>>,
         stack' = Append(Append(Front(stack), f), g)
  PROVE  /\ stack' \in Seq(S) /\ Len(stack') = Len(stack) + 1 /\ stack' # <<>>
         /\ Len(stack) \in Nat \ {0}
         /\ \A i \in 1..Len(stack) - 1 : stack'[i] = stack[i]
         /\ stack'[Len(stack)] = f /\ stack'[Len(stack) + 1] = g
<1> DEFINE s == Append(Front(stack), f)
<1>1. /\ Front(stack) \in Seq(S) /\ Len(Front(stack)) = Len(stack) - 1
      /\ \A i \in 1..Len(stack) - 1 : Front(stack)[i] = stack[i]
      /\ Len(stack) \in Nat \ {0}
  BY StackFront
<1>2. /\ s \in Seq(S) /\ Len(s) = Len(stack)
      /\ \A i \in 1..Len(stack) - 1 : s[i] = stack[i]
      /\ s[Len(stack)] = f
  BY <1>1, AppendProperties
<1>3. stack' = Append(s, g)
  OBVIOUS
<1> HIDE DEF s
<1>4. /\ stack' \in Seq(S) /\ Len(stack') = Len(s) + 1
      /\ \A i \in 1..Len(s) : stack'[i] = s[i]
      /\ stack'[Len(s) + 1] = g
  BY <1>2, <1>3, AppendProperties
<1> QED
  BY <1>1, <1>2, <1>4

------------------------------------------------------------------------------
(* The walk *)

(* The states of a directory that is walked and of a file that is copied.   *)
Frames(t) ==
  [dir : DOMAIN t, path : Seq(STRING), at : {"enter", "list", "look", "entry"},
   rest : Seq(Entries(t))]
Copies ==
  [at : {"none", "open", "loop", "close", "clean"}, path : Seq(STRING), size : Nat,
   done : Nat, failed : BOOLEAN]
Copied == file.at \in {"loop", "close", "clean"}

(* How many entries of a directory the walk has taken, and that what is     *)
(* left of the listing is the rest of it.                                   *)
Seen(f) == Len(tree[f.dir]) - Len(f.rest)
Rest(f) ==
  /\ Len(f.rest) <= Len(tree[f.dir])
  /\ \A m \in 1..Len(f.rest) : f.rest[m] = tree[f.dir][Seen(f) + m]

(* The i-th directory of the stack is one of the tree's, i - 1 steps down;   *)
(* all but the innermost wait for the one they found to be walked.           *)
FrameOK(i) ==
  /\ Len(stack[i].path) = i - 1
  /\ <<stack[i].dir, stack[i].path>> \in Levels[tree][i - 1]
  /\ i < Len(stack) => stack[i].at = "look"
  /\ stack[i].at # "enter" => At(stack[i].path) = "dir" /\ i <= MaxTreeDepth + 1
  /\ stack[i].at \in {"look", "entry"} => Rest(stack[i])
  /\ stack[i].at = "entry" => stack[i].rest # <<>>

(* What the walk is doing, as far as one step may rely on it.               *)
ShapeInv ==
  /\ upload \in BOOLEAN /\ cancel \in BOOLEAN /\ tree \in Trees
  /\ stack \in Seq(Frames(tree)) /\ Len(stack) <= MaxTreeDepth + 2
  /\ \A i \in 1..Len(stack) : FrameOK(i)
  /\ file \in Copies /\ (file.at = "none" <=> file = NoFile)
  /\ file # NoFile => /\ stack # <<>> /\ Here.at = "look"
                      /\ \E f \in Files[tree] : f[2] = file.path
  /\ Copied => At(file.path) = "part"
  /\ file.at = "close" => file.done = file.size
  /\ file.at = "clean" => cancel \/ file.failed
  /\ file.failed => file.at = "clean"
  /\ ~Busy => file = NoFile /\ stack = <<>>
  /\ OnlyThePlain

(* What may be partial, and what the row was told of it.                    *)
LeftInv ==
  /\ upload => \A p \in DOMAIN dest :
       dest[p] = "part" => p \in stuck \/ (Copied /\ file.path = p)
  /\ Copied => file.path \notin stuck
  /\ mark.what \in {"none", "Removed", "KeptResumable"}
  /\ DispositionTrue
  /\ mark.what # "none" /\ Busy =>
       cancel /\ file = NoFile /\ (stack # <<>> => Here.at = "look")

(* A set F of directories is done with: each is there, all the directories  *)
(* it has are done with, and its files have arrived, but for the one that   *)
(* is being copied once more.                                               *)
Arrived(p) == At(p) = "whole" \/ (Copied /\ file.path = p)
DoneWith(F) ==
  /\ \A d \in F : At(d[2]) = "dir" /\ Len(d[2]) <= MaxTreeDepth
  /\ Below(tree, F, "Dir") \subseteq F
  /\ \A f \in Below(tree, F, "File") : Arrived(f[2])

(* The j-th entry of the directory at i was taken: it is done with, or the  *)
(* next directory of the stack, or the file about to be opened.             *)
Path(i, j) == stack[i].path \o tree[stack[i].dir][j].name
Taken(F, i, j) ==
  LET e == tree[stack[i].dir][j]
  IN PlainName(e.name) =>
       /\ e.kind = "Dir" => \/ <<e.dir, Path(i, j)>> \in F
                            \/ /\ i < Len(stack)
                               /\ stack[i + 1].dir = e.dir /\ stack[i + 1].path = Path(i, j)
       /\ e.kind = "File" => \/ Arrived(Path(i, j))
                             \/ file.at = "open" /\ file.path = Path(i, j)

Walked(F) ==
  /\ DoneWith(F)
  /\ \A i \in 1..Len(stack) : stack[i].at \in {"look", "entry"} =>
       \A j \in 1..Seen(stack[i]) : Taken(F, i, j)
  /\ stack = <<>> => <<Top, <<>>>> \in F

(* Unless it was cancelled or failed, the walk has done what it passed.     *)
WalkInv == Busy /\ ~cancel /\ ~file.failed => \E F : Walked(F)

TreeInv == ShapeInv /\ LeftInv /\ WalkInv /\ CompleteIsWholeTree

(* The walk's bound is a number, and a tree's directories have listings.    *)
LEMMA TreeFacts ==
  ASSUME tree \in Trees
  PROVE  /\ MaxTreeDepth \in Nat /\ Top \in DOMAIN tree
         /\ \A d \in DOMAIN tree : tree[d] \in Seq(Entries(tree)) /\ Len(tree[d]) \in Nat
BY BoundsAssumption, TreesAssumption, LenProperties

(* The innermost directory.                                                 *)
LEMMA TopFrame ==
  ASSUME ShapeInv, stack # <<>>
  PROVE  /\ Here = stack[Len(stack)] /\ Here \in Frames(tree)
         /\ Len(stack) \in 1..MaxTreeDepth + 2 /\ FrameOK(Len(stack))
         /\ <<Here.dir, Here.path>> \in Levels[tree][Len(stack) - 1]
         /\ <<Here.dir, Here.path>> \in Directories[tree]
<1>1. stack \in Seq(Frames(tree)) /\ tree \in Trees /\ MaxTreeDepth \in Nat
  BY BoundsAssumption DEF ShapeInv
<1>2. Len(stack) \in 1..MaxTreeDepth + 2
  BY <1>1, EmptySeq DEF ShapeInv
<1>3. Here = stack[Len(stack)]
  BY DEF Here, Last
<1>4. Here \in Frames(tree)
  BY <1>1, <1>2, <1>3, ElementOfSeq
<1>5. FrameOK(Len(stack))
  BY <1>2 DEF ShapeInv
<1>6. <<Here.dir, Here.path>> \in Levels[tree][Len(stack) - 1]
  BY <1>3, <1>5 DEF FrameOK
<1>7. Len(stack) - 1 \in 0..MaxTreeDepth + 1
  BY <1>1, <1>2
<1>8. <<Here.dir, Here.path>> \in Directories[tree]
  BY <1>1, <1>6, <1>7 DEF Directories
<1> QED
  BY <1>2, <1>3, <1>4, <1>5, <1>6, <1>8

(* A directory that goes on to another step stays the same one.             *)
LEMMA AtStep ==
  ASSUME NEW t, NEW f \in Frames(t), NEW a \in {"enter", "list", "look", "entry"},
         NEW g, g = [f EXCEPT !.at = a]
  PROVE  /\ g \in Frames(t) /\ g.dir = f.dir /\ g.path = f.path
         /\ g.at = a /\ g.rest = f.rest
BY DEF Frames

(* The entry that is looked at is the next one of the listing.              *)
LEMMA NextEntry ==
  ASSUME ShapeInv, stack # <<>>, Here.at \in {"look", "entry"}, Here.rest # <<>>
  PROVE  /\ Seen(Here) \in Nat /\ Seen(Here) + 1 \in DOMAIN tree[Here.dir]
         /\ Here.dir \in DOMAIN tree
         /\ Head(Here.rest) = tree[Here.dir][Seen(Here) + 1]
         /\ Head(Here.rest) \in Entries(tree)
         /\ Tail(Here.rest) \in Seq(Entries(tree))
         /\ Len(Tail(Here.rest)) = Len(Here.rest) - 1
         /\ \A f \in Frames(tree) : f.dir = Here.dir /\ f.rest = Tail(Here.rest) =>
              Seen(f) = Seen(Here) + 1 /\ Rest(f)
<1>1. /\ Here \in Frames(tree) /\ Here = stack[Len(stack)] /\ FrameOK(Len(stack))
  BY TopFrame
<1>2. Here.rest \in Seq(Entries(tree)) /\ Here.dir \in DOMAIN tree
  BY <1>1 DEF Frames
<1>3. tree[Here.dir] \in Seq(Entries(tree)) /\ Len(tree[Here.dir]) \in Nat
  BY <1>2, TreeFacts DEF ShapeInv
<1>4. Rest(Here)
  BY <1>1 DEF FrameOK
<1>5. /\ Head(Here.rest) \in Entries(tree) /\ Tail(Here.rest) \in Seq(Entries(tree))
      /\ Len(Tail(Here.rest)) = Len(Here.rest) - 1
      /\ \A i \in 1..Len(Tail(Here.rest)) : Tail(Here.rest)[i] = Here.rest[i + 1]
      /\ Len(Here.rest) \in Nat \ {0}
  BY <1>2, HeadTailProperties, EmptySeq
<1>6. Head(Here.rest) = Here.rest[1]
  BY <1>2
<1>7. /\ Len(Here.rest) <= Len(tree[Here.dir])
      /\ \A m \in 1..Len(Here.rest) : Here.rest[m] = tree[Here.dir][Seen(Here) + m]
  BY <1>4 DEF Rest
<1>8. /\ Seen(Here) = Len(tree[Here.dir]) - Len(Here.rest)
      /\ Seen(Here) \in Nat /\ Seen(Here) + 1 \in 1..Len(tree[Here.dir])
  <2>1. Seen(Here) = Len(tree[Here.dir]) - Len(Here.rest)
    BY DEF Seen
  <2>2. \A a \in Nat, b \in Nat \ {0} : b <= a => a - b \in Nat /\ a - b + 1 \in 1..a
    OBVIOUS
  <2> QED
    BY <1>3, <1>5, <1>7, <2>1, <2>2
<1>9. DOMAIN tree[Here.dir] = 1..Len(tree[Here.dir])
  BY <1>3, LenProperties
<1>10. Head(Here.rest) = tree[Here.dir][Seen(Here) + 1]
  BY <1>5, <1>6, <1>7
<1>11. ASSUME NEW f \in Frames(tree), f.dir = Here.dir, f.rest = Tail(Here.rest)
       PROVE  Seen(f) = Seen(Here) + 1 /\ Rest(f)
  <2>1. Seen(f) = Seen(Here) + 1
    <3>1. Seen(f) = Len(tree[Here.dir]) - Len(Tail(Here.rest))
      BY <1>11 DEF Seen
    <3>2. \A a, b \in Nat : a - (b - 1) = (a - b) + 1
      OBVIOUS
    <3> QED
      BY <1>3, <1>5, <1>8, <3>1, <3>2
  <2>2. ASSUME NEW m \in 1..Len(f.rest)
        PROVE  f.rest[m] = tree[f.dir][Seen(f) + m]
    <3>1. m + 1 \in 1..Len(Here.rest) /\ Seen(f) + m = Seen(Here) + (m + 1)
      <4>1. Len(f.rest) = Len(Here.rest) - 1
        BY <1>5, <1>11
      <4>2. \A a \in Nat \ {0}, b \in Nat : m \in 1..a - 1 =>
              m + 1 \in 1..a /\ (b + 1) + m = b + (m + 1)
        OBVIOUS
      <4> QED
        BY <1>5, <1>8, <2>1, <4>1, <4>2
    <3>2. f.rest[m] = Here.rest[m + 1]
      BY <1>5, <1>11
    <3> QED
      BY <1>7, <1>11, <3>1, <3>2
  <2>3. Len(f.rest) <= Len(tree[f.dir])
    BY <1>3, <1>5, <1>7, <1>11
  <2> QED
    BY <2>1, <2>2, <2>3 DEF Rest
<1> QED
  BY <1>2, <1>5, <1>8, <1>9, <1>10, <1>11

(* A directory found by its parent, and a file, are of the tree.            *)
LEMMA Found ==
  ASSUME ShapeInv, stack # <<>>, Here.at = "entry",
         NEW e, e = Head(Here.rest), PlainName(e.name)
  PROVE  /\ Here.path \o e.name \in Seq(STRING)
         /\ Len(Here.path \o e.name) = Len(stack)
         /\ e.kind = "Dir" => <<e.dir, Here.path \o e.name>> \in Levels[tree][Len(stack)]
         /\ e.kind = "File" => <<e.dir, Here.path \o e.name>> \in Files[tree]
<1>1. /\ Here = stack[Len(stack)] /\ Here \in Frames(tree) /\ FrameOK(Len(stack))
      /\ Len(stack) \in 1..MaxTreeDepth + 2
      /\ <<Here.dir, Here.path>> \in Levels[tree][Len(stack) - 1]
      /\ <<Here.dir, Here.path>> \in Directories[tree]
  BY TopFrame
<1>2. Here.rest # <<>> /\ Len(stack) <= MaxTreeDepth + 1 /\ Len(Here.path) = Len(stack) - 1
  BY <1>1 DEF FrameOK
<1>3. /\ e = tree[Here.dir][Seen(Here) + 1] /\ e \in Entries(tree)
      /\ Seen(Here) + 1 \in DOMAIN tree[Here.dir]
  BY <1>2, NextEntry
<1>4. Here.path \in Seq(STRING) /\ e.name \in Seq(STRING) /\ Len(e.name) = 1
  BY <1>1, <1>3 DEF Frames, Entries, PlainName
<1>5. /\ Here.path \o e.name \in Seq(STRING)
      /\ Len(Here.path \o e.name) = Len(Here.path) + Len(e.name)
  BY <1>4, ConcatProperties
<1>6. Len(Here.path \o e.name) = Len(stack)
  <2>1. Len(stack) \in Nat
    BY LenProperties DEF ShapeInv
  <2>2. \A a \in Nat : (a - 1) + 1 = a
    OBVIOUS
  <2>3. Len(Here.path \o e.name) = (Len(stack) - 1) + 1
    BY <1>2, <1>4, <1>5, Zenon
  <2> QED
    BY <2>1, <2>2, <2>3, Zenon
<1>7. ASSUME NEW D, <<Here.dir, Here.path>> \in D
      PROVE  <<e.dir, Here.path \o e.name>> \in Below(tree, D, e.kind)
  <2> DEFINE d == <<Here.dir, Here.path>>
  <2>1. d \in D /\ d[1] = Here.dir /\ d[2] = Here.path
    BY <1>7
  <2>2. e = tree[d[1]][Seen(Here) + 1] /\ Seen(Here) + 1 \in DOMAIN tree[d[1]]
    BY <1>3, <2>1
  <2> HIDE DEF d
  <2>3. <<e.dir, d[2] \o e.name>> \in Below(tree, D, e.kind)
    BY <2>1, <2>2, BelowHas
  <2> QED
    BY <2>1, <2>3
<1>8. tree \in Trees /\ MaxTreeDepth \in Nat
  BY TreeFacts DEF ShapeInv
<1>9. ASSUME e.kind = "Dir"
      PROVE  <<e.dir, Here.path \o e.name>> \in Levels[tree][Len(stack)]
  <2>1. Len(stack) - 1 \in 0..MaxTreeDepth /\ (Len(stack) - 1) + 1 = Len(stack)
    BY <1>1, <1>2, <1>8
  <2>2. Levels[tree][Len(stack)] = Below(tree, Levels[tree][Len(stack) - 1], "Dir")
    BY <1>8, <2>1, LevelSolved
  <2> QED
    BY <1>1, <1>7, <1>9, <2>2
<1>10. e.kind = "File" => <<e.dir, Here.path \o e.name>> \in Files[tree]
  BY <1>1, <1>7, <1>8 DEF Files
<1> QED
  BY <1>5, <1>6, <1>9, <1>10

(* No step of the walk takes a directory away from the destination.         *)
DirsKept == \A p : At(p) = "dir" => At(p)' = "dir"

(* A directory whose place in the stack is left alone is as it was.         *)
LEMMA FrameKept ==
  ASSUME ShapeInv, DirsKept, tree' = tree, NEW i \in 1..Len(stack),
         stack'[i] = stack[i], i < Len(stack') => stack[i].at = "look"
  PROVE  FrameOK(i)'
<1>1. FrameOK(i)
  BY DEF ShapeInv
<1>2. Rest(stack[i]) => Rest(stack[i])'
  BY DEF Rest, Seen
<1>3. At(stack[i].path) = "dir" => At(stack[i].path)' = "dir"
  BY DEF DirsKept
<1> QED
  BY <1>1, <1>2, <1>3 DEF FrameOK

(* What may be at the destination: a place of the tree that was reached.    *)
LEMMA PlainKept ==
  ASSUME ShapeInv, tree' = tree, NEW place \in Directories[tree] \cup Files[tree],
         DOMAIN dest' \subseteq DOMAIN dest \cup {place[2]}
  PROVE  OnlyThePlain'
BY DEF ShapeInv, OnlyThePlain, WasThere

(* A transfer that fails keeps the shape.                                   *)
LEMMA FailShape ==
  ASSUME ShapeInv, Fail, UNCHANGED <<upload, tree, cancel>>, OnlyThePlain'
  PROVE  ShapeInv'
<1>1. stack' \in Seq(Frames(tree)) /\ Len(stack') = 0
  BY EmptySeq DEF Fail
<1>2. file' = NoFile /\ file' \in Copies /\ file'.at = "none" /\ file'.failed = FALSE
  <2>1. file' = NoFile
    BY DEF Fail
  <2>2. <<>> \in Seq(STRING)
    BY EmptySeq
  <2> QED
    BY <2>1, <2>2 DEF NoFile, Copies
<1>3. stack' = <<>> /\ ~Busy' /\ ~Copied'
  BY <1>2 DEF Fail, Busy, Copied
<1>4. MaxTreeDepth \in Nat
  BY BoundsAssumption
<1>5. /\ upload' \in BOOLEAN /\ cancel' \in BOOLEAN /\ tree' \in Trees
      /\ tree' = tree
  BY DEF ShapeInv
<1> QED
  BY <1>1, <1>2, <1>3, <1>4, <1>5 DEF ShapeInv

(* A step of the walk that has no file in hand keeps it, if its stack does.  *)
LEMMA WalkShape ==
  ASSUME ShapeInv, Walking, UNCHANGED <<upload, tree, cancel, file, result>>,
         stack' \in Seq(Frames(tree)), Len(stack') <= MaxTreeDepth + 2,
         \A i \in 1..Len(stack') : FrameOK(i)', OnlyThePlain'
  PROVE  ShapeInv'
<1>1. file = NoFile /\ file' = NoFile /\ ~Copied /\ ~Copied' /\ Busy'
  BY DEF Walking, Copied, NoFile, Busy
<1>2. file'.at = "none" /\ file'.failed = FALSE
  BY <1>1 DEF NoFile
<1>3. /\ upload' \in BOOLEAN /\ cancel' \in BOOLEAN /\ tree' \in Trees
      /\ tree' = tree /\ file' \in Copies
  BY DEF ShapeInv
<1> QED
  BY <1>1, <1>2, <1>3 DEF ShapeInv

(* A step of a copy keeps it, if what is at the file's path fits.           *)
LEMMA CopyShape ==
  ASSUME ShapeInv, Busy, file # NoFile, UNCHANGED <<upload, tree, cancel, stack, result>>,
         DirsKept, DOMAIN dest' \subseteq DOMAIN dest \cup {file.path},
         file' \in Copies, file'.at = "none" <=> file' = NoFile,
         file' # NoFile => file'.path = file.path,
         Copied' => At(file.path)' = "part",
         file'.at = "close" => file'.done = file'.size,
         file'.at = "clean" => cancel \/ file'.failed,
         file'.failed => file'.at = "clean"
  PROVE  ShapeInv'
<1>1. PICK f \in Files[tree] : f[2] = file.path
  BY DEF ShapeInv
<1>2. OnlyThePlain'
  BY <1>1, PlainKept
<1>3. ASSUME NEW i \in 1..Len(stack') PROVE FrameOK(i)'
  BY FrameKept DEF ShapeInv, FrameOK
<1>4. Here' = Here /\ (Busy <=> Busy')
  BY DEF Here, Last, Busy
<1>6. /\ upload' \in BOOLEAN /\ cancel' \in BOOLEAN /\ tree' \in Trees /\ tree' = tree
      /\ stack' \in Seq(Frames(tree')) /\ Len(stack') <= MaxTreeDepth + 2
  BY DEF ShapeInv
<1>7. file' # NoFile => /\ stack' # <<>> /\ Here'.at = "look"
                        /\ \E g \in Files[tree'] : g[2] = file'.path
  BY <1>1, <1>4 DEF ShapeInv
<1> QED
  BY <1>2, <1>3, <1>4, <1>6, <1>7 DEF ShapeInv

(* The destination stays what it was, and a directory that is put is there. *)
LEMMA DestSame ==
  ASSUME dest' = dest
  PROVE  DirsKept /\ \A p : At(p)' = At(p)
BY DEF DirsKept, At

(* The innermost directory goes on to another step, as its frame allows.    *)
LEMMA TopFrames ==
  ASSUME ShapeInv, stack # <<>>, NEW f \in Frames(tree), SetTop(f), DirsKept, tree' = tree,
         f.dir = Here.dir, f.path = Here.path,
         f.at # "enter" => At(f.path)' = "dir" /\ Len(stack) <= MaxTreeDepth + 1,
         f.at \in {"look", "entry"} => Rest(f),
         f.at = "entry" => f.rest # <<>>
  PROVE  /\ stack' \in Seq(Frames(tree)) /\ Len(stack') <= MaxTreeDepth + 2
         /\ stack' # <<>> /\ Here' = f
         /\ \A i \in 1..Len(stack') : FrameOK(i)'
<1>1. stack \in Seq(Frames(tree)) /\ Len(stack) <= MaxTreeDepth + 2
  BY DEF ShapeInv
<1>2. /\ stack' \in Seq(Frames(tree)) /\ Len(stack') = Len(stack)
      /\ Len(stack) \in Nat \ {0} /\ stack' # <<>>
      /\ \A i \in 1..Len(stack) - 1 : stack'[i] = stack[i]
      /\ stack'[Len(stack)] = f
  BY <1>1, TopSet
<1>3. Here = stack[Len(stack)] /\ FrameOK(Len(stack))
  BY <1>1, TopFrame
<1>4. ASSUME NEW i \in 1..Len(stack') PROVE FrameOK(i)'
  <2>1. CASE i \in 1..Len(stack) - 1
    <3>1. i \in 1..Len(stack) /\ i < Len(stack) /\ stack'[i] = stack[i]
      BY <1>2, <2>1
    <3>2. stack[i].at = "look"
      BY <3>1 DEF ShapeInv, FrameOK
    <3> QED
      BY <1>1, <3>1, <3>2, FrameKept
  <2>2. CASE i = Len(stack)
    <3>1. stack'[i] = f /\ Len(stack') = i /\ i \in Nat
      BY <1>2, <2>2
    <3>2. Len(f.path) = i - 1 /\ <<f.dir, f.path>> \in Levels[tree'][i - 1]
      BY <1>1, <1>3, <2>2 DEF FrameOK
    <3>3. f.at \in {"look", "entry"} => Rest(stack[i])'
      BY <1>1, <3>1 DEF Rest, Seen
    <3>4. f.at # "enter" => At(f.path)' = "dir" /\ i <= MaxTreeDepth + 1
      BY <2>2
    <3>5. f.at # "enter" => At(stack[i].path)' = "dir"
      BY <3>1, <3>4
    <3>6. ~ (i < Len(stack'))
      BY <3>1
    <3> QED
      BY <3>1, <3>2, <3>3, <3>4, <3>5, <3>6 DEF FrameOK
  <2> QED
    BY <1>2, <2>1, <2>2
<1>5. Here' = f
  BY <1>2 DEF Here, Last
<1> QED
  BY <1>1, <1>2, <1>4, <1>5

(* And no file is in hand.                                                  *)
LEMMA TopShape ==
  ASSUME ShapeInv, Walking, NEW f \in Frames(tree), SetTop(f), DirsKept,
         UNCHANGED <<upload, tree, cancel, file, result>>, OnlyThePlain',
         f.dir = Here.dir, f.path = Here.path,
         f.at # "enter" => At(f.path)' = "dir" /\ Len(stack) <= MaxTreeDepth + 1,
         f.at \in {"look", "entry"} => Rest(f),
         f.at = "entry" => f.rest # <<>>
  PROVE  ShapeInv'
<1>1. stack # <<>> /\ tree' = tree
  BY DEF Walking
<1> QED
  BY <1>1, TopFrames, WalkShape

(* A directory that is entered is there, at the depth it has.              *)
LEMMA EnterShape ==
  ASSUME ShapeInv, Enter
  PROVE  ShapeInv'
<1>1. Walking /\ stack # <<>> /\ UNCHANGED <<upload, tree, cancel>>
  BY DEF Enter, Walking, transferVars
<1>2. Here \in Frames(tree) /\ <<Here.dir, Here.path>> \in Directories[tree]
  BY <1>1, TopFrame
<1>3. CASE Fail /\ UNCHANGED dest
  <2>1. OnlyThePlain'
    BY <1>1, <1>3 DEF ShapeInv, OnlyThePlain, WasThere
  <2> QED
    BY <1>1, <1>3, <2>1, FailShape
<1>4. CASE /\ Len(stack) <= MaxTreeDepth + 1 /\ At(Here.path) \in {"dir", "absent"}
           /\ SetTop([Here EXCEPT !.at = "list"])
           /\ Put(Here.path, "dir") /\ UNCHANGED <<file, result>>
  <2>0. PICK f : f = [Here EXCEPT !.at = "list"]
    OBVIOUS
  <2>1. f \in Frames(tree) /\ f.dir = Here.dir /\ f.path = Here.path /\ f.at = "list"
    BY <1>2, <2>0, AtStep
  <2>2. SetTop(f)
    BY <1>4, <2>0
  <2>3. /\ DOMAIN dest' = DOMAIN dest \cup {Here.path}
        /\ \A p : At(p)' = IF p = Here.path THEN "dir" ELSE At(p)
    BY <1>4, PutAt
  <2>4. DirsKept
    BY <2>3 DEF DirsKept
  <2>5. OnlyThePlain'
    <3> DEFINE place == <<Here.dir, Here.path>>
    <3>1. place \in Directories[tree] \cup Files[tree] /\ place[2] = Here.path
      BY <1>2
    <3>2. DOMAIN dest' \subseteq DOMAIN dest \cup {place[2]}
      BY <2>3, <3>1
    <3> HIDE DEF place
    <3> QED
      BY <1>1, <3>1, <3>2, PlainKept
  <2>6. At(f.path)' = "dir"
    BY <2>1, <2>3
  <2> QED
    BY <1>1, <1>4, <2>1, <2>2, <2>4, <2>5, <2>6, TopShape
<1>5. Len(stack) \in Nat /\ MaxTreeDepth \in Nat
  BY LenProperties, BoundsAssumption DEF ShapeInv
<1> QED
  BY <1>3, <1>4, <1>5 DEF Enter

(* The listing is the directory's own.                                     *)
LEMMA ListShape ==
  ASSUME ShapeInv, List
  PROVE  ShapeInv'
<1>1. /\ Walking /\ stack # <<>> /\ UNCHANGED <<upload, tree, cancel>>
      /\ dest' = dest /\ Here.at = "list"
  BY DEF List, Walking, transferVars
<1>2. DirsKept /\ \A p : At(p)' = At(p)
  BY <1>1, DestSame
<1>3. OnlyThePlain'
  BY <1>1 DEF ShapeInv, OnlyThePlain, WasThere
<1>4. CASE Fail
  BY <1>1, <1>3, <1>4, FailShape
<1>5. CASE /\ SetTop([Here EXCEPT !.at = "look", !.rest = tree[Here.dir]])
           /\ UNCHANGED <<file, result>>
  <2>1. Here \in Frames(tree) /\ Here = stack[Len(stack)] /\ FrameOK(Len(stack))
    BY <1>1, TopFrame
  <2>2. Here.dir \in DOMAIN tree
    BY <2>1 DEF Frames
  <2>3. tree[Here.dir] \in Seq(Entries(tree)) /\ Len(tree[Here.dir]) \in Nat
    BY <2>2, TreeFacts DEF ShapeInv
  <2>4. PICK f : f = [Here EXCEPT !.at = "look", !.rest = tree[Here.dir]]
    OBVIOUS
  <2>5. /\ f \in Frames(tree) /\ f.dir = Here.dir /\ f.path = Here.path
        /\ f.at = "look" /\ f.rest = tree[Here.dir]
    <3>1. PICK r \in Seq(Entries(tree)) : r = tree[Here.dir]
      BY <2>3
    <3>2. f = [Here EXCEPT !.at = "look", !.rest = r]
      BY <2>4, <3>1, Zenon
    <3>3. /\ f \in Frames(tree) /\ f.dir = Here.dir /\ f.path = Here.path
          /\ f.at = "look" /\ f.rest = r
      BY <2>1, <3>2 DEF Frames
    <3> QED
      BY <3>1, <3>3
  <2>6. Rest(f)
    <3>1. Seen(f) = 0 /\ Len(f.rest) = Len(tree[f.dir])
      BY <2>3, <2>5 DEF Seen
    <3>2. \A m \in 1..Len(f.rest) : f.rest[m] = tree[f.dir][0 + m]
      BY <2>3, <2>5
    <3> QED
      BY <2>3, <2>5, <3>1, <3>2 DEF Rest
  <2>7. At(Here.path) = "dir" /\ Len(stack) <= MaxTreeDepth + 1
    BY <1>1, <2>1 DEF FrameOK
  <2>8. At(f.path)' = "dir"
    BY <1>2, <2>5, <2>7
  <2> QED
    BY <1>1, <1>2, <1>3, <1>5, <2>4, <2>5, <2>6, <2>7, <2>8, TopShape
<1> QED
  BY <1>4, <1>5 DEF List

(* The token is looked at before the next entry.                           *)
LEMMA LookShape ==
  ASSUME ShapeInv, Look
  PROVE  ShapeInv'
<1>1. /\ Walking /\ stack # <<>> /\ UNCHANGED <<upload, tree, cancel, file, result>>
      /\ dest' = dest /\ Here.at = "look" /\ Here.rest # <<>>
      /\ SetTop([Here EXCEPT !.at = "entry"])
  BY DEF Look, Walking, transferVars
<1>2. DirsKept /\ \A p : At(p)' = At(p)
  BY <1>1, DestSame
<1>3. OnlyThePlain'
  BY <1>1 DEF ShapeInv, OnlyThePlain, WasThere
<1>4. Here \in Frames(tree) /\ Here = stack[Len(stack)] /\ FrameOK(Len(stack))
  BY <1>1, TopFrame
<1>5. PICK f : f = [Here EXCEPT !.at = "entry"]
  OBVIOUS
<1>6. /\ f \in Frames(tree) /\ f.dir = Here.dir /\ f.path = Here.path
      /\ f.at = "entry" /\ f.rest = Here.rest
  BY <1>4, <1>5, AtStep
<1>7. Rest(Here) /\ At(Here.path) = "dir" /\ Len(stack) <= MaxTreeDepth + 1
  BY <1>1, <1>4 DEF FrameOK
<1>8. Rest(f)
  BY <1>6, <1>7 DEF Rest, Seen
<1>9. At(f.path)' = "dir"
  BY <1>2, <1>6, <1>7
<1> QED
  BY <1>1, <1>2, <1>3, <1>5, <1>6, <1>7, <1>8, <1>9, TopShape

(* The directory above takes over.                                         *)
LEMMA LeaveShape ==
  ASSUME ShapeInv, Leave
  PROVE  ShapeInv'
<1>1. /\ Walking /\ stack # <<>> /\ UNCHANGED <<upload, tree, cancel, file, result>>
      /\ dest' = dest /\ stack' = Front(stack)
  BY DEF Leave, Walking, transferVars
<1>2. DirsKept
  BY <1>1, DestSame
<1>3. OnlyThePlain'
  BY <1>1 DEF ShapeInv, OnlyThePlain, WasThere
<1>4. stack \in Seq(Frames(tree)) /\ Len(stack) <= MaxTreeDepth + 2 /\ MaxTreeDepth \in Nat
  BY BoundsAssumption DEF ShapeInv
<1>5. /\ stack' \in Seq(Frames(tree)) /\ Len(stack') = Len(stack) - 1
      /\ Len(stack) \in Nat \ {0}
      /\ \A i \in 1..Len(stack) - 1 : stack'[i] = stack[i]
  BY <1>1, <1>4, TopLeft
<1>6. ASSUME NEW i \in 1..Len(stack') PROVE FrameOK(i)'
  <2>1. i \in 1..Len(stack) /\ i < Len(stack) /\ stack'[i] = stack[i]
    BY <1>5
  <2>2. stack[i].at = "look"
    BY <2>1 DEF ShapeInv, FrameOK
  <2> QED
    BY <1>1, <1>2, <2>1, <2>2, FrameKept
<1>7. Len(stack') <= MaxTreeDepth + 2
  BY <1>4, <1>5
<1> QED
  BY <1>1, <1>3, <1>5, <1>6, <1>7, WalkShape

(* An entry is walked, copied or passed over: each is in the tree.         *)
LEMMA TakeShape ==
  ASSUME ShapeInv, Take
  PROVE  ShapeInv'
<1>1. /\ Walking /\ stack # <<>> /\ UNCHANGED <<upload, tree, cancel, result>>
      /\ dest' = dest /\ Here.at = "entry" /\ file = NoFile
  BY DEF Take, Walking, transferVars
<1>2. DirsKept /\ \A p : At(p)' = At(p)
  BY <1>1, DestSame
<1>3. OnlyThePlain'
  BY <1>1 DEF ShapeInv, OnlyThePlain, WasThere
<1>4. /\ Here \in Frames(tree) /\ Here = stack[Len(stack)] /\ FrameOK(Len(stack))
      /\ Len(stack) \in Nat \ {0} /\ MaxTreeDepth \in Nat
  BY <1>1, TopFrame, EmptySeq, BoundsAssumption DEF ShapeInv
<1>5. /\ Here.rest # <<>> /\ Rest(Here) /\ At(Here.path) = "dir"
      /\ Len(stack) <= MaxTreeDepth + 1
  BY <1>1, <1>4 DEF FrameOK
<1>6. PICK e : e = Head(Here.rest)
  OBVIOUS
<1>7. PICK r \in Seq(Entries(tree)) : r = Tail(Here.rest)
  BY <1>1, <1>5, NextEntry
<1>8. PICK f : f = [Here EXCEPT !.at = "look", !.rest = r]
  OBVIOUS
<1>9. /\ f \in Frames(tree) /\ f.dir = Here.dir /\ f.path = Here.path
      /\ f.at = "look" /\ f.rest = r
  BY <1>4, <1>8 DEF Frames
<1>10. Rest(f) /\ e \in Entries(tree)
  BY <1>1, <1>5, <1>6, <1>7, <1>9, NextEntry
<1>11. f = [Here EXCEPT !.at = "look", !.rest = Tail(@)]
  BY <1>7, <1>8
<1>12. PICK path : path = Here.path \o e.name
  OBVIOUS
<1>13. At(f.path)' = "dir"
  BY <1>2, <1>5, <1>9
<1>14. CASE SetTop(f) /\ file' = file
  BY <1>1, <1>2, <1>3, <1>5, <1>9, <1>10, <1>13, <1>14, TopShape
<1>15. CASE /\ PlainName(e.name) /\ e.kind = "Dir" /\ file' = file
            /\ stack' = Append(Append(Front(stack), f), Frame(e.dir, path))
  <2>1. PICK g : g = Frame(e.dir, path)
    OBVIOUS
  <2>2. /\ path \in Seq(STRING) /\ Len(path) = Len(stack)
        /\ <<e.dir, path>> \in Levels[tree][Len(stack)]
    BY <1>1, <1>6, <1>12, <1>15, Found
  <2>3. g.dir = e.dir /\ g.path = path /\ g.at = "enter" /\ g \in Frames(tree)
    <3>1. <<>> \in Seq(Entries(tree)) /\ e.dir \in DOMAIN tree
      BY <1>10, EmptySeq DEF Entries
    <3> QED
      BY <2>1, <2>2, <3>1 DEF Frame, Frames
  <2>4. stack \in Seq(Frames(tree))
    BY DEF ShapeInv
  <2>5. /\ stack' \in Seq(Frames(tree)) /\ Len(stack') = Len(stack) + 1
        /\ \A i \in 1..Len(stack) - 1 : stack'[i] = stack[i]
        /\ stack'[Len(stack)] = f /\ stack'[Len(stack) + 1] = g
    BY <1>1, <1>9, <1>15, <2>1, <2>3, <2>4, TopPushed
  <2>6. ASSUME NEW i \in 1..Len(stack') PROVE FrameOK(i)'
    <3>1. CASE i \in 1..Len(stack) - 1
      <4>1. i \in 1..Len(stack) /\ i < Len(stack) /\ stack'[i] = stack[i]
        BY <1>4, <2>5, <3>1
      <4>2. stack[i].at = "look"
        BY <4>1 DEF ShapeInv, FrameOK
      <4> QED
        BY <1>1, <1>2, <4>1, <4>2, FrameKept
    <3>2. CASE i = Len(stack)
      <4>1. stack'[i] = f /\ i \in Nat
        BY <1>4, <2>5, <3>2
      <4>2. Len(f.path) = i - 1 /\ <<f.dir, f.path>> \in Levels[tree'][i - 1]
        BY <1>1, <1>4, <1>9, <3>2 DEF FrameOK
      <4>3. Rest(stack[i])'
        BY <1>1, <1>10, <4>1 DEF Rest, Seen
      <4>4. At(stack[i].path)' = "dir" /\ i <= MaxTreeDepth + 1
        BY <1>5, <1>13, <3>2, <4>1
      <4> QED
        BY <1>9, <4>1, <4>2, <4>3, <4>4 DEF FrameOK
    <3>3. CASE i = Len(stack) + 1
      <4>1. stack'[i] = g /\ i - 1 = Len(stack) /\ ~ (i < Len(stack'))
        BY <1>4, <2>5, <3>3
      <4>2. Len(g.path) = i - 1 /\ <<g.dir, g.path>> \in Levels[tree'][i - 1]
        BY <1>1, <2>2, <2>3, <4>1
      <4> QED
        BY <2>3, <4>1, <4>2 DEF FrameOK
    <3> QED
      BY <1>4, <2>5, <3>1, <3>2, <3>3
  <2>7. Len(stack') <= MaxTreeDepth + 2
    BY <1>4, <1>5, <2>5
  <2> QED
    BY <1>1, <1>3, <1>15, <2>5, <2>6, <2>7, WalkShape
<1>16. CASE /\ PlainName(e.name) /\ e.kind = "File" /\ SetTop(f)
            /\ file' = [NoFile EXCEPT !.at = "open", !.path = path, !.size = e.size]
  <2>1. /\ path \in Seq(STRING) /\ <<e.dir, path>> \in Files[tree]
    BY <1>1, <1>6, <1>12, <1>16, Found
  <2>2. e.size \in Nat
    BY <1>10 DEF Entries
  <2>3. /\ file' \in Copies /\ file'.at = "open" /\ file'.path = path
        /\ file'.failed = FALSE /\ file' # NoFile
    BY <1>16, <2>1, <2>2 DEF NoFile, Copies
  <2>5. /\ stack' \in Seq(Frames(tree)) /\ Len(stack') <= MaxTreeDepth + 2
        /\ stack' # <<>> /\ Here' = f /\ \A i \in 1..Len(stack') : FrameOK(i)'
    BY <1>1, <1>2, <1>5, <1>9, <1>10, <1>13, <1>16, TopFrames
  <2>7. ~Copied' /\ Busy'
    BY <1>1, <2>3 DEF Copied, Walking, Busy
  <2>8. \E g \in Files[tree'] : g[2] = file'.path
    <3>1. PICK g \in Files[tree] : g = <<e.dir, path>>
      BY <2>1
    <3> QED
      BY <1>1, <2>3, <3>1
  <2>10. /\ upload' \in BOOLEAN /\ cancel' \in BOOLEAN /\ tree' \in Trees
         /\ stack' \in Seq(Frames(tree')) /\ Len(stack') <= MaxTreeDepth + 2
    BY <1>1, <2>5 DEF ShapeInv
  <2>11. /\ file'.at = "none" <=> file' = NoFile
         /\ stack' # <<>> /\ Here'.at = "look"
    BY <1>9, <2>3, <2>5
  <2> QED
    BY <1>3, <2>3, <2>5, <2>7, <2>8, <2>10, <2>11 DEF ShapeInv
<1>17. \/ SetTop(f) /\ file' = file
       \/ /\ PlainName(e.name) /\ e.kind = "Dir" /\ file' = file
          /\ stack' = Append(Append(Front(stack), f), Frame(e.dir, path))
       \/ /\ PlainName(e.name) /\ e.kind = "File" /\ SetTop(f)
          /\ file' = [NoFile EXCEPT !.at = "open", !.path = path, !.size = e.size]
  BY <1>6, <1>11, <1>12 DEF Take
<1> QED
  BY <1>14, <1>15, <1>16, <1>17

(* The walk that is over has nothing in hand.                              *)
LEMMA OutcomeShape ==
  ASSUME ShapeInv, Outcome
  PROVE  ShapeInv'
<1>1. /\ UNCHANGED <<upload, tree, cancel, dest, stack, file>> /\ file = NoFile /\ stack = <<>>
      /\ ~Busy' /\ ~Copied'
  BY DEF Outcome, transferVars, Busy, Copied, NoFile
<1>2. OnlyThePlain'
  BY <1>1 DEF ShapeInv, OnlyThePlain, WasThere
<1>3. file'.at = "none" /\ file'.failed = FALSE
  BY <1>1 DEF NoFile
<1>4. /\ upload' \in BOOLEAN /\ cancel' \in BOOLEAN /\ tree' \in Trees
      /\ stack' \in Seq(Frames(tree')) /\ Len(stack') <= MaxTreeDepth + 2
      /\ file' \in Copies
  BY <1>1 DEF ShapeInv
<1>5. stack' = <<>> /\ Len(stack') = 0 /\ \A i \in 1..Len(stack') : FrameOK(i)'
  BY <1>1, EmptySeq
<1> QED
  BY <1>1, <1>2, <1>3, <1>4, <1>5 DEF ShapeInv

(* A step of a copy that leaves the destination alone or changes the path   *)
(* of its file takes no directory away.                                     *)
LEMMA FileKeepsDirs ==
  ASSUME At(file.path) # "dir",
         \A p : p # file.path => At(p)' = At(p)
  PROVE  DirsKept
BY DEF DirsKept

(* What a copy in hand is at, and where.                                    *)
LEMMA CopyFacts ==
  ASSUME ShapeInv, file.at # "none"
  PROVE  /\ file # NoFile /\ file \in Copies /\ stack # <<>> /\ Here.at = "look"
         /\ \E f \in Files[tree] : f[2] = file.path
         /\ Copied => At(file.path) = "part"
BY DEF ShapeInv, NoFile

(* A file that is opened is partial from then on.                          *)
LEMMA OpenFileShape ==
  ASSUME ShapeInv, OpenFile
  PROVE  ShapeInv'
<1>1. Busy /\ file.at = "open" /\ UNCHANGED <<upload, tree, cancel>>
  BY DEF OpenFile, copying, transferVars
<1>2. file # NoFile /\ file \in Copies /\ file.failed = FALSE
  BY <1>1, CopyFacts DEF ShapeInv, Copies
<1>3. CASE Fail /\ UNCHANGED dest
  <2>1. OnlyThePlain'
    BY <1>1, <1>3 DEF ShapeInv, OnlyThePlain, WasThere
  <2> QED
    BY <1>1, <1>3, <2>1, FailShape
<1>4. ASSUME At(file.path) # "dir", NEW offset \in 0..file.size,
             file' = [file EXCEPT !.at = "loop", !.done = offset],
             Put(file.path, "part"), UNCHANGED <<result, stack>>
      PROVE  ShapeInv'
  <2>1. /\ DOMAIN dest' = DOMAIN dest \cup {file.path}
        /\ \A p : At(p)' = IF p = file.path THEN "part" ELSE At(p)
    BY <1>4, PutAt
  <2>2. DirsKept
    BY <1>4, <2>1, FileKeepsDirs
  <2>3. offset \in Nat
    BY <1>2, <1>4 DEF Copies
  <2>4. /\ file' \in Copies /\ file'.path = file.path /\ file'.at = "loop"
        /\ file'.failed = FALSE /\ file' # NoFile
    BY <1>2, <1>4, <2>3 DEF Copies, NoFile
  <2>5. At(file.path)' = "part"
    <3>1. PICK q : q = file.path
      OBVIOUS
    <3>2. At(q)' = "part" /\ q = file'.path
      BY <2>1, <2>4, <3>1
    <3> QED
      BY <3>2
  <2> QED
    BY <1>1, <1>2, <1>4, <2>1, <2>2, <2>4, <2>5, CopyShape
<1> QED
  BY <1>3, <1>4 DEF OpenFile

(* A chunk more of it changes neither the path nor the state.              *)
LEMMA CopyChunkShape ==
  ASSUME ShapeInv, CopyChunk
  PROVE  ShapeInv'
<1>1. /\ Busy /\ file.at = "loop" /\ UNCHANGED <<upload, tree, cancel, stack, dest, result>>
      /\ file' = [file EXCEPT !.done = @ + 1]
  BY DEF CopyChunk, copying, transferVars
<1>2. file # NoFile /\ file \in Copies /\ file.failed = FALSE /\ At(file.path) = "part"
  BY <1>1, CopyFacts DEF ShapeInv, Copies, Copied
<1>3. DirsKept /\ \A p : At(p)' = At(p)
  BY <1>1, DestSame
<1>4. /\ file' \in Copies /\ file'.path = file.path /\ file'.at = "loop"
      /\ file'.failed = FALSE /\ file' # NoFile
  BY <1>1, <1>2 DEF Copies, NoFile
<1>5. At(file.path)' = "part"
  BY <1>1, <1>2, <1>4 DEF At
<1> QED
  BY <1>1, <1>2, <1>3, <1>4, <1>5, CopyShape

(* A copy that is whole is closed, any other is cleaned up.                *)
LEMMA StopCopyShape ==
  ASSUME ShapeInv, StopCopy
  PROVE  ShapeInv'
<1>1. /\ Busy /\ file.at = "loop" /\ UNCHANGED <<upload, tree, cancel, stack, dest, result>>
  BY DEF StopCopy, copying, transferVars
<1>2. file # NoFile /\ file \in Copies /\ file.failed = FALSE /\ At(file.path) = "part"
  BY <1>1, CopyFacts DEF ShapeInv, Copies, Copied
<1>3. DirsKept /\ \A p : At(p)' = At(p)
  BY <1>1, DestSame
<1>4. /\ file' \in Copies /\ file'.path = file.path /\ file'.at # "none" /\ file' # NoFile
      /\ file'.at = "close" => file'.done = file'.size
      /\ file'.at = "clean" => cancel \/ file'.failed
      /\ file'.failed => file'.at = "clean"
  <2>1. CASE cancel /\ file' = [file EXCEPT !.at = "clean"]
    BY <1>2, <2>1 DEF Copies, NoFile
  <2>2. CASE file.done = file.size /\ file' = [file EXCEPT !.at = "close"]
    BY <1>2, <2>2 DEF Copies, NoFile
  <2>3. CASE file' = [file EXCEPT !.at = "clean", !.failed = TRUE]
    BY <1>2, <2>3 DEF Copies, NoFile
  <2> QED
    BY <2>1, <2>2, <2>3 DEF StopCopy
<1>5. At(file.path)' = "part"
  BY <1>1, <1>2, <1>4 DEF At
<1> QED
  BY <1>1, <1>2, <1>3, <1>4, <1>5, CopyShape

(* A file that is closed is let go of.                                     *)
LEMMA CloseFileShape ==
  ASSUME ShapeInv, CloseFile
  PROVE  ShapeInv'
<1>1. Busy /\ file.at = "close" /\ UNCHANGED <<upload, tree, cancel>>
  BY DEF CloseFile, transferVars
<1>2. file # NoFile /\ At(file.path) = "part" /\ \E f \in Files[tree] : f[2] = file.path
  BY <1>1, CopyFacts DEF Copied
<1>3. PICK what : Put(file.path, what)
  BY DEF CloseFile
<1>4. /\ DOMAIN dest' = DOMAIN dest \cup {file.path}
      /\ \A p : At(p)' = IF p = file.path THEN what ELSE At(p)
  BY <1>3, PutAt
<1>5. CASE Fail
  <2>1. OnlyThePlain'
    BY <1>1, <1>2, <1>4, PlainKept
  <2> QED
    BY <1>1, <1>5, <2>1, FailShape
<1>6. CASE file' = NoFile /\ UNCHANGED <<result, stack>>
  <2>1. DirsKept
    BY <1>2, <1>4, FileKeepsDirs
  <2>2. file' \in Copies /\ file'.at = "none" /\ file'.failed = FALSE /\ ~Copied'
    BY <1>6, EmptySeq DEF Copies, NoFile, Copied
  <2> QED
    BY <1>1, <1>2, <1>4, <1>6, <2>1, <2>2, CopyShape
<1> QED
  BY <1>5, <1>6 DEF CloseFile

(* A copy that stopped early: its path keeps what it has, or loses it.      *)
LEMMA EndCopyShape ==
  ASSUME ShapeInv, Busy, file.at = "clean", EndCopy, UNCHANGED <<upload, tree, cancel>>,
         dest' = dest \/ dest' = Without(file.path)
  PROVE  ShapeInv'
<1>1. file # NoFile /\ At(file.path) = "part" /\ \E f \in Files[tree] : f[2] = file.path
  BY CopyFacts DEF Copied
<1>2. DOMAIN dest' \subseteq DOMAIN dest /\ \A p : p # file.path => At(p)' = At(p)
  BY DestSame, WithoutAt
<1>3. CASE Fail
  <2>1. OnlyThePlain'
    BY <1>1, <1>2, PlainKept
  <2> QED
    BY <1>3, <2>1, FailShape
<1>4. CASE file' = NoFile /\ UNCHANGED <<result, stack>>
  <2>1. DirsKept
    BY <1>1, <1>2, FileKeepsDirs
  <2>2. file' \in Copies /\ file'.at = "none" /\ file'.failed = FALSE /\ ~Copied'
    BY <1>4, EmptySeq DEF Copies, NoFile, Copied
  <2> QED
    BY <1>1, <1>2, <1>4, <2>1, <2>2, CopyShape
<1> QED
  BY <1>3, <1>4 DEF EndCopy

(* A cancellation or a retry; nothing is in hand when one is tried again.   *)
LEMMA CancelShape ==
  ASSUME ShapeInv, Cancel
  PROVE  ShapeInv'
<1>1. UNCHANGED <<upload, tree, stack, file, dest, result>> /\ cancel' = TRUE
  BY DEF Cancel
<1>2. \A i \in 1..Len(stack) : FrameOK(i)'
  <2>1. ASSUME NEW i \in 1..Len(stack) PROVE FrameOK(i)'
    BY <1>1, DestSame, FrameKept DEF ShapeInv, FrameOK
  <2> QED
    BY <2>1
<1>3. OnlyThePlain'
  BY <1>1 DEF ShapeInv, OnlyThePlain, WasThere
<1>4. Here' = Here /\ (Busy' <=> Busy) /\ (Copied' <=> Copied) /\ At(file.path)' = At(file.path)
  BY <1>1 DEF Here, Last, Busy, Copied, At
<1> QED
  BY <1>1, <1>2, <1>3, <1>4 DEF ShapeInv

(* A walk that starts again starts from the top.                           *)
LEMMA RetryShape ==
  ASSUME ShapeInv, Retry
  PROVE  ShapeInv'
<1>1. /\ UNCHANGED <<upload, tree, file, dest>> /\ cancel' = FALSE /\ Busy' /\ ~Busy
      /\ stack' = <<Frame(Top, <<>>)>>
  BY DEF Retry, Busy
<1>2. file' = NoFile /\ file' \in Copies /\ file'.at = "none" /\ ~file'.failed /\ ~Copied'
  BY <1>1 DEF ShapeInv, NoFile, Copied
<1>3. OnlyThePlain'
  BY <1>1 DEF ShapeInv, OnlyThePlain, WasThere
<1>4. tree \in Trees /\ MaxTreeDepth \in Nat /\ upload \in BOOLEAN
  BY BoundsAssumption DEF ShapeInv
<1>5. PICK f : f = Frame(Top, <<>>)
  OBVIOUS
<1>6. /\ f \in Frames(tree) /\ f.dir = Top /\ f.path = <<>> /\ f.at = "enter"
  <2>1. /\ Top \in DOMAIN tree /\ <<>> \in Seq(STRING) /\ <<>> \in Seq(Entries(tree))
    BY <1>4, TreeFacts, EmptySeq
  <2> QED
    BY <1>5, <2>1 DEF Frame, Frames
<1>7. stack' = <<f>>
  BY <1>1, <1>5
<1>8. stack' \in Seq(Frames(tree)) /\ Len(stack') = 1 /\ stack'[1] = f
  BY <1>6, <1>7
<1>9. Len(f.path) = 0 /\ <<f.dir, f.path>> \in Levels[tree][0]
  BY <1>4, <1>6, EmptySeq, LevelSolved
<1>10. FrameOK(1)'
  BY <1>1, <1>6, <1>8, <1>9 DEF FrameOK
<1>11. \A i \in 1..Len(stack') : FrameOK(i)'
  BY <1>8, <1>10
<1>12. Len(stack') <= MaxTreeDepth + 2
  BY <1>4, <1>8
<1> QED
  BY <1>1, <1>2, <1>3, <1>4, <1>8, <1>11, <1>12 DEF ShapeInv

(* One step keeps the shape of the walk.                                    *)
LEMMA ShapeStep ==
  ASSUME ShapeInv, [TreeNext]_treeVars
  PROVE  ShapeInv'
<1>1. ASSUME CleanUpUpload \/ CleanUpDownload PROVE ShapeInv'
  <2>1. /\ Busy /\ file.at = "clean" /\ EndCopy /\ UNCHANGED <<upload, tree, cancel>>
        /\ dest' = dest \/ dest' = Without(file.path)
    BY <1>1 DEF CleanUpUpload, CleanUpDownload, transferVars
  <2> QED
    BY <2>1, EndCopyShape
<1>2. ASSUME UNCHANGED treeVars PROVE ShapeInv'
  <2>1. UNCHANGED <<upload, tree, stack, file, dest, cancel, result>>
    BY <1>2 DEF treeVars
  <2> QED
    BY <2>1 DEF ShapeInv, FrameOK, Rest, Seen, At, Here, Last, Copied, Busy, OnlyThePlain, WasThere
<1> QED
  BY <1>1, <1>2, EnterShape, ListShape, LeaveShape, LookShape, TakeShape, OutcomeShape,
     OpenFileShape, CopyChunkShape, StopCopyShape, CloseFileShape, CancelShape, RetryShape
     DEF TreeNext, Run, CopyFile

(* No file in hand, and nothing partial that was not: what is left is as it *)
(* was told, as long as what is kept stays and the walk is on its way out.  *)
LEMMA LeftKept ==
  ASSUME ShapeInv, LeftInv, file = NoFile, file' = NoFile, UNCHANGED <<upload, stuck, mark>>,
         \A p \in DOMAIN dest' : dest'[p] = "part" => p \in DOMAIN dest /\ dest[p] = "part",
         mark.what # "none" =>
           /\ dest' = dest
           /\ Busy' => Busy /\ cancel' = cancel /\ (stack' # <<>> => Here'.at = "look")
  PROVE  LeftInv'
<1>1. ~Copied /\ ~Copied'
  BY DEF Copied, NoFile
<1>2. ASSUME upload', NEW p \in DOMAIN dest', dest'[p] = "part" PROVE p \in stuck'
  BY <1>1, <1>2 DEF LeftInv
<1>3. ASSUME mark'.what # "none"
      PROVE  Busy' => cancel' /\ (stack' # <<>> => Here'.at = "look")
  BY <1>3 DEF LeftInv
<1>4. DispositionTrue'
  <2>1. CASE mark.what # "none"
    BY <2>1 DEF LeftInv, DispositionTrue, At
  <2>2. CASE mark.what = "none"
    BY <2>2 DEF DispositionTrue
  <2> QED
    BY <2>1, <2>2
<1> QED
  BY <1>1, <1>2, <1>3, <1>4 DEF LeftInv

(* The walk makes nothing partial; it forgets nothing it has told.         *)
LEMMA WalkLeft ==
  ASSUME ShapeInv, LeftInv, Enter \/ List \/ Leave \/ Look \/ Take \/ Outcome
  PROVE  LeftInv'
<1>1. /\ Busy /\ file = NoFile /\ UNCHANGED <<upload, cancel, stuck, mark>>
  BY DEF Enter, List, Leave, Look, Take, Outcome, transferVars, Walking
<1>2. CASE Enter
  <2>1. mark.what = "none"
    BY <1>1, <1>2 DEF Enter, Walking, LeftInv
  <2>2. file' = NoFile
    BY <1>1, <1>2 DEF Enter, Fail
  <2>3. dest' = dest \/ (Put(Here.path, "dir") /\ At(Here.path) \in {"dir", "absent"})
    BY <1>2 DEF Enter
  <2>4. \A p \in DOMAIN dest' : dest'[p] = "part" => p \in DOMAIN dest /\ dest[p] = "part"
    <3>1. CASE dest' = dest
      BY <3>1
    <3>2. CASE Put(Here.path, "dir")
      BY <3>2 DEF Put
    <3> QED
      BY <2>3, <3>1, <3>2
  <2> QED
    BY <1>1, <2>1, <2>2, <2>4, LeftKept
<1>3. CASE List
  <2>1. mark.what = "none"
    BY <1>1, <1>3 DEF List, Walking, LeftInv
  <2>2. file' = NoFile /\ dest' = dest
    BY <1>1, <1>3 DEF List, Fail
  <2> QED
    BY <1>1, <2>1, <2>2, LeftKept
<1>4. CASE Leave
  <2>1. file' = NoFile /\ UNCHANGED <<dest, result>> /\ stack' = Front(stack) /\ stack # <<>>
    BY <1>1, <1>4 DEF Leave, Walking
  <2>2. stack' # <<>> => Here'.at = "look"
    <3>1. stack \in Seq(Frames(tree))
      BY DEF ShapeInv
    <3>2. /\ stack' \in Seq(Frames(tree)) /\ Len(stack') = Len(stack) - 1
          /\ Len(stack) \in Nat \ {0} /\ \A i \in 1..Len(stack) - 1 : stack'[i] = stack[i]
          /\ stack' = <<>> <=> Len(stack) = 1
      BY <2>1, <3>1, TopLeft
    <3>3. ASSUME stack' # <<>> PROVE Here'.at = "look"
      <4>1. Len(stack) - 1 \in 1..Len(stack) /\ Len(stack) - 1 < Len(stack)
            /\ Len(stack) - 1 \in 1..Len(stack) - 1
        BY <3>2, <3>3
      <4>2. stack[Len(stack) - 1].at = "look"
        BY <4>1 DEF ShapeInv, FrameOK
      <4>3. Here' = stack[Len(stack) - 1]
        BY <3>2, <4>1 DEF Here, Last
      <4> QED
        BY <4>2, <4>3
    <3> QED
      BY <3>3
  <2>3. Busy' <=> Busy
    BY <2>1 DEF Busy
  <2> QED
    BY <1>1, <2>1, <2>2, <2>3, LeftKept
<1>5. CASE Look
  <2>1. mark.what = "none"
    BY <1>1, <1>5 DEF Look, Walking, LeftInv
  <2>2. file' = NoFile /\ dest' = dest
    BY <1>1, <1>5 DEF Look
  <2> QED
    BY <1>1, <2>1, <2>2, LeftKept
<1>6. CASE Take
  <2>1. mark.what = "none" /\ dest' = dest /\ ~Copied
    BY <1>1, <1>6 DEF Take, Walking, LeftInv, Copied, NoFile
  <2>2. ~Copied'
    <3>1. PICK e, path : e = Head(Here.rest) /\ path = Here.path \o e.name
      OBVIOUS
    <3>2. \/ file' = file
          \/ file' = [NoFile EXCEPT !.at = "open", !.path = path, !.size = e.size]
      BY <1>6, <3>1 DEF Take
    <3>3. [NoFile EXCEPT !.at = "open", !.path = path, !.size = e.size].at = "open"
      BY DEF NoFile
    <3>4. file'.at \in {"none", "open"}
      <4>1. CASE file' = file
        BY <1>1, <4>1 DEF NoFile
      <4>2. CASE file' = [NoFile EXCEPT !.at = "open", !.path = path, !.size = e.size]
        BY <3>3, <4>2, Zenon
      <4> QED
        BY <3>2, <4>1, <4>2
    <3> QED
      BY <3>4 DEF Copied
  <2>3. DispositionTrue'
    BY <1>1, <2>1 DEF DispositionTrue
  <2> QED
    BY <1>1, <2>1, <2>2, <2>3 DEF LeftInv
<1>7. CASE Outcome
  <2>1. file' = NoFile /\ dest' = dest /\ ~Busy'
    BY <1>1, <1>7 DEF Outcome, Busy
  <2> QED
    BY <1>1, <2>1, LeftKept
<1> QED
  BY <1>2, <1>3, <1>4, <1>5, <1>6, <1>7

(* A copy in progress is partial at its own path only.                     *)
LEMMA CopyLeft ==
  ASSUME ShapeInv, LeftInv, OpenFile \/ CopyChunk \/ StopCopy \/ CloseFile
  PROVE  LeftInv'
<1>1. /\ file.at \in {"open", "loop", "close"} /\ Busy /\ upload' = upload /\ mark' = mark
  BY DEF OpenFile, CopyChunk, StopCopy, CloseFile, copying, transferVars
<1>2. /\ file # NoFile /\ file \in Copies /\ mark'.what = "none"
      /\ file.at = "open" => ~Copied
  BY <1>1, CopyFacts DEF LeftInv, Copied
<1>a. mark'.what = mark.what /\ DispositionTrue'
  BY <1>1, <1>2 DEF DispositionTrue
<1>b. Copied' => file'.path \notin stuck'
  <2>1. CASE OpenFile
    <3>1. CASE Fail
      BY <3>1 DEF Fail, Copied, NoFile
    <3>2. ASSUME stuck' = stuck \ {file.path},
                 NEW offset \in 0..file.size, file' = [file EXCEPT !.at = "loop", !.done = offset]
          PROVE  file'.path \notin stuck'
      <4>1. file'.path = file.path
        BY <1>2, <3>2 DEF Copies
      <4> QED
        BY <3>2, <4>1
    <3> QED
      BY <2>1, <3>1, <3>2 DEF OpenFile
  <2>2. CASE CopyChunk \/ StopCopy
    <3>1. Copied /\ stuck' = stuck
      BY <2>2 DEF CopyChunk, StopCopy, Copied
    <3>2. file'.path = file.path
      <4>1. CASE file' = [file EXCEPT !.done = @ + 1]
        BY <1>2, <4>1 DEF Copies
      <4>2. CASE file' = [file EXCEPT !.at = "clean"]
        BY <1>2, <4>2 DEF Copies
      <4>3. CASE file' = [file EXCEPT !.at = "close"]
        BY <1>2, <4>3 DEF Copies
      <4>4. CASE file' = [file EXCEPT !.at = "clean", !.failed = TRUE]
        BY <1>2, <4>4 DEF Copies
      <4> QED
        BY <2>2, <4>1, <4>2, <4>3, <4>4 DEF CopyChunk, StopCopy
    <3> QED
      BY <3>1, <3>2 DEF LeftInv
  <2>3. CASE CloseFile
    BY <2>3 DEF CloseFile, Fail, Copied, NoFile
  <2> QED
    BY <2>1, <2>2, <2>3
<1> SUFFICES ASSUME upload', NEW p \in DOMAIN dest', dest'[p] = "part"
             PROVE  p \in stuck' \/ (Copied' /\ file'.path = p)
  BY <1>2, <1>a, <1>b DEF LeftInv
<1>3. p \in DOMAIN dest /\ dest[p] = "part" => p \in stuck \/ (Copied /\ file.path = p)
  BY <1>1 DEF LeftInv
<1>4. CASE OpenFile
  <2>1. ~Copied
    BY <1>2, <1>4 DEF OpenFile
  <2>2. CASE UNCHANGED <<dest, stuck>>
    BY <1>3, <2>1, <2>2
  <2>3. ASSUME Put(file.path, "part"), stuck' = stuck \ {file.path},
               NEW offset \in 0..file.size, file' = [file EXCEPT !.at = "loop", !.done = offset]
        PROVE  p \in stuck' \/ (Copied' /\ file'.path = p)
    <3>1. file'.at = "loop" /\ file'.path = file.path
      BY <1>2, <2>3 DEF Copies
    <3>2. p = file.path \/ (p \in DOMAIN dest /\ dest'[p] = dest[p])
      BY <2>3 DEF Put
    <3> QED
      BY <1>3, <2>1, <2>3, <3>1, <3>2 DEF Copied
  <2> QED
    BY <1>4, <2>2, <2>3 DEF OpenFile
<1>5. CASE CopyChunk \/ StopCopy
  <2>1. dest' = dest /\ stuck' = stuck /\ Copied
    BY <1>5 DEF CopyChunk, StopCopy, Copied
  <2>2. file'.path = file.path /\ file'.at \in {"loop", "close", "clean"}
    <3>1. CASE file' = [file EXCEPT !.done = @ + 1] /\ file.at = "loop"
      BY <1>2, <3>1 DEF Copies
    <3>2. CASE file' = [file EXCEPT !.at = "clean"]
      BY <1>2, <3>2 DEF Copies
    <3>3. CASE file' = [file EXCEPT !.at = "close"]
      BY <1>2, <3>3 DEF Copies
    <3>4. CASE file' = [file EXCEPT !.at = "clean", !.failed = TRUE]
      BY <1>2, <3>4 DEF Copies
    <3> QED
      BY <1>5, <3>1, <3>2, <3>3, <3>4 DEF CopyChunk, StopCopy
  <2> QED
    BY <1>3, <2>1, <2>2 DEF Copied
<1>6. CASE CloseFile
  <2>1. file.done = file.size /\ stuck' = stuck
    BY <1>6 DEF ShapeInv, CloseFile
  <2>2. Put(file.path, "whole") \/ Put(file.path, "unsure")
    BY <1>6, <2>1 DEF CloseFile
  <2>3. p # file.path /\ p \in DOMAIN dest /\ dest[p] = "part"
    BY <2>2 DEF Put
  <2> QED
    BY <1>3, <2>1, <2>3
<1> QED
  BY <1>4, <1>5, <1>6

(* The clean-up says what it leaves.                                       *)
LEMMA CleanUpLeft ==
  ASSUME ShapeInv, LeftInv, CleanUpUpload \/ CleanUpDownload
  PROVE  LeftInv'
<1>1. /\ file.at = "clean" /\ Busy /\ EndCopy /\ UNCHANGED <<upload, cancel>>
      /\ file' = NoFile
  BY DEF CleanUpUpload, CleanUpDownload, transferVars, EndCopy, Fail
<1>2. /\ file # NoFile /\ file \in Copies /\ mark.what = "none" /\ Copied
      /\ At(file.path) = "part" /\ stack # <<>> /\ Here.at = "look"
  BY <1>1, CopyFacts DEF LeftInv, Copied
<1>3. file.path \in DOMAIN dest /\ dest[file.path] = "part"
  BY <1>2 DEF At
<1>4. Busy' => cancel' /\ (stack' # <<>> => Here'.at = "look")
  <2>1. ASSUME Busy' PROVE cancel' /\ (stack' # <<>> => Here'.at = "look")
    <3>1. ~file.failed /\ stack' = stack
      BY <1>1, <2>1 DEF EndCopy, Fail, Busy
    <3>2. cancel
      BY <1>1, <3>1 DEF ShapeInv
    <3> QED
      BY <1>1, <1>2, <3>1, <3>2 DEF Here, Last
  <2> QED
    BY <2>1
<1>5. file.path \notin stuck /\ ~Copied'
  BY <1>1, <1>2 DEF LeftInv, Copied, NoFile
<1>6. ASSUME Marked("Removed"), dest' = Without(file.path), stuck' = stuck
      PROVE  mark'.what = "Removed" /\ DispositionTrue'
  <2>1. mark'.what = "Removed" /\ mark'.path = file.path
    BY <1>6 DEF Marked
  <2>2. mark'.path \notin DOMAIN dest'
    BY <1>6, <2>1, WithoutAt
  <2>3. At(mark.path)' = "absent"
    BY <2>2 DEF At
  <2> QED
    BY <2>1, <2>3 DEF DispositionTrue
<1>7. CASE CleanUpUpload
  <2>1. upload /\ upload' /\ mark'.what \in {"none", "Removed"} /\ DispositionTrue'
    <3>1. upload /\ upload'
      BY <1>1, <1>7 DEF CleanUpUpload
    <3>2. CASE mark' = mark
      BY <1>2, <3>1, <3>2 DEF DispositionTrue
    <3> QED
      BY <1>6, <1>7, <3>1, <3>2 DEF CleanUpUpload
  <2>2. ASSUME NEW p \in DOMAIN dest', dest'[p] = "part" PROVE p \in stuck'
    <3>1. CASE dest' = Without(file.path) /\ stuck' = stuck
      <4>1. p \in DOMAIN dest \ {file.path} /\ dest[p] = "part"
        BY <2>2, <3>1, WithoutAt
      <4> QED
        BY <2>1, <3>1, <4>1 DEF LeftInv
    <3>2. CASE stuck' = stuck \cup {file.path} /\ dest' = dest
      BY <2>1, <2>2, <3>2 DEF LeftInv
    <3> QED
      BY <1>7, <3>1, <3>2 DEF CleanUpUpload
  <2> QED
    BY <1>1, <1>4, <1>5, <2>1, <2>2 DEF LeftInv
<1>8. CASE CleanUpDownload
  <2>1. ~upload'
    BY <1>1, <1>8 DEF CleanUpDownload
  <2>2. mark'.what \in {"Removed", "KeptResumable"} /\ DispositionTrue'
    <3>1. CASE Marked("KeptResumable") /\ UNCHANGED <<dest, stuck>>
      <4>1. mark'.what = "KeptResumable" /\ mark'.path = file.path
        BY <3>1 DEF Marked
      <4>2. At(mark.path)' = "part"
        BY <1>2, <3>1, <4>1 DEF At
      <4> QED
        BY <1>5, <2>1, <3>1, <4>1, <4>2 DEF DispositionTrue
    <3>2. CASE stuck' = stuck \cup {file.path} /\ Marked("Removed")
      <4>1. mark'.what = "Removed" /\ mark'.path = file.path
        BY <3>2 DEF Marked
      <4> QED
        BY <2>1, <3>2, <4>1 DEF DispositionTrue
    <3> QED
      BY <1>6, <1>8, <3>1, <3>2 DEF CleanUpDownload
  <2> QED
    BY <1>1, <1>4, <1>5, <2>1, <2>2 DEF LeftInv
<1> QED
  BY <1>7, <1>8

(* One step keeps what is said of the leftovers.                           *)
LEMMA LeftStep ==
  ASSUME ShapeInv, LeftInv, [TreeNext]_treeVars
  PROVE  LeftInv'
<1>1. ASSUME Cancel PROVE LeftInv'
  <2>1. UNCHANGED <<upload, stack, file, dest, stuck, mark, result>> /\ cancel' = TRUE
    BY <1>1 DEF Cancel
  <2> QED
    BY <2>1 DEF LeftInv, Copied, Here, Last, Busy, DispositionTrue, At
<1>2. ASSUME Retry PROVE LeftInv'
  <2>1. /\ UNCHANGED <<upload, file, dest, stuck>> /\ mark' = NoMark
        /\ file = NoFile
    BY <1>2 DEF Retry, ShapeInv
  <2>2. ~Copied /\ ~Copied'
    BY <2>1 DEF Copied, NoFile
  <2>3. mark'.what = "none"
    BY <2>1 DEF NoMark
  <2> QED
    BY <2>1, <2>2, <2>3 DEF LeftInv, DispositionTrue
<1>3. ASSUME UNCHANGED treeVars PROVE LeftInv'
  <2>1. UNCHANGED <<upload, stack, file, dest, stuck, mark, cancel, result>>
    BY <1>3 DEF treeVars
  <2> QED
    BY <2>1 DEF LeftInv, Copied, Here, Last, Busy, DispositionTrue, At
<1> QED
  BY <1>1, <1>2, <1>3, WalkLeft, CopyLeft, CleanUpLeft DEF TreeNext, Run, CopyFile

(* What arrived stays there, whatever a step does to the rest.              *)
ArrivedKept == \A p : Arrived(p) => Arrived(p)'

(* What is done with stays so.                                              *)
LEMMA DoneKept ==
  ASSUME DirsKept, ArrivedKept, tree' = tree, NEW F, DoneWith(F)
  PROVE  DoneWith(F)'
<1>1. ASSUME NEW d \in F PROVE At(d[2])' = "dir" /\ Len(d[2]) <= MaxTreeDepth
  BY DEF DirsKept, DoneWith
<1>2. Below(tree, F, "Dir")' \subseteq F
  BY DEF DoneWith
<1>3. ASSUME NEW f \in Below(tree, F, "File")' PROVE Arrived(f[2])'
  <2>1. f \in Below(tree, F, "File")
    OBVIOUS
  <2> QED
    BY <2>1 DEF DoneWith, ArrivedKept
<1> QED
  BY <1>1, <1>2, <1>3 DEF DoneWith

(* An entry that was taken stays so, as long as the stack keeps the         *)
(* directory it leads to and the file it led to is opened.                  *)
LEMMA TakenKept ==
  ASSUME ArrivedKept, tree' = tree, NEW F, NEW G, F \subseteq G,
         NEW i \in Nat, NEW j, Taken(F, i, j),
         stack'[i].dir = stack[i].dir, stack'[i].path = stack[i].path,
         i < Len(stack) =>
           \/ i < Len(stack') /\ stack'[i + 1].dir = stack[i + 1].dir
              /\ stack'[i + 1].path = stack[i + 1].path
           \/ <<stack[i + 1].dir, stack[i + 1].path>> \in G,
         file.at = "open" => file'.at \in {"open", "loop"} /\ file'.path = file.path
  PROVE  Taken(G, i, j)'
<1>1. PICK e : e = tree[stack[i].dir][j]
  OBVIOUS
<1>2. PICK path : path = Path(i, j)
  OBVIOUS
<1>3. path = Path(i, j)' /\ e = tree'[stack'[i].dir][j]
  BY <1>1, <1>2 DEF Path
<1>4. PlainName(e.name) =>
        /\ e.kind = "Dir" => \/ <<e.dir, path>> \in F
                             \/ /\ i < Len(stack)
                                /\ stack[i + 1].dir = e.dir /\ stack[i + 1].path = path
        /\ e.kind = "File" => Arrived(path) \/ (file.at = "open" /\ file.path = path)
  BY <1>1, <1>2 DEF Taken
<1>5. ASSUME PlainName(e.name), e.kind = "Dir"
      PROVE  \/ <<e.dir, path>> \in G
             \/ /\ i < Len(stack')
                /\ stack'[i + 1].dir = e.dir /\ stack'[i + 1].path = path
  BY <1>4, <1>5
<1>6. ASSUME PlainName(e.name), e.kind = "File"
      PROVE  Arrived(path)' \/ (file'.at = "open" /\ file'.path = path)
  <2>1. CASE Arrived(path)
    BY <2>1 DEF ArrivedKept
  <2>2. CASE file.at = "open" /\ file.path = path
    <3>1. file'.at \in {"open", "loop"} /\ file'.path = path
      BY <2>2
    <3> QED
      BY <3>1 DEF Arrived, Copied
  <2> QED
    BY <1>4, <1>6, <2>1, <2>2
<1> QED
  BY <1>3, <1>5, <1>6 DEF Taken

(* A step that puts the innermost directory on to another step, without     *)
(* taking an entry, takes nothing from what was walked.                     *)
LEMMA TopWalked ==
  ASSUME ShapeInv, Walking, NEW f \in Frames(tree), SetTop(f), DirsKept, ArrivedKept,
         tree' = tree, file' = file, f.dir = Here.dir, f.path = Here.path,
         f.at \in {"look", "entry"} =>
           \/ Seen(f) = 0
           \/ Here.at \in {"look", "entry"} /\ Seen(f) = Seen(Here),
         NEW F, Walked(F)
  PROVE  Walked(F)'
<1>1. stack \in Seq(Frames(tree)) /\ stack # <<>> /\ file = NoFile
  BY DEF ShapeInv, Walking
<1>2. /\ Len(stack') = Len(stack) /\ stack' # <<>> /\ Len(stack) \in Nat \ {0}
      /\ \A i \in 1..Len(stack) - 1 : stack'[i] = stack[i]
      /\ stack'[Len(stack)] = f
  BY <1>1, TopSet
<1>3. Here = stack[Len(stack)]
  BY <1>1, TopFrame
<1>4. \A i \in 1..Len(stack) : stack'[i].dir = stack[i].dir /\ stack'[i].path = stack[i].path
  BY <1>2, <1>3
<1>5. DoneWith(F)'
  BY DoneKept DEF Walked
<1>6. file.at # "open"
  BY <1>1 DEF NoFile
<1>7. ASSUME NEW i \in 1..Len(stack'), stack'[i].at \in {"look", "entry"},
             NEW j \in 1..Seen(stack[i])'
      PROVE  Taken(F, i, j)'
  <2>1. i \in 1..Len(stack) /\ i \in Nat
    BY <1>2
  <2>2. stack[i].at \in {"look", "entry"} /\ j \in 1..Seen(stack[i])
    <3>1. CASE i \in 1..Len(stack) - 1
      BY <1>2, <1>7, <3>1 DEF Seen
    <3>2. CASE i = Len(stack)
      <4>1. Seen(stack[i])' = Seen(f) /\ stack[i] = Here
        BY <1>2, <1>3, <3>2 DEF Seen
      <4> QED
        BY <1>2, <1>7, <3>2, <4>1
    <3> QED
      BY <1>2, <2>1, <3>1, <3>2
  <2>3. Taken(F, i, j)
    BY <2>1, <2>2 DEF Walked
  <2>4. i < Len(stack) => i < Len(stack') /\ i + 1 \in 1..Len(stack)
    BY <1>2, <2>1
  <2> QED
    BY <1>4, <1>6, <2>1, <2>3, <2>4, TakenKept
<1> QED
  BY <1>2, <1>5, <1>7 DEF Walked

(* The outermost directory is the one the tree starts from.                 *)
LEMMA RootFrame ==
  ASSUME ShapeInv, stack # <<>>
  PROVE  stack[1].dir = Top /\ stack[1].path = <<>>
<1>1. 1 \in 1..Len(stack)
  BY EmptySeq DEF ShapeInv
<1>2. <<stack[1].dir, stack[1].path>> \in Levels[tree][0]
  BY <1>1 DEF ShapeInv, FrameOK
<1>3. Levels[tree][0] = {<<Top, <<>>>>}
  BY LevelSolved DEF ShapeInv
<1> QED
  BY <1>2, <1>3

(* A directory whose listing is at its end is done with.                    *)
LEMMA HereDone ==
  ASSUME ShapeInv, Walking, Here.at = "look", Here.rest = <<>>, NEW F, Walked(F)
  PROVE  DoneWith(F \cup {<<Here.dir, Here.path>>})
<1> DEFINE h == <<Here.dir, Here.path>>
<1>1. stack # <<>> /\ ~Copied /\ file.at # "open" /\ DoneWith(F)
  BY DEF Walking, Copied, NoFile, Walked
<1>2. /\ Here = stack[Len(stack)] /\ Here \in Frames(tree) /\ FrameOK(Len(stack))
      /\ Len(stack) \in Nat \ {0} /\ MaxTreeDepth \in Nat
  BY <1>1, TopFrame, EmptySeq, BoundsAssumption DEF ShapeInv
<1>3. At(h[2]) = "dir" /\ Len(h[2]) <= MaxTreeDepth
  BY <1>2 DEF FrameOK
<1>4. Here.dir \in DOMAIN tree
  BY <1>2 DEF Frames
<1>5. tree[Here.dir] \in Seq(Entries(tree)) /\ Len(tree[Here.dir]) \in Nat
  BY <1>4, TreeFacts DEF ShapeInv
<1>6. DOMAIN tree[Here.dir] = 1..Len(tree[Here.dir]) /\ Seen(Here) = Len(tree[Here.dir])
  BY <1>5, LenProperties DEF Seen
<1>7. ASSUME NEW j \in DOMAIN tree[Here.dir]
      PROVE  Taken(F, Len(stack), j)
  BY <1>2, <1>6, <1>7 DEF Walked
<1>8. ASSUME NEW kind \in {"Dir", "File"}, NEW b \in Below(tree, F \cup {h}, kind)
      PROVE  IF kind = "Dir" THEN b \in F ELSE Arrived(b[2])
  <2>1. PICK d \in F \cup {h} : \E i \in DOMAIN tree[d[1]] :
           /\ PlainName(tree[d[1]][i].name) /\ tree[d[1]][i].kind = kind
           /\ b = <<tree[d[1]][i].dir, d[2] \o tree[d[1]][i].name>>
    BY <1>8 DEF Below
  <2>2. PICK i \in DOMAIN tree[d[1]] :
           /\ PlainName(tree[d[1]][i].name) /\ tree[d[1]][i].kind = kind
           /\ b = <<tree[d[1]][i].dir, d[2] \o tree[d[1]][i].name>>
    BY <2>1
  <2>3. CASE d \in F
    <3>1. b \in Below(tree, F, kind)
      BY <2>2, <2>3, BelowHas
    <3> QED
      BY <1>1, <1>8, <3>1 DEF DoneWith
  <2>4. CASE d = h
    <3>1. d[1] = Here.dir /\ d[2] = Here.path
      BY <2>4
    <3>2. Taken(F, Len(stack), i) /\ stack[Len(stack)] = Here
      BY <1>2, <1>7, <2>2, <3>1
    <3>3. PICK e : e = tree[Here.dir][i]
      OBVIOUS
    <3>4. PICK path : path = Here.path \o e.name
      OBVIOUS
    <3>5. PlainName(e.name) /\ e.kind = kind /\ b = <<e.dir, path>>
      BY <2>2, <3>1, <3>3, <3>4
    <3>6. Path(Len(stack), i) = path
      BY <3>2, <3>3, <3>4 DEF Path
    <3>7. ~ (Len(stack) < Len(stack))
      BY <1>2
    <3>8. /\ kind = "Dir" => <<e.dir, path>> \in F
          /\ kind = "File" => Arrived(path)
      BY <1>1, <3>2, <3>3, <3>5, <3>6, <3>7 DEF Taken
    <3> QED
      BY <1>8, <3>5, <3>8
  <2> QED
    BY <2>3, <2>4
<1>9. Below(tree, F \cup {h}, "Dir") \subseteq F \cup {h}
  BY <1>8
<1>10. \A f \in Below(tree, F \cup {h}, "File") : Arrived(f[2])
  BY <1>8
<1>11. \A d \in F \cup {h} : At(d[2]) = "dir" /\ Len(d[2]) <= MaxTreeDepth
  BY <1>1, <1>3 DEF DoneWith
<1> HIDE DEF h
<1>12. DoneWith(F \cup {h})
  BY <1>9, <1>10, <1>11 DEF DoneWith
<1> QED
  BY <1>12 DEF h

(* A directory that is left joins those that are done with.                *)
LEMMA LeaveWalked ==
  ASSUME ShapeInv, Leave, ~cancel, NEW F, Walked(F)
  PROVE  \E G : Walked(G)'
<1>1. /\ Walking /\ stack # <<>> /\ UNCHANGED <<tree, file, dest>> /\ file = NoFile
      /\ Here.at = "look" /\ Here.rest = <<>> /\ stack' = Front(stack)
  BY DEF Leave, Walking, transferVars
<1>2. DirsKept /\ ArrivedKept /\ file.at # "open"
  BY <1>1, DestSame DEF ArrivedKept, Arrived, Copied, NoFile
<1>3. /\ Here = stack[Len(stack)] /\ stack \in Seq(Frames(tree))
  BY <1>1, TopFrame DEF ShapeInv
<1>4. /\ Len(stack') = Len(stack) - 1 /\ Len(stack) \in Nat \ {0}
      /\ \A i \in 1..Len(stack) - 1 : stack'[i] = stack[i]
      /\ stack' = <<>> <=> Len(stack) = 1
  BY <1>1, <1>3, TopLeft
<1>5. PICK h : h = <<Here.dir, Here.path>>
  OBVIOUS
<1>6. PICK G : G = F \cup {h}
  OBVIOUS
<1>7. DoneWith(G)
  BY <1>1, <1>5, <1>6, HereDone
<1>8. DoneWith(G)'
  BY <1>1, <1>2, <1>7, DoneKept
<1>9. ASSUME NEW i \in 1..Len(stack'), stack'[i].at \in {"look", "entry"},
             NEW j \in 1..Seen(stack[i])'
      PROVE  Taken(G, i, j)'
  <2>1. i \in 1..Len(stack) /\ i \in Nat /\ i < Len(stack) /\ stack'[i] = stack[i]
    BY <1>4
  <2>2. Seen(stack[i])' = Seen(stack[i])
    BY <1>1, <2>1 DEF Seen
  <2>3. Taken(F, i, j)
    BY <1>9, <2>1, <2>2 DEF Walked
  <2>4. \/ i < Len(stack') /\ stack'[i + 1] = stack[i + 1]
        \/ stack[i + 1] = Here
    <3>1. CASE i = Len(stack) - 1
      BY <1>3, <1>4, <3>1
    <3>2. CASE i < Len(stack) - 1
      BY <1>4, <2>1, <3>2
    <3> QED
      BY <1>4, <2>1, <3>1, <3>2
  <2>5. \/ i < Len(stack') /\ stack'[i + 1].dir = stack[i + 1].dir
           /\ stack'[i + 1].path = stack[i + 1].path
        \/ <<stack[i + 1].dir, stack[i + 1].path>> \in G
    BY <1>5, <1>6, <2>4
  <2>6. F \subseteq G
    BY <1>6
  <2>7. stack'[i].dir = stack[i].dir /\ stack'[i].path = stack[i].path
    BY <2>1
  <2> QED
    BY <1>1, <1>2, <2>1, <2>3, <2>5, <2>6, <2>7, TakenKept
<1>10. stack' = <<>> => <<Top, <<>>>> \in G
  <2>1. ASSUME stack' = <<>> PROVE <<Top, <<>>>> \in G
    <3>1. Here = stack[1]
      BY <1>3, <1>4, <2>1
    <3>2. h = <<Top, <<>>>>
      BY <1>1, <1>5, <3>1, RootFrame
    <3> QED
      BY <1>6, <3>2
  <2> QED
    BY <2>1
<1>11. Walked(G)'
  BY <1>8, <1>9, <1>10 DEF Walked
<1> QED
  BY <1>11

(* An entry that is taken is walked next, opened next, or passed over.      *)
LEMMA TakeWalked ==
  ASSUME ShapeInv, Take, NEW F, Walked(F)
  PROVE  Walked(F)'
<1>1. /\ Walking /\ stack # <<>> /\ UNCHANGED <<tree, dest>> /\ file = NoFile
      /\ Here.at = "entry"
  BY DEF Take, Walking, transferVars
<1>2. file.at # "open" /\ ~Copied
  BY <1>1 DEF NoFile, Copied
<1>3. DirsKept /\ ArrivedKept
  BY <1>1, <1>2, DestSame DEF ArrivedKept, Arrived
<1>4. /\ Here \in Frames(tree) /\ Here = stack[Len(stack)] /\ FrameOK(Len(stack))
      /\ stack \in Seq(Frames(tree)) /\ Len(stack) \in Nat \ {0}
  BY <1>1, TopFrame, EmptySeq DEF ShapeInv
<1>5. Here.rest # <<>>
  BY <1>1, <1>4 DEF FrameOK
<1>6. PICK e : e = Head(Here.rest)
  OBVIOUS
<1>7. PICK r \in Seq(Entries(tree)) : r = Tail(Here.rest)
  BY <1>1, <1>5, NextEntry
<1>8. PICK f : f = [Here EXCEPT !.at = "look", !.rest = r]
  OBVIOUS
<1>9. /\ f \in Frames(tree) /\ f.dir = Here.dir /\ f.path = Here.path
      /\ f.at = "look" /\ f.rest = r
  BY <1>4, <1>8 DEF Frames
<1>10. /\ Seen(f) = Seen(Here) + 1 /\ e \in Entries(tree) /\ Seen(Here) \in Nat
       /\ e = tree[Here.dir][Seen(Here) + 1]
  BY <1>1, <1>5, <1>6, <1>7, <1>9, NextEntry
<1>11. f = [Here EXCEPT !.at = "look", !.rest = Tail(@)]
  BY <1>7, <1>8
<1>12. PICK path : path = Here.path \o e.name
  OBVIOUS
<1>13. DoneWith(F)'
  BY <1>1, <1>3, DoneKept DEF Walked
<1>14. ASSUME Len(stack') >= Len(stack), stack' # <<>>,
              \A i \in 1..Len(stack) - 1 : stack'[i] = stack[i],
              stack'[Len(stack)] = f,
              \A i \in Len(stack) + 1..Len(stack') : stack'[i].at = "enter",
              Len(stack') \in Nat,
              PlainName(e.name) /\ e.kind = "Dir" =>
                /\ Len(stack) < Len(stack')
                /\ stack'[Len(stack) + 1].dir = e.dir /\ stack'[Len(stack) + 1].path = path,
              PlainName(e.name) /\ e.kind = "File" => file'.at = "open" /\ file'.path = path
       PROVE  Walked(F)'
  <2>1. \A i \in 1..Len(stack) : stack'[i].dir = stack[i].dir /\ stack'[i].path = stack[i].path
    BY <1>4, <1>9, <1>14
  <2>2. ASSUME NEW i \in 1..Len(stack'), stack'[i].at \in {"look", "entry"},
               NEW j \in 1..Seen(stack[i])'
        PROVE  Taken(F, i, j)'
    <3>1. i \in 1..Len(stack) /\ i \in Nat
      BY <1>4, <1>14, <2>2
    <3>2. CASE i = Len(stack) /\ j = Seen(Here) + 1
      <4>1. e = tree'[stack'[i].dir][j] /\ path = Path(i, j)'
        BY <1>1, <1>4, <1>10, <1>12, <2>1, <3>1, <3>2 DEF Path
      <4> QED
        BY <1>14, <3>2, <4>1 DEF Taken
    <3>3. CASE ~ (i = Len(stack) /\ j = Seen(Here) + 1)
      <4>1. stack[i].at \in {"look", "entry"} /\ j \in 1..Seen(stack[i])
        <5>1. CASE i \in 1..Len(stack) - 1
          <6>1. stack'[i] = stack[i]
            BY <1>14, <5>1
          <6>2. Seen(stack[i])' = Seen(stack[i])
            BY <1>1, <6>1 DEF Seen
          <6> QED
            BY <2>2, <6>1, <6>2
        <5>2. CASE i = Len(stack)
          <6>1. Seen(stack[i])' = Seen(f) /\ stack[i] = Here
            BY <1>1, <1>4, <1>14, <5>2 DEF Seen
          <6>2. j \in 1..Seen(Here) + 1 /\ j # Seen(Here) + 1
            BY <1>10, <2>2, <3>3, <5>2, <6>1
          <6> QED
            BY <1>1, <1>10, <6>1, <6>2
        <5> QED
          BY <1>4, <3>1, <5>1, <5>2
      <4>2. Taken(F, i, j)
        BY <3>1, <4>1 DEF Walked
      <4>3. i < Len(stack) => i < Len(stack') /\ i + 1 \in 1..Len(stack)
        BY <1>4, <1>14, <3>1
      <4> QED
        BY <1>1, <1>2, <1>3, <2>1, <3>1, <4>2, <4>3, TakenKept
    <3> QED
      BY <3>2, <3>3
  <2> QED
    BY <1>13, <1>14, <2>2 DEF Walked
<1>15. \/ /\ SetTop(f) /\ ~ (PlainName(e.name) /\ e.kind \in {"Dir", "File"})
       \/ /\ PlainName(e.name) /\ e.kind = "Dir"
          /\ stack' = Append(Append(Front(stack), f), Frame(e.dir, path))
       \/ /\ PlainName(e.name) /\ e.kind = "File" /\ SetTop(f)
          /\ file' = [NoFile EXCEPT !.at = "open", !.path = path, !.size = e.size]
  BY <1>6, <1>11, <1>12 DEF Take
<1>16. CASE SetTop(f) /\ ~ (PlainName(e.name) /\ e.kind = "Dir")
  <2>1. /\ Len(stack') = Len(stack) /\ stack' # <<>>
        /\ \A i \in 1..Len(stack) - 1 : stack'[i] = stack[i]
        /\ stack'[Len(stack)] = f
    BY <1>1, <1>4, <1>9, <1>16, TopSet
  <2>2. PlainName(e.name) /\ e.kind = "File" => file'.at = "open" /\ file'.path = path
    BY <1>15 DEF NoFile
  <2>3. \A i \in Len(stack) + 1..Len(stack') : stack'[i].at = "enter"
    BY <1>4, <2>1
  <2>4. Len(stack') >= Len(stack) /\ Len(stack') \in Nat
    BY <1>4, <2>1
  <2> QED
    BY <1>14, <1>16, <2>1, <2>2, <2>3, <2>4
<1>17. CASE /\ PlainName(e.name) /\ e.kind = "Dir"
            /\ stack' = Append(Append(Front(stack), f), Frame(e.dir, path))
  <2>1. PICK g : g = Frame(e.dir, path)
    OBVIOUS
  <2>2. path \in Seq(STRING)
    BY <1>1, <1>6, <1>12, <1>17, Found
  <2>3. g.dir = e.dir /\ g.path = path /\ g.at = "enter" /\ g \in Frames(tree)
    <3>1. <<>> \in Seq(Entries(tree)) /\ e.dir \in DOMAIN tree
      BY <1>10, EmptySeq DEF Entries
    <3> QED
      BY <2>1, <2>2, <3>1 DEF Frame, Frames
  <2>4. /\ Len(stack') = Len(stack) + 1 /\ stack' # <<>>
        /\ \A i \in 1..Len(stack) - 1 : stack'[i] = stack[i]
        /\ stack'[Len(stack)] = f /\ stack'[Len(stack) + 1] = g
    BY <1>1, <1>4, <1>9, <1>17, <2>1, <2>3, TopPushed
  <2>5. \A i \in Len(stack) + 1..Len(stack') : stack'[i].at = "enter"
    BY <1>4, <2>3, <2>4
  <2>6. Len(stack') >= Len(stack) /\ Len(stack') \in Nat /\ Len(stack) < Len(stack')
    BY <1>4, <2>4
  <2> QED
    BY <1>14, <1>17, <2>3, <2>4, <2>5, <2>6
<1> QED
  BY <1>15, <1>16, <1>17

(* A copy that goes on, or that ended well, leaves all that was walked.     *)
LEMMA CopyWalked ==
  ASSUME ShapeInv, UNCHANGED <<tree, stack>>, DirsKept, ArrivedKept,
         file.at = "open" => file'.at \in {"open", "loop"} /\ file'.path = file.path,
         NEW F, Walked(F)
  PROVE  Walked(F)'
<1>1. DoneWith(F)'
  BY DoneKept DEF Walked
<1>2. Len(stack) \in Nat
  BY LenProperties DEF ShapeInv
<1>3. ASSUME NEW i \in 1..Len(stack'), stack'[i].at \in {"look", "entry"},
             NEW j \in 1..Seen(stack[i])'
      PROVE  Taken(F, i, j)'
  <2>1. Seen(stack[i])' = Seen(stack[i]) /\ i \in Nat
    BY <1>2 DEF Seen
  <2>2. Taken(F, i, j)
    BY <1>3, <2>1 DEF Walked
  <2> QED
    BY <2>1, <2>2, TakenKept
<1> QED
  BY <1>1, <1>3 DEF Walked

(* One step keeps what was walked.                                         *)
LEMMA WalkStep ==
  ASSUME ShapeInv, WalkInv, [TreeNext]_treeVars
  PROVE  WalkInv'
<1> SUFFICES ASSUME Busy', ~cancel', ~file'.failed
             PROVE  \E F : Walked(F)'
  BY DEF WalkInv
<1>1. ASSUME Fail PROVE FALSE
  BY <1>1 DEF Fail, Busy
<1>2. ASSUME Busy, ~cancel, ~file.failed PROVE \E F : Walked(F)
  BY <1>2 DEF WalkInv
<1>3. CASE Enter
  <2>1. /\ Walking /\ UNCHANGED <<tree, cancel, file>> /\ stack # <<>>
        /\ SetTop([Here EXCEPT !.at = "list"]) /\ Put(Here.path, "dir")
        /\ At(Here.path) \in {"dir", "absent"} /\ Busy /\ file = NoFile
    BY <1>1, <1>3 DEF Enter, Walking, transferVars
  <2>2. PICK F : Walked(F)
    BY <1>2, <2>1
  <2>3. PICK f : f = [Here EXCEPT !.at = "list"]
    OBVIOUS
  <2>4. f \in Frames(tree) /\ f.dir = Here.dir /\ f.path = Here.path /\ f.at = "list"
    BY <2>1, <2>3, TopFrame, AtStep
  <2>5. \A p : At(p)' = IF p = Here.path THEN "dir" ELSE At(p)
    BY <2>1, PutAt
  <2>6. DirsKept
    BY <2>5 DEF DirsKept
  <2>7. ArrivedKept
    <3>1. ~Copied /\ ~Copied'
      BY <2>1 DEF Copied, NoFile
    <3>2. \A p : At(p) = "whole" => At(p)' = "whole"
      BY <2>1, <2>5
    <3> QED
      BY <3>1, <3>2 DEF ArrivedKept, Arrived
  <2> QED
    BY <2>1, <2>2, <2>3, <2>4, <2>6, <2>7, TopWalked
<1>4. CASE List \/ Look
  <2>1. /\ Walking /\ UNCHANGED <<tree, cancel, file, dest>> /\ stack # <<>>
        /\ Busy /\ file = NoFile
    BY <1>1, <1>4 DEF List, Look, Walking, transferVars
  <2>2. PICK F : Walked(F)
    BY <1>2, <2>1
  <2>3. DirsKept /\ ArrivedKept
    BY <2>1, DestSame DEF ArrivedKept, Arrived, Copied, NoFile
  <2>4. Here \in Frames(tree) /\ Here.dir \in DOMAIN tree
    BY <2>1, TopFrame DEF Frames
  <2>5. tree[Here.dir] \in Seq(Entries(tree)) /\ Len(tree[Here.dir]) \in Nat
    BY <2>4, TreeFacts DEF ShapeInv
  <2>6. CASE List
    <3>1. PICK r \in Seq(Entries(tree)) : r = tree[Here.dir]
      BY <2>5
    <3>2. PICK f : f = [Here EXCEPT !.at = "look", !.rest = r]
      OBVIOUS
    <3>3. /\ f \in Frames(tree) /\ f.dir = Here.dir /\ f.path = Here.path
          /\ f.at = "look" /\ f.rest = r
      BY <2>4, <3>2 DEF Frames
    <3>4. f = [Here EXCEPT !.at = "look", !.rest = tree[Here.dir]]
      BY <3>1, <3>2
    <3>5. SetTop(f)
      BY <1>1, <2>6, <3>4 DEF List
    <3>6. Seen(f) = 0
      BY <2>5, <3>1, <3>3 DEF Seen
    <3> QED
      BY <2>1, <2>2, <2>3, <3>3, <3>5, <3>6, TopWalked
  <2>7. CASE Look
    <3>1. PICK f : f = [Here EXCEPT !.at = "entry"]
      OBVIOUS
    <3>2. /\ f \in Frames(tree) /\ f.dir = Here.dir /\ f.path = Here.path
          /\ f.at = "entry" /\ f.rest = Here.rest
      BY <2>4, <3>1, AtStep
    <3>3. SetTop(f) /\ Here.at = "look" /\ Seen(f) = Seen(Here)
      BY <2>7, <3>1, <3>2 DEF Look, Seen
    <3> QED
      BY <2>1, <2>2, <2>3, <3>2, <3>3, TopWalked
  <2> QED
    BY <1>4, <2>6, <2>7
<1>5. CASE Leave
  <2>1. ~cancel /\ Busy /\ ~file.failed
    BY <1>5 DEF Leave, Walking, transferVars, NoFile
  <2> QED
    BY <1>2, <1>5, <2>1, LeaveWalked
<1>6. CASE Take
  <2>1. ~cancel /\ Busy /\ ~file.failed
    BY <1>6 DEF Take, Walking, transferVars, NoFile
  <2> QED
    BY <1>2, <1>6, <2>1, TakeWalked
<1>7. CASE Outcome
  BY <1>7 DEF Outcome, Busy
<1>8. CASE OpenFile
  <2>1. /\ UNCHANGED <<tree, cancel, stack>> /\ Busy /\ file.at = "open"
        /\ At(file.path) # "dir" /\ Put(file.path, "part")
        /\ \E offset \in 0..file.size : file' = [file EXCEPT !.at = "loop", !.done = offset]
    BY <1>1, <1>8 DEF OpenFile, copying, transferVars
  <2>2. file # NoFile /\ file \in Copies /\ ~file.failed
    BY <2>1, CopyFacts DEF ShapeInv
  <2>3. PICK F : Walked(F)
    BY <1>2, <2>1, <2>2
  <2>4. file'.at = "loop" /\ file'.path = file.path
    BY <2>1, <2>2 DEF Copies
  <2>5. \A p : At(p)' = IF p = file.path THEN "part" ELSE At(p)
    BY <2>1, PutAt
  <2>6. DirsKept
    BY <2>1, <2>5, FileKeepsDirs
  <2>7. ArrivedKept
    BY <2>1, <2>4, <2>5 DEF ArrivedKept, Arrived, Copied
  <2> QED
    BY <2>1, <2>3, <2>4, <2>6, <2>7, CopyWalked
<1>9. CASE CopyChunk \/ StopCopy
  <2>1. UNCHANGED <<tree, cancel, stack, dest>> /\ Busy /\ file.at = "loop" /\ Copied
    BY <1>9 DEF CopyChunk, StopCopy, copying, transferVars, Copied
  <2>2. file # NoFile /\ file \in Copies /\ ~file.failed
    BY <2>1, CopyFacts DEF ShapeInv
  <2>3. PICK F : Walked(F)
    BY <1>2, <2>1, <2>2
  <2>4. file'.path = file.path /\ file'.at \in {"loop", "close", "clean"}
    <3>1. CASE file' = [file EXCEPT !.done = @ + 1]
      BY <2>1, <2>2, <3>1 DEF Copies
    <3>2. CASE file' = [file EXCEPT !.at = "clean"]
      BY <2>2, <3>2 DEF Copies
    <3>3. CASE file' = [file EXCEPT !.at = "close"]
      BY <2>2, <3>3 DEF Copies
    <3>4. CASE file' = [file EXCEPT !.at = "clean", !.failed = TRUE]
      BY <2>2, <3>4 DEF Copies
    <3> QED
      BY <1>9, <3>1, <3>2, <3>3, <3>4 DEF CopyChunk, StopCopy
  <2>5. DirsKept /\ \A p : At(p)' = At(p)
    BY <2>1, DestSame
  <2>6. ArrivedKept
    BY <2>4, <2>5 DEF ArrivedKept, Arrived, Copied
  <2> QED
    BY <2>1, <2>3, <2>5, <2>6, CopyWalked
<1>10. CASE CloseFile
  <2>1. /\ UNCHANGED <<tree, cancel, stack>> /\ Busy /\ file.at = "close" /\ file' = NoFile
        /\ Put(file.path, IF file.done = file.size THEN "whole" ELSE "part")
    BY <1>1, <1>10 DEF CloseFile, transferVars
  <2>2. /\ file # NoFile /\ file \in Copies /\ ~file.failed /\ file.done = file.size
        /\ At(file.path) = "part"
    BY <2>1, CopyFacts DEF ShapeInv, Copied
  <2>3. PICK F : Walked(F)
    BY <1>2, <2>1, <2>2
  <2>4. Put(file.path, "whole")
    BY <2>1, <2>2
  <2>5. \A p : At(p)' = IF p = file.path THEN "whole" ELSE At(p)
    BY <2>4, PutAt
  <2>6. DirsKept
    BY <2>2, <2>5, FileKeepsDirs
  <2>7. ArrivedKept
    BY <2>5 DEF ArrivedKept, Arrived
  <2> QED
    BY <2>1, <2>3, <2>6, <2>7, CopyWalked
<1>11. CASE CleanUpUpload \/ CleanUpDownload
  <2>1. file.at = "clean" /\ EndCopy /\ cancel' = cancel
    BY <1>11 DEF CleanUpUpload, CleanUpDownload, transferVars
  <2> QED
    BY <1>1, <2>1 DEF EndCopy, ShapeInv
<1>12. CASE Cancel
  BY <1>12 DEF Cancel
<1>13. CASE Retry
  <2>1. stack' = <<Frame(Top, <<>>)>>
    BY <1>13 DEF Retry
  <2>2. Len(stack') = 1 /\ stack' # <<>> /\ stack'[1].at = "enter"
    BY <2>1 DEF Frame
  <2>3. DoneWith({})'
    BY DEF DoneWith, Below
  <2>4. Walked({})'
    BY <2>2, <2>3 DEF Walked
  <2> QED
    BY <2>4
<1>14. CASE UNCHANGED treeVars
  <2>1. UNCHANGED <<tree, stack, file, dest, cancel, result>>
    BY <1>14 DEF treeVars
  <2>2. Busy /\ ~cancel /\ ~file.failed
    BY <2>1 DEF Busy
  <2>3. PICK F : Walked(F)
    BY <1>2, <2>2
  <2>4. DirsKept /\ ArrivedKept
    BY <2>1, DestSame DEF ArrivedKept, Arrived, Copied
  <2>5. file.at = "open" => file'.at \in {"open", "loop"} /\ file'.path = file.path
    BY <2>1
  <2> QED
    BY <2>1, <2>3, <2>4, <2>5, CopyWalked
<1> QED
  BY <1>3, <1>4, <1>5, <1>6, <1>7, <1>8, <1>9, <1>10, <1>11, <1>12, <1>13, <1>14
     DEF TreeNext, Run, CopyFile

(* When nothing is left to walk, all the tree is done with.                 *)
LEMMA AllWalked ==
  ASSUME tree \in Trees, NEW F, DoneWith(F), <<Top, <<>>>> \in F, ~Copied
  PROVE  /\ \A d \in Directories[tree] : At(d[2]) = "dir" /\ Len(d[2]) <= MaxTreeDepth
         /\ \A f \in Files[tree] : At(f[2]) = "whole"
<1>1. MaxTreeDepth \in Nat
  BY BoundsAssumption
<1>2. ASSUME NEW D, D \subseteq F, NEW kind PROVE Below(tree, D, kind) \subseteq Below(tree, F, kind)
  BY <1>2 DEF Below
<1> DEFINE S == {n \in Nat : n <= MaxTreeDepth + 1 => Levels[tree][n] \subseteq F}
<1>3. 0 \in S
  BY LevelSolved
<1>4. ASSUME NEW n \in Nat, n \in S PROVE n + 1 \in S
  <2>1. CASE n + 1 <= MaxTreeDepth + 1
    <3>1. n \in 0..MaxTreeDepth /\ n <= MaxTreeDepth + 1
      BY <1>1, <2>1
    <3>2. Levels[tree][n + 1] = Below(tree, Levels[tree][n], "Dir")
      BY <3>1, LevelSolved
    <3>3. Levels[tree][n] \subseteq F
      BY <1>4, <3>1
    <3>4. Levels[tree][n + 1] \subseteq Below(tree, F, "Dir")
      BY <1>2, <3>2, <3>3
    <3>5. Levels[tree][n + 1] \subseteq F
      BY <3>4 DEF DoneWith
    <3> QED
      BY <3>5
  <2>2. CASE ~ (n + 1 <= MaxTreeDepth + 1)
    BY <2>2
  <2> QED
    BY <2>1, <2>2
<1> HIDE DEF S
<1>5. \A n \in Nat : n \in S
  BY <1>3, <1>4, Induction
<1>6. ASSUME NEW n \in 0..MaxTreeDepth + 1 PROVE Levels[tree][n] \subseteq F
  BY <1>1, <1>5 DEF S
<1>7. Directories[tree] \subseteq F
  BY <1>6 DEF Directories
<1>8. Files[tree] \subseteq Below(tree, F, "File")
  BY <1>2, <1>7 DEF Files
<1> QED
  BY <1>7, <1>8 DEF DoneWith, Arrived

(* A transfer becomes complete at its outcome only, with all of it walked. *)
LEMMA CompleteStep ==
  ASSUME ShapeInv, WalkInv, CompleteIsWholeTree, [TreeNext]_treeVars
  PROVE  CompleteIsWholeTree'
<1>1. CASE Outcome
  <2>1. /\ UNCHANGED <<tree, dest, cancel>> /\ Busy /\ stack = <<>> /\ file = NoFile
        /\ result' = IF cancel THEN "Cancelled" ELSE "Complete"
    BY <1>1 DEF Outcome, transferVars
  <2>2. ASSUME ~cancel
        PROVE  /\ \A d \in Directories[tree] : At(d[2]) = "dir" /\ Len(d[2]) <= MaxTreeDepth
               /\ \A f \in Files[tree] : At(f[2]) = "whole"
    <3>1. ~Copied /\ ~file.failed
      BY <2>1 DEF Copied, NoFile
    <3>2. PICK F : Walked(F)
      BY <2>1, <2>2, <3>1 DEF WalkInv
    <3>3. tree \in Trees /\ DoneWith(F) /\ <<Top, <<>>>> \in F
      BY <2>1, <3>2 DEF ShapeInv, Walked
    <3> QED
      BY <3>1, <3>3, AllWalked
  <2> QED
    BY <2>1, <2>2 DEF CompleteIsWholeTree, At
<1>2. ASSUME ~Outcome PROVE result' = "Complete" => UNCHANGED <<tree, dest, result>>
  <2>1. CASE Enter \/ List \/ Leave \/ Look \/ Take
    BY <2>1 DEF Enter, List, Leave, Look, Take, Walking, Busy, Fail
  <2>2. CASE CopyFile
    BY <2>2 DEF CopyFile, OpenFile, CopyChunk, StopCopy, CloseFile, CleanUpUpload,
       CleanUpDownload, EndCopy, Busy, Fail
  <2>3. CASE Cancel \/ Retry
    BY <2>3 DEF Cancel, Retry
  <2>4. CASE UNCHANGED treeVars
    BY <2>4 DEF treeVars
  <2> QED
    BY <1>2, <2>1, <2>2, <2>3, <2>4 DEF TreeNext, Run
<1>3. ASSUME UNCHANGED <<tree, dest, result>> PROVE CompleteIsWholeTree'
  BY <1>3 DEF CompleteIsWholeTree, At
<1>4. result' # "Complete" => CompleteIsWholeTree'
  BY DEF CompleteIsWholeTree
<1> QED
  BY <1>1, <1>2, <1>3, <1>4

(* At first nothing was walked and nothing is partial.                     *)
LEMMA InitTree ==
  ASSUME TreeInit
  PROVE  TreeInv
<1>1. /\ upload \in BOOLEAN /\ tree \in Trees /\ stack = <<Frame(Top, <<>>)>>
      /\ file = NoFile /\ dest \in Kept /\ cancel = FALSE /\ mark = NoMark /\ result = "none"
  BY DEF TreeInit
<1>2. MaxTreeDepth \in Nat /\ ~Copied /\ ~file.failed /\ file.at = "none" /\ Busy
  BY <1>1, BoundsAssumption DEF NoFile, Copied, Busy
<1>3. PICK f : f = Frame(Top, <<>>)
  OBVIOUS
<1>4. /\ f \in Frames(tree) /\ f.dir = Top /\ f.path = <<>> /\ f.at = "enter"
  <2>1. /\ Top \in DOMAIN tree /\ <<>> \in Seq(STRING) /\ <<>> \in Seq(Entries(tree))
    BY <1>1, TreeFacts, EmptySeq
  <2> QED
    BY <1>3, <2>1 DEF Frame, Frames
<1>5. stack = <<f>>
  BY <1>1, <1>3
<1>6. stack \in Seq(Frames(tree)) /\ Len(stack) = 1 /\ stack[1] = f /\ stack # <<>>
  BY <1>4, <1>5
<1>7. Len(f.path) = 0 /\ <<f.dir, f.path>> \in Levels[tree][0]
  BY <1>1, <1>4, EmptySeq, LevelSolved
<1>8. FrameOK(1)
  BY <1>4, <1>6, <1>7 DEF FrameOK
<1>9. file \in Copies
  BY <1>1, EmptySeq DEF NoFile, Copies
<1>10. OnlyThePlain
  BY <1>1 DEF OnlyThePlain, WasThere
<1>11. ShapeInv
  <2>1. Len(stack) <= MaxTreeDepth + 2 /\ \A i \in 1..Len(stack) : FrameOK(i)
    BY <1>2, <1>6, <1>8
  <2> QED
    BY <1>1, <1>2, <1>6, <1>9, <1>10, <2>1 DEF ShapeInv
<1>12. LeftInv
  <2>1. mark.what = "none"
    BY <1>1 DEF NoMark
  <2>2. \A p \in DOMAIN dest : dest[p] # "part"
    BY <1>1, KeptAssumption
  <2> QED
    BY <1>1, <1>2, <2>1, <2>2 DEF LeftInv, DispositionTrue
<1>13. WalkInv
  <2>1. DoneWith({})
    BY DEF DoneWith, Below
  <2>2. Walked({})
    BY <1>4, <1>6, <2>1 DEF Walked
  <2> QED
    BY <2>2 DEF WalkInv
<1> QED
  BY <1>1, <1>11, <1>12, <1>13 DEF TreeInv, CompleteIsWholeTree

(* The walk keeps its invariant, over every tree and every interruption.     *)
LEMMA TreeInvariant == TreeSpec => []TreeInv
<1>1. TreeInit => TreeInv
  BY InitTree
<1>2. TreeInv /\ [TreeNext]_treeVars => TreeInv'
  BY ShapeStep, LeftStep, WalkStep, CompleteStep DEF TreeInv
<1> QED
  BY <1>1, <1>2, PTL DEF TreeSpec

(* transfer_tree: a transfer that says it is complete put every directory   *)
(* and every file at the destination, and none put anything else there.     *)
THEOREM TreeAlwaysArrives == TreeSpec => []TreeArrives
<1>1. TreeInv => TreeArrives
  BY DEF TreeInv, ShapeInv, TreeArrives
<1> QED
  BY <1>1, TreeInvariant, PTL

(* What a transfer that ended left behind is what it says it left.          *)
THEOREM LeftoversAlwaysTold == TreeSpec => []LeftoversAreTold
<1>1. TreeInv => LeftoversAreTold
  BY DEF TreeInv, ShapeInv, LeftInv, LeftoversAreTold, NoPartialUpload, DispositionTrue,
     Copied, NoFile
<1> QED
  BY <1>1, TreeInvariant, PTL

(* What was reported of an attempt is not ahead of what is copied.          *)
CountInv ==
  /\ moved \in Nat /\ reported \in Nat /\ attempts \in Nat
  /\ Busy => reported <= moved + file.done
  /\ file.at = "open" => file.done = 0

(* A step of one attempt reports no less, and keeps the count.              *)
LEMMA CountStep ==
  ASSUME ShapeInv, CountInv, [TreeNext]_treeVars
  PROVE  CountInv' /\ (attempts' = attempts => reported' >= reported)
<1>1. /\ file \in Copies /\ file.done \in Nat /\ moved \in Nat /\ reported \in Nat
      /\ attempts \in Nat
  BY DEF ShapeInv, Copies, CountInv
<1>2. ASSUME moved' = moved, reported' = reported, attempts' = attempts,
             Busy' => Busy /\ file'.done >= file.done, file'.done \in Nat,
             file'.at = "open" => file'.done = 0
      PROVE  CountInv' /\ (attempts' = attempts => reported' >= reported)
  BY <1>1, <1>2 DEF CountInv
<1>3. ASSUME Fail PROVE ~Busy' /\ file'.at # "open" /\ file'.done = 0
  BY <1>3 DEF Fail, Busy, NoFile
<1>4. CASE Enter \/ List \/ Leave \/ Look \/ Outcome \/ Cancel \/ UNCHANGED treeVars
  <2>1. UNCHANGED <<moved, reported, attempts>>
    BY <1>4 DEF Enter, List, Leave, Look, Outcome, Cancel, treeVars, transferVars
  <2>2. Fail \/ (file' = file /\ (Busy' => Busy))
    BY <1>4 DEF Enter, List, Leave, Look, Outcome, Cancel, treeVars, Busy, Walking
  <2>3. CASE Fail
    BY <1>2, <1>3, <2>1, <2>3
  <2>4. CASE file' = file /\ (Busy' => Busy)
    BY <1>1, <1>2, <2>1, <2>4 DEF CountInv
  <2> QED
    BY <2>2, <2>3, <2>4
<1>5. CASE Take
  <2>1. UNCHANGED <<moved, reported, attempts>> /\ file = NoFile /\ Busy
    BY <1>5 DEF Take, Walking, transferVars
  <2>2. file'.done = 0
    <3>1. PICK e, path : e = Head(Here.rest) /\ path = Here.path \o e.name
      OBVIOUS
    <3>2. \/ file' = file
          \/ file' = [NoFile EXCEPT !.at = "open", !.path = path, !.size = e.size]
      BY <1>5, <3>1 DEF Take
    <3>3. [NoFile EXCEPT !.at = "open", !.path = path, !.size = e.size].done = 0
      BY DEF NoFile
    <3>4. NoFile.done = 0
      BY DEF NoFile
    <3> QED
      BY <2>1, <3>2, <3>3, <3>4, Zenon
  <2>3. file.done = 0
    BY <2>1 DEF NoFile
  <2> QED
    BY <1>2, <2>1, <2>2, <2>3
<1>6. CASE OpenFile
  <2>1. UNCHANGED <<moved, reported, attempts>> /\ Busy /\ file.at = "open"
    BY <1>6 DEF OpenFile, copying, transferVars
  <2>2. CASE Fail
    BY <1>2, <1>3, <2>1, <2>2
  <2>3. ASSUME NEW offset \in 0..file.size, file' = [file EXCEPT !.at = "loop", !.done = offset]
        PROVE  CountInv' /\ (attempts' = attempts => reported' >= reported)
    <3>1. offset \in Nat /\ file.done = 0
      BY <1>1, <2>1, <2>3 DEF Copies, CountInv
    <3>2. file'.done = offset /\ file'.at = "loop"
      BY <1>1, <2>3 DEF Copies
    <3> QED
      BY <1>2, <2>1, <3>1, <3>2
  <2> QED
    BY <1>6, <2>2, <2>3 DEF OpenFile
<1>7. CASE CopyChunk
  <2>1. /\ moved' = moved /\ attempts' = attempts /\ Busy /\ file.at = "loop"
        /\ reported' = moved + file.done + 1 /\ file' = [file EXCEPT !.done = @ + 1]
    BY <1>7 DEF CopyChunk, copying, transferVars
  <2>2. file'.done = file.done + 1 /\ file'.at = "loop"
    BY <1>1, <2>1 DEF Copies
  <2>3. reported <= moved + file.done
    BY <2>1 DEF CountInv
  <2> QED
    BY <1>1, <2>1, <2>2, <2>3 DEF CountInv
<1>8. CASE StopCopy
  <2>1. UNCHANGED <<moved, reported, attempts>> /\ Busy
    BY <1>8 DEF StopCopy, copying, transferVars
  <2>2. file'.done = file.done /\ file'.at # "open"
    <3>1. CASE file' = [file EXCEPT !.at = "clean"]
      BY <1>1, <3>1 DEF Copies
    <3>2. CASE file' = [file EXCEPT !.at = "close"]
      BY <1>1, <3>2 DEF Copies
    <3>3. CASE file' = [file EXCEPT !.at = "clean", !.failed = TRUE]
      BY <1>1, <3>3 DEF Copies
    <3> QED
      BY <1>8, <3>1, <3>2, <3>3 DEF StopCopy
  <2> QED
    BY <1>1, <1>2, <2>1, <2>2
<1>9. CASE CloseFile \/ CleanUpUpload \/ CleanUpDownload
  <2>1. reported' = reported /\ attempts' = attempts /\ Busy
    BY <1>9 DEF CloseFile, CleanUpUpload, CleanUpDownload, transferVars
  <2>2. (Fail /\ moved' = moved) \/ (file' = NoFile /\ moved' = moved + file.done)
    BY <1>9 DEF CloseFile, CleanUpUpload, CleanUpDownload, EndCopy
  <2>3. CASE Fail /\ moved' = moved
    BY <1>2, <1>3, <2>1, <2>3
  <2>4. CASE file' = NoFile /\ moved' = moved + file.done
    <3>1. file'.done = 0 /\ file'.at # "open"
      BY <2>4 DEF NoFile
    <3>2. reported <= moved + file.done
      BY <2>1 DEF CountInv
    <3> QED
      BY <1>1, <2>1, <2>4, <3>1, <3>2 DEF CountInv
  <2> QED
    BY <2>2, <2>3, <2>4
<1>10. CASE Retry
  <2>1. moved' = 0 /\ reported' = 0 /\ attempts' = attempts + 1 /\ file' = file /\ file = NoFile
    BY <1>10 DEF Retry, ShapeInv
  <2>2. file'.done = 0 /\ file'.at # "open"
    BY <2>1 DEF NoFile
  <2> QED
    BY <1>1, <2>1, <2>2 DEF CountInv
<1> QED
  BY <1>4, <1>5, <1>6, <1>7, <1>8, <1>9, <1>10 DEF TreeNext, Run, CopyFile

(* The progress of one attempt never goes back, over all its files.         *)
THEOREM ProgressNeverBack == TreeSpec => ProgressMonotone
<1>1. TreeInit => CountInv
  BY DEF TreeInit, CountInv, NoFile
<1>2. TreeInv /\ CountInv /\ [TreeNext]_treeVars => CountInv'
  BY CountStep DEF TreeInv
<1>3. TreeInv /\ CountInv /\ [TreeNext]_treeVars =>
        [attempts' = attempts => reported' >= reported]_treeVars
  BY CountStep DEF TreeInv
<1> QED
  BY <1>1, <1>2, <1>3, TreeInvariant, PTL DEF TreeSpec, ProgressMonotone
==============================================================================
