------------------------------ MODULE DeskProofs ------------------------------
(***************************************************************************)
(* What the desk's run checks, for any hosts, keys, files, clients,         *)
(* forwards, snippets and settings: one section for each part, with the     *)
(* invariant its properties need, and at the end the desk of all of them.   *)
(***************************************************************************)
EXTENDS Desk, FiniteSetTheorems, WellFoundedInduction, TLAPS

(* The stores.  hosts.json never holds a password a user typed, whatever     *)
(* fails and however often the program starts again.  The property speaks   *)
(* of the file only, and is not inductive: a save writes the inventory in   *)
(* memory, and the keys pane a copy it read earlier.  The invariant is that *)
(* all three only refer to stable ids and to passwords of the old format,   *)
(* while the vault may hold anything.                                      *)
(*                                                                         *)
(* And what a restart finds: the window's hosts and passwords, and what the *)
(* old format held.  Both speak of an idle window; the invariants say which *)
(* of the two files a difference is still to be saved to (DurableInv), and  *)
(* that a record is saved no later than the host that names it (Sealed).    *)

CleanRefs == {Id(i) : i \in Ids} \cup {Legacy, Nothing}
CleanAuths == [method : {"Agent", "Key", "Password"}, ref : CleanRefs]
CleanHosts ==
  [Ids -> [there : BOOLEAN, user : Users \cup {NoHost.user}, auth : CleanAuths]]
Vaults == [Ids -> Secrets \cup {Nothing}]

IInv ==
  /\ hosts \in CleanHosts /\ vault \in Vaults
  /\ disk \in [hosts : CleanHosts, vault : Vaults]
  /\ rename \in [phase : {"None", "Loaded"}, read : CleanHosts]

\* The references the window writes are clean; a typed password is not.
LEMMA References ==
  /\ Agent \in CleanAuths /\ Key \in CleanAuths
  /\ \A s \in CleanRefs : Password(s) \in CleanAuths
  /\ Typed \notin CleanRefs
  /\ CleanRefs \subseteq Secrets \cup {Nothing}
  BY DEF Agent, Key, Password, CleanAuths, CleanRefs, Typed, Id, Legacy, Nothing,
         Secrets

\* An inventory without hosts is clean.
LEMMA Empty == NoHosts \in CleanHosts /\ NoSecrets \in Vaults
  <1>1. NoHost \in [there : BOOLEAN, user : Users \cup {NoHost.user},
                    auth : CleanAuths]
    BY References DEF NoHost
  <1> QED
    BY <1>1 DEF NoHosts, NoSecrets, CleanHosts, Vaults

\* A clean entry keeps an inventory clean.
LEMMA Entry ==
  ASSUME NEW h \in CleanHosts, NEW i \in Ids,
         NEW e \in [there : BOOLEAN, user : Users \cup {NoHost.user},
                    auth : CleanAuths]
  PROVE  [h EXCEPT ![i] = e] \in CleanHosts
  BY DEF CleanHosts

\* So does another authentication that is clean.
LEMMA NewAuth ==
  ASSUME NEW h \in CleanHosts, NEW i \in Ids, NEW a \in CleanAuths
  PROVE  [h EXCEPT ![i].auth = a] \in CleanHosts
  BY DEF CleanHosts

\* The program starts with clean stores.
LEMMA InitClean == Init => IInv
  <1> SUFFICES ASSUME Init PROVE IInv
    OBVIOUS
  <1>1. PICK u \in Users, a \in {Agent, Key, Password(Legacy)} :
          disk = [hosts |-> [NoHosts EXCEPT ![1] = Host(u, a)], vault |-> NoSecrets]
    BY DEF Init
  <1>2. Legacy \in CleanRefs
    BY DEF CleanRefs
  <1>3. a \in CleanAuths
    BY <1>2, References
  <1>4. Host(u, a) \in [there : BOOLEAN, user : Users \cup {NoHost.user},
                        auth : CleanAuths]
    BY <1>3 DEF Host
  <1>5. [NoHosts EXCEPT ![1] = Host(u, a)] \in CleanHosts
    BY <1>4, Empty, Entry DEF CleanHosts
  <1> QED
    BY <1>1, <1>5, Empty DEF Init, IInv, NoRename

\* Starting reads what is clean, and the migration replaces references of the
\* old format by ids.
LEMMA StartClean == IInv /\ Start => IInv'
  <1> SUFFICES ASSUME IInv, Start PROVE IInv'
    OBVIOUS
  <1>1. PICK isRead \in BOOLEAN, opens \in BOOLEAN :
          LET h == IF isRead THEN disk.hosts ELSE NoHosts
              moved == IF opens THEN Migrated(h, disk.vault) ELSE {}
          IN /\ hosts' = [i \in Ids |-> IF i \in moved
                            THEN [h[i] EXCEPT !.auth = Password(Id(i))] ELSE h[i]]
             /\ vault' = [i \in Ids |-> IF i \in moved THEN h[i].auth.ref
                                        ELSE IF opens THEN disk.vault[i]
                                        ELSE Nothing]
    BY DEF Start
  <1> DEFINE h == IF isRead THEN disk.hosts ELSE NoHosts
             moved == IF opens THEN Migrated(h, disk.vault) ELSE {}
  <1>2. h \in CleanHosts
    BY Empty DEF IInv
  <1>3. \A i \in Ids : Password(Id(i)) \in CleanAuths
    BY References DEF CleanRefs
  <1>4. hosts' \in CleanHosts
    <2> HIDE DEF h, moved
    <2>1. hosts' = [i \in Ids |-> IF i \in moved
                      THEN [h[i] EXCEPT !.auth = Password(Id(i))] ELSE h[i]]
      BY <1>1 DEF h, moved
    <2> QED
      BY <2>1, <1>2, <1>3 DEF CleanHosts
  <1>5. vault' \in Vaults
    <2> HIDE DEF h, moved
    <2>1. vault' = [i \in Ids |-> IF i \in moved THEN h[i].auth.ref
                                  ELSE IF opens THEN disk.vault[i] ELSE Nothing]
      BY <1>1 DEF h, moved
    <2>2. \A i \in Ids : h[i].auth.ref \in Secrets \cup {Nothing}
      BY <1>2, References DEF CleanHosts, CleanAuths
    <2>3. disk.vault \in Vaults
      BY DEF IInv
    <2> QED
      BY <2>1, <2>2, <2>3 DEF Vaults
  <1> QED
    BY <1>4, <1>5 DEF IInv, Start

\* What the window writes in memory is clean: it refers to a typed password by
\* the id of its host.
LEMMA HandlerClean ==
  ASSUME IInv,
         \/ SubmitSecret
         \/ \E u \in Users : AddDraftHost(u)
         \/ \E i \in Ids : \/ Duplicate(i) \/ RemoveHost(i) \/ TypePassword(i)
                           \/ SelectHost(i) \/ Connect(i)
                           \/ \E u \in Users : CommitUsername(i, u)
  PROVE  hosts' \in CleanHosts /\ vault' \in Vaults /\ disk' = disk /\ rename' = rename
  <1> USE DEF IInv
  <1>1. Typed \in Secrets /\ NoHost \in [there : BOOLEAN,
          user : Users \cup {NoHost.user}, auth : CleanAuths]
    BY References DEF Secrets, NoHost
  <1>2. \A i \in Ids : \A p : Password(StoredRef(i, p)) \in CleanAuths
    BY References DEF StoredRef, CleanRefs
  <1>3. CASE SubmitSecret
    <2>1. CASE secret \in There /\ vaultOpen
      BY <1>1, <1>2, <1>3, <2>1, NewAuth DEF SubmitSecret, There, Vaults
    <2>2. CASE ~(secret \in There /\ vaultOpen)
      BY <1>3, <2>2 DEF SubmitSecret
    <2> QED
      BY <2>1, <2>2
  <1>5. ASSUME NEW u \in Users, AddDraftHost(u)
        PROVE  hosts' \in CleanHosts /\ UNCHANGED <<vault, disk, rename>>
    <2>1. Host(u, Agent) \in [there : BOOLEAN, user : Users \cup {NoHost.user},
                              auth : CleanAuths]
      BY References DEF Host
    <2> QED
      BY <1>5, <2>1 DEF AddDraftHost, CleanHosts
  <1>6. ASSUME NEW i \in Ids, Duplicate(i)
        PROVE  hosts' \in CleanHosts /\ UNCHANGED <<vault, disk, rename>>
    BY <1>6 DEF Duplicate, CleanHosts
  <1>7. ASSUME NEW i \in Ids, RemoveHost(i)
        PROVE  hosts' \in CleanHosts /\ UNCHANGED <<vault, disk, rename>>
    BY <1>7, <1>1, Entry DEF RemoveHost
  <1>8. ASSUME NEW i \in Ids, NEW p \in Secrets \cup {Nothing}, CommitPassword(i, p)
        PROVE  hosts' \in CleanHosts /\ vault' \in Vaults /\ UNCHANGED <<disk, rename>>
    <2>1. vault' \in Vaults /\ UNCHANGED <<disk, rename>>
      BY <1>8 DEF CommitPassword, Vaults
    <2>2. CASE p = Nothing
      <3>1. hosts[i].auth \in CleanAuths
        BY DEF CleanHosts
      <3>2. (IF hosts[i].auth.method = "Password" THEN Agent ELSE hosts[i].auth)
              \in CleanAuths
        BY <3>1, References
      <3> QED
        BY <1>8, <2>1, <2>2, <3>2, NewAuth DEF CommitPassword
    <2>3. CASE p # Nothing
      BY <1>8, <1>2, <2>1, <2>3, NewAuth DEF CommitPassword
    <2> QED
      BY <2>2, <2>3
  <1>9. ASSUME NEW i \in Ids, TypePassword(i)
        PROVE  hosts' \in CleanHosts /\ vault' \in Vaults /\ UNCHANGED <<disk, rename>>
    BY <1>1, <1>8, <1>9 DEF TypePassword
  <1>10. ASSUME NEW i \in Ids, SelectHost(i)
         PROVE  hosts' \in CleanHosts /\ vault' \in Vaults /\ UNCHANGED <<disk, rename>>
    <2> DEFINE p == IF hosts[i].auth.method = "Password"
                    THEN Resolve(vault, hosts[i].auth.ref) ELSE Nothing
    <2>1. hosts[i].auth.ref \in CleanRefs
      BY DEF CleanHosts, CleanAuths
    <2>2. Resolve(vault, hosts[i].auth.ref) \in Secrets \cup {Nothing}
      BY <2>1 DEF Resolve, Vaults, CleanRefs, Id, Legacy, Nothing
    <2>3. CommitPassword(i, p)
      BY <1>10 DEF SelectHost
    <2> QED
      BY <1>8, <2>2, <2>3
  <1>11. ASSUME NEW i \in Ids, NEW u \in Users, CommitUsername(i, u)
         PROVE  hosts' \in CleanHosts /\ UNCHANGED <<vault, disk, rename>>
    BY <1>11 DEF CommitUsername, CleanHosts
  <1>12. ASSUME NEW i \in Ids, Connect(i) PROVE UNCHANGED <<hosts, vault, disk, rename>>
    BY <1>12 DEF Connect
  <1> QED
    BY <1>3, <1>5, <1>6, <1>7, <1>9, <1>10, <1>11, <1>12

\* Every step keeps the stores clean.
LEMMA StepClean == IInv /\ [Next]_vars => IInv'
  <1> SUFFICES ASSUME IInv, [Next]_vars PROVE IInv'
    OBVIOUS
  <1>1. CASE Start
    BY <1>1, StartClean
  <1>2. CASE Stop
    BY <1>2, Empty DEF Stop, IInv, NoRename
  <1>3. CASE Save
    BY <1>3 DEF Save, IInv, memory
  <1>4. CASE RenameSave
    BY <1>4, Empty DEF RenameSave, IInv, NoRename, memory
  <1>5. ASSUME NEW old \in Users, NEW new \in Users, RenameLoad(old, new)
        PROVE  IInv'
    <2> DEFINE read == [i \in Ids |->
                          IF disk.hosts[i].there /\ disk.hosts[i].user = old
                          THEN [disk.hosts[i] EXCEPT !.user = new]
                          ELSE disk.hosts[i]]
    <2>1. read \in CleanHosts
      BY DEF IInv, CleanHosts
    <2> QED
      BY <1>5, <2>1 DEF RenameLoad, IInv, memory
  <1>6. CASE \/ SubmitSecret
             \/ \E u \in Users : AddDraftHost(u)
             \/ \E i \in Ids : \/ Duplicate(i) \/ RemoveHost(i) \/ TypePassword(i)
                               \/ SelectHost(i) \/ Connect(i)
                               \/ \E u \in Users : CommitUsername(i, u)
    BY <1>6, HandlerClean DEF IInv
  <1>7. CASE UNCHANGED vars
    BY <1>7 DEF vars, IInv
  <1> QED
    BY <1>1, <1>2, <1>3, <1>4, <1>5, <1>6, <1>7 DEF Next

\* For any hosts and users, however reads and writes fail, however often the
\* program dies between two saves and whatever the keys pane renames meanwhile,
\* no typed password ever reaches hosts.json.
THEOREM NoTypedPasswordInHosts == Spec => []TypedStaysOutOfHosts
  <1>1. IInv => TypedStaysOutOfHosts
    BY References DEF IInv, TypedStaysOutOfHosts, CleanHosts, CleanAuths
  <1> QED
    BY <1>1, InitClean, StepClean, PTL DEF Spec

-----------------------------------------------------------------------------
(* What a restart finds. *)

Pending == {<<"Vault", "Hosts">>, <<"VaultFirst", "Hosts">>}
SaveLists == {<<>>, <<"Hosts">>} \cup Pending

\* Saves are under way only in a program that runs, and the inventory is the
\* last to be saved.
ControlInv == saves \in SaveLists /\ (saves # <<>> => running) /\ failures \in Nat

\* What a handler of the window does, all handlers alike: it begins when nothing
\* is left to save and touches no file; a password it changes or a reference it
\* makes is of a host that the user gave another password or none; and it
\* saves what it changed, or says that it does not.
Handled ==
  /\ running /\ saves = <<>> /\ saves' \in SaveLists
  /\ UNCHANGED <<running, vaultOpen, disk, rename, failures, faithful>>
  /\ forgotten \subseteq forgotten' /\ unsaved \subseteq unsaved'
  /\ \A i \in Ids : vault'[i] = vault[i] \/ i \in forgotten'
  /\ \A i \in Ids : \/ hosts'[i].auth = Agent
                    \/ \E j \in Ids : hosts'[i].auth = hosts[j].auth
                    \/ hosts'[i].auth = Password(Id(i)) /\ i \in forgotten'
  /\ hosts' = hosts \/ saves' # <<>>
  /\ saves' \in Pending \/ \A i \in Ids \ unsaved' : vault'[i] = vault[i]

\* Committing the password box is such a step.
LEMMA CommitHandled ==
  ASSUME IInv, NEW i \in Ids, NEW p, CommitPassword(i, p)
  PROVE  Handled
  <1>1. hosts \in CleanHosts /\ vault \in Vaults /\ DOMAIN hosts = Ids /\ DOMAIN vault = Ids
    BY DEF IInv, CleanHosts, Vaults
  <1>2. /\ running /\ saves = <<>> /\ forgotten' = forgotten \cup {i}
        /\ UNCHANGED <<running, vaultOpen, disk, rename, failures, faithful>>
        /\ vault' = [vault EXCEPT ![i] = p]
    BY DEF CommitPassword, Idle
  <1>3. \A j \in Ids : vault'[j] = vault[j] \/ j \in forgotten'
    BY <1>1, <1>2
  <1>4. CASE p = Nothing
    <2>1. /\ hosts' = [hosts EXCEPT ![i].auth =
                         IF hosts[i].auth.method = "Password" THEN Agent ELSE hosts[i].auth]
          /\ saves' = SavesOfCommit /\ unsaved' = unsaved
      BY <1>4 DEF CommitPassword
    <2>2. \A j \in Ids : hosts'[j].auth = Agent \/ \E k \in Ids : hosts'[j].auth = hosts[k].auth
      BY <1>1, <2>1 DEF CleanHosts
    <2> QED
      BY <1>2, <1>3, <2>1, <2>2 DEF Handled, SavesOfCommit, SaveLists, Pending
  <1>5. CASE p # Nothing /\ hosts[i].auth.method = "Key"
    <2>1. UNCHANGED <<hosts, saves>> /\ unsaved' = unsaved \cup {i}
      BY <1>5 DEF CommitPassword
    <2> QED
      BY <1>2, <1>3, <1>5, <2>1 DEF Handled, SaveLists
  <1>6. CASE p # Nothing /\ hosts[i].auth.method # "Key"
    <2>1. /\ hosts' = [hosts EXCEPT ![i].auth = Password(Id(i))]
          /\ saves' = SavesOfCommit /\ unsaved' = unsaved
      BY <1>6 DEF CommitPassword, StoredRef
    <2>2. \A j \in Ids : \/ \E k \in Ids : hosts'[j].auth = hosts[k].auth
                         \/ hosts'[j].auth = Password(Id(j)) /\ j \in forgotten'
      BY <1>1, <1>2, <2>1 DEF CleanHosts
    <2> QED
      BY <1>2, <1>3, <2>1, <2>2 DEF Handled, SavesOfCommit, SaveLists, Pending
  <1> QED
    BY <1>4, <1>5, <1>6

\* So is every other handler.
LEMMA HandlerHandled ==
  ASSUME IInv,
         \/ SubmitSecret
         \/ \E u \in Users : AddDraftHost(u)
         \/ \E i \in Ids : \/ Duplicate(i) \/ RemoveHost(i) \/ TypePassword(i)
                           \/ SelectHost(i) \/ Connect(i)
                           \/ \E u \in Users : CommitUsername(i, u)
  PROVE  Handled
  <1>1. hosts \in CleanHosts /\ vault \in Vaults /\ DOMAIN hosts = Ids /\ DOMAIN vault = Ids
    BY DEF IInv, CleanHosts, Vaults
  <1>2. CASE SubmitSecret
    <2>1. /\ running /\ saves = <<>>
          /\ UNCHANGED <<running, vaultOpen, disk, rename, failures, faithful, unsaved>>
      BY <1>2 DEF SubmitSecret, Idle
    <2>2. CASE secret \in There /\ vaultOpen
      <3>1. /\ vault' = [vault EXCEPT ![secret] = Typed]
            /\ hosts' = [hosts EXCEPT ![secret].auth = Password(Id(secret))]
            /\ saves' = SavesOfSubmit /\ forgotten' = forgotten \cup {secret}
            /\ secret \in Ids
        BY <1>2, <2>2 DEF SubmitSecret, StoredRef, There
      <3>2. \A j \in Ids : \/ \E k \in Ids : hosts'[j].auth = hosts[k].auth
                           \/ hosts'[j].auth = Password(Id(j)) /\ j \in forgotten'
        BY <1>1, <3>1 DEF CleanHosts
      <3>3. \A j \in Ids : vault'[j] = vault[j] \/ j \in forgotten'
        BY <1>1, <3>1
      <3> QED
        BY <2>1, <3>1, <3>2, <3>3 DEF Handled, SavesOfSubmit, SaveLists, Pending
    <2>3. CASE ~(secret \in There /\ vaultOpen)
      BY <1>2, <2>1, <2>3 DEF SubmitSecret, Handled, SaveLists
    <2> QED
      BY <2>2, <2>3
  <1>3. ASSUME NEW u \in Users, AddDraftHost(u)
        PROVE  Handled
    <2>1. hosts' = [hosts EXCEPT ![UnusedId(hosts)] = Host(u, Agent)]
      BY <1>3 DEF AddDraftHost
    <2>2. \A j \in Ids : hosts'[j].auth = Agent \/ \E k \in Ids : hosts'[j].auth = hosts[k].auth
      BY <1>1, <2>1 DEF Host
    <2> QED
      BY <1>3, <2>2 DEF AddDraftHost, Idle, Handled, SaveLists
  <1>4. ASSUME NEW i \in Ids, Duplicate(i)
        PROVE  Handled
    <2>1. hosts' = [hosts EXCEPT ![UnusedId(hosts)] = hosts[i]]
      BY <1>4 DEF Duplicate
    <2>2. \A j \in Ids : \E k \in Ids : hosts'[j].auth = hosts[k].auth
      BY <1>1, <2>1
    <2> QED
      BY <1>4, <2>2 DEF Duplicate, Idle, Handled, SaveLists
  <1>5. ASSUME NEW i \in Ids, RemoveHost(i)
        PROVE  Handled
    <2>1. hosts' = [hosts EXCEPT ![i] = NoHost]
      BY <1>5 DEF RemoveHost
    <2>2. \A j \in Ids : hosts'[j].auth = Agent \/ \E k \in Ids : hosts'[j].auth = hosts[k].auth
      BY <1>1, <2>1 DEF NoHost
    <2> QED
      BY <1>5, <2>2 DEF RemoveHost, Idle, Handled, SaveLists
  <1>6. ASSUME NEW i \in Ids, NEW u \in Users, CommitUsername(i, u)
        PROVE  Handled
    <2>1. hosts' = [hosts EXCEPT ![i].user = u]
      BY <1>6 DEF CommitUsername
    <2>2. \A j \in Ids : hosts'[j].auth = hosts[j].auth
      BY <1>1, <2>1 DEF CleanHosts
    <2> QED
      BY <1>6, <2>2 DEF CommitUsername, Idle, Handled, SaveLists
  <1>7. ASSUME NEW i \in Ids, Connect(i)
        PROVE  Handled
    BY <1>7 DEF Connect, Idle, Handled, SaveLists
  <1>8. ASSUME NEW i \in Ids, TypePassword(i) \/ SelectHost(i)
        PROVE  Handled
    BY <1>8, CommitHandled DEF TypePassword, SelectHost
  <1> QED
    BY <1>2, <1>3, <1>4, <1>5, <1>6, <1>7, <1>8

\* A step of the program is a start, a stop, a save, a step of the rename or a
\* handler of the window.
LEMMA StepKinds ==
  ASSUME IInv, Next
  PROVE  \/ Start \/ Stop \/ Save \/ RenameSave \/ Handled
         \/ \E old \in Users, new \in Users : RenameLoad(old, new)
  BY HandlerHandled DEF Next

\* What a start does with the inventory h, which is the file's or empty, of which
\* it migrates some hosts.
Starts(isRead, opens, h, moved) ==
  /\ h = (IF isRead THEN disk.hosts ELSE NoHosts)
  /\ moved = (IF opens THEN Migrated(h, disk.vault) ELSE {})
  /\ vaultOpen' = opens /\ faithful' = (isRead /\ opens)
  /\ failures' \in Nat /\ (failures' = 0 => failures = 0 /\ isRead /\ opens)
  /\ hosts' = [i \in Ids |-> IF i \in moved
                 THEN [h[i] EXCEPT !.auth = Password(Id(i))] ELSE h[i]]
  /\ vault' = [i \in Ids |-> IF i \in moved THEN h[i].auth.ref
                             ELSE IF opens THEN disk.vault[i]
                             ELSE Nothing]
  /\ saves' = IF moved # {} THEN SavesOfMigration ELSE <<>>

\* A start is of this kind, and counts what it could not read.
LEMMA StartKinds ==
  ASSUME failures \in Nat, Start
  PROVE  \E isRead, opens \in BOOLEAN : \E h, moved : Starts(isRead, opens, h, moved)
  <1> DEFINE Failed(r, o) == {b \in {1, 2} : <<~r, ~o>>[b]}
  <1>1. PICK isRead \in BOOLEAN, opens \in BOOLEAN :
          LET h == IF isRead THEN disk.hosts ELSE NoHosts
              moved == IF opens THEN Migrated(h, disk.vault) ELSE {}
          IN /\ failures' = failures + Cardinality(Failed(isRead, opens))
             /\ faithful' = (Cardinality(Failed(isRead, opens)) = 0)
             /\ vaultOpen' = opens
             /\ hosts' = [i \in Ids |-> IF i \in moved
                            THEN [h[i] EXCEPT !.auth = Password(Id(i))] ELSE h[i]]
             /\ vault' = [i \in Ids |-> IF i \in moved THEN h[i].auth.ref
                                        ELSE IF opens THEN disk.vault[i]
                                        ELSE Nothing]
             /\ saves' = IF moved # {} THEN SavesOfMigration ELSE <<>>
    BY Zenon DEF Start
  <1>2. IsFiniteSet({1, 2}) /\ Failed(isRead, opens) \subseteq {1, 2}
    <2>1. IsFiniteSet({1})
      BY FS_Singleton
    <2>2. IsFiniteSet({1} \cup {2})
      BY <2>1, FS_AddElement
    <2>3. {1, 2} = {1} \cup {2}
      BY Zenon
    <2> QED
      BY <2>2, <2>3
  <1>3. IsFiniteSet(Failed(isRead, opens))
    BY <1>2, FS_Subset
  <1>4. Cardinality(Failed(isRead, opens)) \in Nat
    BY <1>3, FS_CardinalityType
  <1>5. Cardinality(Failed(isRead, opens)) = 0 <=> Failed(isRead, opens) = {}
    BY <1>3, FS_EmptySet
  <1>6. Failed(isRead, opens) = {} <=> isRead /\ opens
    <2>1. <<~isRead, ~opens>>[1] = ~isRead /\ <<~isRead, ~opens>>[2] = ~opens
      OBVIOUS
    <2>2. 1 \in Failed(isRead, opens) <=> ~isRead
      BY <2>1, Zenon
    <2>3. 2 \in Failed(isRead, opens) <=> ~opens
      BY <2>1, Zenon
    <2>4. Failed(isRead, opens) \subseteq {1, 2}
      BY <1>2
    <2> HIDE DEF Failed
    <2> QED
      BY <2>2, <2>3, <2>4
  <1> HIDE DEF Failed
  <1>7. /\ failures' \in Nat /\ faithful' = (isRead /\ opens)
        /\ failures' = 0 => failures = 0 /\ isRead /\ opens
    <2>1. failures' \in Nat /\ (failures' = 0 => failures = 0 /\ Cardinality(Failed(isRead, opens)) = 0)
      BY <1>1, <1>4
    <2>2. faithful' = (isRead /\ opens)
      BY <1>1, <1>5, <1>6, Zenon
    <2> QED
      BY <2>1, <2>2, <1>5, <1>6
  <1> DEFINE h == IF isRead THEN disk.hosts ELSE NoHosts
             moved == IF opens THEN Migrated(h, disk.vault) ELSE {}
  <1>8. Starts(isRead, opens, h, moved)
    BY <1>1, <1>7, Zenon DEF Starts
  <1> QED
    BY <1>8, Zenon

\* What is left to save after each save.
LEMMA Saved ==
  /\ Head(<<"Hosts">>) = "Hosts" /\ Tail(<<"Hosts">>) = <<>>
  /\ Head(<<"Vault", "Hosts">>) = "Vault" /\ Tail(<<"Vault", "Hosts">>) = <<"Hosts">>
  /\ Head(<<"VaultFirst", "Hosts">>) = "VaultFirst"
  /\ Tail(<<"VaultFirst", "Hosts">>) = <<"Hosts">>
  /\ <<"Hosts">> \notin Pending /\ <<>> \notin Pending /\ <<"Hosts">> # <<>>
  BY DEF Pending

\* No step saves in a program that does not run, or the inventory before the
\* vault.
LEMMA ControlStep == IInv /\ ControlInv /\ [Next]_vars => ControlInv'
  <1> SUFFICES ASSUME IInv, ControlInv, [Next]_vars PROVE ControlInv'
    OBVIOUS
  <1>1. CASE Start
    <2>1. PICK isRead, opens \in BOOLEAN : \E h, moved : Starts(isRead, opens, h, moved)
      BY <1>1, StartKinds DEF ControlInv
    <2>2. running' = TRUE
      BY <1>1 DEF Start
    <2> QED
      BY <2>1, <2>2 DEF Starts, ControlInv, SaveLists, Pending, SavesOfMigration
  <1>2. CASE Stop
    BY <1>2 DEF Stop, ControlInv, SaveLists
  <1>3. CASE Save
    <2>1. saves' \in {<<>>, Tail(saves)} /\ running' = running /\ running /\ saves # <<>>
      BY <1>3 DEF Save
    <2>2. Tail(saves) \in SaveLists
      BY <2>1, Saved DEF ControlInv, SaveLists, Pending
    <2>3. failures' \in Nat
      BY <1>3 DEF Save, ControlInv
    <2> QED
      BY <2>1, <2>2, <2>3 DEF ControlInv, SaveLists
  <1>4. CASE RenameSave
    BY <1>4 DEF RenameSave, ControlInv
  <1>5. CASE \E old \in Users, new \in Users : RenameLoad(old, new)
    BY <1>5 DEF RenameLoad, ControlInv
  <1>6. CASE Handled
    BY <1>6 DEF Handled, ControlInv
  <1>7. CASE UNCHANGED vars
    BY <1>7 DEF vars, ControlInv
  <1> QED
    BY <1>1, <1>2, <1>3, <1>4, <1>5, <1>6, <1>7, StepKinds

\* How hosts log in, wherever the inventory is, and the ways the program gives them.
Present ==
  {Agent} \cup {Password(Id(j)) : j \in Ids}
    \cup {h[j].auth : h \in {hosts, disk.hosts, rename.read}, j \in Ids}

\* No step makes another way to log in: a legacy password and a key are never
\* the program's own.
LEMMA PresentStep ==
  ASSUME IInv, ControlInv, [Next]_vars
  PROVE  Present' \subseteq Present
  <1> DEFINE Good(h) == \A i \in Ids : h[i].auth \in Present
  <1>1. Good(hosts) /\ Good(disk.hosts) /\ Good(rename.read) /\ Good(NoHosts)
    BY DEF Present, NoHosts, NoHost
  <1>2. SUFFICES Good(hosts') /\ Good(disk'.hosts) /\ Good(rename'.read)
    BY DEF Present
  <1>3. CASE Start
    <2>1. PICK isRead, opens \in BOOLEAN : \E h, moved : Starts(isRead, opens, h, moved)
      BY <1>3, StartKinds DEF ControlInv
    <2>2. PICK h, moved : Starts(isRead, opens, h, moved)
      BY <2>1
    <2>3. Good(h) /\ h \in CleanHosts
      BY <1>1, <2>2, Empty DEF Starts, IInv
    <2>4. \A i \in Ids : hosts'[i].auth \in {h[i].auth, Password(Id(i))}
      BY <2>2, <2>3 DEF Starts, CleanHosts
    <2>5. Good(hosts')
      BY <2>3, <2>4 DEF Present
    <2> QED
      BY <1>1, <1>3, <2>5 DEF Start
  <1>4. CASE Stop
    BY <1>1, <1>4 DEF Stop, NoRename
  <1>5. CASE Save
    <2>1. disk'.hosts \in {disk.hosts, hosts} /\ UNCHANGED <<hosts, rename>>
      BY <1>5 DEF Save, memory, IInv
    <2> QED
      BY <1>1, <2>1
  <1>6. CASE RenameSave
    <2>1. disk'.hosts = rename.read /\ hosts' = hosts /\ rename' = NoRename
      BY <1>6 DEF RenameSave, memory, IInv
    <2> QED
      BY <1>1, <2>1 DEF NoRename
  <1>7. ASSUME NEW old \in Users, NEW new \in Users, RenameLoad(old, new)
        PROVE  Good(hosts') /\ Good(disk'.hosts) /\ Good(rename'.read)
    <2>1. \A i \in Ids : rename'.read[i].auth = disk.hosts[i].auth
      BY <1>7 DEF RenameLoad, IInv, CleanHosts
    <2> QED
      BY <1>1, <1>7, <2>1 DEF RenameLoad, memory
  <1>8. CASE Handled
    <2>1. \A i \in Ids : Password(Id(i)) \in Present /\ Agent \in Present
      BY DEF Present
    <2> QED
      BY <1>1, <1>8, <2>1 DEF Handled
  <1>9. CASE UNCHANGED vars
    BY <1>1, <1>9 DEF vars
  <1> QED
    BY <1>3, <1>4, <1>5, <1>6, <1>7, <1>8, <1>9, StepKinds

\* A host with a password refers to something.
RefInv == \A a \in Present : a.method = "Password" => a.ref # Nothing

\* While nothing goes wrong, what is not yet on disk is what is left to save, or
\* was typed for a host with a key.
DurableInv ==
  running /\ faithful =>
    /\ vaultOpen
    /\ saves = <<>> => disk.hosts = hosts
    /\ saves \notin Pending => \A i \in Ids \ unsaved : disk.vault[i] = vault[i]

\* What the program starts with.
LEMMA InitDurable ==
  ASSUME Init
  PROVE  ControlInv /\ RefInv /\ DurableInv
  <1>1. PICK u \in Users, a \in {Agent, Key, Password(Legacy)} :
          disk = [hosts |-> [NoHosts EXCEPT ![1] = Host(u, a)], vault |-> NoSecrets]
    BY DEF Init
  <1>2. \A i \in Ids : disk.hosts[i].auth \in {Agent, a}
    BY <1>1 DEF NoHosts, NoHost, Host
  <1>3. \A i \in Ids : hosts[i].auth = Agent /\ rename.read[i].auth = Agent
    BY DEF Init, NoRename, NoHosts, NoHost
  <1>4. \A b \in Present : \/ b \in {Agent, Key, Password(Legacy)}
                           \/ \E j \in Ids : b = Password(Id(j))
    BY <1>2, <1>3 DEF Present
  <1>5. RefInv
    BY <1>4 DEF RefInv, Agent, Key, Password, Id, Legacy, Nothing
  <1> QED
    BY <1>5 DEF Init, ControlInv, SaveLists, DurableInv

\* No step keeps in memory what it leaves no save for.
LEMMA DurableStep ==
  ASSUME IInv, ControlInv, DurableInv, [Next]_vars
  PROVE  DurableInv'
  <1> SUFFICES ASSUME running', faithful'
               PROVE  /\ vaultOpen'
                      /\ saves' = <<>> => disk'.hosts = hosts'
                      /\ saves' \notin Pending =>
                           \A i \in Ids \ unsaved' : disk'.vault[i] = vault'[i]
    BY DEF DurableInv, Pending
  <1>1. CASE Start
    <2>1. PICK isRead, opens \in BOOLEAN : \E h, moved : Starts(isRead, opens, h, moved)
      BY <1>1, StartKinds DEF ControlInv
    <2>2. PICK h, moved : Starts(isRead, opens, h, moved)
      BY <2>1
    <2>3. h = disk.hosts /\ vaultOpen' = TRUE /\ opens /\ disk' = disk
      BY <1>1, <2>2 DEF Starts, Start
    <2>4. CASE moved # {}
      BY <2>2, <2>3, <2>4 DEF Starts, SavesOfMigration, Pending
    <2>5. CASE moved = {}
      <3>1. hosts' = [i \in Ids |-> h[i]] /\ vault' = [i \in Ids |-> disk.vault[i]]
        BY <2>2, <2>3, <2>5 DEF Starts
      <3>2. h = [i \in Ids |-> h[i]] /\ disk.vault = [i \in Ids |-> disk.vault[i]]
        BY <2>3 DEF IInv, CleanHosts, Vaults
      <3> QED
        BY <2>3, <3>1, <3>2
    <2> QED
      BY <2>4, <2>5
  <1>2. CASE Stop
    BY <1>2 DEF Stop
  <1>3. CASE Save
    <2>1. /\ running /\ saves # <<>> /\ saves' = Tail(saves)
          /\ disk' = IF Head(saves) = "Hosts" THEN [disk EXCEPT !.hosts = hosts]
                                              ELSE [disk EXCEPT !.vault = vault]
          /\ unsaved' = IF Head(saves) = "Hosts" THEN unsaved ELSE {}
          /\ UNCHANGED <<faithful, hosts, vault, vaultOpen>>
      BY <1>3 DEF Save, memory
    <2>2. vaultOpen /\ (saves \notin Pending =>
                          \A i \in Ids \ unsaved : disk.vault[i] = vault[i])
      BY <2>1 DEF DurableInv
    <2>3. disk \in [hosts : CleanHosts, vault : Vaults]
      BY DEF IInv
    <2>4. CASE saves = <<"Hosts">>
      <3>1. disk' = [disk EXCEPT !.hosts = hosts] /\ saves' = <<>> /\ unsaved' = unsaved
        BY <2>1, <2>4, Saved
      <3> QED
        BY <2>1, <2>2, <2>3, <2>4, <3>1, Saved
    <2>5. CASE saves \in Pending
      <3>1. disk' = [disk EXCEPT !.vault = vault] /\ saves' = <<"Hosts">>
        BY <2>1, <2>5, Saved DEF Pending
      <3> QED
        BY <2>1, <2>2, <2>3, <3>1, Saved
    <2> QED
      BY <2>1, <2>4, <2>5 DEF ControlInv, SaveLists
  <1>4. CASE RenameSave
    BY <1>4 DEF RenameSave
  <1>5. CASE \E old \in Users, new \in Users : RenameLoad(old, new)
    BY <1>5 DEF RenameLoad, memory, DurableInv
  <1>6. CASE Handled
    <2>1. /\ disk.hosts = hosts /\ vaultOpen
          /\ \A i \in Ids \ unsaved : disk.vault[i] = vault[i]
      BY <1>6, Saved DEF Handled, DurableInv
    <2> QED
      BY <1>6, <2>1 DEF Handled
  <1>7. CASE UNCHANGED vars
    BY <1>7 DEF vars, DurableInv
  <1> QED
    BY <1>1, <1>2, <1>3, <1>4, <1>5, <1>6, <1>7, StepKinds

\* What is proved of the saves and the references, of every behaviour.
LEMMA StoresSafe == Spec => [](IInv /\ ControlInv /\ RefInv)
  <1>1. Init => IInv /\ ControlInv /\ RefInv
    BY InitClean, InitDurable
  <1>2. IInv /\ ControlInv /\ RefInv /\ [Next]_vars => (IInv /\ ControlInv /\ RefInv)'
    <2> SUFFICES ASSUME IInv, ControlInv, RefInv, [Next]_vars
                 PROVE  (IInv /\ ControlInv /\ RefInv)'
      OBVIOUS
    <2>1. RefInv'
      BY PresentStep DEF RefInv, Nothing
    <2> QED
      BY <2>1, StepClean, ControlStep
  <1> QED
    BY <1>1, <1>2, PTL DEF Spec

\* For any hosts and users, however reads and writes fail and however often the
\* program dies between two saves: a restart finds the hosts and the records of the
\* vault an idle window has, but those changed for a host with a key since the vault
\* was saved, unless a read, a write or the rename went wrong.
THEOREM StoresDurable == Spec => []IdleIsDurable
  <1>1. Init => DurableInv
    BY InitDurable
  <1>2. IInv /\ ControlInv /\ RefInv /\ DurableInv /\ [Next]_vars => DurableInv'
    BY DurableStep
  <1>3. DurableInv => IdleIsDurable
    BY Saved DEF DurableInv, IdleIsDurable, Idle
  <1> QED
    BY <1>1, <1>2, <1>3, StoresSafe, PTL DEF Spec

\* Whether a host of an inventory refers to the vault's record of i.
RefersTo(h, i) == \E j \in Ids : h[j].auth = Password(Id(i))

\* While nothing failed: whatever refers to a record, in memory, on disk or in the
\* rename's copy, the record is there, or about to be saved before the reference.
Sealed(i) ==
  /\ running /\ disk.vault[i] # Nothing => vault[i] # Nothing
  /\ RefersTo(disk.hosts, i) \/ RefersTo(rename.read, i) => disk.vault[i] # Nothing
  /\ RefersTo(hosts, i) => vault[i] # Nothing /\ (disk.vault[i] # Nothing \/ saves \in Pending)

LegacyInv ==
  failures = 0 => /\ running => vaultOpen
                  /\ \A i \in Ids \ forgotten : Sealed(i)

\* No reference of the program names a record at first.
LEMMA InitLegacy == Init => LegacyInv
  <1> SUFFICES ASSUME Init PROVE LegacyInv
    OBVIOUS
  <1>1. PICK u \in Users, a \in {Agent, Key, Password(Legacy)} :
          disk = [hosts |-> [NoHosts EXCEPT ![1] = Host(u, a)], vault |-> NoSecrets]
    BY DEF Init
  <1>2. \A j \in Ids : disk.hosts[j].auth \in {Agent, Key, Password(Legacy)}
    BY <1>1 DEF NoHosts, NoHost, Host
  <1>3. \A i, j \in Ids : hosts[j].auth = Agent /\ rename.read[j].auth = Agent
    BY DEF Init, NoRename, NoHosts, NoHost
  <1>4. \A i \in Ids : Password(Id(i)) \notin {Agent, Key, Password(Legacy)}
    BY DEF Password, Id, Agent, Key, Legacy
  <1>5. \A i \in Ids : ~ RefersTo(disk.hosts, i) /\ ~ RefersTo(rename.read, i) /\ ~ RefersTo(hosts, i)
    BY <1>2, <1>3, <1>4 DEF RefersTo
  <1> QED
    BY <1>5 DEF Init, LegacyInv, Sealed

\* Of a program that is not running nothing in memory refers to anything.
LEMMA NamesNone == \A i : ~ RefersTo(NoHosts, i)
  BY DEF RefersTo, NoHosts, NoHost, Agent, Password

\* A reference names one record.
LEMMA NamesOne == \A i, j : Password(Id(i)) = Password(Id(j)) => i = j
  BY DEF Password, Id

\* No step writes a reference to a record before the record.
LEMMA LegacyStep ==
  ASSUME IInv, ControlInv, RefInv, LegacyInv, [Next]_vars
  PROVE  LegacyInv'
  <1> SUFFICES ASSUME failures' = 0
               PROVE  /\ running' => vaultOpen'
                      /\ \A i \in Ids \ forgotten' : Sealed(i)'
    BY DEF LegacyInv
  <1>1. CASE Start
    <2>1. PICK isRead, opens \in BOOLEAN : \E h, moved : Starts(isRead, opens, h, moved)
      BY <1>1, StartKinds DEF ControlInv
    <2>2. PICK h, moved : Starts(isRead, opens, h, moved)
      BY <2>1
    <2>3. /\ h = disk.hosts /\ vaultOpen' = TRUE /\ opens /\ failures = 0
          /\ UNCHANGED <<disk, rename, forgotten>> /\ running' = TRUE
      BY <1>1, <2>2 DEF Starts, Start
    <2>4. \A j \in Ids : j \in moved => h[j].auth.ref # Nothing
      BY <2>2, <2>3 DEF Starts, Migrated, IsLegacy, RefInv, Present
    <2>5. ASSUME NEW i \in Ids \ forgotten'
          PROVE  Sealed(i)'
      <3>1. RefersTo(disk.hosts, i) \/ RefersTo(rename.read, i) => disk.vault[i] # Nothing
        BY <2>3 DEF LegacyInv, Sealed
      <3>2. disk.vault[i] # Nothing \/ i \in moved => vault'[i] # Nothing
        BY <2>2, <2>3, <2>4 DEF Starts
      <3>3. ASSUME NEW j \in Ids, hosts'[j].auth = Password(Id(i))
            PROVE  vault'[i] # Nothing /\ (disk.vault[i] # Nothing \/ saves' \in Pending)
        <4>1. CASE j \in moved
          <5>1. hosts'[j].auth = Password(Id(j))
            BY <2>2, <2>3, <4>1 DEF Starts, IInv, CleanHosts
          <5>2. i = j
            BY <3>3, <5>1, NamesOne
          <5> QED
            BY <2>2, <3>2, <4>1, <5>2 DEF Starts, SavesOfMigration, Pending
        <4>2. CASE j \notin moved
          <5>1. hosts'[j].auth = disk.hosts[j].auth
            BY <2>2, <2>3, <4>2 DEF Starts
          <5> QED
            BY <3>1, <3>2, <3>3, <5>1 DEF RefersTo
        <4> QED
          BY <4>1, <4>2
      <3> QED
        BY <2>3, <3>1, <3>2, <3>3 DEF Sealed, RefersTo
    <2> QED
      BY <2>3, <2>5
  <1>2. CASE Stop
    <2>1. /\ ~ running' /\ hosts' = NoHosts /\ rename' = NoRename
          /\ UNCHANGED <<disk, failures, forgotten>>
      BY <1>2 DEF Stop
    <2>2. rename'.read = NoHosts
      BY <2>1 DEF NoRename
    <2>3. ASSUME NEW i \in Ids \ forgotten'
          PROVE  Sealed(i)'
      BY <2>1, <2>2, NamesNone DEF Sealed, LegacyInv, RefersTo
    <2> QED
      BY <2>1, <2>3
  <1>3. CASE Save
    <2>1. /\ running /\ saves # <<>> /\ saves' = Tail(saves) /\ failures = 0
          /\ disk' = IF Head(saves) = "Hosts" THEN [disk EXCEPT !.hosts = hosts]
                                              ELSE [disk EXCEPT !.vault = vault]
          /\ UNCHANGED <<running, forgotten, hosts, vault, vaultOpen, rename>>
      BY <1>3 DEF Save, memory, ControlInv
    <2>2. disk \in [hosts : CleanHosts, vault : Vaults]
      BY DEF IInv
    <2>3. CASE saves = <<"Hosts">>
      <3>1. disk'.hosts = hosts /\ disk'.vault = disk.vault
        BY <2>1, <2>2, <2>3, Saved
      <3> QED
        BY <2>1, <2>3, <3>1, Saved DEF LegacyInv, Sealed, RefersTo
    <2>4. CASE saves \in Pending
      <3>1. disk'.vault = vault /\ disk'.hosts = disk.hosts
        BY <2>1, <2>2, <2>4, Saved DEF Pending
      <3> QED
        BY <2>1, <3>1 DEF LegacyInv, Sealed, RefersTo
    <2> QED
      BY <2>1, <2>3, <2>4 DEF ControlInv, SaveLists
  <1>4. CASE RenameSave
    <2>1. /\ disk'.hosts = rename.read /\ disk'.vault = disk.vault /\ rename'.read = NoHosts
          /\ UNCHANGED <<running, hosts, vault, vaultOpen, saves, failures, forgotten>>
      BY <1>4 DEF RenameSave, memory, NoRename, IInv
    <2>2. ASSUME NEW i \in Ids \ forgotten'
          PROVE  Sealed(i)'
      BY <2>1, NamesNone DEF Sealed, LegacyInv, RefersTo
    <2> QED
      BY <2>1, <2>2 DEF LegacyInv
  <1>5. ASSUME NEW old \in Users, NEW new \in Users, RenameLoad(old, new)
        PROVE  /\ running' => vaultOpen'
               /\ \A i \in Ids \ forgotten' : Sealed(i)'
    <2>1. \A j \in Ids : rename'.read[j].auth = disk.hosts[j].auth
      BY <1>5 DEF RenameLoad, IInv, CleanHosts
    <2>2. UNCHANGED <<running, hosts, vault, vaultOpen, saves, failures, forgotten, disk>>
      BY <1>5 DEF RenameLoad, memory
    <2>3. ASSUME NEW i \in Ids \ forgotten'
          PROVE  Sealed(i)'
      BY <2>1, <2>2 DEF Sealed, LegacyInv, RefersTo
    <2> QED
      BY <2>2, <2>3 DEF LegacyInv
  <1>6. CASE Handled
    <2>1. ASSUME NEW i \in Ids \ forgotten'
          PROVE  Sealed(i)'
      <3>1. Sealed(i) /\ vault'[i] = vault[i]
        BY <1>6, <2>1 DEF Handled, LegacyInv
      <3>2. RefersTo(hosts', i) => RefersTo(hosts, i)
        <4>1. ASSUME NEW j \in Ids, hosts'[j].auth = Password(Id(i))
              PROVE  RefersTo(hosts, i)
          <5>1. hosts'[j].auth # Agent
            BY <4>1 DEF Password, Agent
          <5>2. ~ (hosts'[j].auth = Password(Id(j)) /\ j \in forgotten')
            BY <2>1, <4>1, NamesOne
          <5> QED
            BY <1>6, <4>1, <5>1, <5>2 DEF Handled, RefersTo
        <4> QED
          BY <4>1 DEF RefersTo
      <3>3. disk' = disk /\ rename' = rename /\ running' = running /\ saves = <<>>
        BY <1>6 DEF Handled
      <3> QED
        BY <3>1, <3>2, <3>3, Saved DEF Sealed, RefersTo
    <2> QED
      BY <1>6, <2>1 DEF Handled, LegacyInv
  <1>7. CASE UNCHANGED vars
    BY <1>7 DEF vars, LegacyInv, Sealed, RefersTo
  <1> QED
    BY <1>1, <1>2, <1>3, <1>4, <1>5, <1>6, <1>7, StepKinds

\* For any hosts and users, however often the program dies between two saves, the
\* migration included, and whatever the keys pane renames: while no read or write
\* fails, a host on disk that refers to its record in the vault finds it there,
\* unless the user replaced its password or removed it.
THEOREM LegacyNeverLost == Spec => []LegacyIsNotLost
  <1>1. IInv /\ ControlInv /\ RefInv /\ LegacyInv /\ [Next]_vars => LegacyInv'
    BY LegacyStep
  <1>2. LegacyInv => LegacyIsNotLost
    BY DEF LegacyInv, LegacyIsNotLost, Sealed, RefersTo
  <1> QED
    BY <1>1, <1>2, InitLegacy, StoresSafe, PTL DEF Spec

-----------------------------------------------------------------------------
(* The vault's file.  What Stores sees as one map is a file of sealed       *)
(* records; what is read of it is what was set, under the id it was set     *)
(* under.  A record opens under the id it was sealed with, so that whatever *)
(* opens was given for that id (SafeInv's Given); that nothing fails to     *)
(* open with the keychain's secret needs that the records of the file and   *)
(* of the vault in memory are sealed with the key the vault has or will     *)
(* have when it is opened again (OfKey).                                   *)

DerivedKeys == (Phrases \cup Nat) \X Nat
Records == [key : DerivedKeys, id : RecordIds, secret : Sealable]
SafeFiles ==
  [is : {"Vault"}, source : {"Keychain", "Passphrase"}, salt : Nat,
   secrets : [RecordIds -> SUBSET Records]]
OpenVaults == [is : {"Open"}, key : DerivedKeys, file : SafeFiles]

SafeTypes ==
  /\ onDisk \in {Safe!Missing, Safe!Damaged} \cup SafeFiles
  /\ opened \in {Safe!Closed} \cup OpenVaults
  /\ entry \in Nat /\ fresh \in Nat
  /\ saving \in {"No", "Write", "Rename"}
  /\ given \in [RecordIds -> SUBSET Sealable]

\* Every record of the file is of a value that was set under the record's id.
Given(f) == \A i \in RecordIds : \A r \in f.secrets[i] : r.secret \in given[r.id]

\* Every record of a file that nobody changed by hand is in its own place and
\* opens with this key.
OfKey(f, key) ==
  f.source = "Keychain" /\ ~exchanged =>
    \A i \in RecordIds : \A r \in f.secrets[i] : r.key = key /\ r.id = i

OpenedInv ==
  opened # Safe!Closed =>
    /\ onDisk # Safe!Damaged /\ Given(opened.file) /\ OfKey(opened.file, opened.key)
    /\ opened.file.source = "Keychain" /\ entry # Safe!NoEntry =>
         opened.key = Safe!DeriveKey(entry, opened.file.salt)

FileInv ==
  onDisk.is = "Vault" =>
    /\ Given(onDisk)
    /\ entry # Safe!NoEntry => OfKey(onDisk, Safe!DeriveKey(entry, onDisk.salt))

\* What is about to be renamed over the file is the vault in memory.
SavingInv == saving = "Rename" => opened # Safe!Closed /\ temporary = opened.file

SafeInv == SafeTypes /\ OpenedInv /\ FileInv /\ SavingInv

\* A closed vault is none that is open; what is not a vault's file is none.
LEMMA Apart ==
  /\ \A v \in OpenVaults : v # Safe!Closed
  /\ \A f \in SafeFiles : f # Safe!Missing /\ f # Safe!Damaged /\ f.is = "Vault"
  /\ Safe!Missing.is # "Vault" /\ Safe!Damaged.is # "Vault"
  /\ Safe!Missing # Safe!Damaged
  BY DEF OpenVaults, SafeFiles, Safe!Closed, Safe!Missing, Safe!Damaged

\* The program starts with no vault in memory and none on disk.
LEMMA SafeInit == Safe!VaultInit => SafeInv
  <1> SUFFICES ASSUME Safe!VaultInit PROVE SafeInv
    OBVIOUS
  <1>1. SafeTypes
    BY DEF Safe!VaultInit, SafeTypes, Safe!NoEntry
  <1>2. onDisk.is # "Vault" /\ opened = Safe!Closed /\ saving = "No"
    BY Apart DEF Safe!VaultInit
  <1> QED
    BY <1>1, <1>2 DEF SafeInv, OpenedInv, FileInv, SavingInv

\* A vault opened over a whole file, or created with an empty one.
LEMMA OpenedStep ==
  ASSUME SafeInv, saving # "Rename", onDisk # Safe!Damaged, UNCHANGED <<onDisk, saving, exchanged, given, entry>>,
         fresh' \in Nat,
         NEW master \in Phrases \cup Nat, NEW f \in SafeFiles, Safe!Unlock(f, master),
         Given(f),
         f.source = "Keychain" => master = entry /\ OfKey(f, Safe!DeriveKey(entry, f.salt))
  PROVE  SafeInv'
  <1> DEFINE key == Safe!DeriveKey(master, f.salt)
  <1>1. opened' = [is |-> "Open", key |-> key, file |-> f]
    BY DEF Safe!Unlock
  <1>2. key \in DerivedKeys
    BY DEF Safe!DeriveKey, DerivedKeys, SafeFiles
  <1>3. opened' \in OpenVaults
    BY <1>1, <1>2 DEF OpenVaults
  <1>4. SafeTypes'
    BY <1>3 DEF SafeInv, SafeTypes
  <1>5. OfKey(f, key)
    BY DEF OfKey
  <1>6. OpenedInv'
    BY <1>1, <1>5 DEF OpenedInv, Given, OfKey, Safe!DeriveKey
  <1>7. FileInv'
    BY DEF SafeInv, FileInv, Given, OfKey, Safe!DeriveKey
  <1>8. SavingInv'
    BY DEF SavingInv
  <1> QED
    BY <1>4, <1>6, <1>7, <1>8 DEF SafeInv

\* An empty file breaks no promise.
LEMMA CreatedStep ==
  ASSUME SafeInv, saving # "Rename", onDisk = Safe!Missing, UNCHANGED <<onDisk, saving, exchanged, given, entry>>,
         NEW source \in {"Keychain", "Passphrase"}, NEW master \in Phrases \cup Nat,
         source = "Keychain" => master = entry,
         Safe!CreateVault(source, master)
  PROVE  SafeInv'
  <1> DEFINE f == [is |-> "Vault", source |-> source, salt |-> fresh',
                      secrets |-> [i \in RecordIds |-> {}]]
  <1>1. fresh' \in Nat
    BY DEF Safe!CreateVault, SafeInv, SafeTypes
  <1>2. f \in SafeFiles
    BY <1>1 DEF SafeFiles
  <1>3. Safe!Unlock(f, master)
    BY DEF Safe!CreateVault
  <1>4. \A i \in RecordIds : f.secrets[i] = {}
    OBVIOUS
  <1>5. Given(f) /\ OfKey(f, Safe!DeriveKey(entry, f.salt)) /\ f.source = source
    BY <1>4 DEF Given, OfKey
  <1> HIDE DEF f
  <1> QED
    BY <1>1, <1>2, <1>3, <1>5, Apart, OpenedStep

\* A record set or removed in memory, with the value among those given.
LEMMA PutStep ==
  ASSUME SafeInv, NEW id \in RecordIds, NEW records \in SUBSET Records,
         Safe!Put(id, records),
         \A r \in records :
           r.id = id /\ r.key = opened.key /\ r.secret \in given'[id],
         given' \in [RecordIds -> SUBSET Sealable],
         \A i \in RecordIds : given[i] \subseteq given'[i]
  PROVE  SafeInv'
  <1>1. opened \in OpenVaults /\ opened # Safe!Closed
    BY DEF Safe!Put, SafeInv, SafeTypes
  <1>2. /\ opened' = [opened EXCEPT !.file.secrets[id] = records]
        /\ UNCHANGED <<onDisk, temporary, entry, saving, fresh, exchanged>> /\ saving = "No"
    BY DEF Safe!Put
  <1>3. opened.file \in SafeFiles
    BY <1>1 DEF OpenVaults
  <1>4. /\ opened'.key = opened.key /\ opened'.is = "Open"
        /\ opened'.file = [opened.file EXCEPT !.secrets[id] = records]
    BY <1>1, <1>2 DEF OpenVaults
  <1>5. /\ opened'.file \in SafeFiles
        /\ opened'.file.source = opened.file.source /\ opened'.file.salt = opened.file.salt
        /\ opened'.file.secrets[id] = records
        /\ \A i \in RecordIds \ {id} : opened'.file.secrets[i] = opened.file.secrets[i]
    BY <1>3, <1>4 DEF SafeFiles
  <1>6. opened' \in OpenVaults
    BY <1>1, <1>2, <1>5 DEF OpenVaults
  <1>7. SafeTypes'
    BY <1>2, <1>6 DEF SafeInv, SafeTypes
  <1>8. ASSUME NEW f \in SafeFiles, Given(f)
        PROVE  \A i \in RecordIds : \A r \in f.secrets[i] : r.secret \in given'[r.id]
    <2> SUFFICES ASSUME NEW i \in RecordIds, NEW r \in f.secrets[i]
                 PROVE  r.secret \in given'[r.id]
      OBVIOUS
    <2>1. r \in Records
      BY DEF SafeFiles
    <2>2. r.id \in RecordIds /\ r.secret \in given[r.id]
      BY <1>8, <2>1 DEF Given, Records
    <2> QED
      BY <2>2
  <1>9. Given(opened.file) /\ OfKey(opened.file, opened.key) /\ onDisk # Safe!Damaged
    BY <1>1 DEF SafeInv, OpenedInv
  <1>10. Given(opened.file)'
    <2> SUFFICES ASSUME NEW i \in RecordIds, NEW r \in opened'.file.secrets[i]
                 PROVE  r.secret \in given'[r.id]
      BY DEF Given
    <2>1. CASE i = id
      BY <2>1, <1>5
    <2>2. CASE i # id
      BY <2>2, <1>3, <1>5, <1>8, <1>9
    <2> QED
      BY <2>1, <2>2
  <1>11. OfKey(opened.file, opened.key)'
    <2> SUFFICES ASSUME opened.file.source = "Keychain", ~exchanged,
                        NEW i \in RecordIds, NEW r \in opened'.file.secrets[i]
                 PROVE  r.key = opened.key /\ r.id = i
      BY <1>2, <1>4, <1>5 DEF OfKey
    <2>1. CASE i = id
      BY <2>1, <1>5
    <2>2. CASE i # id
      BY <2>2, <1>5, <1>9 DEF OfKey
    <2> QED
      BY <2>1, <2>2
  <1>12. OpenedInv'
    BY <1>1, <1>2, <1>4, <1>5, <1>9, <1>10, <1>11 DEF SafeInv, OpenedInv, Safe!DeriveKey
  <1>13. FileInv'
    <2>1. ASSUME onDisk.is = "Vault" PROVE onDisk \in SafeFiles
      BY <2>1, Apart DEF SafeInv, SafeTypes
    <2>2. ASSUME onDisk.is = "Vault" PROVE Given(onDisk)'
      BY <1>2, <1>8, <2>1, <2>2 DEF SafeInv, FileInv, Given
    <2>3. ASSUME onDisk.is = "Vault", entry # Safe!NoEntry
          PROVE  OfKey(onDisk, Safe!DeriveKey(entry, onDisk.salt))'
      BY <1>2, <2>3 DEF SafeInv, FileInv, OfKey, Safe!DeriveKey
    <2> QED
      BY <1>2, <2>2, <2>3 DEF FileInv
  <1>14. SavingInv'
    BY <1>2 DEF SavingInv
  <1> QED
    BY <1>7, <1>12, <1>13, <1>14 DEF SafeInv

\* Records exchanged by hand are those of the file in other places, and from
\* then on nothing is said of their keys.
LEMMA ExchangeStep ==
  ASSUME SafeInv, NEW i \in RecordIds, NEW j \in RecordIds, Safe!Exchange(i, j)
  PROVE  SafeInv'
  <1>1. /\ exchanged' = TRUE /\ UNCHANGED <<temporary, entry, opened, saving, fresh, given>>
        /\ onDisk' = [onDisk EXCEPT !.secrets[i] = onDisk.secrets[j],
                                    !.secrets[j] = onDisk.secrets[i]]
    BY DEF Safe!Exchange
  <1>2. onDisk \in SafeFiles /\ Given(onDisk)
    BY Apart DEF Safe!Exchange, SafeInv, SafeTypes, FileInv
  <1>3. /\ onDisk' \in SafeFiles
        /\ \A k \in RecordIds : \E l \in RecordIds : onDisk'.secrets[k] = onDisk.secrets[l]
    BY <1>1, <1>2 DEF SafeFiles
  <1>4. Given(onDisk)'
    BY <1>1, <1>2, <1>3 DEF Given
  <1>5. SafeTypes'
    BY <1>1, <1>3 DEF SafeInv, SafeTypes
  <1>6. OpenedInv'
    BY <1>1, <1>3, Apart DEF SafeInv, OpenedInv, Given, OfKey
  <1>7. FileInv'
    BY <1>1, <1>4 DEF FileInv, OfKey
  <1>8. SavingInv'
    BY <1>1 DEF SafeInv, SavingInv
  <1> QED
    BY <1>5, <1>6, <1>7, <1>8 DEF SafeInv

\* A save step that leaves the file alone.
LEMMA SavingStep ==
  ASSUME SafeInv, UNCHANGED <<onDisk, entry, opened, fresh, exchanged, given>>,
         saving' \in {"No", "Write", "Rename"}, SavingInv'
  PROVE  SafeInv'
  <1>1. SafeTypes'
    BY DEF SafeInv, SafeTypes
  <1>2. OpenedInv'
    BY DEF SafeInv, OpenedInv, Given, OfKey, Safe!DeriveKey
  <1>3. FileInv'
    BY DEF SafeInv, FileInv, Given, OfKey, Safe!DeriveKey
  <1> QED
    BY <1>1, <1>2, <1>3 DEF SafeInv

\* The rename puts the vault in memory in the place of the file.
LEMMA RenameStep ==
  ASSUME SafeInv, Safe!Rename PROVE SafeInv'
  <1>1. /\ opened # Safe!Closed /\ saving' = "No" /\ onDisk' = opened.file
        /\ UNCHANGED <<entry, opened, fresh, exchanged, given>>
    BY DEF Safe!Rename, Safe!SaveStep, SafeInv, SavingInv
  <1>2. opened \in OpenVaults /\ onDisk' \in SafeFiles
    BY <1>1 DEF SafeInv, SafeTypes, OpenVaults
  <1>3. SafeTypes'
    BY <1>1, <1>2 DEF SafeInv, SafeTypes
  <1>4. Given(opened.file) /\ OfKey(opened.file, opened.key)
    BY <1>1 DEF SafeInv, OpenedInv
  <1>5. OpenedInv'
    BY <1>1, <1>2, Apart DEF SafeInv, OpenedInv, Given, OfKey, Safe!DeriveKey
  <1>6. Given(onDisk)'
    BY <1>1, <1>4 DEF Given
  <1>7. ASSUME entry # Safe!NoEntry
        PROVE  OfKey(onDisk, Safe!DeriveKey(entry, onDisk.salt))'
    <2>1. opened.file.source = "Keychain" =>
            opened.key = Safe!DeriveKey(entry, opened.file.salt)
      BY <1>1, <1>7 DEF SafeInv, OpenedInv
    <2> QED
      BY <1>1, <1>4, <2>1 DEF OfKey, Safe!DeriveKey
  <1>8. FileInv'
    BY <1>1, <1>6, <1>7 DEF FileInv
  <1>9. SavingInv'
    BY <1>1 DEF SavingInv
  <1> QED
    BY <1>3, <1>5, <1>8, <1>9 DEF SafeInv

\* Every step of the vault, and of the keychain and the file outside of it.
LEMMA SafeStep == SafeInv /\ [Safe!VaultNext]_(Safe!vaultVars) => SafeInv'
  <1> SUFFICES ASSUME SafeInv, [Safe!VaultNext]_(Safe!vaultVars) PROVE SafeInv'
    OBVIOUS
  <1>0. opened = Safe!Closed => saving # "Rename"
    BY DEF SafeInv, SavingInv
  <1>1. CASE Safe!CreateEntry
    <2>1. /\ opened = Safe!Closed /\ onDisk = Safe!Missing
          /\ UNCHANGED <<onDisk, temporary, opened, saving, exchanged, given>>
          /\ entry' \in Nat /\ fresh' \in Nat
      BY <1>1 DEF Safe!CreateEntry, Safe!Unchanging, SafeInv, SafeTypes
    <2>2. SafeTypes'
      BY <2>1 DEF SafeInv, SafeTypes
    <2>3. OpenedInv' /\ FileInv' /\ SavingInv'
      BY <2>1, Apart DEF SafeInv, OpenedInv, FileInv, SavingInv, Safe!Closed,
                         Safe!Missing
    <2> QED
      BY <2>2, <2>3 DEF SafeInv
  <1>2. CASE Safe!Open
    <2>1. /\ opened = Safe!Closed /\ entry # Safe!NoEntry /\ entry \in Phrases \cup Nat
          /\ UNCHANGED <<onDisk, saving, exchanged, given, entry>>
      BY <1>2 DEF Safe!Open, Safe!Unchanging, SafeInv, SafeTypes
    <2>2. CASE onDisk = Safe!Missing /\ Safe!CreateVault("Keychain", entry)
      BY <1>0, <2>1, <2>2, CreatedStep
    <2>3. CASE onDisk.is = "Vault" /\ Safe!Unlock(onDisk, entry) /\ UNCHANGED fresh
      <3>1. onDisk \in SafeFiles
        BY <2>3, Apart DEF SafeInv, SafeTypes
      <3>2. Given(onDisk) /\ OfKey(onDisk, Safe!DeriveKey(entry, onDisk.salt))
        BY <2>1, <2>3 DEF SafeInv, FileInv
      <3>3. fresh' \in Nat /\ onDisk # Safe!Damaged
        BY <2>3, Apart DEF SafeInv, SafeTypes
      <3> QED
        BY <1>0, <2>1, <2>3, <3>1, <3>2, <3>3, OpenedStep
    <2> QED
      BY <1>2, <2>2, <2>3 DEF Safe!Open
  <1>3. ASSUME NEW phrase \in Phrases, Safe!OpenWithPassphrase(phrase)
        PROVE  SafeInv'
    <2>1. /\ opened = Safe!Closed
          /\ UNCHANGED <<onDisk, saving, exchanged, given, entry>>
      BY <1>3 DEF Safe!OpenWithPassphrase, Safe!Unchanging
    <2>2. CASE onDisk = Safe!Missing /\ Safe!CreateVault("Passphrase", phrase)
      BY <1>0, <2>1, <2>2, CreatedStep
    <2>3. CASE /\ onDisk.is = "Vault" /\ onDisk.source = "Passphrase"
               /\ Safe!Unlock(onDisk, phrase) /\ UNCHANGED fresh
      <3>1. onDisk \in SafeFiles /\ Given(onDisk)
        BY <2>3, Apart DEF SafeInv, SafeTypes, FileInv
      <3>2. fresh' \in Nat /\ onDisk # Safe!Damaged
        BY <2>3, Apart DEF SafeInv, SafeTypes
      <3> QED
        BY <1>0, <2>1, <2>3, <3>1, <3>2, OpenedStep
    <2> QED
      BY <1>3, <2>2, <2>3 DEF Safe!OpenWithPassphrase
  <1>4. ASSUME NEW id \in RecordIds, Safe!Remove(id) PROVE SafeInv'
    <2>1. given' = given /\ given \in [RecordIds -> SUBSET Sealable] /\ Safe!Put(id, {})
      BY <1>4 DEF Safe!Remove, SafeInv, SafeTypes
    <2>2. {} \in SUBSET Records
      OBVIOUS
    <2> QED
      BY <2>1, <2>2, PutStep
  <1>5. ASSUME NEW id \in RecordIds, NEW s \in Sealable, Safe!Set(id, s)
        PROVE  SafeInv'
    <2>1. /\ Safe!Put(id, {Safe!Seal(opened.key, id, s)})
          /\ given' = [given EXCEPT ![id] = given[id] \cup {s}]
      BY <1>5 DEF Safe!Set
    <2>2. given \in [RecordIds -> SUBSET Sealable]
      BY DEF SafeInv, SafeTypes
    <2>3. /\ given' \in [RecordIds -> SUBSET Sealable] /\ s \in given'[id]
          /\ \A i \in RecordIds : given[i] \subseteq given'[i]
      BY <2>1, <2>2
    <2>4. opened \in OpenVaults
      BY <2>1 DEF Safe!Put, SafeInv, SafeTypes
    <2>5. {Safe!Seal(opened.key, id, s)} \in SUBSET Records
      BY <2>4 DEF OpenVaults, Records, Safe!Seal
    <2>6. \A r \in {Safe!Seal(opened.key, id, s)} :
            r.id = id /\ r.key = opened.key /\ r.secret \in given'[id]
      BY <2>3 DEF Safe!Seal
    <2> QED
      BY <2>1, <2>3, <2>5, <2>6, PutStep
  <1>6. CASE Safe!CreateTemporary \/ Safe!WriteTemporary \/ Safe!SaveFails
    BY <1>6, SavingStep DEF Safe!CreateTemporary, Safe!WriteTemporary, Safe!SaveFails,
                            Safe!SaveStep, SavingInv
  <1>7. CASE Safe!Rename
    BY <1>7, RenameStep
  <1>8. CASE Safe!Die
    <2>1. /\ opened' = Safe!Closed /\ saving' = "No"
          /\ UNCHANGED <<onDisk, entry, fresh, exchanged, given>>
      BY <1>8 DEF Safe!Die
    <2>2. SafeTypes'
      BY <2>1 DEF SafeInv, SafeTypes, Safe!Closed, Safe!Missing, Safe!Damaged
    <2>3. OpenedInv' /\ SavingInv'
      BY <2>1 DEF OpenedInv, SavingInv, Safe!Closed
    <2>4. FileInv'
      BY <2>1 DEF SafeInv, FileInv, Given, OfKey, Safe!DeriveKey
    <2> QED
      BY <2>2, <2>3, <2>4 DEF SafeInv
  <1>9. CASE Safe!KeychainChanges
    <2>1. /\ entry' = entry \/ entry' = Safe!NoEntry
          /\ UNCHANGED <<onDisk, temporary, opened, saving, fresh, exchanged, given>>
      BY <1>9 DEF Safe!KeychainChanges
    <2>2. SafeTypes' /\ SavingInv'
      BY <2>1 DEF SafeInv, SafeTypes, SavingInv, Safe!NoEntry, Safe!Closed
    <2>3. OpenedInv' /\ FileInv'
      BY <2>1 DEF SafeInv, OpenedInv, FileInv, Given, OfKey, Safe!DeriveKey,
                  Safe!NoEntry, Safe!Closed, Safe!Damaged
    <2> QED
      BY <2>2, <2>3 DEF SafeInv
  <1>10. ASSUME NEW i \in RecordIds, NEW j \in RecordIds, Safe!Exchange(i, j)
         PROVE  SafeInv'
    BY <1>10, ExchangeStep
  <1>11. CASE UNCHANGED Safe!vaultVars
    BY <1>11, SavingStep DEF Safe!vaultVars, SafeInv, SafeTypes, SavingInv
  <1> QED
    BY <1>1, <1>2, <1>3, <1>4, <1>5, <1>6, <1>7, <1>8, <1>9, <1>10, <1>11
       DEF Safe!VaultNext

\* However saves are interrupted, the keychain locked or emptied and the file's
\* records exchanged by hand: what opens under an id was set under it, and with
\* the keychain's secret all of a file opens that nobody changed by hand.
THEOREM ReadsAlwaysAuthentic ==
  ASSUME Safe!Failure \notin Sealable
  PROVE  Safe!VaultInit /\ [][Safe!VaultNext]_(Safe!vaultVars)
           => []Safe!ReadsAreAuthentic
  <1>1. ASSUME SafeInv PROVE Safe!ReadsAreAuthentic
    <2> SUFFICES ASSUME opened # Safe!Closed, NEW i \in RecordIds,
                        NEW r \in opened.file.secrets[i]
                 PROVE  /\ Safe!Unseal(opened.key, i, r) \in {Safe!Failure} \cup given[i]
                        /\ opened.file.source = "Keychain" /\ ~exchanged =>
                             Safe!Unseal(opened.key, i, r) # Safe!Failure
      BY DEF Safe!ReadsAreAuthentic, Safe!Get
    <2>1. opened \in OpenVaults /\ r \in Records
      BY <1>1 DEF SafeInv, SafeTypes, OpenVaults, SafeFiles
    <2>2. r.secret \in Sealable /\ r.secret \in given[r.id]
      BY <1>1, <2>1 DEF SafeInv, OpenedInv, Given, Records
    <2>3. opened.file.source = "Keychain" /\ ~exchanged => r.key = opened.key /\ r.id = i
      BY <1>1 DEF SafeInv, OpenedInv, OfKey
    <2> QED
      BY <2>2, <2>3 DEF Safe!Unseal
  <1> QED
    BY <1>1, SafeInit, SafeStep, PTL

\* The vault's file is never half of a save, and while a vault is open the file
\* is never one that could not be read, which a save would replace.
THEOREM FileAlwaysWhole ==
  Safe!VaultInit /\ [][Safe!VaultNext]_(Safe!vaultVars) => []Safe!FileIsWhole
  <1>1. ASSUME SafeInv PROVE Safe!FileIsWhole
    BY <1>1, Apart DEF SafeInv, SafeTypes, OpenedInv, Safe!FileIsWhole, Safe!Missing,
                       Safe!Damaged
  <1> QED
    BY <1>1, SafeInit, SafeStep, PTL

-----------------------------------------------------------------------------
(* The remote half of the SFTP pane.  Answers and events of an earlier      *)
(* client arrive at any time.  A listing that counts is the latest asked    *)
(* for, and since attaching asks for one itself, the latest is always of    *)
(* the attached client (LatestInv); a task that may change the rows is of   *)
(* the generation that every attachment and detachment takes anew          *)
(* (WatchInv).                                                             *)

Attachable == Clients \cup {Sftp!NoClient}
TransferRows == [of : Attachable, id : Nat, over : BOOLEAN]

PaneTypes ==
  /\ client \in Attachable /\ attempt \in Attachable /\ unused \subseteq Clients
  /\ loadGen \in Nat /\ watchGen \in Nat
  /\ \A l \in loads : l.gen \in Nat /\ l.gen <= loadGen
  /\ \A w \in watchers : w.gen \in Nat /\ w.gen <= watchGen /\ w.of \in Attachable
  /\ rows \in Seq(TransferRows)

LatestInv ==
  /\ client # Sftp!NoClient => \A l \in loads : l.gen = loadGen => l.of = client
  /\ Sftp!ListingIsCurrent

WatchInv ==
  /\ \A w \in watchers : w.gen = watchGen => w.of = client
  /\ \A k \in DOMAIN rows : rows[k].of = client

\* What a list of transfers has to be, of any client.
FewAndOnce(rs) ==
  /\ Len(rs) <= MaxTransfers
  /\ \A j, k \in DOMAIN rs : Sftp!Same(rs[j], rs[k]) => j = k

PaneInv ==
  PaneTypes /\ LatestInv /\ WatchInv /\ Sftp!ConnectingIsTrue /\ FewAndOnce(rows)

\* An event replaces the row of its transfer or adds one, at the cost of the
\* oldest if the list is full.
LEMMA AppliedRows ==
  ASSUME MaxTransfers \in Nat \ {0}, NEW rs \in Seq(TransferRows), FewAndOnce(rs),
         NEW r \in TransferRows, \A k \in DOMAIN rs : rs[k].of = r.of
  PROVE  /\ Sftp!Applied(rs, r) \in Seq(TransferRows) /\ FewAndOnce(Sftp!Applied(rs, r))
         /\ \A k \in DOMAIN Sftp!Applied(rs, r) : Sftp!Applied(rs, r)[k].of = r.of
  <1>1. CASE \E k \in DOMAIN rs : Sftp!Same(rs[k], r)
    <2> DEFINE new == [k \in DOMAIN rs |-> IF Sftp!Same(rs[k], r) THEN r ELSE rs[k]]
    <2>1. Sftp!Applied(rs, r) = new
      BY <1>1 DEF Sftp!Applied
    <2>2. DOMAIN rs = 1 .. Len(rs) /\ Len(rs) \in Nat
      OBVIOUS
    <2>3. \A k \in 1 .. Len(rs) : new[k] \in TransferRows
      OBVIOUS
    <2>4. new \in Seq(TransferRows) /\ Len(new) = Len(rs)
      BY <2>2, <2>3
    <2>5. \A k \in DOMAIN rs : new[k].of = r.of /\ (Sftp!Same(new[k], rs[k]))
      BY DEF Sftp!Same
    <2>6. \A j, k \in DOMAIN rs : Sftp!Same(new[j], new[k]) => Sftp!Same(rs[j], rs[k])
      BY <2>5 DEF Sftp!Same
    <2> HIDE DEF new
    <2>7. DOMAIN new = DOMAIN rs
      BY DEF new
    <2> QED
      BY <2>1, <2>4, <2>5, <2>6, <2>7 DEF FewAndOnce
  <1>2. CASE ~ \E k \in DOMAIN rs : Sftp!Same(rs[k], r)
    <2> DEFINE rest == IF Len(rs) >= MaxTransfers THEN Tail(rs) ELSE rs
    <2>1. Sftp!Applied(rs, r) = Append(rest, r)
      BY <1>2 DEF Sftp!Applied
    <2>2. PICK from \in {0, 1} :
            /\ rest \in Seq(TransferRows) /\ Len(rest) < MaxTransfers
            /\ \A k \in 1 .. Len(rest) : k + from \in DOMAIN rs /\ rest[k] = rs[k + from]
      <3>1. CASE Len(rs) >= MaxTransfers
        <4>1. rs # <<>> /\ Len(rs) = MaxTransfers
          BY <3>1 DEF FewAndOnce
        <4>2. rest = Tail(rs)
          BY <3>1
        <4>3. /\ Tail(rs) \in Seq(TransferRows) /\ Len(Tail(rs)) = Len(rs) - 1
              /\ \A k \in 1 .. Len(rs) - 1 : Tail(rs)[k] = rs[k + 1]
          BY <4>1
        <4>4. \A k \in 1 .. Len(rs) - 1 : k + 1 \in DOMAIN rs
          OBVIOUS
        <4> HIDE DEF rest
        <4> QED
          BY <4>1, <4>2, <4>3, <4>4
      <3>2. CASE ~ (Len(rs) >= MaxTransfers)
        <4>1. rest = rs /\ Len(rs) < MaxTransfers
          BY <3>2
        <4> HIDE DEF rest
        <4> QED
          BY <4>1
      <3> QED
        BY <3>1, <3>2
    <2> HIDE DEF rest
    <2>3. /\ Append(rest, r) \in Seq(TransferRows)
          /\ Len(Append(rest, r)) = Len(rest) + 1
          /\ DOMAIN Append(rest, r) = 1 .. Len(rest) + 1
          /\ Append(rest, r)[Len(rest) + 1] = r
          /\ \A k \in 1 .. Len(rest) : Append(rest, r)[k] = rest[k]
      BY <2>2
    <2>4. \A k \in 1 .. Len(rest) : rest[k].of = r.of /\ ~ Sftp!Same(rest[k], r)
      BY <1>2, <2>2
    <2>5. \A j, k \in 1 .. Len(rest) : Sftp!Same(rest[j], rest[k]) => j = k
      <3> SUFFICES ASSUME NEW j \in 1 .. Len(rest), NEW k \in 1 .. Len(rest),
                          Sftp!Same(rest[j], rest[k])
                   PROVE  j = k
        OBVIOUS
      <3>1. j + from = k + from
        BY <2>2 DEF FewAndOnce
      <3> QED
        BY <3>1
    <2>6. \A k \in 1 .. Len(rest) + 1 : k \in 1 .. Len(rest) \/ k = Len(rest) + 1
      BY <2>2
    <2>7. \A k \in 1 .. Len(rest) : ~ Sftp!Same(r, rest[k])
      BY <2>4 DEF Sftp!Same
    <2>8. ASSUME NEW j \in 1 .. Len(rest) + 1, NEW k \in 1 .. Len(rest) + 1,
                 Sftp!Same(Append(rest, r)[j], Append(rest, r)[k])
          PROVE  j = k
      BY <2>3, <2>4, <2>5, <2>6, <2>7, <2>8
    <2>9. Len(rest) + 1 <= MaxTransfers
      BY <2>2
    <2>10. FewAndOnce(Append(rest, r))
      BY <2>3, <2>8, <2>9 DEF FewAndOnce
    <2>11. \A k \in DOMAIN Append(rest, r) : Append(rest, r)[k].of = r.of
      BY <2>3, <2>4, <2>6
    <2> QED
      BY <2>1, <2>3, <2>10, <2>11
  <1> QED
    BY <1>1, <1>2

\* The window opens with no client and nothing asked for.
LEMMA PaneInit ==
  ASSUME MaxTransfers \in Nat \ {0} PROVE Sftp!Init => PaneInv
  <1> SUFFICES ASSUME Sftp!Init PROVE PaneInv
    OBVIOUS
  <1>1. rows = <<>> /\ <<>> \in Seq(TransferRows) /\ Len(<<>>) = 0 /\ DOMAIN <<>> = {}
    BY DEF Sftp!Init
  <1>2. PaneTypes
    BY <1>1 DEF Sftp!Init, PaneTypes, Attachable
  <1>3. LatestInv /\ WatchInv /\ Sftp!ConnectingIsTrue /\ FewAndOnce(rows)
    BY <1>1 DEF Sftp!Init, LatestInv, WatchInv, Sftp!ListingIsCurrent,
                Sftp!ConnectingIsTrue, FewAndOnce
  <1> QED
    BY <1>2, <1>3 DEF PaneInv

\* A listing asked for, while attached and stays attached.
LEMMA LoadStep ==
  ASSUME PaneInv, client # Sftp!NoClient, NEW p, Sftp!Load(client, p),
         UNCHANGED <<client, unused, attempt, connecting, cwd, listing,
                     rows, watchers, watchGen>>
  PROVE  PaneInv'
  <1>1. /\ loadGen' = loadGen + 1 /\ loading' = TRUE /\ picked' = 0
        /\ loads' = loads \cup {[gen |-> loadGen + 1, of |-> client, path |-> p]}
    BY DEF Sftp!Load
  <1>2. loadGen \in Nat
    BY DEF PaneInv, PaneTypes
  <1>3. \A l \in loads : l.gen \in Nat /\ l.gen <= loadGen + 1 /\ l.gen # loadGen + 1
    BY <1>2 DEF PaneInv, PaneTypes
  <1>4. \A l \in loads' : \/ l \in loads
                          \/ l.gen = loadGen + 1 /\ l.of = client
    BY <1>1
  <1>5. \A l \in loads' : /\ l.gen \in Nat /\ l.gen <= loadGen'
                          /\ l.gen = loadGen' => l.of = client'
    BY <1>1, <1>2, <1>3, <1>4
  <1>6. PaneTypes'
    BY <1>1, <1>2, <1>5 DEF PaneInv, PaneTypes
  <1>7. LatestInv'
    BY <1>1, <1>5 DEF PaneInv, LatestInv, Sftp!ListingIsCurrent
  <1>8. WatchInv' /\ FewAndOnce(rows)'
    BY DEF PaneInv, WatchInv, FewAndOnce, Sftp!Same
  <1>9. Sftp!ConnectingIsTrue'
    BY <1>1 DEF PaneInv, Sftp!ConnectingIsTrue
  <1> QED
    BY <1>6, <1>7, <1>8, <1>9 DEF PaneInv

\* A step that leaves the listings and the transfers alone, and shows a screen or
\* picks a row only as the code does.
LEMMA ScreenStep ==
  ASSUME PaneInv,
         UNCHANGED <<client, unused, cwd, listing, loads, loadGen, rows, watchers,
                     watchGen>>,
         attempt' \in Attachable, Sftp!ConnectingIsTrue',
         client # Sftp!NoClient => error' \/ (loading' = loading /\ error' = error)
  PROVE  PaneInv'
  <1>1. PaneTypes' /\ WatchInv' /\ FewAndOnce(rows)'
    BY DEF PaneInv, PaneTypes, WatchInv, FewAndOnce, Sftp!Same
  <1>2. LatestInv'
    BY DEF PaneInv, LatestInv, Sftp!ListingIsCurrent
  <1> QED
    BY <1>1, <1>2 DEF PaneInv

\* Navigation asks for a listing, if the pane is attached.
LEMMA NavigateStep ==
  ASSUME PaneInv, NEW p, Sftp!Navigate(p) PROVE PaneInv'
  <1>1. UNCHANGED <<client, unused, attempt, connecting, cwd, listing, rows, watchers,
                    watchGen>>
    BY DEF Sftp!Navigate, Sftp!attachment, Sftp!transfers
  <1>2. CASE client # Sftp!NoClient /\ Sftp!Load(client, p)
    BY <1>1, <1>2, LoadStep
  <1>3. CASE client = Sftp!NoClient /\ UNCHANGED <<loads, loadGen, loading, error, picked>>
    <2>1. attempt' \in Attachable /\ Sftp!ConnectingIsTrue'
      BY <1>1, <1>3 DEF PaneInv, PaneTypes, Sftp!ConnectingIsTrue
    <2> QED
      BY <1>1, <1>3, <2>1, ScreenStep
  <1> QED
    BY <1>2, <1>3 DEF Sftp!Navigate, Sftp!listings

\* An answer: only the latest counts, and it is of the client.
LEMMA AnswerStep ==
  ASSUME PaneInv, NEW load \in loads, Sftp!LoadAnswers(load) PROVE PaneInv'
  <1>1. /\ UNCHANGED <<client, unused, attempt, connecting, picked, loadGen, rows,
                       watchers, watchGen>>
        /\ loads' = loads \ {load}
    BY DEF Sftp!LoadAnswers, Sftp!attachment, Sftp!transfers
  <1>2. PaneTypes' /\ WatchInv' /\ FewAndOnce(rows)' /\ Sftp!ConnectingIsTrue'
    BY <1>1 DEF PaneInv, PaneTypes, WatchInv, FewAndOnce, Sftp!Same, Sftp!ConnectingIsTrue
  <1>3. Sftp!ListingIsCurrent'
    <2>1. CASE load.gen = loadGen /\ Sftp!Arrived(load)
      <3>1. client # Sftp!NoClient => load.of = client
        BY <2>1 DEF PaneInv, LatestInv
      <3>2. listing' = [of |-> load.of, dir |-> cwd']
        BY <2>1 DEF Sftp!Arrived
      <3>3. load.of # Sftp!NoClient => listing' # Sftp!Empty
        BY <3>2 DEF Sftp!Empty
      <3> QED
        BY <1>1, <3>1, <3>2, <3>3 DEF Sftp!ListingIsCurrent
    <2>2. CASE Sftp!Failed
      BY <2>2 DEF Sftp!Failed, Sftp!ListingIsCurrent, Sftp!Empty
    <2>3. CASE UNCHANGED <<cwd, listing, loading, error, past>>
      BY <1>1, <2>3 DEF PaneInv, LatestInv, Sftp!ListingIsCurrent
    <2> QED
      BY <2>1, <2>2, <2>3 DEF Sftp!LoadAnswers, Sftp!LatestOnly
  <1>4. LatestInv'
    BY <1>1, <1>3 DEF PaneInv, LatestInv
  <1> QED
    BY <1>2, <1>4 DEF PaneInv

\* Detached, the pane has no rows and no task that may add one.
LEMMA DetachStep ==
  ASSUME MaxTransfers \in Nat \ {0}, PaneInv,
         NEW c \in unused \cup {Sftp!NoClient}, Sftp!Detach(c)
  PROVE  PaneInv'
  <1>1. /\ client' = Sftp!NoClient /\ rows' = <<>> /\ watchGen' = watchGen + 1
        /\ attempt' = c /\ unused' = unused \ {c} /\ connecting' = (c # Sftp!NoClient)
        /\ picked' = 0 /\ UNCHANGED <<loads, loadGen, watchers>>
    BY DEF Sftp!Detach, Sftp!Cleared
  <1>2. watchGen \in Nat /\ <<>> \in Seq(TransferRows) /\ Len(<<>>) = 0 /\ DOMAIN <<>> = {}
    BY DEF PaneInv, PaneTypes
  <1>3. \A w \in watchers : /\ w.gen \in Nat /\ w.gen <= watchGen + 1 /\ w.of \in Attachable
                            /\ w.gen # watchGen + 1
    BY <1>2 DEF PaneInv, PaneTypes
  <1>4. PaneTypes'
    BY <1>1, <1>2, <1>3 DEF PaneInv, PaneTypes, Attachable
  <1>5. LatestInv' /\ WatchInv' /\ FewAndOnce(rows)'
    BY <1>1, <1>2, <1>3 DEF LatestInv, WatchInv, FewAndOnce, Sftp!ListingIsCurrent
  <1>6. connecting' => c # Sftp!NoClient
    BY <1>1, Zenon
  <1>7. Sftp!ConnectingIsTrue'
    BY <1>1, <1>6 DEF Sftp!ConnectingIsTrue
  <1> QED
    BY <1>4, <1>5, <1>7 DEF PaneInv

\* Attached, its listing is asked for and its transfers are followed anew.
LEMMA AttachStep ==
  ASSUME MaxTransfers \in Nat \ {0}, PaneInv, Sftp!Attach PROVE PaneInv'
  <1>1. /\ client' = attempt /\ attempt # Sftp!NoClient /\ attempt' = Sftp!NoClient
        /\ rows' = <<>> /\ watchGen' = watchGen + 1 /\ connecting' = FALSE
        /\ watchers' = watchers \cup {[gen |-> watchGen + 1, of |-> attempt]}
        /\ loadGen' = loadGen + 1 /\ loading' = TRUE /\ listing' = Sftp!Empty
        /\ loads' = loads \cup {[gen |-> loadGen + 1, of |-> attempt, path |-> Home]}
        /\ UNCHANGED unused
    BY DEF Sftp!Attach, Sftp!Cleared, Sftp!Load
  <1>2. /\ watchGen \in Nat /\ loadGen \in Nat /\ attempt \in Attachable
        /\ <<>> \in Seq(TransferRows) /\ Len(<<>>) = 0 /\ DOMAIN <<>> = {}
    BY DEF PaneInv, PaneTypes
  <1>3. \A w \in watchers : /\ w.gen \in Nat /\ w.gen <= watchGen + 1 /\ w.of \in Attachable
                            /\ w.gen # watchGen + 1
    BY <1>2 DEF PaneInv, PaneTypes
  <1>4. \A l \in loads : l.gen \in Nat /\ l.gen <= loadGen + 1 /\ l.gen # loadGen + 1
    BY <1>2 DEF PaneInv, PaneTypes
  <1>5. \A w \in watchers' : \/ w \in watchers
                             \/ w.gen = watchGen + 1 /\ w.of = attempt
    BY <1>1
  <1>6. \A l \in loads' : \/ l \in loads
                          \/ l.gen = loadGen + 1 /\ l.of = attempt
    BY <1>1
  <1>7. \A w \in watchers' : /\ w.gen \in Nat /\ w.gen <= watchGen' /\ w.of \in Attachable
                             /\ w.gen = watchGen' => w.of = client'
    BY <1>1, <1>2, <1>3, <1>5
  <1>8. \A l \in loads' : /\ l.gen \in Nat /\ l.gen <= loadGen'
                          /\ l.gen = loadGen' => l.of = client'
    BY <1>1, <1>2, <1>4, <1>6
  <1>9. PaneTypes'
    BY <1>1, <1>2, <1>7, <1>8 DEF PaneInv, PaneTypes, Attachable
  <1>10. LatestInv'
    BY <1>1, <1>8 DEF LatestInv, Sftp!ListingIsCurrent
  <1>11. picked' = 0
    BY DEF Sftp!Attach, Sftp!Load
  <1>12. WatchInv' /\ FewAndOnce(rows)' /\ Sftp!ConnectingIsTrue'
    BY <1>1, <1>2, <1>7, <1>11 DEF WatchInv, FewAndOnce, Sftp!ConnectingIsTrue
  <1> QED
    BY <1>9, <1>10, <1>12 DEF PaneInv

\* An event of a task that still follows the client, or the end of one that does
\* not.
LEMMA EventStep ==
  ASSUME MaxTransfers \in Nat \ {0}, PaneInv, NEW w \in watchers, NEW n \in Nat,
         NEW isOver \in BOOLEAN, Sftp!TransferEvent(w, n, isOver)
  PROVE  PaneInv'
  <1>1. UNCHANGED <<client, unused, attempt, connecting, cwd, listing, loading, error,
                    picked, loads, loadGen, watchGen>>
    BY DEF Sftp!TransferEvent, Sftp!attachment, Sftp!listings
  <1>2. LatestInv' /\ Sftp!ConnectingIsTrue'
    BY <1>1 DEF PaneInv, LatestInv, Sftp!ListingIsCurrent, Sftp!ConnectingIsTrue
  <1>3. CASE /\ Sftp!Watches(w) /\ UNCHANGED watchers
             /\ rows' = Sftp!Applied(rows, Sftp!Row(w.of, n, isOver))
    <2> DEFINE r == Sftp!Row(w.of, n, isOver)
    <2>1. r \in TransferRows /\ r.of = w.of /\ w.of = client
      BY <1>3 DEF PaneInv, PaneTypes, WatchInv, Sftp!Watches, Sftp!Row, TransferRows
    <2>2. \A k \in DOMAIN rows : rows[k].of = r.of
      BY <2>1 DEF PaneInv, WatchInv
    <2>3. rows \in Seq(TransferRows) /\ FewAndOnce(rows)
      BY DEF PaneInv, PaneTypes
    <2>4. rows' = Sftp!Applied(rows, r)
      BY <1>3
    <2> HIDE DEF r
    <2>5. /\ rows' \in Seq(TransferRows) /\ FewAndOnce(rows')
          /\ \A k \in DOMAIN rows' : rows'[k].of = r.of
      BY <2>1, <2>2, <2>3, <2>4, AppliedRows
    <2>6. PaneTypes'
      BY <1>1, <1>3, <2>5 DEF PaneInv, PaneTypes
    <2>7. WatchInv'
      BY <1>1, <1>3, <2>1, <2>5 DEF PaneInv, WatchInv
    <2>8. FewAndOnce(rows)'
      BY <2>5 DEF FewAndOnce, Sftp!Same
    <2> QED
      BY <1>2, <2>6, <2>7, <2>8 DEF PaneInv
  <1>4. CASE watchers' = watchers \ {w} /\ UNCHANGED rows
    <2>1. PaneTypes' /\ WatchInv' /\ FewAndOnce(rows)'
      BY <1>1, <1>4 DEF PaneInv, PaneTypes, WatchInv, FewAndOnce, Sftp!Same
    <2> QED
      BY <1>2, <2>1 DEF PaneInv
  <1> QED
    BY <1>3, <1>4 DEF Sftp!TransferEvent

\* Every step of the pane.
LEMMA PaneStep ==
  ASSUME MaxTransfers \in Nat \ {0}
  PROVE  PaneInv /\ [Sftp!Next]_(Sftp!vars) => PaneInv'
  <1> SUFFICES ASSUME PaneInv, [Sftp!Next]_(Sftp!vars) PROVE PaneInv'
    OBVIOUS
  <1>1. ASSUME NEW c \in unused \cup {Sftp!NoClient}, Sftp!Detach(c) PROVE PaneInv'
    BY <1>1, DetachStep
  <1>2. CASE Sftp!Attach
    BY <1>2, AttachStep
  <1>3. CASE Sftp!AttemptFails
    <2>1. Sftp!ConnectingIsTrue' /\ attempt' \in Attachable
      BY <1>3 DEF PaneInv, Sftp!ConnectingIsTrue, Sftp!AttemptFails, Attachable
    <2> QED
      BY <1>3, <2>1, ScreenStep DEF Sftp!AttemptFails, Sftp!listings, Sftp!transfers
  <1>4. CASE Sftp!CloseConnecting \/ Sftp!SelectHost \/ Sftp!LeavePicker
    <2>1. PICK b : Sftp!Shows(FALSE, b) \/ Sftp!Shows(connecting, b)
      BY <1>4 DEF Sftp!CloseConnecting, Sftp!SelectHost, Sftp!LeavePicker
    <2>2. /\ connecting' \in {FALSE, connecting}
          /\ UNCHANGED <<client, unused, attempt, cwd, listing, picked, past,
                         Sftp!listings, Sftp!transfers>>
      BY <2>1 DEF Sftp!Shows
    <2>3. connecting' => connecting
      BY <2>2, Zenon
    <2>4. Sftp!ConnectingIsTrue' /\ attempt' \in Attachable
      BY <2>2, <2>3 DEF PaneInv, PaneTypes, Sftp!ConnectingIsTrue
    <2> QED
      BY <2>2, <2>4, ScreenStep DEF Sftp!listings, Sftp!transfers
  <1>5. CASE Sftp!Refresh
    BY <1>5, LoadStep DEF Sftp!Refresh, Sftp!attachment, Sftp!transfers
  <1>6. CASE Sftp!GoUp
    BY <1>6, NavigateStep DEF Sftp!GoUp
  <1>7. CASE Sftp!GoBack \/ Sftp!GoForward
    <2>1. PICK n : Sftp!GoTo(n)
      BY <1>7 DEF Sftp!GoBack, Sftp!GoForward
    <2> QED
      BY <2>1, LoadStep DEF Sftp!GoTo, Sftp!attachment, Sftp!transfers
  <1>8. CASE Sftp!StartUpload \/ Sftp!StartDownload
    <2>1. UNCHANGED <<Sftp!attachment, cwd, listing, picked, past, Sftp!listings, rows,
                      watchers, watchGen>>
      BY <1>8 DEF Sftp!StartUpload, Sftp!StartDownload, Sftp!Start
    <2>2. Sftp!ConnectingIsTrue' /\ attempt' \in Attachable
      BY <2>1 DEF PaneInv, PaneTypes, Sftp!ConnectingIsTrue, Sftp!attachment
    <2> QED
      BY <2>1, <2>2, ScreenStep DEF Sftp!listings, Sftp!attachment
  <1>9. ASSUME NEW k \in DOMAIN Sftp!Listed, Sftp!Pick(k) PROVE PaneInv'
    <2>1. /\ client # Sftp!NoClient
          /\ UNCHANGED <<Sftp!attachment, cwd, listing, past, Sftp!listings, Sftp!transfers>>
      BY <1>9 DEF Sftp!Pick, Sftp!RowsShown, Sftp!Screen
    <2>2. Sftp!ConnectingIsTrue' /\ attempt' \in Attachable
      BY <2>1 DEF PaneInv, PaneTypes, Sftp!ConnectingIsTrue, Sftp!attachment
    <2> QED
      BY <2>1, <2>2, ScreenStep DEF Sftp!listings, Sftp!attachment, Sftp!transfers
  <1>10. ASSUME NEW k \in DOMAIN Sftp!Listed, Sftp!Activate(k) PROVE PaneInv'
    BY <1>10, NavigateStep DEF Sftp!Activate
  <1>11. ASSUME NEW k \in DOMAIN Sftp!Listed, Sftp!RefuseName(k) PROVE PaneInv'
    <2>1. /\ error' = TRUE
          /\ UNCHANGED <<Sftp!attachment, cwd, listing, picked, loads, loadGen,
                         Sftp!transfers>>
      BY <1>11 DEF Sftp!RefuseName
    <2>2. Sftp!ConnectingIsTrue' /\ attempt' \in Attachable
      BY <2>1 DEF PaneInv, PaneTypes, Sftp!ConnectingIsTrue, Sftp!attachment
    <2> QED
      BY <2>1, <2>2, ScreenStep DEF Sftp!attachment, Sftp!transfers
  <1>12. ASSUME NEW p \in Sftp!Crumbs, Sftp!GoToCrumb(p) PROVE PaneInv'
    BY <1>12, NavigateStep DEF Sftp!GoToCrumb
  <1>13. ASSUME NEW load \in loads, Sftp!LoadAnswers(load) PROVE PaneInv'
    BY <1>13, AnswerStep
  <1>14. ASSUME NEW job \in jobs, Sftp!JobEnds(job) PROVE PaneInv'
    <2>1. UNCHANGED <<Sftp!attachment, cwd, listing, past, rows, watchers, watchGen>>
      BY <1>14 DEF Sftp!JobEnds
    <2>2. CASE client # Sftp!NoClient /\ Sftp!Load(client, Sftp!Here)
      BY <2>1, <2>2, LoadStep DEF Sftp!attachment
    <2>3. CASE UNCHANGED <<loads, loadGen, loading, picked>> /\ (error' = TRUE \/ error' = error)
      <3>1. Sftp!ConnectingIsTrue' /\ attempt' \in Attachable
        BY <2>1, <2>3 DEF PaneInv, PaneTypes, Sftp!ConnectingIsTrue, Sftp!attachment
      <3> QED
        BY <2>1, <2>3, <3>1, ScreenStep DEF Sftp!attachment
    <2> QED
      BY <1>14, <2>2, <2>3 DEF Sftp!JobEnds, Sftp!listings
  <1>15. ASSUME NEW w \in watchers, NEW n \in 1 .. MaxTransfers + 1, NEW isOver \in BOOLEAN,
                Sftp!TransferEvent(w, n, isOver)
         PROVE  PaneInv'
    <2>1. n \in Nat
      OBVIOUS
    <2> QED
      BY <1>15, <2>1, EventStep
  <1>16. CASE UNCHANGED Sftp!vars
    <2>1. Sftp!ConnectingIsTrue' /\ attempt' \in Attachable
      BY <1>16 DEF PaneInv, PaneTypes, Sftp!ConnectingIsTrue, Sftp!vars
    <2> QED
      BY <1>16, <2>1, ScreenStep DEF Sftp!vars
  <1> QED
    BY <1>1, <1>2, <1>3, <1>4, <1>5, <1>6, <1>7, <1>8, <1>9, <1>10, <1>11, <1>12, <1>13,
       <1>14, <1>15, <1>16 DEF Sftp!Next, Sftp!AttachmentStep

\* However attachments, listings, transfers and their answers interleave: an
\* attached pane lists the directory it names through its own client, its rows are
\* that client's transfers, each once and as many as are kept, and it says that it
\* connects only while an attempt goes on.
THEOREM PaneAlwaysOfItsClient ==
  ASSUME MaxTransfers \in Nat \ {0}
  PROVE  Sftp!Spec =>
           [](Sftp!ListingIsCurrent /\ Sftp!RowsAreOfClient /\ Sftp!ConnectingIsTrue)
  <1>1. PaneInv => Sftp!ListingIsCurrent /\ Sftp!RowsAreOfClient /\ Sftp!ConnectingIsTrue
    BY DEF PaneInv, LatestInv, WatchInv, FewAndOnce, Sftp!RowsAreOfClient,
           Sftp!CancelledOf
  <1> QED
    BY <1>1, PaneInit, PaneStep, PTL DEF Sftp!Spec

-----------------------------------------------------------------------------
(* Known hosts, under everything the keys pane does.  The file never        *)
(* records a key the user does not stand by, not even where a write failed  *)
(* or was cut off half-way; it records all of those, and no cut line,        *)
(* whenever no rewrite is under way and none failed (StoredInv).  What a    *)
(* rewrite is going to write it worked out from what it read, and the lines *)
(* it leaves out are found again by their numbers, which are not those of   *)
(* the file (RewriteInv).                                                   *)

TextLines == [names : SUBSET Hosts, key : Keys \cup {Cut}]

Trusts == [kind : {"Trust"}, at : {"Check", "Append", "Done"}, host : Hosts, key : Keys]
Reads == [kind : {"Replace"}, at : {"Read"}, host : Hosts, old : Keys, key : Keys]
Rewrites ==
  [kind : {"Replace"}, at : {"Truncate", "Write", "Append", "Done"}, host : Hosts,
   key : Keys, kept : Seq(TextLines), read : Seq(TextLines)]
Changes == [kind : {"Change"}, host : Hosts, old : Keys, key : Keys]

KeyTypes ==
  /\ lines \in Seq(TextLines)
  /\ vouched \in [Hosts -> SUBSET Keys]
  /\ task \in {Keyring!NoTask} \cup Trusts \cup Reads \cup Rewrites
  /\ pending \in {Keyring!NoChange} \cup Changes

\* The file holds only part of what is to be in it.
Rewriting == task.kind = "Replace" /\ task.at \in {"Write", "Append"}

StoredInv ==
  \A h \in Hosts :
    /\ Keyring!RecordedKeys(lines, h) \subseteq vouched[h] \cup {Cut}
    /\ ~torn /\ ~Rewriting => Keyring!RecordedKeys(lines, h) = vouched[h]

\* The keys for h on the lines that do not name the host.
KeysBeside(text, h, host) ==
  {text[i].key : i \in Keyring!Naming(text, h) \ Keyring!Naming(text, host)}

RewriteInv ==
  /\ task.kind = "Trust" /\ task.at = "Append" =>
       Keyring!Check(lines, task.host, task.key) = "Unknown"
  /\ task.kind = "Replace" /\ task.at \in {"Truncate", "Write", "Append"} =>
       \A h \in Hosts :
         /\ Keyring!RecordedKeys(task.kept, h) = KeysBeside(task.read, h, task.host)
         /\ Keyring!RecordedKeys(task.read, h) \subseteq vouched[h] \cup {Cut}
         /\ ~torn => Cut \notin Keyring!RecordedKeys(task.read, h)
  /\ task.kind = "Replace" /\ task.at = "Append" => lines = task.kept

HostsInv == KeyTypes /\ StoredInv /\ RewriteInv

\* A set has as many elements for the pane as it has here.
LEMMA SameCardinality == \A S : Keyring!Cardinality(S) = Cardinality(S)
  BY DEF Cardinality, Keyring!Cardinality

\* The number of an element is one of 1 .. |S|, no two elements have the same, and
\* every number is some element's.
LEMMA Ranks ==
  ASSUME NEW S \in SUBSET Nat, IsFiniteSet(S)
  PROVE  /\ Cardinality(S) \in Nat
         /\ \A i \in S : Keyring!Rank(S, i) \in 1 .. Cardinality(S)
         /\ \A i, j \in S : Keyring!Rank(S, i) = Keyring!Rank(S, j) => i = j
         /\ \A n \in 1 .. Cardinality(S) : \E i \in S : Keyring!Rank(S, i) = n
  <1> DEFINE Upto(i) == {j \in S : j <= i}
             rank == [i \in S |-> Cardinality(Upto(i))]
  <1>1. Cardinality(S) \in Nat
    BY FS_CardinalityType
  <1>2. ASSUME NEW i \in S
        PROVE  IsFiniteSet(Upto(i)) /\ Cardinality(Upto(i)) \in 1 .. Cardinality(S)
    <2>1. Upto(i) \in SUBSET S /\ Upto(i) # {}
      OBVIOUS
    <2> HIDE DEF Upto
    <2>2. IsFiniteSet(Upto(i)) /\ Cardinality(Upto(i)) <= Cardinality(S)
      BY <2>1, FS_Subset
    <2>3. Cardinality(Upto(i)) \in Nat /\ Cardinality(Upto(i)) # 0
      BY <2>1, <2>2, FS_CardinalityType, FS_EmptySet
    <2> QED
      BY <1>1, <2>2, <2>3
  <1>3. ASSUME NEW i \in S, NEW j \in S, i < j PROVE Cardinality(Upto(i)) # Cardinality(Upto(j))
    <2>1. \A k \in S : /\ k <= i => k <= j
                       /\ j <= j /\ ~ (j <= i)
      BY <1>3
    <2>2. Upto(i) \in SUBSET Upto(j) /\ j \in Upto(j) /\ j \notin Upto(i)
      BY <2>1
    <2>3. Upto(i) # Upto(j) /\ IsFiniteSet(Upto(j))
      BY <1>2, <2>2
    <2> HIDE DEF Upto
    <2> QED
      BY <2>2, <2>3, FS_Subset
  <1>4. ASSUME NEW i \in S, NEW j \in S, Cardinality(Upto(i)) = Cardinality(Upto(j)) PROVE i = j
    <2>1. i < j \/ j < i \/ i = j
      OBVIOUS
    <2> HIDE DEF Upto
    <2> QED
      BY <1>3, <1>4, <2>1
  <1>5. \A n \in 1 .. Cardinality(S) : \E i \in S : Cardinality(Upto(i)) = n
    <2> HIDE DEF Upto
    <2> DEFINE T == 1 .. Cardinality(S)
    <2>1. IsFiniteSet(T) /\ Cardinality(T) = Cardinality(S)
      BY <1>1, FS_Interval
    <2>2. rank \in [S -> T] /\ \A i, j \in S : rank[i] = rank[j] => i = j
      BY <1>2, <1>4
    <2>3. rank \in Injection(S, T)
      BY <2>2 DEF Injection, IsInjective
    <2> HIDE DEF T
    <2>4. rank \in Surjection(S, T)
      BY <2>1, <2>3, FS_Injection
    <2>5. \A n \in T : \E i \in S : rank[i] = n
      BY <2>4 DEF Surjection
    <2> QED
      BY <2>5 DEF T
  <1> QED
    BY <1>1, <1>2, <1>4, <1>5, SameCardinality DEF Keyring!Rank

\* The keys recorded for a host are those of the lines that name it.
LEMMA RecordedOnLines ==
  ASSUME NEW text, NEW h
  PROVE  Keyring!RecordedKeys(text, h) = {text[i].key : i \in Keyring!Naming(text, h)}
  <1> DEFINE number(i) == Keyring!Rank(Keyring!Counted(text), i)
             here == {text[i].key : i \in Keyring!Naming(text, h)}
  <1>1. Keyring!Recorded(text, h) = {<<number(i), text[i].key>> : i \in Keyring!Naming(text, h)}
    BY DEF Keyring!Recorded
  <1>2. Keyring!RecordedKeys(text, h) = {r[2] : r \in Keyring!Recorded(text, h)}
    BY DEF Keyring!RecordedKeys
  <1> HIDE DEF number
  <1>3. ASSUME NEW k \in Keyring!RecordedKeys(text, h) PROVE k \in here
    <2>1. PICK r \in Keyring!Recorded(text, h) : k = r[2]
      BY <1>2, <1>3
    <2>2. PICK i \in Keyring!Naming(text, h) : r = <<number(i), text[i].key>>
      BY <1>1, <2>1
    <2>3. k = text[i].key
      BY <2>1, <2>2
    <2> QED
      BY <2>3
  <1>4. ASSUME NEW i \in Keyring!Naming(text, h)
        PROVE  text[i].key \in Keyring!RecordedKeys(text, h)
    <2>1. <<number(i), text[i].key>> \in Keyring!Recorded(text, h)
      BY <1>1
    <2>2. <<number(i), text[i].key>>[2] = text[i].key
      OBVIOUS
    <2> QED
      BY <1>2, <2>1, <2>2
  <1> QED
    BY <1>3, <1>4

\* One more line records its key for the hosts that it names.
LEMMA RecordedAppend ==
  ASSUME NEW text \in Seq(TextLines), NEW line \in TextLines, NEW h \in Hosts
  PROVE  Keyring!RecordedKeys(Append(text, line), h) =
           Keyring!RecordedKeys(text, h) \cup IF h \in line.names THEN {line.key} ELSE {}
  <1> DEFINE longer == Append(text, line)
  <1>1. /\ DOMAIN longer = 1 .. Len(text) + 1 /\ DOMAIN text = 1 .. Len(text) /\ Len(text) \in Nat
        /\ longer[Len(text) + 1] = line /\ \A i \in 1 .. Len(text) : longer[i] = text[i]
    OBVIOUS
  <1> HIDE DEF longer
  <1>2. \A i \in DOMAIN longer : i \in DOMAIN text \/ i = Len(text) + 1
    BY <1>1
  <1>3. \A i \in DOMAIN text : i \in DOMAIN longer /\ longer[i] = text[i]
    BY <1>1
  <1>4. Len(text) + 1 \in DOMAIN longer
    BY <1>1
  <1>5. {longer[i].key : i \in {j \in DOMAIN longer : h \in longer[j].names}} =
          {text[i].key : i \in {j \in DOMAIN text : h \in text[j].names}}
            \cup IF h \in line.names THEN {line.key} ELSE {}
    BY <1>1, <1>2, <1>3, <1>4
  <1> QED
    BY <1>5, RecordedOnLines DEF Keyring!Naming, longer

\* The lines found by the numbers of a host's lines are the host's lines.
LEMMA RawOfHost ==
  ASSUME NEW text \in Seq(TextLines), NEW h
  PROVE  Keyring!RawOf(text, {r[1] : r \in Keyring!Recorded(text, h)})
           = Keyring!Naming(text, h)
  <1> DEFINE S == Keyring!Counted(text)
             number(i) == Keyring!Rank(S, i)
  <1>1. S \in SUBSET (1 .. Len(text)) /\ 1 .. Len(text) \in SUBSET Nat /\ Len(text) \in Int
    BY DEF Keyring!Counted
  <1>2. S \in SUBSET Nat /\ IsFiniteSet(S)
    BY <1>1, FS_Interval, FS_Subset
  <1>3. Keyring!Naming(text, h) \subseteq S
    <2>1. \A i \in Keyring!Naming(text, h) : text[i] # Keyring!Comment
      BY DEF Keyring!Naming, Keyring!Comment
    <2> QED
      BY <2>1 DEF Keyring!Naming, Keyring!Counted
  <1>4. Keyring!Recorded(text, h) = {<<number(i), text[i].key>> : i \in Keyring!Naming(text, h)}
    BY DEF Keyring!Recorded
  <1>5. Keyring!RawOf(text, {r[1] : r \in Keyring!Recorded(text, h)})
          = {i \in S : number(i) \in {r[1] : r \in Keyring!Recorded(text, h)}}
    BY DEF Keyring!RawOf
  <1>6. \A i, j \in S : number(i) = number(j) => i = j
    BY <1>2, Ranks
  <1> HIDE DEF S, number
  <1>7. ASSUME NEW i \in Keyring!Naming(text, h)
        PROVE  number(i) \in {r[1] : r \in Keyring!Recorded(text, h)}
    <2>1. <<number(i), text[i].key>> \in Keyring!Recorded(text, h)
      BY <1>4
    <2>2. <<number(i), text[i].key>>[1] = number(i)
      OBVIOUS
    <2> QED
      BY <2>1, <2>2
  <1>8. ASSUME NEW n \in {r[1] : r \in Keyring!Recorded(text, h)}
        PROVE  \E i \in Keyring!Naming(text, h) : n = number(i)
    <2>1. PICK r \in Keyring!Recorded(text, h) : n = r[1]
      BY <1>8
    <2>2. PICK i \in Keyring!Naming(text, h) : r = <<number(i), text[i].key>>
      BY <1>4, <2>1
    <2> QED
      BY <2>1, <2>2
  <1> DEFINE numbers == {r[1] : r \in Keyring!Recorded(text, h)}
  <1> HIDE DEF numbers
  <1>9. \A i \in S : i \in Keyring!Naming(text, h) <=> number(i) \in numbers
    BY <1>3, <1>6, <1>7, <1>8 DEF numbers
  <1> QED
    BY <1>3, <1>5, <1>9 DEF numbers

\* What is left of a file has the lines that were not left out, and no others.
LEMMA WithoutLines ==
  ASSUME NEW text \in Seq(TextLines), NEW gone
  PROVE  /\ Keyring!Without(text, gone) \in Seq(TextLines)
         /\ \A h \in Hosts :
              Keyring!RecordedKeys(Keyring!Without(text, gone), h)
                = {text[i].key : i \in Keyring!Naming(text, h) \ gone}
  <1> DEFINE S == DOMAIN text \ gone
             N == Cardinality(S)
             place == [n \in 1 .. N |-> CHOOSE i \in S : Keyring!Rank(S, i) = n]
             rest == Keyring!Without(text, gone)
  <1>1. S \in SUBSET (1 .. Len(text)) /\ 1 .. Len(text) \in SUBSET Nat /\ Len(text) \in Int
    OBVIOUS
  <1>2. S \in SUBSET Nat /\ IsFiniteSet(S)
    BY <1>1, FS_Interval, FS_Subset
  <1>3. rest = [n \in 1 .. N |-> text[place[n]]]
    <2>1. \A n \in 1 .. N : place[n] = CHOOSE i \in S : Keyring!Rank(S, i) = n
      OBVIOUS
    <2>2. rest = [n \in 1 .. N |-> text[CHOOSE i \in S : Keyring!Rank(S, i) = n]]
      BY SameCardinality DEF Keyring!Without
    <2> HIDE DEF place, rest, N, S
    <2> QED
      BY <2>1, <2>2
  <1>4. N \in Nat /\ \A n \in 1 .. N : place[n] \in S /\ Keyring!Rank(S, place[n]) = n
    BY <1>2, Ranks
  <1>5. \A i \in S : \E n \in 1 .. N : place[n] = i
    <2> SUFFICES ASSUME NEW i \in S PROVE \E n \in 1 .. N : place[n] = i
      OBVIOUS
    <2>1. Keyring!Rank(S, i) \in 1 .. N
      BY <1>2, Ranks
    <2>2. Keyring!Rank(S, place[Keyring!Rank(S, i)]) = Keyring!Rank(S, i)
      BY <1>4, <2>1
    <2>3. place[Keyring!Rank(S, i)] \in S
      BY <1>4, <2>1
    <2> HIDE DEF S, place, N
    <2>4. \A j, k \in S : Keyring!Rank(S, j) = Keyring!Rank(S, k) => j = k
      BY <1>2, Ranks
    <2>5. place[Keyring!Rank(S, i)] = i
      BY <2>2, <2>3, <2>4
    <2> QED
      BY <2>1, <2>5
  <1> HIDE DEF place, N
  <1>6. \A i \in S : i \in DOMAIN text /\ text[i] \in TextLines
    OBVIOUS
  <1> HIDE DEF S
  <1>7. rest \in Seq(TextLines) /\ DOMAIN rest = 1 .. N
    BY <1>3, <1>4, <1>6
  <1>8. ASSUME NEW h \in Hosts
        PROVE  Keyring!RecordedKeys(rest, h) = {text[i].key : i \in Keyring!Naming(text, h) \ gone}
    <2>1. Keyring!Naming(text, h) \ gone = {i \in S : h \in text[i].names}
      BY DEF Keyring!Naming, S
    <2>2. Keyring!Naming(rest, h) = {n \in 1 .. N : h \in text[place[n]].names}
      BY <1>3, <1>7 DEF Keyring!Naming
    <2>3. {rest[n].key : n \in {m \in 1 .. N : h \in text[place[m]].names}}
            = {text[i].key : i \in {j \in S : h \in text[j].names}}
      <3> HIDE DEF rest
      <3> QED
        BY <1>3, <1>4, <1>5
    <2> QED
      BY <2>1, <2>2, <2>3, RecordedOnLines
  <1> QED
    BY <1>7, <1>8

\* The program starts with the keys of its file, and no task.
LEMMA HostsInit ==
  ASSUME Lined PROVE Keyring!KeysInit => HostsInv
  <1> SUFFICES ASSUME Keyring!Init PROVE HostsInv
    BY DEF Keyring!KeysInit
  <1>1. /\ lines \in Seq(HostLines) /\ task = Keyring!NoTask /\ task.kind = "None"
        /\ pending = Keyring!NoChange
        /\ vouched = [h \in Hosts |-> Keyring!RecordedKeys(lines, h)]
    BY DEF Keyring!Init, Keyring!NoTask, Lined
  <1>2. \A h \in Hosts : Keyring!RecordedKeys(lines, h) \in SUBSET Keys
    <2>1. \A i \in DOMAIN lines : lines[i] \in HostLines
      BY <1>1
    <2>2. \A i \in DOMAIN lines : lines[i].key \in Keys
      BY <2>1 DEF HostLines
    <2> QED
      BY <2>2, RecordedOnLines DEF Keyring!Naming
  <1>3. KeyTypes
    <2>1. lines \in Seq(TextLines)
      <3>1. HostLines \subseteq TextLines
        BY DEF HostLines, TextLines
      <3> QED
        BY <1>1, <3>1
    <2> QED
      BY <1>1, <1>2, <2>1 DEF KeyTypes
  <1>4. StoredInv /\ RewriteInv
    BY <1>1 DEF StoredInv, RewriteInv
  <1> QED
    BY <1>3, <1>4 DEF HostsInv

\* A task of one kind is no task of another.
LEMMA TaskKinds ==
  /\ Keyring!NoTask.kind = "None"
  /\ \A x \in Trusts : x.kind = "Trust"
  /\ \A x \in Reads : x.kind = "Replace" /\ x.at = "Read"
  /\ \A x \in Rewrites : x.kind = "Replace"
  BY DEF Keyring!NoTask, Trusts, Reads, Rewrites

\* A task that starts, ends, or is answered leaves the file and what the user
\* stands by alone; it may do so where the file is whole or the rewrite is torn.
LEMMA TaskStep ==
  ASSUME HostsInv, UNCHANGED <<lines, vouched>>, KeyTypes',
         ~torn' => ~torn /\ ~Rewriting,
         task'.kind \notin {"Trust", "Replace"} \/ task'.at \in {"Check", "Read", "Done"}
  PROVE  HostsInv'
  <1>1. StoredInv'
    BY DEF HostsInv, StoredInv, Rewriting
  <1>2. RewriteInv'
    BY DEF RewriteInv
  <1> QED
    BY <1>1, <1>2 DEF HostsInv

\* A step that leaves known_hosts, its task and the user's keys alone.
LEMMA AsideStep ==
  ASSUME HostsInv, UNCHANGED <<lines, task, torn, vouched>>,
         pending' \in {pending, Keyring!NoChange}
  PROVE  HostsInv'
  <1>1. KeyTypes'
    BY DEF HostsInv, KeyTypes
  <1>2. StoredInv'
    BY DEF HostsInv, StoredInv, Rewriting
  <1>3. RewriteInv'
    BY DEF HostsInv, RewriteInv
  <1> QED
    BY <1>1, <1>2, <1>3 DEF HostsInv

\* A key to trust is written only if the host has none of its algorithm.
LEMMA LearnStep ==
  ASSUME HostsInv, Keyring!LearnCheck PROVE HostsInv'
  <1>1. /\ task.kind = "Trust" /\ task.at = "Check" /\ task \in Trusts
        /\ UNCHANGED <<lines, torn, vouched>>
    BY TaskKinds DEF Keyring!LearnCheck, HostsInv, KeyTypes
  <1>2. \/ task' = Keyring!NoTask
        \/ /\ task' = [task EXCEPT !.at = "Append"]
           /\ Keyring!Check(lines, task.host, task.key) = "Unknown"
    <2>1. PICK found \in {Keyring!Check(lines, task.host, task.key), "Unreadable"} :
            task' = IF found = "Unknown" THEN [task EXCEPT !.at = "Append"] ELSE Keyring!NoTask
      BY DEF Keyring!LearnCheck, Keyring!LearnsWhen
    <2> QED
      BY <2>1
  <1>3. pending' \in {pending} \cup Changes
    <2>1. \/ UNCHANGED pending
          \/ /\ Keyring!Check(lines, task.host, task.key) = "Changed"
             /\ \E old \in Keyring!RecordedKeys(lines, task.host) :
                  pending' = [kind |-> "Change", host |-> task.host, old |-> old, key |-> task.key]
      BY DEF Keyring!LearnCheck
    <2>2. task.host \in Hosts /\ task.key \in Keys
      BY <1>1 DEF Trusts
    <2>3. Keyring!Check(lines, task.host, task.key) = "Changed" =>
            Keyring!RecordedKeys(lines, task.host) \subseteq Keys
      BY <2>2 DEF HostsInv, KeyTypes, StoredInv, Keyring!Check
    <2> QED
      BY <2>1, <2>2, <2>3 DEF Changes
  <1>4. KeyTypes'
    BY <1>1, <1>2, <1>3 DEF HostsInv, KeyTypes, Trusts
  <1>5. CASE task' = Keyring!NoTask
    BY <1>1, <1>4, <1>5, TaskKinds, TaskStep DEF Rewriting
  <1>6. CASE /\ task' = [task EXCEPT !.at = "Append"]
             /\ Keyring!Check(lines, task.host, task.key) = "Unknown"
    <2>1. /\ task'.kind = "Trust" /\ task'.host = task.host /\ task'.key = task.key
      BY <1>1, <1>6 DEF Trusts
    <2>2. StoredInv'
      BY <1>1, <2>1 DEF HostsInv, StoredInv, Rewriting
    <2>3. Keyring!Check(lines, task.host, task.key)' = "Unknown"
      BY <1>1, <1>6, <2>1
    <2>4. RewriteInv'
      BY <2>1, <2>3 DEF RewriteInv
    <2> QED
      BY <1>4, <2>2, <2>4 DEF HostsInv
  <1> QED
    BY <1>2, <1>5, <1>6

\* The key is written: beside those the host had, or in the place of all that were
\* taken away.
LEMMA AppendStep ==
  ASSUME HostsInv, Keyring!AppendKey PROVE HostsInv'
  <1>1. /\ task.kind # "None" /\ task.at = "Append"
        /\ lines' = Append(lines, Keyring!Entry({task.host}, task.key))
        /\ task' \in {[task EXCEPT !.at = "Done"], Keyring!NoTask} /\ UNCHANGED <<pending, torn>>
        /\ Keyring!Stands
    BY DEF Keyring!AppendKey
  <1>2. task \in Trusts \/ task \in Rewrites
    BY <1>1, TaskKinds DEF HostsInv, KeyTypes, Reads
  <1>3. /\ task.host \in Hosts /\ task.key \in Keys
        /\ task' \in {Keyring!NoTask} \cup Trusts \cup Rewrites
        /\ task'.kind = "None" \/ task'.at = "Done"
    BY <1>1, <1>2, TaskKinds DEF Trusts, Rewrites
  <1> DEFINE line == Keyring!Entry({task.host}, task.key)
  <1>4. line \in TextLines /\ line.names = {task.host} /\ line.key = task.key
    BY <1>3 DEF Keyring!Entry, TextLines
  <1> HIDE DEF line
  <1>5. lines \in Seq(TextLines) /\ vouched \in [Hosts -> SUBSET Keys]
    BY DEF HostsInv, KeyTypes
  <1>6. lines' = Append(lines, line)
    BY <1>1 DEF line
  <1>7. lines' \in Seq(TextLines)
    BY <1>4, <1>5, <1>6
  <1>8. \A h \in Hosts : Keyring!RecordedKeys(lines', h) =
          Keyring!RecordedKeys(lines, h) \cup IF h = task.host THEN {task.key} ELSE {}
    BY <1>4, <1>5, <1>6, RecordedAppend
  <1>9. CASE task \in Trusts
    <2>1. Keyring!Check(lines, task.host, task.key) = "Unknown" /\ task.kind = "Trust"
      BY <1>1, <1>9, TaskKinds DEF HostsInv, RewriteInv
    <2>2. /\ vouched' \in [Hosts -> SUBSET Keys]
          /\ \A h \in Hosts : vouched'[h] = vouched[h] \cup IF h = task.host THEN {task.key} ELSE {}
      <3>1. vouched' = [h \in Hosts |-> IF h = task.host /\ Keyring!Check(lines, h, task.key) = "Unknown"
                                        THEN vouched[h] \cup {task.key} ELSE vouched[h]]
        BY <1>1, <2>1 DEF Keyring!Stands
      <3>2. \A h \in Hosts : vouched'[h] = vouched[h] \cup IF h = task.host THEN {task.key} ELSE {}
        BY <2>1, <3>1
      <3>3. DOMAIN vouched' = Hosts
        BY <3>1
      <3>4. \A h \in Hosts : vouched'[h] \in SUBSET Keys
        BY <1>3, <1>5, <3>2
      <3>5. vouched' = [h \in Hosts |-> vouched'[h]]
        BY <3>1, <3>3
      <3> QED
        BY <3>2, <3>4, <3>5
    <2>3. ~Rewriting
      BY <2>1 DEF Rewriting
    <2>4. StoredInv'
      <3>1. ASSUME NEW h \in Hosts
            PROVE  /\ Keyring!RecordedKeys(lines', h) \subseteq vouched'[h] \cup {Cut}
                   /\ ~torn' => Keyring!RecordedKeys(lines', h) = vouched'[h]
        <4>1. /\ Keyring!RecordedKeys(lines, h) \subseteq vouched[h] \cup {Cut}
              /\ ~torn => Keyring!RecordedKeys(lines, h) = vouched[h]
          BY <2>3 DEF HostsInv, StoredInv
        <4> DEFINE longer == IF h = task.host THEN {task.key} ELSE {}
        <4>2. /\ Keyring!RecordedKeys(lines', h) = Keyring!RecordedKeys(lines, h) \cup longer
              /\ vouched'[h] = vouched[h] \cup longer /\ torn' = torn
          BY <1>1, <1>8, <2>2
        <4> HIDE DEF longer
        <4> QED
          BY <4>1, <4>2
      <3> QED
        BY <3>1 DEF StoredInv
    <2>5. KeyTypes'
      BY <1>1, <1>3, <1>7, <2>2 DEF HostsInv, KeyTypes
    <2> QED
      BY <1>3, <2>4, <2>5 DEF HostsInv, RewriteInv
  <1>10. CASE task \in Rewrites
    <2>1. /\ task.kind = "Replace" /\ lines = task.kept /\ task.read \in Seq(TextLines)
          /\ \A h \in Hosts :
               /\ Keyring!RecordedKeys(task.kept, h) = KeysBeside(task.read, h, task.host)
               /\ ~torn => Cut \notin Keyring!RecordedKeys(task.read, h)
      BY <1>1, <1>10 DEF HostsInv, RewriteInv, Rewrites
    <2>2. vouched' = [h \in Hosts |-> IF h = task.host THEN {task.key}
                                      ELSE KeysBeside(task.read, h, task.host) \ {Cut}]
      BY <1>1, <2>1 DEF Keyring!Stands, KeysBeside
    <2>3. KeysBeside(task.read, task.host, task.host) = {}
      BY DEF KeysBeside
    <2>4. ASSUME NEW h \in Hosts
          PROVE  /\ Keyring!RecordedKeys(lines', h) \subseteq vouched'[h] \cup {Cut}
                 /\ ~torn' => Keyring!RecordedKeys(lines', h) = vouched'[h]
      <3>1. /\ Keyring!RecordedKeys(lines, h) = KeysBeside(task.read, h, task.host)
            /\ ~torn' => Cut \notin KeysBeside(task.read, h, task.host)
        <4>1. KeysBeside(task.read, h, task.host) \subseteq Keyring!RecordedKeys(task.read, h)
          BY RecordedOnLines DEF KeysBeside
        <4> QED
          BY <1>1, <2>1, <4>1
      <3>2. CASE h = task.host
        <4>1. Keyring!RecordedKeys(lines', h) = Keyring!RecordedKeys(lines, h) \cup {task.key}
          BY <1>8, <3>2
        <4> QED
          BY <2>2, <2>3, <3>1, <3>2, <4>1
      <3>3. CASE h # task.host
        <4>1. Keyring!RecordedKeys(lines', h) = Keyring!RecordedKeys(lines, h) \cup {}
          BY <1>8, <3>3
        <4> QED
          BY <2>2, <3>1, <3>3, <4>1
      <3> QED
        BY <3>2, <3>3
    <2>5. \A h \in Hosts : KeysBeside(task.read, h, task.host) \ {Cut} \in SUBSET Keys
      <3>1. \A i \in DOMAIN task.read : task.read[i] \in TextLines
        BY <2>1
      <3>2. \A i \in DOMAIN task.read : task.read[i].key \in Keys \cup {Cut}
        BY <3>1 DEF TextLines
      <3> QED
        BY <3>2 DEF KeysBeside, Keyring!Naming
    <2>6. vouched' \in [Hosts -> SUBSET Keys]
      BY <1>3, <2>2, <2>5
    <2>7. KeyTypes'
      BY <1>1, <1>3, <1>7, <2>6 DEF HostsInv, KeyTypes
    <2>8. StoredInv'
      BY <2>4 DEF StoredInv
    <2> QED
      BY <1>3, <2>7, <2>8 DEF HostsInv, RewriteInv
  <1> QED
    BY <1>2, <1>9, <1>10

\* The lines to be kept are worked out from what the file has.
LEMMA ReadStep ==
  ASSUME Lined, HostsInv, Keyring!ReadOld PROVE HostsInv'
  <1>1. /\ task \in Reads /\ UNCHANGED <<lines, pending, torn, vouched>>
        /\ task.kind = "Replace" /\ task.at = "Read"
    BY TaskKinds DEF Keyring!ReadOld, HostsInv, KeyTypes, Rewrites
  <1>2. lines \in Seq(TextLines) /\ task.host \in Hosts /\ task.key \in Keys
    BY <1>1 DEF HostsInv, KeyTypes, Reads
  <1> DEFINE keeps == Keyring!Without(lines, Keyring!Naming(lines, task.host))
             next == [kind |-> "Replace", at |-> "Truncate", host |-> task.host,
                      key |-> task.key, kept |-> keeps, read |-> lines]
  <1>3. task' = next \/ task' = Keyring!NoTask
    BY <1>2, RawOfHost DEF Keyring!ReadOld
  <1>4. keeps \in Seq(TextLines)
    BY <1>2, WithoutLines
  <1>5. \A h \in Hosts : Keyring!RecordedKeys(keeps, h) = KeysBeside(lines, h, task.host)
    BY <1>2, WithoutLines DEF KeysBeside
  <1> HIDE DEF keeps
  <1>6. next \in Rewrites
    BY <1>2, <1>4 DEF Rewrites
  <1>7. KeyTypes'
    BY <1>1, <1>3, <1>6 DEF HostsInv, KeyTypes
  <1>8. CASE task' = Keyring!NoTask
    BY <1>1, <1>7, <1>8, TaskKinds, TaskStep DEF Rewriting
  <1>9. CASE task' = next
    <2>1. /\ task'.kind = "Replace" /\ task'.at = "Truncate" /\ task'.host = task.host
          /\ task'.kept = keeps /\ task'.read = lines
      BY <1>9
    <2>2. StoredInv'
      BY <1>1, <2>1 DEF HostsInv, StoredInv, Rewriting
    <2>3. \A h \in Hosts : /\ Keyring!RecordedKeys(task'.kept, h)
                                = KeysBeside(task'.read, h, task'.host)
                           /\ Keyring!RecordedKeys(task'.read, h) \subseteq vouched'[h] \cup {Cut}
                           /\ ~torn' => Cut \notin Keyring!RecordedKeys(task'.read, h)
      <3>1. \A h \in Hosts : Cut \notin vouched[h]
        BY DEF Lined, HostsInv, KeyTypes
      <3> QED
        BY <1>1, <1>5, <2>1, <3>1 DEF HostsInv, StoredInv, Rewriting
    <2>4. RewriteInv'
      BY <2>1, <2>3 DEF RewriteInv
    <2> QED
      BY <1>7, <2>2, <2>4 DEF HostsInv
  <1> QED
    BY <1>3, <1>8, <1>9

\* What a write that is not over has left: lines of the text, and then one that may
\* have been cut.
LEMMA CutBeginning ==
  ASSUME NEW source \in Seq(TextLines), NEW text \in Keyring!Beginnings(source)
  PROVE  /\ text \in Seq(TextLines)
         /\ \A h \in Hosts : Keyring!RecordedKeys(text, h) \subseteq Keyring!RecordedKeys(source, h) \cup {Cut}
  <1>1. PICK n \in DOMAIN source :
          \/ text = SubSeq(source, 1, n - 1)
          \/ \E l \in Keyring!CutLines(source[n]) : text = Append(SubSeq(source, 1, n - 1), l)
    BY DEF Keyring!Beginnings
  <1> DEFINE whole == SubSeq(source, 1, n - 1)
  <1>2. n \in 1 .. Len(source) /\ source[n] \in TextLines
    BY <1>1
  <1>3. /\ whole \in Seq(TextLines) /\ Len(whole) = n - 1
        /\ \A i \in 1 .. n - 1 : i \in DOMAIN source /\ whole[i] = source[i]
    BY <1>2
  <1>4. \A h \in Hosts : Keyring!RecordedKeys(whole, h) \subseteq Keyring!RecordedKeys(source, h)
    <2> HIDE DEF whole
    <2>1. \A h \in Hosts : \A i \in Keyring!Naming(whole, h) :
            i \in Keyring!Naming(source, h) /\ whole[i].key = source[i].key
      BY <1>3 DEF Keyring!Naming
    <2> QED
      BY <2>1, RecordedOnLines
  <1>5. CASE text = whole
    BY <1>3, <1>4, <1>5
  <1>6. ASSUME NEW l \in Keyring!CutLines(source[n]), text = Append(whole, l)
        PROVE  /\ text \in Seq(TextLines)
               /\ \A h \in Hosts : Keyring!RecordedKeys(text, h) \subseteq Keyring!RecordedKeys(source, h) \cup {Cut}
    <2>1. l \in TextLines /\ (l.key = Cut \/ l.names = {})
      <3>1. \/ l = source[n] /\ source[n] = Keyring!Comment
            \/ l = Keyring!Entry({}, Cut) \/ l = Keyring!Entry(source[n].names, Cut)
        BY DEF Keyring!CutLines
      <3>2. Keyring!Comment.names = {}
        BY DEF Keyring!Comment
      <3> QED
        BY <1>2, <3>1, <3>2 DEF Keyring!Entry, TextLines
    <2> HIDE DEF whole
    <2>2. text \in Seq(TextLines)
      BY <1>3, <1>6, <2>1
    <2>3. ASSUME NEW h \in Hosts
          PROVE  Keyring!RecordedKeys(text, h) \subseteq Keyring!RecordedKeys(source, h) \cup {Cut}
      <3>1. Keyring!RecordedKeys(text, h) =
              Keyring!RecordedKeys(whole, h) \cup IF h \in l.names THEN {l.key} ELSE {}
        BY <1>3, <1>6, <2>1, RecordedAppend
      <3> QED
        BY <1>4, <2>1, <3>1
    <2> QED
      BY <2>2, <2>3
  <1> QED
    BY <1>1, <1>5, <1>6

\* The file is emptied, and then has the lines that are kept, one after the other:
\* for a while it records less than the user stands by, and never more.
LEMMA RewriteStep ==
  ASSUME HostsInv,
         \/ Keyring!Truncate /\ lines' = <<>> /\ task' = [task EXCEPT !.at = "Write"]
         \/ Keyring!WriteSome \/ Keyring!WriteKept
  PROVE  HostsInv'
  <1>1. /\ task \in Rewrites /\ task.kind = "Replace" /\ task.at \in {"Truncate", "Write"}
        /\ UNCHANGED <<pending, torn, vouched>>
    BY TaskKinds DEF Keyring!Truncate, Keyring!WriteSome, Keyring!WriteKept, HostsInv, KeyTypes,
                     Reads
  <1>2. PICK place \in {"Write", "Append"} :
          /\ task' = [task EXCEPT !.at = place]
          /\ place = "Append" => lines' = task.kept
          /\ place = "Write" => lines' = <<>> \/ lines' \in Keyring!Beginnings(task.kept)
    <2>1. CASE Keyring!WriteSome
      <3>1. task' = task /\ task.at = "Write" /\ lines' \in Keyring!Beginnings(task.kept)
        BY <2>1 DEF Keyring!WriteSome
      <3>2. task = [task EXCEPT !.at = "Write"]
        BY <1>1, <3>1 DEF Rewrites
      <3> QED
        BY <3>1, <3>2
    <2>2. CASE Keyring!WriteKept
      BY <2>2 DEF Keyring!WriteKept
    <2> QED
      BY <2>1, <2>2
  <1>3. /\ task' \in Rewrites /\ task'.kind = "Replace" /\ task'.at = place
        /\ task'.host = task.host /\ task'.kept = task.kept /\ task'.read = task.read
        /\ task.kept \in Seq(TextLines)
    BY <1>1, <1>2 DEF Rewrites
  <1>4. lines' \in Seq(TextLines)
    <2>1. <<>> \in Seq(TextLines)
      OBVIOUS
    <2> QED
      BY <1>2, <1>3, <2>1, CutBeginning
  <1>5. KeyTypes'
    BY <1>1, <1>3, <1>4 DEF HostsInv, KeyTypes
  <1>6. \A h \in Hosts :
          /\ Keyring!RecordedKeys(task.kept, h) = KeysBeside(task.read, h, task.host)
          /\ Keyring!RecordedKeys(task.read, h) \subseteq vouched[h] \cup {Cut}
          /\ ~torn => Cut \notin Keyring!RecordedKeys(task.read, h)
    BY <1>1 DEF HostsInv, RewriteInv
  <1>7. RewriteInv'
    BY <1>1, <1>2, <1>3, <1>6 DEF RewriteInv
  <1>8. ASSUME NEW h \in Hosts
        PROVE  Keyring!RecordedKeys(lines', h) \subseteq vouched'[h] \cup {Cut}
    <2>1. Keyring!RecordedKeys(task.kept, h) \subseteq vouched[h] \cup {Cut}
      <3>1. KeysBeside(task.read, h, task.host) \subseteq Keyring!RecordedKeys(task.read, h)
        BY RecordedOnLines DEF KeysBeside
      <3> QED
        BY <1>6, <3>1
    <2>2. Keyring!RecordedKeys(<<>>, h) = {}
      <3>1. Keyring!Naming(<<>>, h) = {}
        BY DEF Keyring!Naming
      <3> QED
        BY <3>1, RecordedOnLines
    <2>3. \/ lines' = <<>> \/ lines' = task.kept
          \/ Keyring!RecordedKeys(lines', h) \subseteq Keyring!RecordedKeys(task.kept, h) \cup {Cut}
      BY <1>2, <1>3, CutBeginning
    <2> QED
      BY <1>1, <2>1, <2>2, <2>3
  <1>9. StoredInv'
    BY <1>3, <1>8 DEF StoredInv, Rewriting
  <1> QED
    BY <1>5, <1>7, <1>9 DEF HostsInv

\* A step of a write that fails: what it has written stays, and it is torn if that
\* is anything.
LEMMA FailedStep ==
  ASSUME HostsInv,
         \/ Keyring!Truncate /\ UNCHANGED lines /\ task' = Keyring!NoTask
         \/ Keyring!WriteFails \/ Keyring!AppendFails
  PROVE  HostsInv'
  <1>1. task' = Keyring!NoTask /\ task'.kind = "None" /\ UNCHANGED <<pending, vouched>>
    BY TaskKinds DEF Keyring!Truncate, Keyring!WriteFails, Keyring!AppendFails
  <1>2. CASE UNCHANGED lines
    <2>1. ~torn' => ~torn /\ ~Rewriting
      BY <1>2, Zenon DEF Keyring!Truncate, Keyring!WriteFails, Keyring!AppendFails, Rewriting
    <2>2. KeyTypes'
      BY <1>1, <1>2 DEF HostsInv, KeyTypes
    <2> QED
      BY <1>1, <1>2, <2>1, <2>2, TaskStep
  <1>3. CASE lines' # lines
    <2>1. /\ torn' = TRUE /\ task.kind # "None" /\ task.at = "Append"
          /\ \E l \in Keyring!CutLines(Keyring!Entry({task.host}, task.key)) :
               lines' = Append(lines, l)
      BY <1>3 DEF Keyring!Truncate, Keyring!WriteFails, Keyring!AppendFails
    <2>2. task.host \in Hosts
      BY <2>1, TaskKinds DEF HostsInv, KeyTypes, Trusts, Reads, Rewrites
    <2>3. PICK l \in Keyring!CutLines(Keyring!Entry({task.host}, task.key)) :
            lines' = Append(lines, l)
      BY <2>1
    <2>4. l \in TextLines /\ l.key = Cut
      BY <2>2 DEF Keyring!CutLines, Keyring!Entry, Keyring!Comment, TextLines
    <2>5. lines \in Seq(TextLines) /\ lines' \in Seq(TextLines)
      BY <2>3, <2>4 DEF HostsInv, KeyTypes
    <2>6. \A h \in Hosts : Keyring!RecordedKeys(lines', h) \subseteq
                             Keyring!RecordedKeys(lines, h) \cup {Cut}
      BY <2>3, <2>4, <2>5, RecordedAppend
    <2>7. KeyTypes'
      BY <1>1, <2>5 DEF HostsInv, KeyTypes
    <2>8. StoredInv'
      BY <1>1, <2>1, <2>6 DEF HostsInv, StoredInv
    <2> QED
      BY <1>1, <2>7, <2>8 DEF HostsInv, RewriteInv
  <1> QED
    BY <1>2, <1>3

\* The steps of known_hosts.
LEMMA KnownHostsStep ==
  ASSUME Lined, HostsInv, Keyring!Next PROVE HostsInv'
  <1>1. ASSUME NEW h \in Hosts, NEW k \in Keys, Keyring!TrustKey(h, k) PROVE HostsInv'
    <2>1. /\ UNCHANGED <<lines, pending, torn, vouched>> /\ task = Keyring!NoTask
          /\ task' \in Trusts /\ task'.at = "Check"
      BY <1>1 DEF Keyring!TrustKey, Trusts
    <2>2. KeyTypes'
      BY <2>1 DEF HostsInv, KeyTypes
    <2> QED
      BY <2>1, <2>2, TaskKinds, TaskStep DEF Rewriting
  <1>2. CASE Keyring!ConfirmChange
    <2>1. /\ UNCHANGED <<lines, pending, torn, vouched>> /\ task = Keyring!NoTask
          /\ task' \in Reads /\ task'.at = "Read"
      BY <1>2 DEF Keyring!ConfirmChange, HostsInv, KeyTypes, Changes, Reads
    <2>2. KeyTypes'
      BY <2>1 DEF HostsInv, KeyTypes
    <2> QED
      BY <2>1, <2>2, TaskKinds, TaskStep DEF Rewriting
  <1>3. CASE Keyring!Report
    <2>1. /\ UNCHANGED <<lines, torn, vouched>> /\ task.at = "Done"
          /\ task' = Keyring!NoTask /\ pending' \in {pending, Keyring!NoChange}
      BY <1>3 DEF Keyring!Report
    <2>2. KeyTypes'
      BY <2>1 DEF HostsInv, KeyTypes
    <2> QED
      BY <2>1, <2>2, TaskKinds, TaskStep DEF Rewriting
  <1>4. CASE Keyring!Dismiss
    BY <1>4, AsideStep DEF Keyring!Dismiss
  <1>5. CASE Keyring!Crash
    <2>1. /\ UNCHANGED <<lines, vouched>> /\ task' = Keyring!NoTask
          /\ pending' = Keyring!NoChange
      BY <1>5 DEF Keyring!Crash
    <2>2. ~torn' => ~torn /\ ~Rewriting
      BY <1>5, Zenon DEF Keyring!Crash, Rewriting
    <2>3. KeyTypes'
      BY <2>1 DEF HostsInv, KeyTypes
    <2> QED
      BY <2>1, <2>2, <2>3, TaskKinds, TaskStep
  <1>6. CASE Keyring!Truncate
    <2>1. \/ lines' = <<>> /\ task' = [task EXCEPT !.at = "Write"]
          \/ UNCHANGED lines /\ task' = Keyring!NoTask
      BY <1>6 DEF Keyring!Truncate
    <2> QED
      BY <1>6, <2>1, RewriteStep, FailedStep
  <1>7. CASE Keyring!WriteSome \/ Keyring!WriteKept
    BY <1>7, RewriteStep
  <1>8. CASE Keyring!WriteFails \/ Keyring!AppendFails
    BY <1>8, FailedStep
  <1> QED
    BY <1>1, <1>2, <1>3, <1>4, <1>5, <1>6, <1>7, <1>8, LearnStep, AppendStep, ReadStep
       DEF Keyring!Next

\* Whatever the pane does, known_hosts takes one of its own steps or none.
LEMMA KeysPaneStep ==
  ASSUME Lined
  PROVE  HostsInv /\ [Keyring!KeysNext]_(Keyring!allVars) => HostsInv'
  <1> SUFFICES ASSUME HostsInv, [Keyring!KeysNext]_(Keyring!allVars) PROVE HostsInv'
    OBVIOUS
  <1> DEFINE aside == UNCHANGED <<lines, task, pending, torn, vouched>>
  <1>1. ASSUME aside PROVE HostsInv'
    BY <1>1, AsideStep
  <1>2. ASSUME NEW w \in works,
               \/ Keyring!Scan(w) \/ Keyring!Reloaded(w) \/ Keyring!ChooseName(w)
               \/ Keyring!Create(w) \/ Keyring!Write(w) \/ Keyring!RestrictMode(w)
               \/ Keyring!Saved(w) \/ Keyring!SaveFails(w)
        PROVE  aside
    BY <1>2 DEF Keyring!Scan, Keyring!Reloaded, Keyring!ChooseName, Keyring!Create,
                Keyring!Write, Keyring!RestrictMode, Keyring!Saved, Keyring!SaveFails,
                Keyring!vars
  <1>3. ASSUME NEW e \in listed, Keyring!SelectKey(e) PROVE aside
    BY <1>3 DEF Keyring!SelectKey, Keyring!vars
  <1>4. ASSUME NEW which, Keyring!Toggle(which) PROVE aside
    BY <1>4 DEF Keyring!Toggle, Keyring!vars
  <1>5. ASSUME Keyring!Generate \/ \E stem \in Imports : Keyring!Import(stem) PROVE aside
    BY <1>5 DEF Keyring!Generate, Keyring!Import, Keyring!Start
  <1>6. ASSUME NEW h \in Hosts, NEW k \in Keys, Keyring!TrustTyped(h, k) PROVE HostsInv'
    BY <1>6, KnownHostsStep DEF Keyring!TrustTyped, Keyring!Next
  <1>7. CASE Keyring!ConfirmPending
    BY <1>7, KnownHostsStep DEF Keyring!ConfirmPending, Keyring!Next
  <1>8. CASE Keyring!HostsStep
    BY <1>8, KnownHostsStep DEF Keyring!HostsStep, Keyring!Next
  <1>9. CASE Keyring!HostsWritten \/ Keyring!DismissPending
    BY <1>9, KnownHostsStep DEF Keyring!HostsWritten, Keyring!DismissPending, Keyring!Next
  <1>10. CASE Keyring!Die
    <2>1. (UNCHANGED Keyring!vars) \/ Keyring!Crash
      BY <1>10 DEF Keyring!Die
    <2>2. CASE UNCHANGED Keyring!vars
      BY <1>1, <2>2 DEF Keyring!vars
    <2>3. CASE Keyring!Crash
      BY <2>3, KnownHostsStep DEF Keyring!Next
    <2> QED
      BY <2>1, <2>2, <2>3
  <1>11. CASE UNCHANGED Keyring!allVars
    BY <1>1, <1>11 DEF Keyring!allVars, Keyring!vars
  <1> HIDE DEF aside
  <1> QED
    BY <1>1, <1>2, <1>3, <1>4, <1>5, <1>6, <1>7, <1>8, <1>9, <1>10, <1>11
       DEF Keyring!KeysNext

\* Whatever keys are generated, imported, trusted or replaced, whatever read or write
\* fails and wherever the program dies, in the middle of a rewrite too: a session
\* goes on only with a key that the user stands by for that host, and an idle pane of
\* whose writes none failed or was cut off half-way leaves the file with exactly
\* those keys.
THEOREM KeysAlwaysVouched ==
  ASSUME Lined
  PROVE  Keyring!KeysInit /\ [][Keyring!KeysNext]_(Keyring!allVars)
           => [](Keyring!AcceptedIsVouched /\ Keyring!VouchedIsRecorded)
  <1>1. ASSUME HostsInv PROVE Keyring!AcceptedIsVouched
    <2> SUFFICES ASSUME NEW h \in Hosts, NEW k \in Keys, Keyring!Accepts(lines, h, k)
                 PROVE  k \in vouched[h]
      BY DEF Keyring!AcceptedIsVouched
    <2>1. Keyring!Check(lines, h, k) = "Known"
      BY DEF Keyring!Accepts
    <2>2. k \in Keyring!RecordedKeys(lines, h)
      BY <2>1 DEF Keyring!Check
    <2>3. k # Cut
      BY DEF Lined
    <2> QED
      BY <1>1, <2>2, <2>3 DEF HostsInv, StoredInv
  <1>2. ASSUME HostsInv PROVE Keyring!VouchedIsRecorded
    BY <1>2, TaskKinds DEF HostsInv, StoredInv, Rewriting, Keyring!VouchedIsRecorded
  <1> QED
    BY <1>1, <1>2, HostsInit, KeysPaneStep, PTL

-----------------------------------------------------------------------------
(* The snippets.  A value typed for one snippet stays in the input when a  *)
(* quick snippet is selected, and fills nothing, because a quick snippet    *)
(* asks for nothing (TypedInv).                                            *)

TypedInv ==
  failed = 0 /\ (\E s \in library : IdOf[s.label] = chosen /\ s.template = "Asks") =>
    fields.typed \in {Snips!None, chosen}

SnipsInv ==
  /\ failed \in Nat /\ Snips!OneSnippetPerId /\ Snips!LibraryIsKept
  /\ TypedInv /\ Snips!ValuesStayWithTheirSnippet

\* The library starts as the file has it, with nothing typed.
LEMMA SnipsInit == Snips!Init => SnipsInv
  <1> SUFFICES ASSUME Snips!Init PROVE SnipsInv
    OBVIOUS
  <1>1. /\ failed = 0 /\ file = library /\ expanded = Snips!NoText /\ editing = Snips!None
        /\ chosen \in IF library = {} THEN {Snips!None} ELSE {IdOf[s.label] : s \in library}
        /\ \A s, t \in library : IdOf[s.label] = IdOf[t.label] => s = t
    BY DEF Snips!Init
  <1>2. fields.typed = Snips!None
    BY DEF Snips!Init, Snips!InputsOf, Snips!Fresh, Snips!Blank
  <1>3. chosen # Snips!None => Snips!ById(library, chosen) # {}
    BY <1>1 DEF Snips!ById
  <1>4. Snips!LibraryIsKept
    BY <1>1, <1>3 DEF Snips!LibraryIsKept
  <1>5. TypedInv /\ Snips!ValuesStayWithTheirSnippet /\ Snips!OneSnippetPerId
    BY <1>1, <1>2 DEF TypedInv, Snips!ValuesStayWithTheirSnippet, Snips!OneSnippetPerId,
                      Snips!NoText
  <1> QED
    BY <1>1, <1>4, <1>5 DEF SnipsInv

\* A step that leaves the library and its file alone.
LEMMA BrowseStep ==
  ASSUME SnipsInv, UNCHANGED <<library, file, failed>>,
         \A id \in {chosen', editing'} : id \in {Snips!None, chosen, editing}
                                         \/ Snips!ById(library, id) # {},
         TypedInv', Snips!ValuesStayWithTheirSnippet'
  PROVE  SnipsInv'
  <1>1. Snips!OneSnippetPerId'
    BY DEF SnipsInv, Snips!OneSnippetPerId
  <1>2. Snips!LibraryIsKept'
    BY DEF SnipsInv, Snips!LibraryIsKept
  <1> QED
    BY <1>1, <1>2 DEF SnipsInv

\* A snippet that is added takes the place of the one that has its id.
LEMMA AddedOnce ==
  ASSUME NEW lib, NEW s, \A t, u \in lib : IdOf[t.label] = IdOf[u.label] => t = u
  PROVE  /\ \A t, u \in Snips!Added(lib, s) : IdOf[t.label] = IdOf[u.label] => t = u
         /\ s \in Snips!Added(lib, s)
         /\ \A t \in lib : \E u \in Snips!Added(lib, s) : IdOf[u.label] = IdOf[t.label]
         /\ \A t \in Snips!Added(lib, s) : t = s \/ (t \in lib /\ IdOf[t.label] # IdOf[s.label])
  BY DEF Snips!Added, Snips!Without, Snips!ById

\* Saving the form replaces the snippet edited and the one that has the new id.
LEMMA SaveFormStep ==
  ASSUME SnipsInv, NEW s \in Snips!Snippets, Snips!SaveForm(s) PROVE SnipsInv'
  <1> DEFINE rest == Snips!Without(library, editing)
             lib == Snips!Added(rest, s)
             id == IdOf[s.label]
  <1>1. /\ library' = lib /\ UNCHANGED <<expanded, history>>
        /\ \/ /\ file' = lib /\ UNCHANGED failed /\ editing' = Snips!None /\ chosen' = id
              /\ fields' = Snips!InputsOf(lib, id)
           \/ failed' = failed + 1
    BY DEF Snips!SaveForm, Snips!Written
  <1>2. failed \in Nat /\ \A t, u \in rest : IdOf[t.label] = IdOf[u.label] => t = u
    BY DEF SnipsInv, Snips!OneSnippetPerId, Snips!Without
  <1>3. s \in lib /\ \A t, u \in lib : IdOf[t.label] = IdOf[u.label] => t = u
    BY <1>2, AddedOnce
  <1>4. Snips!InputsOf(lib, id).typed = Snips!None
    BY DEF Snips!InputsOf, Snips!Fresh, Snips!Blank
  <1> HIDE DEF lib
  <1>5. Snips!OneSnippetPerId' /\ failed' \in Nat
    BY <1>1, <1>2, <1>3 DEF Snips!OneSnippetPerId
  <1>6. CASE /\ file' = lib /\ UNCHANGED failed /\ editing' = Snips!None /\ chosen' = id
             /\ fields' = Snips!InputsOf(lib, id)
    <2>1. Snips!ById(lib, id) # {}
      BY <1>3 DEF Snips!ById
    <2>2. Snips!LibraryIsKept'
      BY <1>1, <1>6, <2>1 DEF Snips!LibraryIsKept
    <2>3. TypedInv' /\ Snips!ValuesStayWithTheirSnippet'
      BY <1>1, <1>4, <1>6 DEF SnipsInv, TypedInv, Snips!ValuesStayWithTheirSnippet
    <2> QED
      BY <1>5, <2>2, <2>3 DEF SnipsInv
  <1>7. CASE failed' = failed + 1
    <2>1. failed' # 0
      BY <1>2, <1>7
    <2> QED
      BY <1>5, <2>1 DEF SnipsInv, Snips!LibraryIsKept, TypedInv,
                        Snips!ValuesStayWithTheirSnippet
  <1> QED
    BY <1>1, <1>6, <1>7

\* A quick snippet is selected with the inputs of the one before, and asks for
\* nothing.
LEMMA QuickStep ==
  ASSUME SnipsInv, NEW s \in Snips!Snippets, Snips!AddQuickSnippet(s) PROVE SnipsInv'
  <1> DEFINE lib == Snips!Added(library, s)
             id == IdOf[s.label]
  <1>1. /\ library' = lib /\ s.template # "Asks"
        /\ UNCHANGED <<fields, expanded, form, editing, history>>
        /\ \/ file' = lib /\ UNCHANGED failed /\ chosen' = id
           \/ failed' = failed + 1
    BY DEF Snips!AddQuickSnippet, Snips!Written
  <1>2. failed \in Nat /\ \A t, u \in library : IdOf[t.label] = IdOf[u.label] => t = u
    BY DEF SnipsInv, Snips!OneSnippetPerId
  <1>3. /\ s \in lib /\ \A t, u \in lib : IdOf[t.label] = IdOf[u.label] => t = u
        /\ \A t \in library : \E u \in lib : IdOf[u.label] = IdOf[t.label]
    BY <1>2, AddedOnce
  <1> HIDE DEF lib
  <1>4. Snips!OneSnippetPerId' /\ failed' \in Nat
    BY <1>1, <1>2, <1>3 DEF Snips!OneSnippetPerId
  <1>5. CASE file' = lib /\ UNCHANGED failed /\ chosen' = id
    <2>1. /\ Snips!ById(lib, id) # {}
          /\ Snips!ById(library, editing) # {} => Snips!ById(lib, editing) # {}
      BY <1>3 DEF Snips!ById
    <2>2. Snips!LibraryIsKept'
      BY <1>1, <1>5, <2>1 DEF SnipsInv, Snips!LibraryIsKept
    <2>3. \A t \in lib : IdOf[t.label] = id => t.template # "Asks"
      BY <1>1, <1>3
    <2>4. TypedInv' /\ Snips!ValuesStayWithTheirSnippet'
      BY <1>1, <1>5, <2>3 DEF SnipsInv, TypedInv, Snips!ValuesStayWithTheirSnippet
    <2> QED
      BY <1>4, <2>2, <2>4 DEF SnipsInv
  <1>6. CASE failed' = failed + 1
    <2>1. failed' # 0
      BY <1>2, <1>6
    <2> QED
      BY <1>4, <2>1 DEF SnipsInv, Snips!LibraryIsKept, TypedInv,
                        Snips!ValuesStayWithTheirSnippet
  <1> QED
    BY <1>1, <1>5, <1>6

\* What is shown and edited of a deleted snippet goes with it.
LEMMA DeleteStep ==
  ASSUME SnipsInv, NEW id, Snips!Delete(id) PROVE SnipsInv'
  <1>1. /\ library' = Snips!Without(library, id)
        /\ \/ chosen = id /\ chosen' = Snips!None /\ fields' = Snips!Blank /\ expanded' = Snips!NoText
           \/ chosen # id /\ UNCHANGED <<chosen, fields, expanded>>
        /\ \/ editing = id /\ editing' = Snips!None
           \/ editing # id /\ UNCHANGED editing
        /\ \/ file' = library' /\ UNCHANGED failed
           \/ failed' = failed + 1
    BY DEF Snips!Delete, Snips!Forget, Snips!Written
  <1>2. /\ failed \in Nat /\ library' \subseteq library
        /\ \A i : i # id => Snips!ById(library', i) = Snips!ById(library, i)
    BY <1>1 DEF SnipsInv, Snips!Without, Snips!ById
  <1>3. Snips!OneSnippetPerId' /\ failed' \in Nat
    BY <1>1, <1>2 DEF SnipsInv, Snips!OneSnippetPerId
  <1>4. CASE file' = library' /\ UNCHANGED failed
    <2>1. Snips!LibraryIsKept'
      BY <1>1, <1>2, <1>4 DEF SnipsInv, Snips!LibraryIsKept
    <2>2. TypedInv'
      BY <1>1, <1>2, <1>4 DEF SnipsInv, TypedInv, Snips!Blank
    <2>3. Snips!ValuesStayWithTheirSnippet'
      BY <1>1, <1>4 DEF SnipsInv, Snips!ValuesStayWithTheirSnippet, Snips!NoText
    <2> QED
      BY <1>3, <2>1, <2>2, <2>3 DEF SnipsInv
  <1>5. CASE failed' = failed + 1
    <2>1. failed' # 0
      BY <1>2, <1>5
    <2> QED
      BY <1>3, <2>1 DEF SnipsInv, Snips!LibraryIsKept, TypedInv,
                        Snips!ValuesStayWithTheirSnippet
  <1> QED
    BY <1>1, <1>4, <1>5

\* Every step of the snippets.
LEMMA SnipsStep == SnipsInv /\ [Snips!Next]_(Snips!vars) => SnipsInv'
  <1> SUFFICES ASSUME SnipsInv, [Snips!Next]_(Snips!vars) PROVE SnipsInv'
    OBVIOUS
  <1>1. CASE Snips!TypeValue
    <2>1. /\ fields' = [fields EXCEPT !.typed = chosen] /\ fields'.typed \in {chosen, fields.typed}
          /\ UNCHANGED <<library, file, chosen, expanded, editing, failed>>
      BY <1>1 DEF Snips!TypeValue
    <2>2. TypedInv' /\ Snips!ValuesStayWithTheirSnippet'
      BY <2>1 DEF SnipsInv, TypedInv, Snips!ValuesStayWithTheirSnippet
    <2> QED
      BY <2>1, <2>2, BrowseStep
  <1>2. CASE Snips!Expand
    <2>1. UNCHANGED <<library, file, chosen, fields, editing, failed>>
      BY <1>2 DEF Snips!Expand
    <2>2. PICK s \in Snips!ById(library, chosen) :
            expanded' =
              CASE s.template = "Plain" -> [of |-> chosen, values |-> Snips!None]
                [] s.template = "Asks" /\ fields.shown /\ fields.typed # Snips!None ->
                     [of |-> chosen, values |-> fields.typed]
                [] OTHER -> Snips!NoText
      BY <1>2 DEF Snips!Expand
    <2>3. s \in library /\ IdOf[s.label] = chosen
      BY DEF Snips!ById
    <2>4. failed = 0 /\ s.template = "Asks" /\ fields.typed # Snips!None => fields.typed = chosen
      BY <2>3 DEF SnipsInv, TypedInv
    <2>5. \/ expanded'.values = Snips!None
          \/ s.template = "Asks" /\ expanded'.values = fields.typed /\ expanded'.of = chosen
      BY <2>2 DEF Snips!NoText
    <2>6. Snips!ValuesStayWithTheirSnippet'
      BY <2>1, <2>4, <2>5 DEF Snips!ValuesStayWithTheirSnippet
    <2>7. TypedInv'
      BY <2>1 DEF SnipsInv, TypedInv
    <2> QED
      BY <2>1, <2>6, <2>7, BrowseStep
  <1>3. CASE Snips!OpenNew \/ Snips!CloseForm \/ Snips!SaveFromHistory \/ Snips!ToggleHistory
    <2>1. /\ UNCHANGED <<library, file, chosen, fields, expanded, failed>>
          /\ editing' \in {editing, Snips!None}
      BY <1>3 DEF Snips!OpenNew, Snips!CloseForm, Snips!SaveFromHistory, Snips!ToggleHistory
    <2>2. TypedInv' /\ Snips!ValuesStayWithTheirSnippet'
      BY <2>1 DEF SnipsInv, TypedInv, Snips!ValuesStayWithTheirSnippet
    <2> QED
      BY <2>1, <2>2, BrowseStep
  <1>4. ASSUME NEW id \in Snips!SnippetIds, Snips!Select(id) PROVE SnipsInv'
    <2>1. /\ UNCHANGED <<library, file, editing, failed>> /\ chosen' = id
          /\ fields' = Snips!InputsOf(library, id) /\ expanded' = Snips!NoText
          /\ Snips!ById(library, id) # {}
      BY <1>4 DEF Snips!Select
    <2>2. fields'.typed = Snips!None /\ expanded'.values = Snips!None
      BY <2>1 DEF Snips!InputsOf, Snips!Fresh, Snips!Blank, Snips!NoText
    <2>3. TypedInv' /\ Snips!ValuesStayWithTheirSnippet'
      BY <2>1, <2>2 DEF TypedInv, Snips!ValuesStayWithTheirSnippet
    <2> QED
      BY <2>1, <2>3, BrowseStep
  <1>5. ASSUME NEW id \in Snips!SnippetIds, Snips!OpenEdit(id) PROVE SnipsInv'
    <2>1. /\ UNCHANGED <<library, file, chosen, fields, expanded, failed>> /\ editing' = id
          /\ Snips!ById(library, id) # {}
      BY <1>5 DEF Snips!OpenEdit
    <2>2. TypedInv' /\ Snips!ValuesStayWithTheirSnippet'
      BY <2>1 DEF SnipsInv, TypedInv, Snips!ValuesStayWithTheirSnippet
    <2> QED
      BY <2>1, <2>2, BrowseStep
  <1>6. CASE UNCHANGED Snips!vars
    <2>1. UNCHANGED <<library, file, chosen, fields, expanded, editing, failed>>
      BY <1>6 DEF Snips!vars
    <2>2. TypedInv' /\ Snips!ValuesStayWithTheirSnippet'
      BY <2>1 DEF SnipsInv, TypedInv, Snips!ValuesStayWithTheirSnippet
    <2> QED
      BY <2>1, <2>2, BrowseStep
  <1> QED
    BY <1>1, <1>2, <1>3, <1>4, <1>5, <1>6, SaveFormStep, QuickStep, DeleteStep
       DEF Snips!Next

\* For any labels, whichever share an id: no two snippets do; and while writes
\* succeed, the file is the library, only snippets it has are shown and edited, and
\* no value is expanded into a snippet that it was not typed for.
THEOREM SnippetsAlwaysKept ==
  Snips!Spec =>
    [](/\ Snips!OneSnippetPerId /\ Snips!LibraryIsKept
       /\ Snips!ValuesStayWithTheirSnippet)
  <1>1. SnipsInv => /\ Snips!OneSnippetPerId /\ Snips!LibraryIsKept
                    /\ Snips!ValuesStayWithTheirSnippet
    BY DEF SnipsInv
  <1> QED
    BY <1>1, SnipsInit, SnipsStep, PTL DEF Snips!Spec

-----------------------------------------------------------------------------
(* The settings.  Three controls write the file, each what it last read but *)
(* for one value: that is enough because the view and the sidebar are never *)
(* used at once, and what is read back is what was written.                *)

PrefsInv ==
  /\ failedWrites \in Nat /\ autocompleteOn \in BOOLEAN
  /\ shown \in Prefs!Values /\ asked \in Prefs!Values
  /\ Prefs!Load(settingsFile) \in Prefs!Values
  /\ Prefs!SettingsAreKept
  /\ paneZoom \in [Panes -> Int] /\ zoom \in Int /\ Prefs!PanesAreOneSize

\* What the file says is within the bounds, and a size within them is read as it is.
LEMMA Clamped ==
  ASSUME Sized
  PROVE  /\ \A raw \in Int \cup {NaN} : Prefs!ConfigClamp(raw) \in Prefs!Sizes
         /\ \A size \in Prefs!Sizes : Prefs!ConfigClamp(size) = size
         /\ \A size \in Int : Prefs!ViewClamp(size) \in Prefs!Sizes
  BY DEF Sized, Prefs!ConfigClamp, Prefs!ViewClamp, Prefs!Clamp, Prefs!Sizes

\* Whatever a control writes is what the next read finds.
LEMMA ReadsBack ==
  ASSUME Sized, NEW v \in Prefs!Values
  PROVE  /\ Prefs!Load(Prefs!Holding(v)) = v
         /\ Prefs!Load(Prefs!Holding([v EXCEPT !.size = Prefs!ConfigClamp(@)])) = v
  <1>1. v.size \in Prefs!Sizes
    BY DEF Prefs!Values
  <1>2. Prefs!ConfigClamp(v.size) = v.size
    BY <1>1, Clamped
  <1>3. [v EXCEPT !.size = Prefs!ConfigClamp(@)] = v
    BY <1>2 DEF Prefs!Values
  <1> QED
    BY <1>3 DEF Prefs!Load, Prefs!Holding

\* The window opens over any file.
LEMMA PrefsInit ==
  ASSUME Sized, Prefs!Init PROVE PrefsInv
  <1>1. Prefs!Defaults \in Prefs!Values
    BY DEF Sized, Prefs!Defaults, Prefs!Values
  <1>2. Prefs!Load(settingsFile) \in Prefs!Values
    <2>1. CASE settingsFile \in {[state |-> s, values |-> Prefs!Defaults] : s \in {"Missing", "Corrupt"}}
      BY <1>1, <2>1 DEF Prefs!Load
    <2>2. ASSUME NEW v \in Prefs!Values, NEW raw \in RawSizes,
                 settingsFile = Prefs!Holding([v EXCEPT !.size = raw])
          PROVE  Prefs!Load(settingsFile) \in Prefs!Values
      <3>1. Prefs!ConfigClamp(raw) \in Prefs!Sizes
        BY Clamped DEF Sized
      <3>2. Prefs!Load(settingsFile) = [v EXCEPT !.size = Prefs!ConfigClamp(raw)]
        BY <2>2 DEF Prefs!Load, Prefs!Holding, Prefs!Values
      <3> QED
        BY <3>1, <3>2 DEF Prefs!Values
    <2>3. \/ settingsFile \in {[state |-> s, values |-> Prefs!Defaults] : s \in {"Missing", "Corrupt"}}
          \/ settingsFile \in {Prefs!Holding([v EXCEPT !.size = raw]) :
                                 v \in Prefs!Values, raw \in RawSizes}
      BY DEF Prefs!Init
    <2>4. CASE settingsFile \in {Prefs!Holding([v EXCEPT !.size = raw]) :
                                   v \in Prefs!Values, raw \in RawSizes}
      <3>1. PICK v \in Prefs!Values, raw \in RawSizes :
              settingsFile = Prefs!Holding([v EXCEPT !.size = raw])
        BY <2>4
      <3> QED
        BY <2>2, <3>1
    <2> QED
      BY <2>1, <2>3, <2>4
  <1>3. /\ settingsOpen = FALSE /\ shown = Prefs!Defaults /\ failedWrites = 0
        /\ autocompleteOn = Prefs!Load(settingsFile).autocomplete
        /\ asked = Prefs!Load(settingsFile)
        /\ zoom = DefaultZoom /\ paneZoom = [p \in Panes |-> 0]
    BY DEF Prefs!Init
  <1>4. autocompleteOn \in BOOLEAN
    BY <1>2, <1>3 DEF Prefs!Values
  <1>5. Prefs!SettingsAreKept
    BY <1>3 DEF Prefs!SettingsAreKept
  <1>6. paneZoom \in [Panes -> Int] /\ zoom \in Int /\ Prefs!PanesAreOneSize
    BY <1>3 DEF Sized, Prefs!PanesAreOneSize
  <1> QED
    BY <1>1, <1>2, <1>3, <1>4, <1>5, <1>6 DEF PrefsInv

\* A control that writes v, as the user asked for, in the view or in the sidebar.
LEMMA WriteStep ==
  ASSUME Sized, PrefsInv, NEW v \in Prefs!Values, asked' \in Prefs!Values,
         \/ /\ settingsFile' \in {Prefs!Holding(v),
                                  Prefs!Holding([v EXCEPT !.size = Prefs!ConfigClamp(@)])}
            /\ UNCHANGED failedWrites
         \/ failedWrites' = failedWrites + 1 /\ UNCHANGED settingsFile,
         failedWrites = 0 => asked' = v,
         shown' \in Prefs!Values, settingsOpen' => shown' = v,
         autocompleteOn' \in BOOLEAN, UNCHANGED Prefs!text
  PROVE  PrefsInv'
  <1>1. Prefs!Load(settingsFile') \in Prefs!Values
    BY ReadsBack DEF PrefsInv
  <1>2. failedWrites' \in Nat /\ (failedWrites' = 0 => UNCHANGED failedWrites)
    BY DEF PrefsInv
  <1>3. failedWrites' = 0 => Prefs!Load(settingsFile') = v
    BY <1>2, ReadsBack DEF PrefsInv
  <1>4. Prefs!SettingsAreKept'
    BY <1>2, <1>3 DEF Prefs!SettingsAreKept
  <1>5. paneZoom' \in [Panes -> Int] /\ zoom' \in Int /\ Prefs!PanesAreOneSize'
    BY DEF PrefsInv, Prefs!PanesAreOneSize, Prefs!text
  <1> QED
    BY <1>1, <1>2, <1>4, <1>5 DEF PrefsInv

\* One value given in the view: the view has what the file has, but for that value.
LEMMA ViewStep ==
  ASSUME Sized, PrefsInv, NEW setting \in {"size", "experimental", "autocomplete"}, NEW value,
         [shown EXCEPT ![setting] = value] \in Prefs!Values,
         [asked EXCEPT ![setting] = value] \in Prefs!Values,
         Prefs!SaveSettings(setting, value)
  PROVE  PrefsInv'
  <1> DEFINE v == [shown EXCEPT ![setting] = value]
  <1>1. /\ settingsOpen /\ shown' = v /\ asked' = [asked EXCEPT ![setting] = value]
        /\ UNCHANGED <<settingsOpen, autocompleteOn, Prefs!text>>
        /\ \/ /\ settingsFile' = Prefs!Holding([v EXCEPT !.size = Prefs!ConfigClamp(@)])
              /\ UNCHANGED failedWrites
           \/ failedWrites' = failedWrites + 1 /\ UNCHANGED settingsFile
    BY DEF Prefs!SaveSettings, Prefs!Write
  <1>2. failedWrites = 0 => asked' = v
    BY <1>1 DEF PrefsInv, Prefs!SettingsAreKept
  <1>3. autocompleteOn' \in BOOLEAN
    BY <1>1 DEF PrefsInv
  <1>4. v \in Prefs!Values
    OBVIOUS
  <1> HIDE DEF v
  <1>5. asked' \in Prefs!Values
    BY <1>1
  <1> QED
    BY <1>1, <1>2, <1>3, <1>4, <1>5, WriteStep

\* Every step of the settings.
LEMMA PrefsStep ==
  ASSUME Sized, PrefsInv, [Prefs!Next]_(Prefs!vars) PROVE PrefsInv'
  <1>1. Prefs!Defaults \in Prefs!Values
    BY DEF Sized, Prefs!Defaults, Prefs!Values
  <1>2. CASE Prefs!Restart
    <2>1. /\ UNCHANGED <<settingsFile, asked, failedWrites>> /\ settingsOpen' = FALSE
          /\ shown' = Prefs!Defaults /\ autocompleteOn' = Prefs!Load(settingsFile).autocomplete
          /\ zoom' = DefaultZoom /\ paneZoom' = [p \in Panes |-> 0]
      BY <1>2 DEF Prefs!Restart
    <2>2. autocompleteOn' \in BOOLEAN
      BY <2>1 DEF PrefsInv, Prefs!Values
    <2>3. Prefs!SettingsAreKept'
      BY <2>1 DEF PrefsInv, Prefs!SettingsAreKept
    <2>4. paneZoom' \in [Panes -> Int] /\ zoom' \in Int /\ Prefs!PanesAreOneSize'
      BY <2>1 DEF Sized, Prefs!PanesAreOneSize
    <2> QED
      BY <1>1, <2>1, <2>2, <2>3, <2>4 DEF PrefsInv
  <1>3. CASE Prefs!OpenSettings
    <2>1. /\ UNCHANGED <<settingsFile, autocompleteOn, zoom, paneZoom, asked, failedWrites>>
          /\ settingsOpen' = ~settingsOpen
          /\ shown' = IF settingsOpen THEN Prefs!Defaults ELSE Prefs!Load(settingsFile)
      BY <1>3 DEF Prefs!OpenSettings, Prefs!text
    <2>2. Prefs!SettingsAreKept'
      BY <2>1 DEF PrefsInv, Prefs!SettingsAreKept
    <2>3. Prefs!PanesAreOneSize'
      BY <2>1 DEF PrefsInv, Prefs!PanesAreOneSize
    <2> QED
      BY <1>1, <2>1, <2>2, <2>3 DEF PrefsInv
  <1>4. CASE Prefs!StepDown \/ Prefs!StepUp
    <2>1. shown.size \in Int /\ SizeStep \in Int
      BY DEF Sized, PrefsInv, Prefs!Values, Prefs!Sizes
    <2>2. PICK size \in Int : Prefs!SaveSettings("size", Prefs!ViewClamp(size))
      BY <1>4, <2>1 DEF Prefs!StepDown, Prefs!StepUp
    <2>3. Prefs!ViewClamp(size) \in Prefs!Sizes
      BY <2>2, Clamped
    <2>4. /\ [shown EXCEPT !["size"] = Prefs!ViewClamp(size)] \in Prefs!Values
          /\ [asked EXCEPT !["size"] = Prefs!ViewClamp(size)] \in Prefs!Values
      BY <2>3 DEF PrefsInv, Prefs!Values
    <2> QED
      BY <2>2, <2>4, ViewStep
  <1>5. ASSUME NEW toggle \in {"experimental", "autocomplete"}, NEW b \in BOOLEAN,
               Prefs!SaveSettings(toggle, b)
        PROVE  PrefsInv'
    <2>1. /\ [shown EXCEPT ![toggle] = b] \in Prefs!Values
          /\ [asked EXCEPT ![toggle] = b] \in Prefs!Values
      BY DEF PrefsInv, Prefs!Values
    <2> QED
      BY <1>5, <2>1, ViewStep
  <1>6. CASE Prefs!ToggleExperimental \/ Prefs!ToggleAutocomplete
    <2>1. (~shown.experimental) \in BOOLEAN /\ (~shown.autocomplete) \in BOOLEAN
      OBVIOUS
    <2> QED
      BY <1>5, <1>6, <2>1 DEF Prefs!ToggleExperimental, Prefs!ToggleAutocomplete
  <1>7. CASE Prefs!SidebarToggle
    <2> DEFINE v == [Prefs!Load(settingsFile) EXCEPT !.autocomplete = ~autocompleteOn]
    <2>1. /\ ~settingsOpen /\ autocompleteOn' = ~autocompleteOn
          /\ asked' = [asked EXCEPT !.autocomplete = ~autocompleteOn]
          /\ UNCHANGED <<settingsOpen, shown, Prefs!text>>
          /\ \/ settingsFile' = Prefs!Holding(v) /\ UNCHANGED failedWrites
             \/ failedWrites' = failedWrites + 1 /\ UNCHANGED settingsFile
      BY <1>7 DEF Prefs!SidebarToggle, Prefs!InTerminal, Prefs!Write
    <2>2. v \in Prefs!Values /\ asked' \in Prefs!Values
      BY <2>1 DEF PrefsInv, Prefs!Values
    <2>3. failedWrites = 0 => asked' = v
      BY <2>1 DEF PrefsInv, Prefs!SettingsAreKept
    <2>4. autocompleteOn' \in BOOLEAN
      BY <2>1
    <2>5. shown' \in Prefs!Values /\ ~settingsOpen'
      BY <2>1 DEF PrefsInv
    <2> HIDE DEF v
    <2> QED
      BY <2>1, <2>2, <2>3, <2>4, <2>5, WriteStep
  <1>8. ASSUME NEW size \in Int, Prefs!SetTerminalFontSize(size) PROVE PrefsInv'
    <2> DEFINE clamped == Prefs!Clamp(size, MinZoom, MaxZoom)
    <2>1. /\ zoom' = clamped
          /\ paneZoom' = [p \in Panes |-> IF paneZoom[p] = 0 THEN 0 ELSE clamped]
          /\ UNCHANGED <<settingsFile, settingsOpen, shown, autocompleteOn, asked, failedWrites>>
      BY <1>8 DEF Prefs!SetTerminalFontSize
    <2>2. clamped \in Int
      BY DEF Prefs!Clamp, Sized
    <2> HIDE DEF clamped
    <2>3. paneZoom' \in [Panes -> Int] /\ zoom' \in Int /\ Prefs!PanesAreOneSize'
      BY <2>1, <2>2 DEF Prefs!PanesAreOneSize
    <2>4. Prefs!SettingsAreKept'
      BY <2>1 DEF PrefsInv, Prefs!SettingsAreKept
    <2> QED
      BY <2>1, <2>3, <2>4 DEF PrefsInv
  <1>9. CASE Prefs!ZoomIn \/ Prefs!ZoomOut \/ Prefs!ResetZoom
    <2>1. zoom + 1 \in Int /\ zoom - 1 \in Int /\ DefaultZoom \in Int
      BY DEF PrefsInv, Sized
    <2> QED
      BY <1>8, <1>9, <2>1 DEF Prefs!ZoomIn, Prefs!ZoomOut, Prefs!ResetZoom
  <1>10. ASSUME NEW p \in Panes, Prefs!CreateSession(p) PROVE PrefsInv'
    <2>1. /\ paneZoom' = [paneZoom EXCEPT ![p] = zoom] /\ settingsOpen' = FALSE
          /\ shown' = Prefs!Defaults
          /\ UNCHANGED <<settingsFile, autocompleteOn, zoom, asked, failedWrites>>
      BY <1>10 DEF Prefs!CreateSession
    <2>2. paneZoom' \in [Panes -> Int] /\ Prefs!PanesAreOneSize'
      BY <2>1 DEF PrefsInv, Prefs!PanesAreOneSize
    <2>3. Prefs!SettingsAreKept'
      BY <2>1 DEF PrefsInv, Prefs!SettingsAreKept
    <2> QED
      BY <1>1, <2>1, <2>2, <2>3 DEF PrefsInv
  <1>11. CASE UNCHANGED Prefs!vars
    <2>1. UNCHANGED <<settingsFile, settingsOpen, shown, autocompleteOn, zoom, paneZoom, asked,
                      failedWrites>>
      BY <1>11 DEF Prefs!vars
    <2>2. Prefs!SettingsAreKept'
      BY <2>1 DEF PrefsInv, Prefs!SettingsAreKept
    <2>3. Prefs!PanesAreOneSize'
      BY <2>1 DEF PrefsInv, Prefs!PanesAreOneSize
    <2> QED
      BY <2>1, <2>2, <2>3 DEF PrefsInv
  <1> QED
    BY <1>2, <1>3, <1>4, <1>6, <1>7, <1>9, <1>10, <1>11 DEF Prefs!Next

\* For any sizes and any file found, one edited by hand too: while writes succeed,
\* neither the view nor the sidebar takes back what the other wrote, and every
\* terminal has the size of text that was set last.
THEOREM SettingsAlwaysKept ==
  ASSUME Sized PROVE Prefs!Spec => [](Prefs!SettingsAreKept /\ Prefs!PanesAreOneSize)
  <1>1. PrefsInv => Prefs!SettingsAreKept /\ Prefs!PanesAreOneSize
    BY DEF PrefsInv
  <1> QED
    BY <1>1, PrefsInit, PrefsStep, PTL DEF Prefs!Spec

-----------------------------------------------------------------------------
(* The port-forwarding pane.  A row keeps its handle until it is stopped or   *)
(* goes, and what else it shows as an end was told of it by the forward, whose *)
(* last words they are (EndIsLast).                                        *)

Statuses == {"Starting", "Listening", "Failed", "Stopped"}
Tellings == {"Listening", "ConnectionFailed", "Failed", "Stopped"}
ForwardRows == [of : Nat, status : Statuses, handle : BOOLEAN]
Forwards == [of : Sessions, state : {"Starting", "Up", "Failed", "Over"}, asked : BOOLEAN,
             events : Seq(Tellings)]

ForwardTypes ==
  /\ session \in Sessions \cup {Forwarding!NoSession} /\ pendingStarts \in Seq(Sessions)
  /\ forwards \in Seq(Forwards) /\ forwardRows \in Seq(ForwardRows)

OneRowEach ==
  /\ Len(forwardRows) <= MaxForwards
  /\ \A k \in DOMAIN forwardRows : forwardRows[k].of \in DOMAIN forwards
  /\ \A j, k \in DOMAIN forwardRows : forwardRows[j].of = forwardRows[k].of => j = k

EndIsLast ==
  \A n \in DOMAIN forwards : \A i \in DOMAIN forwards[n].events :
    forwards[n].events[i] \in {"Failed", "Stopped"} => ~Forwarding!Runs(n)

OverTold ==
  \A k \in DOMAIN forwardRows :
    ~Forwarding!Active(forwardRows[k].status) /\ Forwarding!Runs(forwardRows[k].of)
      => ~forwardRows[k].handle

ForwardInv == ForwardTypes /\ OneRowEach /\ EndIsLast /\ OverTold

\* The pane's sets are counted as any others.
LEMMA ForwardsCounted == \A S : Forwarding!Cardinality(S) = Cardinality(S)
  BY DEF Cardinality, Forwarding!Cardinality

\* Rows of different forwards are as many as their forwards.
LEMMA RowsCounted ==
  ASSUME ForwardInv PROVE Forwarding!Cardinality(Forwarding!Tracked) = Len(forwardRows)
  <1> DEFINE f == [k \in 1 .. Len(forwardRows) |-> forwardRows[k].of]
             T == {forwardRows[k].of : k \in DOMAIN forwardRows}
  <1>1. Len(forwardRows) \in Nat /\ DOMAIN forwardRows = 1 .. Len(forwardRows)
    BY DEF ForwardInv, ForwardTypes
  <1>2. f \in Bijection(1 .. Len(forwardRows), T)
    <2>1. f \in [1 .. Len(forwardRows) -> T]
      BY <1>1
    <2>2. \A j, k \in 1 .. Len(forwardRows) : f[j] = f[k] => j = k
      BY <1>1 DEF ForwardInv, OneRowEach
    <2>3. \A t \in T : \E k \in 1 .. Len(forwardRows) : f[k] = t
      BY <1>1
    <2> HIDE DEF f, T
    <2> QED
      BY <2>1, <2>2, <2>3 DEF Bijection, Injection, Surjection, IsInjective
  <1>3. ASSUME NEW n \in Nat PROVE IsFiniteSet(1 .. n) /\ Cardinality(1 .. n) = n
    BY FS_Interval
  <1>4. Cardinality(T) = Len(forwardRows)
    BY <1>1, <1>2, <1>3, FS_Bijection DEF ExistsBijection
  <1> QED
    BY <1>4, ForwardsCounted DEF Forwarding!Tracked

\* The pane starts with nothing.
LEMMA ForwardInit ==
  ASSUME MaxForwards \in Nat, Forwarding!Init PROVE ForwardInv
  <1>1. <<>> \in Seq(Sessions) /\ <<>> \in Seq(Forwards) /\ <<>> \in Seq(ForwardRows)
    OBVIOUS
  <1> QED
    BY <1>1 DEF Forwarding!Init, ForwardInv, ForwardTypes, OneRowEach, EndIsLast,
                OverTold

\* A step of the forwards alone: none runs again.
LEMMA RunStep ==
  ASSUME ForwardInv, UNCHANGED forwardRows,
         session' \in Sessions \cup {Forwarding!NoSession}, pendingStarts' \in Seq(Sessions),
         forwards' \in Seq(Forwards), Len(forwards') = Len(forwards),
         \A n \in DOMAIN forwards : Forwarding!Runs(n)' => Forwarding!Runs(n),
         EndIsLast'
  PROVE  ForwardInv'
  <1>1. DOMAIN forwards' = DOMAIN forwards
    BY DEF ForwardInv, ForwardTypes
  <1>2. ForwardTypes' /\ OneRowEach'
    BY <1>1 DEF ForwardInv, ForwardTypes, OneRowEach
  <1>3. OverTold'
    BY <1>1 DEF ForwardInv, OneRowEach, OverTold, Forwarding!Active
  <1> QED
    BY <1>2, <1>3 DEF ForwardInv

\* What a forward tells, the last of it with its end.
LEMMA TellsStep ==
  ASSUME ForwardInv, NEW n \in DOMAIN forwards, NEW state \in {"Up", "Failed", "Over"},
         NEW told \in Seq(Tellings), Forwarding!Runs(n), Forwarding!Tells(n, state, told),
         (\E i \in DOMAIN told : told[i] \in {"Failed", "Stopped"}) => state # "Up"
  PROVE  ForwardInv'
  <1>1. /\ forwards' = [forwards EXCEPT ![n].state = state, ![n].events = @ \o told]
        /\ UNCHANGED <<session, pendingStarts, forwardRows>>
    BY DEF Forwarding!Tells
  <1>2. forwards \in Seq(Forwards) /\ forwards[n] \in Forwards
    BY DEF ForwardInv, ForwardTypes
  <1>3. forwards[n].events \in Seq(Tellings)
    BY <1>2 DEF Forwards
  <1>4. forwards[n].events \o told \in Seq(Tellings)
    BY <1>3
  <1>5. /\ forwards'[n] = [forwards[n] EXCEPT !.state = state, !.events = forwards[n].events \o told]
        /\ \A m \in DOMAIN forwards : m # n => forwards'[m] = forwards[m]
        /\ Len(forwards') = Len(forwards) /\ DOMAIN forwards' = DOMAIN forwards
    BY <1>1, <1>2
  <1>6. /\ forwards'[n] \in Forwards /\ forwards'[n].state = state
        /\ forwards'[n].events = forwards[n].events \o told
    BY <1>2, <1>4, <1>5 DEF Forwards
  <1>7. forwards' \in Seq(Forwards)
    <2>1. forwards' = [forwards EXCEPT ![n] = forwards'[n]]
      BY <1>1, <1>2, <1>5
    <2>2. \A x \in Forwards : [forwards EXCEPT ![n] = x] \in Seq(Forwards)
      BY <1>2
    <2> QED
      BY <1>6, <2>1, <2>2
  <1>8. ASSUME NEW m \in DOMAIN forwards, NEW i \in DOMAIN forwards'[m].events,
               forwards'[m].events[i] \in {"Failed", "Stopped"}
        PROVE  ~Forwarding!Runs(m)'
    <2>1. CASE m # n
      BY <1>5, <1>8, <2>1 DEF ForwardInv, EndIsLast, Forwarding!Runs
    <2>2. CASE m = n
      <3> DEFINE had == forwards[n].events
      <3>1. i \in DOMAIN (had \o told) /\ (had \o told)[i] \in {"Failed", "Stopped"}
        BY <1>6, <1>8, <2>2
      <3>2. had \in Seq(Tellings) /\ ~\E j \in DOMAIN had : had[j] \in {"Failed", "Stopped"}
        BY <1>3 DEF ForwardInv, EndIsLast
      <3> HIDE DEF had
      <3>3. \E j \in DOMAIN told : told[j] \in {"Failed", "Stopped"}
        <4>1. i \in 1 .. Len(had) + Len(told)
          BY <3>1, <3>2
        <4>2. i > Len(had)
          BY <3>1, <3>2, <4>1
        <4>3. i - Len(had) \in 1 .. Len(told) /\ told[i - Len(had)] = (had \o told)[i]
          BY <3>2, <4>1, <4>2
        <4> QED
          BY <3>1, <4>3
      <3> QED
        BY <1>6, <2>2, <3>3 DEF Forwarding!Runs
    <2> QED
      BY <2>1, <2>2
  <1>9. EndIsLast'
    BY <1>5, <1>8 DEF EndIsLast, Forwarding!Runs
  <1>10. session' \in Sessions \cup {Forwarding!NoSession} /\ pendingStarts' \in Seq(Sessions)
    BY <1>1 DEF ForwardInv, ForwardTypes
  <1>11. ASSUME NEW m \in DOMAIN forwards
         PROVE  Forwarding!Runs(m)' => Forwarding!Runs(m)
    BY <1>5, <1>6 DEF Forwarding!Runs
  <1> QED
    BY <1>1, <1>5, <1>7, <1>9, <1>10, <1>11, RunStep

\* One element of a sequence is replaced.
LEMMA UpdatedAt ==
  ASSUME NEW S, NEW s \in Seq(S), NEW n \in DOMAIN s, NEW x \in S
  PROVE  /\ [s EXCEPT ![n] = x] \in Seq(S) /\ Len([s EXCEPT ![n] = x]) = Len(s)
         /\ DOMAIN [s EXCEPT ![n] = x] = DOMAIN s /\ [s EXCEPT ![n] = x][n] = x
         /\ \A m \in DOMAIN s : m # n => [s EXCEPT ![n] = x][m] = s[m]
  OBVIOUS

\* A start that arrives: a row, or the forward is told to stop.
LEMMA StartedStep ==
  ASSUME MaxForwards \in Nat, ForwardInv, Forwarding!Started PROVE ForwardInv'
  <1> DEFINE new == [of |-> Head(pendingStarts), state |-> "Starting", asked |-> FALSE, events |-> <<>>]
             next == Len(forwards) + 1
             grown == Append(forwards, new)
             row == [of |-> next, status |-> "Starting", handle |-> TRUE]
  <1>1. /\ pendingStarts # <<>> /\ pendingStarts' = Tail(pendingStarts)
        /\ UNCHANGED session
        /\ Forwarding!Insert(grown, next) \/ UNCHANGED <<forwardRows, forwards>>
    BY DEF Forwarding!Started
  <1>2. /\ pendingStarts \in Seq(Sessions) /\ forwards \in Seq(Forwards)
        /\ forwardRows \in Seq(ForwardRows)
    BY DEF ForwardInv, ForwardTypes
  <1>3. pendingStarts' \in Seq(Sessions) /\ Head(pendingStarts) \in Sessions
    BY <1>1, <1>2
  <1>4. CASE UNCHANGED <<forwardRows, forwards>>
    <2>1. session' \in Sessions \cup {Forwarding!NoSession}
      BY <1>1 DEF ForwardInv, ForwardTypes
    <2>2. EndIsLast'
      BY <1>4 DEF ForwardInv, EndIsLast, Forwarding!Runs
    <2> QED
      BY <1>1, <1>2, <1>3, <1>4, <2>1, <2>2, RunStep DEF Forwarding!Runs
  <1>5. CASE Forwarding!Insert(grown, next)
    <2>1. <<>> \in Seq(Tellings)
      OBVIOUS
    <2>2. new \in Forwards /\ next \in Nat /\ next \notin DOMAIN forwards
      BY <1>2, <1>3, <2>1 DEF Forwards
    <2>3. row \in ForwardRows
      BY <2>2 DEF ForwardRows, Statuses
    <2>4. grown \in Seq(Forwards) /\ Len(grown) = next /\ DOMAIN grown = DOMAIN forwards \cup {next}
          /\ grown[next] = new /\ \A n \in DOMAIN forwards : grown[n] = forwards[n]
      BY <1>2, <2>2
    <2> DEFINE stopped == [grown EXCEPT ![next] = [new EXCEPT !.asked = TRUE]]
    <2>5. stopped \in Seq(Forwards) /\ Len(stopped) = next /\ DOMAIN stopped = DOMAIN grown
          /\ stopped[next] = [new EXCEPT !.asked = TRUE]
          /\ \A n \in DOMAIN forwards : stopped[n] = forwards[n]
      <3>1. [new EXCEPT !.asked = TRUE] \in Forwards
        BY <2>2 DEF Forwards
      <3>2. next \in DOMAIN grown
        BY <2>4
      <3> HIDE DEF new, grown, next
      <3> QED
        BY <2>2, <2>4, <3>1, <3>2, UpdatedAt
    <2>6. new.events = <<>> /\ [new EXCEPT !.asked = TRUE].events = <<>>
          /\ [new EXCEPT !.asked = TRUE].asked = TRUE
          /\ row.of = next /\ row.handle = TRUE /\ row.status = "Starting"
      OBVIOUS
    <2>7. \/ /\ forwards' = stopped /\ UNCHANGED forwardRows
          \/ /\ Len(forwardRows) < MaxForwards /\ forwards' = grown
             /\ forwardRows' = Append(forwardRows, row)
      <3>1. grown[next] = new
        BY <2>4
      <3>2. Len(forwardRows) >= MaxForwards \/ Len(forwardRows) < MaxForwards
        BY <1>2
      <3> HIDE DEF new, grown, row, next
      <3> QED
        BY <1>5, <3>1, <3>2 DEF Forwarding!Insert, Forwarding!Asked, row
    <2> HIDE DEF new, grown, stopped, next, row
    <2>8. /\ forwards' \in Seq(Forwards) /\ DOMAIN forwards' = DOMAIN forwards \cup {next}
          /\ \A n \in DOMAIN forwards : forwards'[n] = forwards[n]
          /\ forwards'[next].events = <<>>
      BY <2>4, <2>5, <2>6, <2>7
    <2>9. EndIsLast'
      BY <2>8 DEF ForwardInv, EndIsLast, Forwarding!Runs
    <2>10. ForwardTypes' /\ forwardRows' \in Seq(ForwardRows)
      <3>1. forwardRows' \in Seq(ForwardRows)
        BY <1>2, <2>3, <2>7
      <3> QED
        BY <1>1, <1>3, <2>8, <3>1 DEF ForwardInv, ForwardTypes
    <2>11. CASE forwards' = stopped /\ UNCHANGED forwardRows
      <3>1. OneRowEach'
        BY <2>8, <2>11 DEF ForwardInv, OneRowEach
      <3>2. OverTold'
        BY <2>8, <2>11 DEF ForwardInv, OneRowEach, OverTold, Forwarding!Active, Forwarding!Runs
      <3> QED
        BY <2>9, <2>10, <3>1, <3>2 DEF ForwardInv
    <2>12. CASE /\ Len(forwardRows) < MaxForwards /\ forwards' = grown
                /\ forwardRows' = Append(forwardRows, row)
      <3> DEFINE last == Len(forwardRows) + 1
      <3>1. /\ last \notin DOMAIN forwardRows /\ last <= MaxForwards /\ Len(forwardRows') = last
            /\ DOMAIN forwardRows' = DOMAIN forwardRows \cup {last}
            /\ forwardRows'[last] = row
            /\ \A k \in DOMAIN forwardRows : forwardRows'[k] = forwardRows[k]
        <4>1. /\ last \notin DOMAIN forwardRows /\ last <= MaxForwards
              /\ DOMAIN Append(forwardRows, row) = DOMAIN forwardRows \cup {last}
          BY <1>2, <2>3, <2>12
        <4>2. /\ Append(forwardRows, row)[last] = row /\ Len(Append(forwardRows, row)) = last
              /\ \A k \in DOMAIN forwardRows : Append(forwardRows, row)[k] = forwardRows[k]
          BY <1>2, <2>3
        <4> QED
          BY <2>12, <4>1, <4>2
      <3>2. row.of = next /\ row.handle = TRUE /\ row.status = "Starting"
        BY <2>6
      <3> HIDE DEF last
      <3>3. OneRowEach'
        BY <2>2, <2>8, <3>1, <3>2 DEF ForwardInv, OneRowEach
      <3>4. OverTold'
        BY <2>8, <3>1, <3>2 DEF ForwardInv, OneRowEach, OverTold, Forwarding!Active,
                                Forwarding!Runs
      <3> QED
        BY <2>9, <2>10, <3>3, <3>4 DEF ForwardInv
    <2> QED
      BY <2>7, <2>11, <2>12
  <1> QED
    BY <1>1, <1>4, <1>5

\* A step of the rows alone: none is given a handle, and what a row comes to show is
\* over is so, or the row gave its handle up.
LEMMA RowsStep ==
  ASSUME ForwardInv, forwardRows' \in Seq(ForwardRows), Len(forwardRows') = Len(forwardRows),
         UNCHANGED <<session, pendingStarts>>, forwards' \in Seq(Forwards),
         Len(forwards') = Len(forwards), EndIsLast',
         \A n \in DOMAIN forwards : forwards'[n].state = forwards[n].state,
         \A k \in DOMAIN forwardRows :
           LET was == forwardRows[k]
               is == forwardRows'[k]
           IN /\ is.of = was.of
              /\ is.handle => was.handle
              /\ Forwarding!Active(is.status) \/ is.status = was.status
                 \/ ~is.handle \/ ~Forwarding!Runs(was.of)
  PROVE  ForwardInv'
  <1>1. DOMAIN forwards' = DOMAIN forwards /\ DOMAIN forwardRows' = DOMAIN forwardRows
    BY DEF ForwardInv, ForwardTypes
  <1>2. ForwardTypes' /\ OneRowEach'
    BY <1>1 DEF ForwardInv, ForwardTypes, OneRowEach
  <1>3. OverTold'
    <2> SUFFICES ASSUME NEW k \in DOMAIN forwardRows, ~Forwarding!Active(forwardRows'[k].status),
                        forwards'[forwardRows'[k].of].state \in {"Starting", "Up"}
                 PROVE  ~forwardRows'[k].handle
      BY <1>1 DEF OverTold, Forwarding!Runs, Forwarding!Active
    <2>1. /\ forwardRows'[k].of = forwardRows[k].of /\ forwardRows[k].of \in DOMAIN forwards
          /\ Forwarding!Runs(forwardRows[k].of)
      BY DEF ForwardInv, OneRowEach, Forwarding!Runs
    <2>2. CASE forwardRows'[k].status = forwardRows[k].status
      BY <2>1, <2>2 DEF ForwardInv, OverTold, Forwarding!Active
    <2> QED
      BY <2>1, <2>2
  <1> QED
    BY <1>2, <1>3 DEF ForwardInv

\* A telling that reaches the pane: the rest of them stays in order.
LEMMA HeardStep ==
  ASSUME ForwardInv, NEW n \in DOMAIN forwards, Forwarding!Event(n) PROVE ForwardInv'
  <1> DEFINE had == forwards[n].events
  <1>1. /\ had # <<>> /\ forwards' = [forwards EXCEPT ![n].events = Tail(had)]
        /\ forwardRows' = [k \in DOMAIN forwardRows |->
                             IF forwardRows[k].of = n
                             THEN [forwardRows[k] EXCEPT
                                     !.status = Forwarding!Applied(@, Head(had))]
                             ELSE forwardRows[k]]
        /\ UNCHANGED <<session, pendingStarts>>
    BY DEF Forwarding!Event
  <1>2. forwards \in Seq(Forwards) /\ forwards[n] \in Forwards /\ forwardRows \in Seq(ForwardRows)
    BY DEF ForwardInv, ForwardTypes
  <1>3. had \in Seq(Tellings)
    BY <1>2 DEF Forwards
  <1>4. Head(had) \in Tellings /\ Tail(had) \in Seq(Tellings)
    BY <1>1, <1>3
  <1>5. \A i \in DOMAIN Tail(had) : i + 1 \in DOMAIN had /\ Tail(had)[i] = had[i + 1]
    BY <1>1, <1>3
  <1>6. 1 \in DOMAIN had /\ Head(had) = had[1]
    BY <1>1, <1>3
  <1>7. Head(had) \in {"Failed", "Stopped"} => ~Forwarding!Runs(n)
    BY <1>6 DEF ForwardInv, EndIsLast
  <1> HIDE DEF had
  <1>8. /\ forwards'[n] = [forwards[n] EXCEPT !.events = Tail(had)]
        /\ \A m \in DOMAIN forwards : m # n => forwards'[m] = forwards[m]
        /\ Len(forwards') = Len(forwards) /\ DOMAIN forwards' = DOMAIN forwards
    BY <1>1, <1>2
  <1>9. /\ forwards'[n] \in Forwards /\ forwards'[n].state = forwards[n].state
        /\ forwards'[n].events = Tail(had)
    BY <1>2, <1>4, <1>8 DEF Forwards
  <1>10. forwards' \in Seq(Forwards)
    <2>1. forwards' = [forwards EXCEPT ![n] = forwards'[n]]
      BY <1>1, <1>2, <1>8
    <2> QED
      BY <1>2, <1>9, <2>1
  <1>11. EndIsLast'
    <2> SUFFICES ASSUME NEW m \in DOMAIN forwards, NEW i \in DOMAIN forwards'[m].events,
                        forwards'[m].events[i] \in {"Failed", "Stopped"}
                 PROVE  ~Forwarding!Runs(m)'
      BY <1>8 DEF EndIsLast, Forwarding!Runs
    <2>1. CASE m # n
      BY <1>8, <2>1 DEF ForwardInv, EndIsLast, Forwarding!Runs
    <2>2. CASE m = n
      BY <1>5, <1>9, <2>2 DEF ForwardInv, EndIsLast, Forwarding!Runs, had
    <2> QED
      BY <2>1, <2>2
  <1>12. ASSUME NEW k \in DOMAIN forwardRows
         PROVE  LET was == forwardRows[k]
                    is == forwardRows'[k]
                IN /\ is \in ForwardRows /\ is.of = was.of /\ is.handle = was.handle
                   /\ Forwarding!Active(is.status) \/ is.status = was.status
                      \/ ~Forwarding!Runs(was.of)
    <2>1. forwardRows[k] \in ForwardRows
      BY <1>2
    <2>2. CASE forwardRows[k].of # n
      BY <1>1, <2>1, <2>2
    <2>3. CASE forwardRows[k].of = n
      <3> DEFINE status == Forwarding!Applied(forwardRows[k].status, Head(had))
      <3>1. forwardRows'[k] = [forwardRows[k] EXCEPT !.status = status]
        BY <1>1, <2>3
      <3>2. \/ status = "Listening" \/ status = forwardRows[k].status
            \/ status \in {"Failed", "Stopped"} /\ ~Forwarding!Runs(n)
        BY <1>4, <1>7 DEF Forwarding!Applied, Tellings
      <3>3. status \in Statuses
        BY <2>1, <3>2 DEF ForwardRows, Statuses
      <3> HIDE DEF status
      <3>4. /\ forwardRows'[k] \in ForwardRows /\ forwardRows'[k].of = forwardRows[k].of
            /\ forwardRows'[k].handle = forwardRows[k].handle /\ forwardRows'[k].status = status
        BY <2>1, <3>1, <3>3 DEF ForwardRows
      <3> QED
        BY <2>3, <3>2, <3>4 DEF Forwarding!Active
    <2> QED
      BY <2>2, <2>3
  <1>13. /\ Len(forwardRows) \in Nat /\ DOMAIN forwardRows = 1 .. Len(forwardRows)
         /\ DOMAIN forwardRows' = DOMAIN forwardRows
    BY <1>1, <1>2
  <1>14. forwardRows' \in [1 .. Len(forwardRows) -> ForwardRows]
    BY <1>1, <1>12, <1>13
  <1>15. forwardRows' \in Seq(ForwardRows) /\ Len(forwardRows') = Len(forwardRows)
    BY <1>13, <1>14
  <1>16. ASSUME NEW m \in DOMAIN forwards
         PROVE  forwards'[m].state = forwards[m].state
    BY <1>8, <1>9
  <1> QED
    BY <1>1, <1>8, <1>10, <1>11, <1>12, <1>15, <1>16, RowsStep

\* One element of a sequence is left out.
LEMMA Shortened ==
  ASSUME NEW S, NEW s \in Seq(S), NEW k \in 1 .. Len(s)
  PROVE  LET rest == SubSeq(s, 1, k - 1) \o SubSeq(s, k + 1, Len(s))
         IN /\ rest \in Seq(S) /\ Len(rest) = Len(s) - 1 /\ DOMAIN rest = 1 .. Len(s) - 1
            /\ \A j \in 1 .. Len(s) - 1 : rest[j] = s[IF j < k THEN j ELSE j + 1]
  <1> DEFINE front == SubSeq(s, 1, k - 1)
             rear == SubSeq(s, k + 1, Len(s))
  <1>1. Len(s) \in Nat /\ k \in Nat /\ 1 <= k /\ k <= Len(s)
    OBVIOUS
  <1>2. front \in Seq(S) /\ Len(front) = k - 1 /\ \A j \in 1 .. k - 1 : front[j] = s[j]
    BY <1>1
  <1>3. /\ rear \in Seq(S) /\ Len(rear) = Len(s) - k
        /\ \A j \in 1 .. Len(s) - k : rear[j] = s[j + k]
    BY <1>1
  <1> HIDE DEF front, rear
  <1>4. /\ front \o rear \in Seq(S) /\ Len(front \o rear) = Len(s) - 1
        /\ DOMAIN (front \o rear) = 1 .. Len(s) - 1
    <2>1. front \o rear \in Seq(S) /\ Len(front \o rear) = Len(front) + Len(rear)
      <3>1. \A u, v \in Seq(S) : u \o v \in Seq(S) /\ Len(u \o v) = Len(u) + Len(v)
        OBVIOUS
      <3> QED
        BY <1>2, <1>3, <3>1
    <2>2. Len(front) + Len(rear) = Len(s) - 1
      <3>1. \A n, m \in Nat : (m - 1) + (n - m) = n - 1
        OBVIOUS
      <3> QED
        BY <1>1, <1>2, <1>3, <3>1
    <2> QED
      BY <2>1, <2>2
  <1>5. ASSUME NEW j \in 1 .. Len(s) - 1
        PROVE  (front \o rear)[j] = s[IF j < k THEN j ELSE j + 1]
    <2>1. CASE j < k
      BY <1>1, <1>2, <1>3, <2>1
    <2>2. CASE ~(j < k)
      <3>1. (front \o rear)[j] = rear[j - (k - 1)] /\ j - (k - 1) \in 1 .. Len(s) - k
        BY <1>1, <1>2, <1>3, <2>2
      <3>2. rear[j - (k - 1)] = s[(j - (k - 1)) + k] /\ (j - (k - 1)) + k = j + 1
        BY <1>1, <1>3, <3>1
      <3> QED
        BY <1>1, <2>2, <3>1, <3>2
    <2> QED
      BY <2>1, <2>2
  <1> QED
    BY <1>4, <1>5 DEF front, rear

\* A row that is stopped gives its handle up.
LEMMA StopRowStep ==
  ASSUME ForwardInv, NEW k, Forwarding!StopRow(k) PROVE ForwardInv'
  <1> DEFINE n == forwardRows[k].of
  <1>1. /\ k \in DOMAIN forwardRows
        /\ forwardRows' = [forwardRows EXCEPT ![k].status = "Stopped", ![k].handle = FALSE]
        /\ forwards' = IF forwardRows[k].handle
                       THEN [forwards EXCEPT ![n] = [forwards[n] EXCEPT !.asked = TRUE]]
                       ELSE forwards
        /\ UNCHANGED <<session, pendingStarts>>
    BY DEF Forwarding!StopRow, Forwarding!Asked
  <1>2. /\ forwards \in Seq(Forwards) /\ forwardRows \in Seq(ForwardRows) /\ n \in DOMAIN forwards
        /\ forwardRows[k] \in ForwardRows
    BY <1>1 DEF ForwardInv, ForwardTypes, OneRowEach
  <1>3. forwards[n] \in Forwards
    BY <1>2
  <1> DEFINE told == [forwards[n] EXCEPT !.asked = TRUE]
             row == [forwardRows[k] EXCEPT !.status = "Stopped", !.handle = FALSE]
  <1>4. /\ told \in Forwards /\ told.state = forwards[n].state
        /\ told.events = forwards[n].events
    BY <1>3 DEF Forwards
  <1>5. row \in ForwardRows /\ row.of = n /\ row.status = "Stopped" /\ row.handle = FALSE
    BY <1>2 DEF ForwardRows, Statuses
  <1>6. forwardRows' = [forwardRows EXCEPT ![k] = row]
    BY <1>1, <1>2
  <1> HIDE DEF told, row, n
  <1>8. /\ forwards' \in Seq(Forwards) /\ Len(forwards') = Len(forwards)
        /\ DOMAIN forwards' = DOMAIN forwards
        /\ \A m \in DOMAIN forwards :
             /\ forwards'[m].state = forwards[m].state /\ forwards'[m].events = forwards[m].events
    <2>1. CASE forwardRows[k].handle
      <3>1. forwards' = [forwards EXCEPT ![n] = told]
        BY <1>1, <2>1 DEF told
      <3> QED
        BY <1>2, <1>4, <3>1, UpdatedAt
    <2>2. CASE ~forwardRows[k].handle
      BY <1>1, <1>2, <2>2
    <2> QED
      BY <2>1, <2>2
  <1>9. /\ forwardRows' \in Seq(ForwardRows) /\ Len(forwardRows') = Len(forwardRows)
        /\ forwardRows'[k] = row
        /\ \A j \in DOMAIN forwardRows : j # k => forwardRows'[j] = forwardRows[j]
    <2>1. forwardRows \in Seq(ForwardRows) /\ k \in DOMAIN forwardRows /\ row \in ForwardRows
      BY <1>1, <1>2, <1>5
    <2> QED
      BY <1>6, <2>1, UpdatedAt
  <1>10. EndIsLast'
    BY <1>8 DEF ForwardInv, EndIsLast, Forwarding!Runs
  <1>11. ASSUME NEW j \in DOMAIN forwardRows
         PROVE  LET was == forwardRows[j]
                    is == forwardRows'[j]
                IN /\ is.of = was.of
                   /\ is.handle => was.handle
                   /\ Forwarding!Active(is.status) \/ is.status = was.status
                      \/ ~is.handle \/ ~Forwarding!Runs(was.of)
    BY <1>5, <1>9 DEF n
  <1> QED
    BY <1>1, <1>8, <1>9, <1>10, <1>11, RowsStep

\* A row that shows an end goes, and only it.
LEMMA RemoveRowStep ==
  ASSUME MaxForwards \in Nat, ForwardInv, NEW k, Forwarding!RemoveRow(k) PROVE ForwardInv'
  <1> DEFINE N == Len(forwardRows)
             rest == SubSeq(forwardRows, 1, k - 1) \o SubSeq(forwardRows, k + 1, N)
             back(j) == IF j < k THEN j ELSE j + 1
  <1>1. /\ k \in DOMAIN forwardRows /\ ~Forwarding!Active(forwardRows[k].status)
        /\ forwardRows' = rest
        /\ UNCHANGED <<session, pendingStarts, forwards>>
    BY DEF Forwarding!RemoveRow
  <1>2. forwardRows \in Seq(ForwardRows) /\ N \in Nat /\ k \in 1 .. N
        /\ DOMAIN forwardRows = 1 .. N
    BY <1>1 DEF ForwardInv, ForwardTypes
  <1>3. /\ rest \in Seq(ForwardRows) /\ Len(rest) = N - 1 /\ DOMAIN rest = 1 .. N - 1
        /\ \A j \in 1 .. N - 1 : rest[j] = forwardRows[back(j)]
    BY <1>2, Shortened
  <1>4. \A j \in 1 .. N - 1 : back(j) \in 1 .. N /\ back(j) # k
    BY <1>2
  <1>5. \A i, j \in 1 .. N - 1 : back(i) = back(j) => i = j
    BY <1>2
  <1>7. N <= MaxForwards => N - 1 <= MaxForwards
    BY <1>2
  <1> HIDE DEF rest, back, N
  <1>8. ForwardTypes' /\ EndIsLast'
    BY <1>1, <1>3 DEF ForwardInv, ForwardTypes, EndIsLast, Forwarding!Runs
  <1>9. OneRowEach'
    <2>1. /\ N <= MaxForwards /\ \A i \in 1 .. N : forwardRows[i].of \in DOMAIN forwards
          /\ \A i, j \in 1 .. N : forwardRows[i].of = forwardRows[j].of => i = j
      BY <1>2 DEF ForwardInv, OneRowEach, N
    <2>2. \A i, j \in 1 .. N - 1 : rest[i].of = rest[j].of => i = j
      BY <1>3, <1>4, <1>5, <2>1
    <2>3. \A i \in 1 .. N - 1 : rest[i].of \in DOMAIN forwards
      BY <1>3, <1>4, <2>1
    <2> QED
      BY <1>1, <1>3, <1>7, <2>1, <2>2, <2>3 DEF OneRowEach
  <1>10. OverTold'
    BY <1>1, <1>2, <1>3, <1>4 DEF ForwardInv, OverTold, Forwarding!Runs, Forwarding!Active
  <1> QED
    BY <1>8, <1>9, <1>10 DEF ForwardInv

\* The pane is attached elsewhere: the rows go, and who held a handle may be asked.
LEMMA PaneAttachedStep ==
  ASSUME MaxForwards \in Nat, ForwardInv, pendingStarts' = pendingStarts, forwardRows' = <<>>,
         session' \in Sessions \cup {Forwarding!NoSession},
         \/ UNCHANGED forwards
         \/ forwards' = [n \in DOMAIN forwards |->
                            IF n \in Forwarding!Held
                            THEN [forwards[n] EXCEPT !.asked = TRUE] ELSE forwards[n]]
  PROVE  ForwardInv'
  <1>1. forwards \in Seq(Forwards)
    BY DEF ForwardInv, ForwardTypes
  <1>2. ASSUME NEW n \in DOMAIN forwards
        PROVE  /\ forwards'[n] \in Forwards
               /\ forwards'[n].state = forwards[n].state
               /\ forwards'[n].events = forwards[n].events
    <2>1. forwards[n] \in Forwards
      BY <1>1
    <2>2. forwards'[n] = forwards[n] \/ forwards'[n] = [forwards[n] EXCEPT !.asked = TRUE]
      OBVIOUS
    <2> QED
      BY <2>1, <2>2 DEF Forwards
  <1>3. Len(forwards) \in Nat /\ DOMAIN forwards = 1 .. Len(forwards)
    BY <1>1
  <1>4. forwards' \in [1 .. Len(forwards) -> Forwards]
    <2>1. forwards' = [n \in DOMAIN forwards |-> forwards'[n]]
      BY <1>1
    <2> QED
      BY <1>2, <1>3, <2>1
  <1>5. forwards' \in Seq(Forwards) /\ DOMAIN forwards' = DOMAIN forwards
    BY <1>3, <1>4
  <1>6. forwardRows' \in Seq(ForwardRows) /\ Len(forwardRows') = 0 /\ DOMAIN forwardRows' = {}
    OBVIOUS
  <1>7. ForwardTypes'
    BY <1>5, <1>6 DEF ForwardInv, ForwardTypes
  <1>8. OneRowEach' /\ OverTold'
    BY <1>6 DEF OneRowEach, OverTold
  <1>9. EndIsLast'
    BY <1>2, <1>5 DEF ForwardInv, EndIsLast, Forwarding!Runs
  <1> QED
    BY <1>7, <1>8, <1>9 DEF ForwardInv

\* Every step of the port-forwarding pane.
LEMMA ForwardStep ==
  ASSUME MaxForwards \in Nat, ForwardInv, [Forwarding!Next]_(Forwarding!vars)
  PROVE  ForwardInv'
  <1>1. CASE Forwarding!Add \/ UNCHANGED Forwarding!vars
    <2>1. UNCHANGED <<session, forwardRows, forwards>>
      BY <1>1 DEF Forwarding!Add, Forwarding!vars
    <2>2. session' \in Sessions \cup {Forwarding!NoSession} /\ pendingStarts' \in Seq(Sessions)
      BY <1>1 DEF ForwardInv, ForwardTypes, Forwarding!Add, Forwarding!vars
    <2>3. forwards' \in Seq(Forwards) /\ EndIsLast'
      BY <2>1 DEF ForwardInv, ForwardTypes, EndIsLast, Forwarding!Runs
    <2> QED
      BY <2>1, <2>2, <2>3, RunStep DEF Forwarding!Runs
  <1>2. CASE Forwarding!Started
    BY <1>2, StartedStep
  <1>3. CASE Forwarding!Detach
    <2>1. /\ session' = Forwarding!NoSession /\ forwardRows' = <<>>
          /\ UNCHANGED pendingStarts
          /\ forwards' = [n \in DOMAIN forwards |->
                            IF n \in Forwarding!Held
                            THEN [forwards[n] EXCEPT !.asked = TRUE] ELSE forwards[n]]
      BY <1>3 DEF Forwarding!Detach, Forwarding!SetSession, Forwarding!Asked,
                  Forwarding!Numbers
    <2> QED
      BY <2>1, PaneAttachedStep
  <1>4. ASSUME NEW s \in Sessions, Forwarding!Attach(s) PROVE ForwardInv'
    <2>1. /\ session' = s /\ forwardRows' = <<>> /\ UNCHANGED <<pendingStarts, forwards>>
      BY <1>4 DEF Forwarding!Attach, Forwarding!SetSession
    <2> QED
      BY <2>1, PaneAttachedStep
  <1>5. ASSUME NEW s \in Sessions, Forwarding!SessionEnds(s) PROVE ForwardInv'
    <2>1. /\ forwards' = [n \in DOMAIN forwards |-> IF forwards[n].of = s /\ Forwarding!Runs(n)
                            THEN [forwards[n] EXCEPT !.state = "Over"] ELSE forwards[n]]
          /\ UNCHANGED <<session, forwardRows, pendingStarts>>
      BY <1>5 DEF Forwarding!SessionEnds, Forwarding!Numbers
    <2>2. forwards \in Seq(Forwards)
      BY DEF ForwardInv, ForwardTypes
    <2>3. ASSUME NEW n \in DOMAIN forwards
          PROVE  /\ forwards'[n] \in Forwards /\ forwards'[n].events = forwards[n].events
                 /\ Forwarding!Runs(n)' => Forwarding!Runs(n)
      <3>1. forwards[n] \in Forwards
        BY <2>2
      <3>2. forwards'[n] = IF forwards[n].of = s /\ Forwarding!Runs(n)
                           THEN [forwards[n] EXCEPT !.state = "Over"] ELSE forwards[n]
        BY <2>1
      <3> QED
        BY <3>1, <3>2 DEF Forwards, Forwarding!Runs
    <2>4. Len(forwards) \in Nat /\ DOMAIN forwards = 1 .. Len(forwards)
      BY <2>2
    <2>5. forwards' \in [1 .. Len(forwards) -> Forwards]
      BY <2>1, <2>3, <2>4
    <2>6. /\ forwards' \in Seq(Forwards) /\ Len(forwards') = Len(forwards)
          /\ DOMAIN forwards' = DOMAIN forwards
      BY <2>4, <2>5
    <2>7. EndIsLast'
      BY <2>3, <2>6 DEF ForwardInv, EndIsLast, Forwarding!Runs
    <2>8. session' \in Sessions \cup {Forwarding!NoSession} /\ pendingStarts' \in Seq(Sessions)
      BY <2>1 DEF ForwardInv, ForwardTypes
    <2> QED
      BY <2>1, <2>3, <2>6, <2>7, <2>8, RunStep
  <1>6. ASSUME NEW n \in DOMAIN forwards,
               \/ Forwarding!ComesUp(n) \/ Forwarding!CannotStart(n)
               \/ Forwarding!ConnectionFails(n) \/ Forwarding!AcceptFails(n)
               \/ Forwarding!Stops(n)
        PROVE  ForwardInv'
    <2>1. /\ <<"Listening">> \in Seq(Tellings) /\ <<"ConnectionFailed">> \in Seq(Tellings)
          /\ <<"Failed">> \o <<"Stopped">> \in Seq(Tellings) /\ <<"Stopped">> \in Seq(Tellings)
      BY DEF Tellings
    <2>2. /\ \A i \in DOMAIN <<"Listening">> : <<"Listening">>[i] = "Listening"
          /\ \A i \in DOMAIN <<"ConnectionFailed">> :
               <<"ConnectionFailed">>[i] = "ConnectionFailed"
      OBVIOUS
    <2>3. Forwarding!Runs(n)
      BY <1>6 DEF Forwarding!ComesUp, Forwarding!CannotStart, Forwarding!ConnectionFails,
                  Forwarding!AcceptFails, Forwarding!Stops, Forwarding!Runs
    <2>4. \/ Forwarding!Tells(n, "Up", <<"Listening">>)
          \/ Forwarding!Tells(n, "Failed", <<"Failed">> \o <<"Stopped">>)
          \/ Forwarding!Tells(n, "Up", <<"ConnectionFailed">>)
          \/ Forwarding!Tells(n, "Failed", <<"Stopped">>)
          \/ Forwarding!Tells(n, "Over", <<"Stopped">>)
      BY <1>6 DEF Forwarding!ComesUp, Forwarding!CannotStart, Forwarding!ConnectionFails,
                  Forwarding!AcceptFails, Forwarding!Stops, Forwarding!AtEnd
    <2>5. CASE Forwarding!Tells(n, "Up", <<"Listening">>)
      BY <2>1, <2>2, <2>3, <2>5, TellsStep
    <2>6. CASE Forwarding!Tells(n, "Up", <<"ConnectionFailed">>)
      BY <2>1, <2>2, <2>3, <2>6, TellsStep
    <2>7. CASE \/ Forwarding!Tells(n, "Failed", <<"Failed">> \o <<"Stopped">>)
               \/ Forwarding!Tells(n, "Failed", <<"Stopped">>)
          \/ Forwarding!Tells(n, "Over", <<"Stopped">>)
      BY <2>1, <2>3, <2>7, TellsStep
    <2> QED
      BY <2>4, <2>5, <2>6, <2>7
  <1>7. ASSUME NEW n \in DOMAIN forwards, Forwarding!Event(n) PROVE ForwardInv'
    BY <1>7, HeardStep
  <1>8. ASSUME NEW k, Forwarding!StopRow(k) \/ Forwarding!RemoveRow(k) PROVE ForwardInv'
    BY <1>8, StopRowStep, RemoveRowStep
  <1> QED
    BY <1>1, <1>2, <1>3, <1>4, <1>5, <1>6, <1>7, <1>8 DEF Forwarding!Next, Forwarding!Numbers

\* For any sessions, forwards and number of rows: at most that many forwards go on by
\* themselves, each with one row, and a row that says it is over is that of a forward
\* that is, or was told to stop.
THEOREM ForwardsAlwaysInHand ==
  ASSUME MaxForwards \in Nat
  PROVE  Forwarding!Init /\ [][Forwarding!Next]_(Forwarding!vars) => []Forwarding!ForwardsInHand
  <1>1. ASSUME ForwardInv, NEW k \in DOMAIN forwardRows, ~forwardRows[k].handle
        PROVE  forwardRows[k].of \notin Forwarding!Held
    BY <1>1 DEF ForwardInv, OneRowEach, Forwarding!Held
  <1>2. ForwardInv => Forwarding!ForwardsInHand
    BY <1>1, RowsCounted DEF ForwardInv, OneRowEach, OverTold,
                             Forwarding!ForwardsInHand, Forwarding!ToldToStop
  <1> QED
    BY <1>2, ForwardInit, ForwardStep, PTL

-----------------------------------------------------------------------------
(* The drawer of hosts.  Its boxes outlive the host they were filled for.   *)
(* They may keep a text that cannot be read, but nothing of another host:   *)
(* while edited names a host, it is there and the boxes read as it is, a    *)
(* removal names none, and nothing is selected but what edited names.       *)

Words == Drawer!Labels \cup Addresses \cup Drawer!Ports \cup {"", Drawer!Junk}
Described == [label : Drawer!Labels, address : Words, port : Drawer!Ports]
Typings == [label : Words, address : Words, port : Words]

\* What is typed into a box is read as the host has it.
ReadsAs(texts, host) ==
  \A field \in Drawer!Fields : Drawer!Read(field, texts[field], host[field]) = host[field]

DrawerTypes ==
  /\ inventory \in [Drawer!HostIds -> {Drawer!None} \cup Described]
  /\ edited # Nobody => boxes \in Typings
  /\ IsFiniteSet(Drawer!Present)

DrawerInv ==
  /\ DrawerTypes /\ inventory = meant
  /\ selected # Nobody => selected = edited
  /\ edited # Nobody => edited \in Drawer!Present /\ ReadsAs(boxes, inventory[edited])
  /\ telnet \subseteq Drawer!Present

\* The drawer's sets are counted as any others.
LEMMA DrawerCounted == \A S : Drawer!Cardinality(S) = Cardinality(S)
  BY DEF Cardinality, Drawer!Cardinality

\* No host described is taken for none, and what it says reads as it is.
LEMMA DescribedIsSome ==
  ASSUME NEW h \in Described
  PROVE  h # Drawer!None /\ ReadsAs(h, h)
  <1>1. h.port \in {"22", "2222"}
    BY DEF Described, Drawer!Ports
  <1>2. Drawer!None.port = ""
    BY DEF Drawer!None, Drawer!Fields
  <1>3. h # Drawer!None
    BY <1>1, <1>2
  <1>4. ASSUME NEW field \in Drawer!Fields
        PROVE  Drawer!Read(field, h[field], h[field]) = h[field]
    BY <1>1 DEF Drawer!Read, Drawer!Junk
  <1> QED
    BY <1>3, <1>4 DEF ReadsAs

\* A host is there when it is described.
LEMMA PresentDescribed ==
  ASSUME DrawerTypes, NEW id \in Drawer!Present
  PROVE  id \in Drawer!HostIds /\ inventory[id] \in Described
  BY DEF DrawerTypes, Drawer!Present

\* A set of naturals that is not empty has a least element.
LEMMA LeastNatural ==
  ASSUME NEW S \in SUBSET Nat, S # {}
  PROVE  \E n \in S : \A m \in S : n <= m
  <1> DEFINE before == OpToRel(<, Nat)
  <1>1. IsWellFoundedOn(before, Nat)
    BY NatLessThanWellFounded
  <1>2. \A m, n \in Nat : <<m, n>> \in before <=> m < n
    BY DEF OpToRel
  <1> HIDE DEF before
  <1>3. PICK n \in S : \A m \in S : ~ (<<m, n>> \in before)
    BY <1>1, WFMin, Zenon
  <1>4. \A m \in S : ~ (m < n)
    BY <1>2, <1>3
  <1> QED
    BY <1>4

\* While fewer hosts are there than may be, a label has an id that none has.
LEMMA FreshIdIsFree ==
  ASSUME Labelled, DrawerTypes, NEW label \in Drawer!Labels,
         Drawer!Cardinality(Drawer!Present) < MaxHosts
  PROVE  Drawer!FreshId(label) \in Drawer!HostIds \ Drawer!Present
  <1> DEFINE base == BaseOf[label]
             free == {n \in 1 .. MaxHosts : <<base, n>> \notin Drawer!Present}
  <1>1. \A n \in 1 .. MaxHosts : <<base, n>> \in Drawer!HostIds
    BY DEF Drawer!HostIds, Drawer!Labels
  <1>2. free # {}
    <2> SUFFICES ASSUME \A n \in 1 .. MaxHosts : <<base, n>> \in Drawer!Present PROVE FALSE
      OBVIOUS
    <2> DEFINE f == [n \in 1 .. MaxHosts |-> <<base, n>>]
    <2>1. f \in Injection(1 .. MaxHosts, Drawer!Present)
      <3>1. f \in [1 .. MaxHosts -> Drawer!Present]
        OBVIOUS
      <3>2. \A m, n \in 1 .. MaxHosts : f[m] = f[n] => m = n
        OBVIOUS
      <3> HIDE DEF f
      <3> QED
        BY <3>1, <3>2 DEF Injection, IsInjective
    <2>2. Cardinality(1 .. MaxHosts) = MaxHosts
      BY FS_Interval DEF Labelled
    <2>3. IsFiniteSet(Drawer!Present) /\ Cardinality(Drawer!Present) < MaxHosts
      BY DrawerCounted DEF DrawerTypes
    <2>4. Cardinality(1 .. MaxHosts) <= Cardinality(Drawer!Present)
      BY <2>1, <2>3, FS_Injection
    <2>5. Cardinality(Drawer!Present) \in Nat /\ MaxHosts \in Nat
      BY <2>3, FS_CardinalityType DEF Labelled
    <2> QED
      BY <2>2, <2>3, <2>4, <2>5
  <1>3. PICK n \in free : \A m \in free : n <= m
    <2>1. free \in SUBSET Nat
      BY DEF Labelled
    <2> HIDE DEF free
    <2> QED
      BY <1>2, <2>1, LeastNatural
  <1>4. \A m \in 1 .. n - 1 : <<base, m>> \in Drawer!Present
    BY <1>3 DEF Labelled
  <1> DEFINE id == <<base, n>>
  <1>5. /\ id \in Drawer!HostIds /\ id[1] = base /\ id \notin Drawer!Present
        /\ \A m \in 1 .. id[2] - 1 : <<id[1], m>> \in Drawer!Present
    BY <1>1, <1>3, <1>4
  <1> QED
    BY <1>5, Zenon DEF Drawer!FreshId

\* The drawer opens over the boxes of the first host, or of none.
LEMMA DrawerInit ==
  ASSUME Labelled, Drawer!DrawerInit PROVE DrawerInv
  <1>1. PICK first \in {Nobody} \cup {id \in Drawer!HostIds : id[2] = 1} :
          /\ inventory \in [Drawer!HostIds -> {Drawer!None} \cup
                              {[label |-> label, address |-> address, port |-> "22"] :
                                 label \in Names, address \in Addresses}]
          /\ Drawer!Present = {first} \ {Nobody}
          /\ selected = first /\ edited = first
          /\ boxes = IF first = Nobody THEN Drawer!None ELSE inventory[first]
          /\ telnet = {} /\ meant = inventory
    BY DEF Drawer!DrawerInit
  <1>2. ASSUME NEW label \in Names, NEW address \in Addresses
        PROVE  [label |-> label, address |-> address, port |-> "22"] \in Described
    BY DEF Labelled, Described, Words, Drawer!Ports
  <1>3. inventory \in [Drawer!HostIds -> {Drawer!None} \cup Described]
    BY <1>1, <1>2
  <1>4. Described \subseteq Typings
    BY DEF Described, Typings, Words
  <1>5. IsFiniteSet(Drawer!Present)
    <2>1. Drawer!Present \in {{}, {first}}
      BY <1>1
    <2>2. IsFiniteSet({}) /\ IsFiniteSet({first})
      BY FS_Singleton, FS_EmptySet, Zenon
    <2> QED
      BY <2>1, <2>2, Zenon
  <1>6. ASSUME first # Nobody
        PROVE  first \in Drawer!Present /\ inventory[first] \in Described
    BY <1>1, <1>3, <1>6 DEF Drawer!Present
  <1>7. DrawerTypes
    BY <1>1, <1>3, <1>4, <1>5, <1>6 DEF DrawerTypes
  <1> QED
    BY <1>1, <1>6, <1>7, DescribedIsSome DEF DrawerInv

\* A host that is selected has its boxes filled, or finds them as it is.
LEMMA SelectStep ==
  ASSUME DrawerInv, DrawerTypes', inventory' = meant', NEW id \in Drawer!Present',
         telnet' \subseteq Drawer!Present', selected' = id,
         id = edited => inventory'[id] = inventory[id],
         Drawer!Sync(id, inventory')
  PROVE  DrawerInv'
  <1>1. inventory'[id] \in Described
    BY DEF DrawerTypes, Drawer!Present
  <1>2. CASE id = edited
    BY <1>2 DEF DrawerInv, Drawer!Sync
  <1>3. CASE id # edited
    <2>1. edited' = id /\ boxes' = inventory'[id]
      BY <1>3 DEF Drawer!Sync
    <2>2. ReadsAs(boxes', inventory'[edited'])
      BY <1>1, <2>1, DescribedIsSome
    <2> QED
      BY <2>1, <2>2 DEF DrawerInv
  <1> QED
    BY <1>2, <1>3

\* A host with an id that none has is added, and selected.
LEMMA InsertStep ==
  ASSUME Labelled, DrawerInv, NEW id \in Drawer!HostIds \ Drawer!Present, NEW host \in Described,
         Drawer!Insert(id, host), Drawer!Select(id),
         telnet' \subseteq telnet \cup {id}
  PROVE  DrawerInv'
  <1>1. /\ inventory' = [inventory EXCEPT ![id] = host] /\ meant' = [meant EXCEPT ![id] = host]
        /\ selected' = id /\ Drawer!Sync(id, inventory')
    BY DEF Drawer!Insert, Drawer!Select
  <1>2. inventory \in [Drawer!HostIds -> {Drawer!None} \cup Described] /\ inventory = meant
    BY DEF DrawerInv, DrawerTypes
  <1>3. /\ inventory' \in [Drawer!HostIds -> {Drawer!None} \cup Described]
        /\ inventory'[id] = host /\ inventory' = meant'
        /\ \A i \in Drawer!HostIds : i # id => inventory'[i] = inventory[i]
    BY <1>1, <1>2
  <1>4. host # Drawer!None
    BY DescribedIsSome
  <1>5. Drawer!Present' = Drawer!Present \cup {id}
    BY <1>3, <1>4 DEF Drawer!Present
  <1>6. IsFiniteSet(Drawer!Present')
    BY <1>5, FS_AddElement DEF DrawerInv, DrawerTypes
  <1>7. id # edited
    BY DEF DrawerInv, Labelled
  <1>8. edited' = id /\ boxes' = host
    BY <1>1, <1>3, <1>7 DEF Drawer!Sync
  <1>9. boxes' \in Typings
    BY <1>8 DEF Described, Typings, Words
  <1>10. DrawerTypes'
    BY <1>3, <1>6, <1>9 DEF DrawerTypes
  <1>11. telnet' \subseteq Drawer!Present'
    BY <1>5 DEF DrawerInv
  <1>12. id \in Drawer!Present'
    BY <1>5
  <1> QED
    BY <1>1, <1>3, <1>7, <1>10, <1>11, <1>12, SelectStep

\* A host that goes leaves boxes that are of none.
LEMMA RemoveStep ==
  ASSUME DrawerInv, selected # Nobody, Drawer!RemoveHost(selected) PROVE DrawerInv'
  <1>1. /\ inventory' = [inventory EXCEPT ![selected] = Drawer!None]
        /\ meant' = [meant EXCEPT ![selected] = Drawer!None]
        /\ telnet' = telnet \ {selected} /\ selected' = Nobody /\ edited' = Nobody
    BY DEF Drawer!RemoveHost, Drawer!Removed
  <1>2. inventory \in [Drawer!HostIds -> {Drawer!None} \cup Described] /\ inventory = meant
    BY DEF DrawerInv, DrawerTypes
  <1>3. /\ inventory' \in [Drawer!HostIds -> {Drawer!None} \cup Described] /\ inventory' = meant'
        /\ \A i \in Drawer!HostIds : inventory'[i] = IF i = selected THEN Drawer!None ELSE inventory[i]
    BY <1>1, <1>2
  <1>4. Drawer!Present' = Drawer!Present \ {selected}
    BY <1>3 DEF Drawer!Present
  <1>5. IsFiniteSet(Drawer!Present')
    BY <1>4, FS_RemoveElement DEF DrawerInv, DrawerTypes
  <1>6. DrawerTypes'
    BY <1>1, <1>3, <1>5 DEF DrawerTypes
  <1> QED
    BY <1>1, <1>3, <1>4, <1>6 DEF DrawerInv

\* A text typed for the host selected is read, by it and by the boxes alike.
LEMMA TypeStep ==
  ASSUME DrawerInv, NEW field \in Drawer!Fields, NEW text \in Drawer!Texts[field],
         Drawer!Type(field, text)
  PROVE  DrawerInv'
  <1> DEFINE old == inventory[edited]
             word == Drawer!Read(field, text, old[field])
             now == [old EXCEPT ![field] = word]
  <1>1. /\ selected # Nobody /\ selected = edited
        /\ edited \in Drawer!Present /\ ReadsAs(boxes, inventory[edited])
    BY DEF DrawerInv, Drawer!Type, Drawer!BoxesShown, Drawer!Detailed
  <1>2. inventory \in [Drawer!HostIds -> {Drawer!None} \cup Described] /\ inventory = meant
        /\ boxes \in Typings
    BY <1>1 DEF DrawerInv, DrawerTypes
  <1>3. edited \in Drawer!HostIds /\ old \in Described
    BY <1>1, PresentDescribed DEF DrawerInv
  <1>4. /\ inventory' = [inventory EXCEPT ![edited] = now]
        /\ meant' = [meant EXCEPT ![edited] = [meant[edited] EXCEPT ![field] =
                       Drawer!Read(field, text, meant[edited][field])]]
        /\ boxes' = [boxes EXCEPT ![field] = text] /\ UNCHANGED <<telnet, selected, edited>>
    <2>1. inventory' = [inventory EXCEPT ![edited][field] = Drawer!Read(field, text, @)]
      BY <1>1 DEF Drawer!Type, Drawer!Commit
    <2>2. /\ meant' = [meant EXCEPT ![selected][field] = Drawer!Read(field, text, @)]
          /\ boxes' = [boxes EXCEPT ![field] = text] /\ UNCHANGED <<telnet, selected, edited>>
      BY DEF Drawer!Type
    <2> QED
      BY <1>1, <2>1, <2>2
  <1>5. inventory' = meant'
    BY <1>2, <1>4
  <1>6. field \in {"label", "address", "port"}
    BY DEF Drawer!Fields
  <1>7. /\ now \in Described /\ now[field] = word
        /\ \A f \in Drawer!Fields : f # field => now[f] = old[f]
    <2>1. CASE field = "label"
      <3>1. text \in Drawer!Labels /\ word = text
        BY <2>1 DEF Drawer!Texts, Drawer!Read
      <3> QED
        BY <1>3, <2>1, <3>1 DEF Described, Words, Drawer!Fields
    <2>2. CASE field = "address"
      <3>1. text \in Addresses \cup {""} /\ word \in Words
        BY <1>3, <2>2 DEF Drawer!Texts, Drawer!Read, Words, Described
      <3> QED
        BY <1>3, <2>2, <3>1 DEF Described, Drawer!Fields
    <2>3. CASE field = "port"
      <3>1. text \in Drawer!Ports \cup {"", Drawer!Junk} /\ word \in Drawer!Ports
        BY <1>3, <2>3 DEF Drawer!Texts, Drawer!Read, Described, Drawer!Ports, Drawer!Junk
      <3> QED
        BY <1>3, <2>3, <3>1 DEF Described, Drawer!Fields
    <2> QED
      BY <1>6, <2>1, <2>2, <2>3
  <1>8. boxes' \in Typings
    <2>1. text \in Words
      <3>1. CASE field = "label"
        BY <3>1 DEF Drawer!Texts, Words
      <3>2. CASE field = "address"
        BY <3>2 DEF Drawer!Texts, Words
      <3>3. CASE field = "port"
        BY <3>3 DEF Drawer!Texts, Words
      <3> QED
        BY <1>6, <3>1, <3>2, <3>3
    <2> QED
      BY <1>2, <1>4, <1>6, <2>1 DEF Typings
  <1>9. Drawer!Read(field, text, word) = word
    BY <1>6 DEF Drawer!Read, Drawer!Junk
  <1>10. ReadsAs(boxes', now)
    <2> SUFFICES ASSUME NEW f \in Drawer!Fields PROVE Drawer!Read(f, boxes'[f], now[f]) = now[f]
      BY DEF ReadsAs
    <2>1. DOMAIN boxes = Drawer!Fields
      BY <1>2 DEF Typings, Drawer!Fields
    <2> HIDE DEF now, word, old
    <2>2. CASE f = field
      BY <1>4, <1>7, <1>9, <2>1, <2>2
    <2>3. CASE f # field
      BY <1>1, <1>4, <1>7, <2>1, <2>3 DEF ReadsAs, old
    <2> QED
      BY <2>2, <2>3
  <1>11. now # Drawer!None
    BY <1>7, DescribedIsSome
  <1> HIDE DEF now
  <1>12. /\ inventory' \in [Drawer!HostIds -> {Drawer!None} \cup Described]
         /\ inventory'[edited] = now
         /\ \A i \in Drawer!HostIds : i # edited => inventory'[i] = inventory[i]
    BY <1>2, <1>3, <1>4, <1>7
  <1>13. Drawer!Present' = Drawer!Present
    BY <1>1, <1>3, <1>11, <1>12 DEF Drawer!Present
  <1>14. DrawerTypes'
    BY <1>4, <1>8, <1>12, <1>13 DEF DrawerInv, DrawerTypes
  <1> QED
    BY <1>1, <1>4, <1>5, <1>10, <1>12, <1>13, <1>14 DEF DrawerInv

\* Every step of the drawer.
LEMMA DrawerStep ==
  ASSUME Labelled, DrawerInv, [Drawer!DrawerNext]_(Drawer!drawerVars) PROVE DrawerInv'
  <1>1. ASSUME UNCHANGED <<inventory, edited, boxes, meant>>, selected' \in {selected, Nobody},
               telnet' \subseteq telnet \cup ({selected} \ {Nobody})
        PROVE  DrawerInv'
    <2>1. Drawer!Present' = Drawer!Present
      BY <1>1 DEF Drawer!Present
    <2>2. DrawerTypes'
      BY <1>1, <2>1 DEF DrawerInv, DrawerTypes
    <2> QED
      BY <1>1, <2>1, <2>2 DEF DrawerInv
  <1>2. CASE \/ Drawer!ToggleDrawer \/ Drawer!Collapse \/ Drawer!ToggleMenu \/ Drawer!AddTelnet
             \/ Drawer!ShowMore \/ Drawer!BrowseThemes \/ UNCHANGED Drawer!drawerVars
    BY <1>1, <1>2 DEF Drawer!ToggleDrawer, Drawer!Collapse, Drawer!ToggleMenu, Drawer!AddTelnet,
         Drawer!ShowMore, Drawer!BrowseThemes, Drawer!drawerVars, Drawer!MenuShown,
         Drawer!BoxesShown, Drawer!Detailed
  <1>3. ASSUME NEW id \in Drawer!HostIds, Drawer!ClickCard(id) PROVE DrawerInv'
    <2>1. /\ id \in Drawer!Present /\ UNCHANGED <<inventory, telnet, meant>>
          /\ selected' = id /\ Drawer!Sync(id, inventory')
      BY <1>3 DEF Drawer!ClickCard, Drawer!Select
    <2>2. Drawer!Present' = Drawer!Present
      BY <2>1 DEF Drawer!Present
    <2>3. inventory[id] \in Typings
      <3>1. Described \subseteq Typings
        BY DEF Described, Typings, Words
      <3> QED
        BY <2>1, <3>1, PresentDescribed DEF DrawerInv
    <2>4. DrawerTypes'
      BY <2>1, <2>2, <2>3 DEF DrawerInv, DrawerTypes, Drawer!Sync
    <2> QED
      BY <2>1, <2>2, <2>4, SelectStep DEF DrawerInv
  <1>4. ASSUME NEW label \in Names, NEW address \in Drawer!Texts.address,
               NEW portText \in Drawer!Texts.port,
               Drawer!AddDraftHost(label, address, portText)
        PROVE  DrawerInv'
    <2> DEFINE id == Drawer!FreshId(label)
               host == [label |-> label, address |-> address,
                        port |-> Drawer!Read("port", portText, "22")]
    <2>1. /\ Drawer!Cardinality(Drawer!Present) < MaxHosts /\ portText # Drawer!Junk
          /\ Drawer!Insert(id, host) /\ Drawer!Select(id) /\ UNCHANGED telnet
      BY <1>4 DEF Drawer!AddDraftHost
    <2>2. label \in Drawer!Labels
      BY DEF Labelled
    <2>3. id \in Drawer!HostIds \ Drawer!Present
      BY <2>1, <2>2, FreshIdIsFree DEF DrawerInv
    <2>4. host \in Described
      BY <2>1, <2>2 DEF Described, Words, Drawer!Texts, Drawer!Read, Drawer!Ports, Drawer!Junk
    <2> HIDE DEF id, host
    <2> QED
      BY <2>1, <2>3, <2>4, InsertStep
  <1>5. CASE Drawer!MenuDuplicate
    <2> DEFINE copy == [inventory[selected] EXCEPT !.label = CopyOf[@]]
               id == Drawer!FreshId(copy.label)
    <2>1. /\ selected # Nobody /\ Drawer!Cardinality(Drawer!Present) < MaxHosts
          /\ Drawer!Insert(id, copy) /\ Drawer!Select(id)
          /\ telnet' = telnet \cup {id : i \in telnet \cap {selected}}
      BY <1>5 DEF Drawer!MenuDuplicate, Drawer!MenuShown, Drawer!Detailed
    <2>2. inventory[selected] \in Described
      BY <2>1, PresentDescribed DEF DrawerInv
    <2>3. copy \in Described /\ copy.label \in Drawer!Labels
      BY <2>2 DEF Described, Labelled
    <2>4. id \in Drawer!HostIds \ Drawer!Present
      BY <2>1, <2>3, FreshIdIsFree DEF DrawerInv
    <2> HIDE DEF id, copy
    <2>5. telnet' \subseteq telnet \cup {id}
      BY <2>1
    <2> QED
      BY <2>1, <2>3, <2>4, <2>5, InsertStep
  <1>6. CASE Drawer!PaletteRemoves \/ Drawer!MenuRemove
    BY <1>6, RemoveStep DEF Drawer!PaletteRemoves, Drawer!MenuRemove, Drawer!MenuShown,
                            Drawer!Detailed
  <1>7. ASSUME NEW field \in Drawer!Fields, NEW text \in Drawer!Texts[field],
               Drawer!Type(field, text)
        PROVE  DrawerInv'
    BY <1>7, TypeStep
  <1> QED
    BY <1>2, <1>3, <1>4, <1>5, <1>6, <1>7 DEF Drawer!DrawerNext

\* For any labels, addresses and number of hosts, labels of one id included: every
\* host is as the user last described it, the boxes shown say what the host selected
\* has or nothing that can be read, and no host that is gone is selected.
THEOREM TypingAlwaysReachesTheSelected ==
  ASSUME Labelled
  PROVE  Drawer!DrawerInit /\ [][Drawer!DrawerNext]_(Drawer!drawerVars)
           => [](Drawer!TypingReachesTheSelected /\ Drawer!SelectionIsThere)
  <1>1. DrawerInv => Drawer!TypingReachesTheSelected /\ Drawer!SelectionIsThere
    BY DEF DrawerInv, ReadsAs, Drawer!TypingReachesTheSelected, Drawer!SelectionIsThere,
           Drawer!BoxesShown, Drawer!Detailed
  <1> QED
    BY <1>1, DrawerInit, DrawerStep, PTL

-----------------------------------------------------------------------------
(* The local half of the SFTP pane.  A directory that cannot be read is     *)
(* gone to in the history alone, and stays unreadable; what is listed is    *)
(* replaced as a whole, and the pick goes with it.                         *)

Members(entries) == {entries[k] : k \in DOMAIN entries}

LocalTypes ==
  /\ readable \subseteq LocalDirs /\ localCwd \in LocalDirs /\ localListing \in Seq(EntryNames)
  /\ localPast.at \in DOMAIN localPast.paths
  /\ \E places : localPast = [paths |-> localPast.paths, at |-> localPast.at]
                 /\ localPast.paths \in Seq(places)

LocalInv == LocalTypes /\ Local!PickIsListed /\ Local!PlaceIsShown

\* The entries of a directory are a list of entries.
LEMMA EntriesListed ==
  ASSUME NEW d \in LocalDirs, LocalEntries \in [LocalDirs -> Seq(EntryNames)]
  PROVE  LocalEntries[d] \in Seq(EntryNames) /\ 0 \notin DOMAIN LocalEntries[d]
  OBVIOUS

\* The pane opens in the home.
LEMMA LocalInit ==
  ASSUME HomeDir \in LocalDirs, LocalEntries \in [LocalDirs -> Seq(EntryNames)], Local!LocalInit
  PROVE  LocalInv
  <1>1. /\ readable \subseteq LocalDirs /\ localCwd = HomeDir
        /\ localListing = IF HomeDir \in readable THEN LocalEntries[HomeDir] ELSE <<>>
        /\ localPicked = 0 /\ localPast = [paths |-> <<HomeDir>>, at |-> 1]
        /\ sent = Local!Nothing
    BY DEF Local!LocalInit
  <1>2. /\ localPast.paths = <<HomeDir>> /\ localPast.at = 1 /\ <<HomeDir>> \in Seq(LocalDirs)
        /\ 1 \in DOMAIN <<HomeDir>> /\ <<HomeDir>>[1] = HomeDir
    BY <1>1
  <1>3. localListing \in Seq(EntryNames)
    BY <1>1, EntriesListed
  <1>4. LocalTypes
    BY <1>1, <1>2, <1>3 DEF LocalTypes
  <1>5. Members(localListing) \in {Members(LocalEntries[localCwd]), {}}
    BY <1>1 DEF Members
  <1>6. Local!PickIsListed /\ Local!PlaceIsShown
    BY <1>1, <1>2, <1>5 DEF Local!PickIsListed, Local!PlaceIsShown, Members
  <1> QED
    BY <1>4, <1>6 DEF LocalInv

\* A directory is gone to, in the history and, if it can be read, in the pane.
LEMMA GoStep ==
  ASSUME LocalEntries \in [LocalDirs -> Seq(EntryNames)], LocalInv, NEW d, Local!LoadLocal(d),
         localPast'.at \in DOMAIN localPast'.paths,
         localPast'.paths[localPast'.at] = d \/ (UNCHANGED localPast /\ d = localCwd),
         \E places : localPast' = [paths |-> localPast'.paths, at |-> localPast'.at]
                     /\ localPast'.paths \in Seq(places),
         UNCHANGED <<readable, sent>>
  PROVE  LocalInv'
  <1>1. \/ /\ d \in readable /\ localCwd' = d /\ localListing' = LocalEntries[d] /\ localPicked' = 0
        \/ d \notin readable /\ UNCHANGED <<localCwd, localListing, localPicked>>
    BY DEF Local!LoadLocal
  <1>2. readable \subseteq LocalDirs /\ localCwd \in LocalDirs /\ localListing \in Seq(EntryNames)
    BY DEF LocalInv, LocalTypes
  <1>3. localCwd' \in LocalDirs /\ localListing' \in Seq(EntryNames)
    BY <1>1, <1>2, EntriesListed
  <1>4. LocalTypes'
    BY <1>2, <1>3 DEF LocalTypes
  <1>5. Local!PickIsListed'
    BY <1>1 DEF LocalInv, Local!PickIsListed
  <1>6. Local!PlaceIsShown'
    BY <1>1 DEF LocalInv, Local!PlaceIsShown
  <1> QED
    BY <1>4, <1>5, <1>6 DEF LocalInv

\* A new place cuts off those that were ahead.
LEMMA WentStep ==
  ASSUME LocalEntries \in [LocalDirs -> Seq(EntryNames)], LocalInv, NEW d, Local!NavigateLocal(d)
  PROVE  LocalInv'
  <1> DEFINE now == localPast.at
             before == SubSeq(localPast.paths, 1, now)
             paths == Append(before, d)
  <1>1. localPast' = [paths |-> paths, at |-> now + 1] /\ Local!LoadLocal(d)
        /\ UNCHANGED <<readable, sent>>
    BY DEF Local!NavigateLocal
  <1>2. PICK places : localPast.paths \in Seq(places)
    BY DEF LocalInv, LocalTypes
  <1>3. now \in 1 .. Len(localPast.paths) /\ Len(localPast.paths) \in Nat
    BY <1>2 DEF LocalInv, LocalTypes
  <1>4. before \in Seq(places) /\ Len(before) = now /\ now \in Nat
    BY <1>2, <1>3
  <1>5. before \in Seq(places \cup {d})
    BY <1>4
  <1> HIDE DEF before, now
  <1>6. /\ paths \in Seq(places \cup {d}) /\ now + 1 \in DOMAIN paths /\ paths[now + 1] = d
    BY <1>4, <1>5
  <1> HIDE DEF paths
  <1>7. localPast'.paths = paths /\ localPast'.at = now + 1
    BY <1>1
  <1>8. localPast' = [paths |-> localPast'.paths, at |-> localPast'.at]
        /\ localPast'.paths \in Seq(places \cup {d})
    BY <1>1, <1>6, <1>7
  <1> QED
    BY <1>1, <1>6, <1>7, <1>8, GoStep

\* A place of the history, as it was.
LEMMA PlaceStep ==
  ASSUME LocalEntries \in [LocalDirs -> Seq(EntryNames)], LocalInv, NEW n, Local!GoToPlace(n)
  PROVE  LocalInv'
  <1>1. /\ n \in DOMAIN localPast.paths /\ localPast' = [localPast EXCEPT !.at = n]
        /\ Local!LoadLocal(localPast.paths[n]) /\ UNCHANGED <<readable, sent>>
    BY DEF Local!GoToPlace
  <1>2. PICK places : /\ localPast = [paths |-> localPast.paths, at |-> localPast.at]
                      /\ localPast.paths \in Seq(places)
    BY DEF LocalInv, LocalTypes
  <1>3. localPast'.paths = localPast.paths /\ localPast'.at = n
        /\ localPast' = [paths |-> localPast'.paths, at |-> localPast'.at]
    BY <1>1, <1>2
  <1> QED
    BY <1>1, <1>2, <1>3, GoStep

\* Every step of the local half.
LEMMA LocalStep ==
  ASSUME LocalEntries \in [LocalDirs -> Seq(EntryNames)], LocalInv, [Local!LocalNext]_(Local!localVars)
  PROVE  LocalInv'
  <1>1. localListing \in Seq(EntryNames)
    BY DEF LocalInv, LocalTypes
  <1>2. ASSUME UNCHANGED <<localCwd, localListing, localPast>>, readable' \subseteq readable,
               localPicked' = localPicked \/ localPicked' \in DOMAIN localListing,
               \/ UNCHANGED sent
               \/ /\ localPicked \in DOMAIN localListing
                  /\ sent' = [dir |-> localCwd, entry |-> localListing[localPicked]]
        PROVE  LocalInv'
    <2>1. LocalTypes'
      BY <1>2 DEF LocalInv, LocalTypes
    <2>2. Local!PickIsListed'
      <3>1. localPicked' # 0 => localPicked' \in DOMAIN localListing
        BY <1>2 DEF LocalInv, Local!PickIsListed
      <3>2. Members(localListing) \in {Members(LocalEntries[localCwd]), {}}
        BY DEF LocalInv, Local!PickIsListed, Members
      <3>3. sent' # Local!Nothing => sent'.entry \in Members(LocalEntries[sent'.dir])
        <4>1. CASE UNCHANGED sent
          BY <4>1 DEF LocalInv, Local!PickIsListed, Members
        <4>2. CASE /\ localPicked \in DOMAIN localListing
                   /\ sent' = [dir |-> localCwd, entry |-> localListing[localPicked]]
          <5>1. localListing[localPicked] \in Members(localListing)
            BY <4>2 DEF Members
          <5>2. sent'.dir = localCwd /\ sent'.entry = localListing[localPicked]
            BY <4>2
          <5> QED
            BY <3>2, <5>1, <5>2
        <4> QED
          BY <1>2, <4>1, <4>2
      <3> QED
        BY <1>2, <3>1, <3>2, <3>3 DEF Local!PickIsListed, Local!Nothing, Members
    <2>3. Local!PlaceIsShown'
      BY <1>2 DEF LocalInv, Local!PlaceIsShown
    <2> QED
      BY <2>1, <2>2, <2>3 DEF LocalInv
  <1>3. CASE \/ Local!UploadPicked \/ Local!PickLocal \/ UNCHANGED Local!localVars
             \/ \E d \in LocalDirs : Local!Vanish(d)
    BY <1>2, <1>3 DEF Local!UploadPicked, Local!PickLocal, Local!Vanish, Local!localVars
  <1>4. CASE Local!SortLocal
    <2> DEFINE n == Len(localListing)
               turned == [k \in DOMAIN localListing |-> localListing[n + 1 - k]]
    <2>1. localListing' \in {localListing, turned}
          /\ UNCHANGED <<readable, localCwd, localPicked, localPast, sent>>
      BY <1>4 DEF Local!SortLocal
    <2>2. n \in Nat /\ DOMAIN localListing = 1 .. n
      BY <1>1
    <2>3. turned \in [1 .. n -> EntryNames]
      BY <1>1, <2>2
    <2>4. turned \in Seq(EntryNames)
      BY <2>2, <2>3
    <2>5. Members(turned) = Members(localListing)
      <3>1. ASSUME NEW k \in 1 .. n
            PROVE  n + 1 - k \in 1 .. n /\ n + 1 - (n + 1 - k) = k
        BY <2>2
      <3>2. ASSUME NEW k \in 1 .. n PROVE turned[k] = localListing[n + 1 - k]
        BY <2>2
      <3> HIDE DEF turned, n
      <3>3. DOMAIN turned = 1 .. n
        BY <2>3
      <3> QED
        BY <2>2, <3>1, <3>2, <3>3 DEF Members
    <2>6. Members(localListing') = Members(localListing) /\ localListing' \in Seq(EntryNames)
          /\ DOMAIN localListing' = DOMAIN localListing
      BY <1>1, <2>1, <2>2, <2>3, <2>4, <2>5
    <2>7. LocalTypes'
      BY <2>1, <2>6 DEF LocalInv, LocalTypes
    <2>8. Local!PickIsListed' /\ Local!PlaceIsShown'
      BY <2>1, <2>6 DEF LocalInv, Local!PickIsListed, Local!PlaceIsShown, Members
    <2> QED
      BY <2>7, <2>8 DEF LocalInv
  <1>5. CASE Local!RefreshLocal \/ Local!DownloadLands
    <2>1. Local!LoadLocal(localCwd) /\ UNCHANGED <<readable, localPast, sent>>
      BY <1>5 DEF Local!DownloadLands, Local!RefreshLocal
    <2> QED
      BY <2>1, GoStep DEF LocalInv, LocalTypes
  <1>6. CASE Local!GoHome \/ Local!LocalUp \/ Local!ToLocalCrumb \/ Local!OpenLocal
    BY <1>6, WentStep DEF Local!GoHome, Local!LocalUp, Local!ToLocalCrumb, Local!OpenLocal
  <1>7. CASE Local!LocalBack \/ Local!LocalForward
    BY <1>7, PlaceStep DEF Local!LocalBack, Local!LocalForward
  <1> QED
    BY <1>3, <1>4, <1>5, <1>6, <1>7 DEF Local!LocalNext

\* For any directories, whichever vanish: what is listed is of the directory shown, a
\* pick is of what is listed, and what an upload sends was an entry of the directory
\* it is sent from; the place in the history is shown unless it cannot be read.
THEOREM PickAlwaysListed ==
  ASSUME HomeDir \in LocalDirs, LocalEntries \in [LocalDirs -> Seq(EntryNames)]
  PROVE  Local!LocalInit /\ [][Local!LocalNext]_(Local!localVars)
           => [](Local!PickIsListed /\ Local!PlaceIsShown)
  <1>1. LocalInv => Local!PickIsListed /\ Local!PlaceIsShown
    BY DEF LocalInv
  <1> QED
    BY <1>1, LocalInit, LocalStep, PTL

-----------------------------------------------------------------------------
(* A terminal pane.                                                        *)

ViewInv == at \in Nat /\ kept \in Nat /\ kept <= MaxKept /\ Term!ViewOK

\* The view goes back no further than the rows that are kept.
LEMMA ScrollStep ==
  ASSUME ViewInv, NEW offset \in Nat, Term!SetScroll(offset), UNCHANGED kept
  PROVE  ViewInv'
  BY DEF ViewInv, Term!ViewOK, Term!SetScroll, Term!Lesser

\* Every step of a terminal pane.
LEMMA TerminalStep ==
  ASSUME MaxKept \in Nat, ViewInv, [Term!Next]_(Term!vars) PROVE ViewInv'
  <1>1. CASE Term!Output
    BY <1>1 DEF ViewInv, Term!ViewOK, Term!Output, Term!Lesser
  <1>2. ASSUME NEW rise \in {-1, 1}, Term!ScrollWheel(rise) PROVE ViewInv'
    <2>1. (IF at + rise < 0 THEN 0 ELSE at + rise) \in Nat
      BY DEF ViewInv
    <2> QED
      BY <1>2, <2>1, ScrollStep DEF Term!ScrollWheel
  <1>3. ASSUME NEW key, Term!Type(key) PROVE ViewInv'
    <2>1. Term!SetScroll(0) /\ UNCHANGED kept
      BY <1>3 DEF Term!Type, Term!ToBottom
    <2> QED
      BY <2>1, ScrollStep
  <1>4. CASE \/ Term!OpenSearch \/ Term!CloseSearch \/ Term!EditQuery \/ Term!Render \/ Term!Tick
             \/ Term!Activation \/ (\E b \in BOOLEAN : Term!AdvanceMatch(b) \/ Term!SetCursorBlink(b))
             \/ UNCHANGED Term!vars
    BY <1>4 DEF ViewInv, Term!ViewOK, Term!OpenSearch, Term!CloseSearch, Term!EditQuery,
         Term!Render, Term!Tick, Term!Activation, Term!AdvanceMatch, Term!SetCursorBlink,
         Term!view, Term!vars
  <1>5. CASE \/ Term!BeginSelection \/ Term!EndSelection
             \/ (\E b \in BOOLEAN : Term!ExtendSelection(b))
    BY <1>5 DEF ViewInv, Term!ViewOK, Term!BeginSelection, Term!EndSelection,
         Term!ExtendSelection
  <1> QED
    BY <1>1, <1>2, <1>3, <1>4, <1>5 DEF Term!Next

\* For any number of rows kept: the view is back no further than rows are kept, and a
\* drag has a selection to extend, whatever scrolls or is typed while it lasts.
THEOREM ViewAlwaysOK ==
  ASSUME MaxKept \in Nat PROVE Term!Init /\ [][Term!Next]_(Term!vars) => []Term!ViewOK
  <1>1. Term!Init => ViewInv
    BY DEF Term!Init, ViewInv, Term!ViewOK
  <1>2. ViewInv => Term!ViewOK
    BY DEF ViewInv
  <1> QED
    BY <1>1, <1>2, TerminalStep, PTL

-----------------------------------------------------------------------------
(* The tiles of the keys pane.  The disk and the tiles differ only while an *)
(* operation is in flight, and by what its answer brings (ListInv).  A tile *)
(* stands for its file as long as a new key finds a name that is free: a    *)
(* name is taken over only after as many keys as there are numbers, and the *)
(* files are no more than the operations started (TilesInv).               *)

\* What the tiles show, but for some paths, and the known hosts, as they are on disk.
KeysHeld(skip) == {e \in Keyring!Scanned : e.path \notin loose \cup skip} \subseteq listed
HostsHeld == unread \/ hostsShown = Keyring!Entries
Held(skip) == KeysHeld(skip) /\ HostsHeld

\* The task has not changed known_hosts.
Untouched ==
  \/ task = Keyring!NoTask \/ task.at \in {"Check", "Read", "Truncate"}
  \/ task.kind = "Trust" /\ task.at = "Append"

SavesAt(w, places) == w.op = "Save" /\ w.at \in places

SaveKinds ==
  \A w \in works :
    \/ w = Keyring!Reload
    \/ w.op = "Reload" /\ w.at = "Answer"
    \/ w = [op |-> "Save", at |-> "Name", stem |-> w.stem, key |-> w.key]
    \/ /\ w = [op |-> "Save", at |-> w.at, path |-> w.path, key |-> w.key]
       /\ w.at \in {"Create", "Write", "Restrict", "Answer"}

ListInv ==
  /\ SaveKinds
  /\ works = {} \/ (busy /\ task = Keyring!NoTask /\ \E w : works = {w})
  /\ task # Keyring!NoTask => busy
  /\ works = {} => KeysHeld({})
  /\ works = {} /\ Untouched => HostsHeld
  /\ \A w \in works :
       /\ w.op = "Reload" /\ w.at = "Answer" =>
            /\ {e \in Keyring!Scanned : e.path \notin loose} \subseteq w.keys
            /\ w.hosts = Keyring!Entries
       /\ SavesAt(w, {"Name", "Create", "Write"}) => Held({})
       /\ SavesAt(w, {"Restrict", "Answer"}) =>
            Held({w.path}) /\ w.path \in DOMAIN keychain /\ keychain[w.path] = w.key

\* The directory's files, as a scan finds them.
LEMMA ScannedFiles ==
  /\ \A e \in Keyring!Scanned :
       e.path \in DOMAIN keychain /\ e.key = keychain[e.path] /\ e.key # Keyring!Blank
  /\ \A e \in Keyring!Scanned : e = [path |-> e.path, key |-> e.key]
  BY DEF Keyring!Scanned

\* While nothing is written, what the tiles show stays as it is on disk.
LEMMA HeldOn ==
  ASSUME UNCHANGED <<keychain, lines>>
  PROVE  Keyring!Scanned' = Keyring!Scanned /\ Keyring!Entries' = Keyring!Entries
  <1>1. Keyring!Scanned' = Keyring!Scanned
    BY DEF Keyring!Scanned
  <1>2. Keyring!Entries' = Keyring!Entries
    BY DEF Keyring!Entries
  <1> QED
    BY <1>1, <1>2

\* A file written is found by a scan with what was written, and the others as before.
LEMMA PutScanned ==
  ASSUME NEW path, NEW key, Keyring!Put(path, key)
  PROVE  /\ DOMAIN keychain' = DOMAIN keychain \cup {path} /\ keychain'[path] = key
         /\ \A p \in DOMAIN keychain : p # path => keychain'[p] = keychain[p]
         /\ \A e \in Keyring!Scanned' : e.path = path \/ e \in Keyring!Scanned
         /\ key = Keyring!Blank => \A e \in Keyring!Scanned' : e.path # path
  <1>1. /\ DOMAIN keychain' = DOMAIN keychain \cup {path} /\ keychain'[path] = key
        /\ \A p \in DOMAIN keychain : p # path => keychain'[p] = keychain[p]
    BY DEF Keyring!Put
  <1>2. ASSUME NEW e \in Keyring!Scanned' PROVE e.path = path \/ e \in Keyring!Scanned
    BY <1>1 DEF Keyring!Scanned
  <1>3. ASSUME key = Keyring!Blank, NEW e \in Keyring!Scanned' PROVE e.path # path
    BY <1>1, <1>3 DEF Keyring!Scanned
  <1> QED
    BY <1>1, <1>2, <1>3

\* The pane opens with a reload in flight.
LEMMA ListInit == Keyring!KeysInit => ListInv
  <1> SUFFICES ASSUME Keyring!KeysInit PROVE ListInv
    OBVIOUS
  <1>1. works = {Keyring!Reload} /\ busy = TRUE /\ task = Keyring!NoTask
    BY DEF Keyring!KeysInit, Keyring!Init
  <1>2. Keyring!Reload.op = "Reload" /\ Keyring!Reload.at = "Scan"
    BY DEF Keyring!Reload
  <1> QED
    BY <1>1, <1>2 DEF ListInv, SaveKinds, SavesAt

\* The one operation on the keys' directory that is in flight.
LEMMA TheWork ==
  ASSUME ListInv, NEW w \in works
  PROVE  works = {w} /\ busy /\ task = Keyring!NoTask
  BY DEF ListInv

\* An operation on the keys' directory goes on to its next step, or ends.
LEMMA MoveStep ==
  ASSUME ListInv, NEW w \in works, UNCHANGED <<task, lines>>,
         \/ works' = {} /\ Held({})'
         \/ \E next : /\ works' = {next} /\ UNCHANGED busy
                      /\ SaveKinds'
                      /\ next.op = "Reload" /\ next.at = "Answer" =>
                           /\ {e \in Keyring!Scanned : e.path \notin loose}' \subseteq next.keys
                           /\ next.hosts = Keyring!Entries'
                      /\ SavesAt(next, {"Name", "Create", "Write"}) => Held({})'
                      /\ SavesAt(next, {"Restrict", "Answer"}) =>
                           /\ Held({next.path})' /\ next.path \in DOMAIN keychain'
                           /\ keychain'[next.path] = next.key
  PROVE  ListInv'
  <1>1. busy /\ task = Keyring!NoTask
    BY TheWork
  <1>2. CASE works' = {} /\ Held({})'
    BY <1>1, <1>2 DEF ListInv, SaveKinds, Held
  <1>3. ASSUME NEW next, works' = {next}, UNCHANGED busy, SaveKinds',
               next.op = "Reload" /\ next.at = "Answer" =>
                 /\ {e \in Keyring!Scanned : e.path \notin loose}' \subseteq next.keys
                 /\ next.hosts = Keyring!Entries',
               SavesAt(next, {"Name", "Create", "Write"}) => Held({})',
               SavesAt(next, {"Restrict", "Answer"}) =>
                 /\ Held({next.path})' /\ next.path \in DOMAIN keychain'
                 /\ keychain'[next.path] = next.key
        PROVE  ListInv'
    BY <1>1, <1>3 DEF ListInv, SavesAt
  <1> QED
    BY <1>2, <1>3

\* A step of known_hosts: the lines shown are those of the file until something is
\* written, and a pane that has not heard of a write is not at rest.
TasksAside == UNCHANGED <<keychain, listed, hostsShown, works, loose>>
LEMMA TaskListStep ==
  ASSUME ListInv, TasksAside, works = {}, task' # Keyring!NoTask => busy',
         Untouched' => unread' \/ (UNCHANGED <<lines, unread>> /\ Untouched)
  PROVE  ListInv'
  <1>1. SaveKinds'
    BY DEF ListInv, SaveKinds, TasksAside
  <1>2. KeysHeld({})'
    BY DEF ListInv, KeysHeld, TasksAside, Keyring!Scanned
  <1>3. Untouched' => HostsHeld'
    BY DEF ListInv, HostsHeld, TasksAside, Keyring!Entries
  <1> QED
    BY <1>1, <1>2, <1>3 DEF ListInv, TasksAside

\* The tasks of known_hosts.
LEMMA HostsListStep ==
  ASSUME HostsInv, ListInv, Keyring!HostsStep PROVE ListInv'
  <1>1. TasksAside /\ Keyring!Answered
    BY DEF Keyring!HostsStep, TasksAside
  <1>2. task # Keyring!NoTask
    BY TaskKinds DEF Keyring!HostsStep, Keyring!LearnCheck, Keyring!AppendKey,
                     Keyring!AppendFails, Keyring!ReadOld, Keyring!Truncate,
                     Keyring!WriteSome, Keyring!WriteKept, Keyring!WriteFails
  <1>3. works = {} /\ busy /\ (task' # Keyring!NoTask => busy')
    BY <1>1, <1>2 DEF ListInv, Keyring!Answered
  <1>4. task \in Trusts \cup Reads \cup Rewrites
    BY <1>2 DEF HostsInv, KeyTypes
  <1>5. ASSUME NEW place \in {"Done", "Write", "Append"}, task' = [task EXCEPT !.at = place]
        PROVE  task' # Keyring!NoTask /\ task'.at = place /\ task'.kind = task.kind
    <2>1. task'.at = place /\ task'.kind = task.kind
      BY <1>4, <1>5 DEF Trusts, Reads, Rewrites
    <2> QED
      BY <1>4, <2>1, TaskKinds
  <1>6. CASE Keyring!LearnCheck \/ Keyring!ReadOld
    <2>1. UNCHANGED lines /\ task.at \in {"Check", "Read"}
      BY <1>6 DEF Keyring!LearnCheck, Keyring!ReadOld
    <2>2. unread' = TRUE \/ unread' = unread
      BY <1>1 DEF Keyring!Answered
    <2>3. unread' \/ (UNCHANGED <<lines, unread>> /\ Untouched)
      BY <2>1, <2>2 DEF Untouched
    <2> QED
      BY <1>1, <1>3, <2>3, TaskListStep
  <1>7. CASE Keyring!AppendKey
    <2>1. /\ task.at = "Append" /\ lines' = Append(lines, Keyring!Entry({task.host}, task.key))
          /\ (task' = [task EXCEPT !.at = "Done"] \/ task' = Keyring!NoTask)
      BY <1>7 DEF Keyring!AppendKey
    <2>2. lines' # lines
      <3>1. lines \in Seq(TextLines)
        BY DEF HostsInv, KeyTypes
      <3>2. Len(lines') = Len(lines) + 1 /\ Len(lines) \in Nat
        BY <2>1, <3>1
      <3> QED
        BY <3>2
    <2>3. Untouched' => unread'
      BY <1>1, <1>5, <2>1, <2>2 DEF Untouched, Keyring!Answered
    <2> QED
      BY <1>1, <1>3, <2>3, TaskListStep
  <1>8. CASE Keyring!AppendFails
    <2>1. task.at = "Append" /\ task' = Keyring!NoTask
      BY <1>8 DEF Keyring!AppendFails
    <2>2. task.kind = "Trust" \/ task.kind = "Replace"
      BY <1>4, <2>1 DEF Trusts, Reads, Rewrites
    <2>3. unread' \/ (UNCHANGED <<lines, unread>> /\ task.kind = "Trust")
      BY <1>1, <2>1, <2>2 DEF Keyring!Answered
    <2> QED
      BY <1>1, <1>3, <2>1, <2>3, TaskListStep DEF Untouched
  <1>9. CASE Keyring!Truncate
    <2>1. /\ task.at = "Truncate"
          /\ \/ task' = [task EXCEPT !.at = "Write"]
             \/ UNCHANGED lines /\ task' = Keyring!NoTask
          /\ task.kind = "Replace"
      BY <1>9 DEF Keyring!Truncate
    <2>2. CASE task' = [task EXCEPT !.at = "Write"]
      <3>1. ~Untouched'
        BY <1>5, <2>1, <2>2 DEF Untouched
      <3> QED
        BY <1>1, <1>3, <3>1, TaskListStep
    <2>3. CASE UNCHANGED lines /\ task' = Keyring!NoTask
      <3>1. unread' = TRUE \/ unread' = unread
        BY <1>1 DEF Keyring!Answered
      <3> QED
        BY <1>1, <1>3, <2>1, <2>3, <3>1, TaskListStep DEF Untouched
    <2> QED
      BY <2>1, <2>2, <2>3
  <1>10. CASE Keyring!WriteSome \/ Keyring!WriteKept
    <2>1. /\ task.at = "Write" /\ task.kind = "Replace"
          /\ \/ task' = task \/ task' = [task EXCEPT !.at = "Append"]
      BY <1>10 DEF Keyring!WriteSome, Keyring!WriteKept
    <2>2. ~Untouched'
      BY <1>2, <1>5, <2>1 DEF Untouched
    <2> QED
      BY <1>1, <1>3, <2>2, TaskListStep
  <1>11. CASE Keyring!WriteFails
    <2>1. task.at = "Write" /\ task' = Keyring!NoTask
      BY <1>11 DEF Keyring!WriteFails
    <2>2. unread'
      BY <1>1, <2>1 DEF Keyring!Answered
    <2> QED
      BY <1>1, <1>3, <2>2, TaskListStep
  <1> QED
    BY <1>6, <1>7, <1>8, <1>9, <1>10, <1>11 DEF Keyring!HostsStep

\* The operations on the keys' directory.
LEMMA WorkListStep ==
  ASSUME ListInv, NEW w \in works,
         \/ Keyring!Scan(w) \/ Keyring!Reloaded(w) \/ Keyring!ChooseName(w) \/ Keyring!Create(w)
         \/ Keyring!Write(w) \/ Keyring!RestrictMode(w) \/ Keyring!Saved(w) \/ Keyring!SaveFails(w)
  PROVE  ListInv'
  <1>1. works = {w}
    BY TheWork
  <1>2. UNCHANGED <<task, lines>>
    BY DEF Keyring!Scan, Keyring!Reloaded, Keyring!ChooseName, Keyring!Create, Keyring!Write,
           Keyring!RestrictMode, Keyring!Saved, Keyring!SaveFails, Keyring!vars
  <1>3. Keyring!Entries' = Keyring!Entries
    BY <1>2 DEF Keyring!Entries
  <1>4. ASSUME UNCHANGED <<keychain>> PROVE Keyring!Scanned' = Keyring!Scanned
    BY <1>2, <1>4, HeldOn
  <1>5. CASE Keyring!Scan(w)
    <2> DEFINE next == [op |-> "Reload", at |-> "Answer", keys |-> Keyring!Scanned,
                        hosts |-> Keyring!Entries]
    <2>1. works' = {next} /\ UNCHANGED <<keychain, busy, loose>>
      BY <1>1, <1>5 DEF Keyring!Scan, Keyring!Move
    <2>2. next.op = "Reload" /\ next.at = "Answer" /\ next.keys = Keyring!Scanned
          /\ next.hosts = Keyring!Entries
      OBVIOUS
    <2> HIDE DEF next
    <2>3. SaveKinds'
      BY <2>1, <2>2 DEF SaveKinds
    <2>4. {e \in Keyring!Scanned : e.path \notin loose}' \subseteq next.keys
      BY <1>4, <2>1, <2>2
    <2> QED
      BY <1>2, <1>3, <2>1, <2>2, <2>3, <2>4, MoveStep DEF SavesAt
  <1>6. CASE Keyring!Reloaded(w)
    <2>1. /\ w.op = "Reload" /\ w.at = "Answer" /\ listed' = w.keys /\ hostsShown' = w.hosts
          /\ works' = {} /\ UNCHANGED <<keychain, loose>>
      BY <1>1, <1>6 DEF Keyring!Reloaded
    <2>2. /\ {e \in Keyring!Scanned : e.path \notin loose} \subseteq w.keys
          /\ w.hosts = Keyring!Entries
      BY <2>1 DEF ListInv
    <2>3. Held({})'
      BY <1>3, <1>4, <2>1, <2>2 DEF Held, KeysHeld, HostsHeld
    <2> QED
      BY <1>2, <2>1, <2>3, MoveStep
  <1>7. CASE Keyring!ChooseName(w)
    <2> DEFINE next == [op |-> "Save", at |-> "Create", path |-> Keyring!UniquePath(w.stem),
                        key |-> w.key]
    <2>1. w.op = "Save" /\ w.at = "Name" /\ works' = {next}
          /\ UNCHANGED <<keychain, listed, hostsShown, busy, loose, unread>>
      BY <1>1, <1>7 DEF Keyring!ChooseName, Keyring!Move
    <2>2. next.op = "Save" /\ next.at = "Create"
          /\ next = [op |-> "Save", at |-> next.at, path |-> next.path, key |-> next.key]
      OBVIOUS
    <2> HIDE DEF next
    <2>3. SaveKinds'
      BY <2>1, <2>2 DEF SaveKinds
    <2>4. Held({})'
      BY <1>3, <1>4, <2>1 DEF ListInv, SavesAt, Held, KeysHeld, HostsHeld
    <2> QED
      BY <1>2, <2>1, <2>2, <2>3, <2>4, MoveStep DEF SavesAt
  <1>8. ASSUME NEW place \in {"Create", "Write", "Restrict"}, NEW to, SavesAt(w, {place}),
               works' = {[w EXCEPT !.at = to]},
               to \in {"Create", "Write", "Restrict", "Answer"}
        PROVE  /\ SaveKinds' /\ w.at = place
               /\ \E next : /\ works' = {next} /\ next.op = "Save" /\ next.at = to
                            /\ next.path = w.path /\ next.key = w.key
    <2>1. w = [op |-> "Save", at |-> w.at, path |-> w.path, key |-> w.key] /\ w.at = place
      BY <1>8 DEF ListInv, SaveKinds, SavesAt, Keyring!Reload
    <2> DEFINE next == [w EXCEPT !.at = to]
    <2>2. next = [op |-> "Save", at |-> next.at, path |-> next.path, key |-> next.key]
          /\ next.op = "Save" /\ next.at = to /\ next.path = w.path /\ next.key = w.key
      BY <2>1
    <2>3. works' = {next}
      BY <1>8
    <2> HIDE DEF next
    <2>4. SaveKinds'
      BY <1>8, <2>2, <2>3 DEF SaveKinds
    <2> QED
      BY <2>1, <2>2, <2>3, <2>4
  <1>9. CASE Keyring!Create(w)
    <2>1. /\ SavesAt(w, {"Create"}) /\ Keyring!Put(w.path, Keyring!Blank)
          /\ works' = {[w EXCEPT !.at = "Write"]} /\ UNCHANGED <<listed, hostsShown, busy, loose, unread>>
      BY <1>1, <1>9 DEF Keyring!Create, Keyring!Move, SavesAt
    <2>2. PICK next : /\ works' = {next} /\ next.op = "Save" /\ next.at = "Write"
                      /\ next.path = w.path /\ next.key = w.key
      BY <1>8, <2>1
    <2>3. Held({})
      BY <2>1 DEF ListInv, SavesAt
    <2>4. Held({})'
      BY <1>3, <2>1, <2>3, PutScanned DEF Held, KeysHeld, HostsHeld
    <2>5. SaveKinds'
      BY <1>8, <2>1
    <2> QED
      BY <1>2, <2>1, <2>2, <2>4, <2>5, MoveStep DEF SavesAt
  <1>10. CASE Keyring!Write(w)
    <2>1. /\ SavesAt(w, {"Write"}) /\ Keyring!Put(w.path, w.key)
          /\ works' = {[w EXCEPT !.at = "Restrict"]}
          /\ UNCHANGED <<listed, hostsShown, busy, loose, unread>>
      BY <1>1, <1>10 DEF Keyring!Write, Keyring!Move, SavesAt
    <2>2. PICK next : /\ works' = {next} /\ next.op = "Save" /\ next.at = "Restrict"
                      /\ next.path = w.path /\ next.key = w.key
      BY <1>8, <2>1
    <2>3. Held({})
      BY <2>1 DEF ListInv, SavesAt
    <2>4. Held({next.path})' /\ next.path \in DOMAIN keychain' /\ keychain'[next.path] = next.key
      <3> DEFINE path == w.path
                 key == w.key
      <3>1. Keyring!Put(path, key) /\ next.path = path /\ next.key = key
        BY <2>1, <2>2
      <3> HIDE DEF path, key
      <3>2. /\ DOMAIN keychain' = DOMAIN keychain \cup {path} /\ keychain'[path] = key
            /\ \A p \in DOMAIN keychain : p # path => keychain'[p] = keychain[p]
        BY <3>1 DEF Keyring!Put
      <3>4. \A e \in Keyring!Scanned' : e.path = path \/ e \in Keyring!Scanned
        BY <3>2 DEF Keyring!Scanned
      <3>3. Held({path})'
        BY <1>3, <2>1, <2>3, <3>4 DEF Held, KeysHeld, HostsHeld
      <3> QED
        BY <3>1, <3>2, <3>3
    <2>5. SaveKinds'
      BY <1>8, <2>1
    <2> QED
      BY <1>2, <2>1, <2>2, <2>4, <2>5, MoveStep DEF SavesAt
  <1>11. CASE Keyring!RestrictMode(w)
    <2>1. /\ SavesAt(w, {"Restrict"}) /\ works' = {[w EXCEPT !.at = "Answer"]}
          /\ UNCHANGED <<keychain, listed, hostsShown, busy, loose, unread>>
      BY <1>1, <1>11 DEF Keyring!RestrictMode, Keyring!Move, SavesAt
    <2>2. PICK next : /\ works' = {next} /\ next.op = "Save" /\ next.at = "Answer"
                      /\ next.path = w.path /\ next.key = w.key
      BY <1>8, <2>1
    <2>3. Held({w.path}) /\ w.path \in DOMAIN keychain /\ keychain[w.path] = w.key
      BY <2>1 DEF ListInv, SavesAt
    <2>4. Held({next.path})' /\ next.path \in DOMAIN keychain' /\ keychain'[next.path] = next.key
      BY <1>3, <1>4, <2>1, <2>2, <2>3 DEF Held, KeysHeld, HostsHeld
    <2>5. SaveKinds'
      BY <1>8, <2>1
    <2> QED
      BY <1>2, <2>1, <2>2, <2>4, <2>5, MoveStep DEF SavesAt
  <1>12. CASE Keyring!Saved(w)
    <2>1. /\ SavesAt(w, {"Answer"}) /\ works' = {}
          /\ listed' = listed \cup {[path |-> w.path, key |-> w.key]}
          /\ UNCHANGED <<keychain, hostsShown, loose, unread>>
      BY <1>1, <1>12 DEF Keyring!Saved, SavesAt
    <2>2. Held({w.path}) /\ w.path \in DOMAIN keychain /\ keychain[w.path] = w.key
      BY <2>1 DEF ListInv, SavesAt
    <2>3. \A e \in Keyring!Scanned : e.path = w.path => e = [path |-> w.path, key |-> w.key]
      BY <2>2, ScannedFiles
    <2>4. Held({})'
      BY <1>3, <1>4, <2>1, <2>2, <2>3 DEF Held, KeysHeld, HostsHeld
    <2> QED
      BY <1>2, <2>1, <2>4, MoveStep
  <1>13. CASE Keyring!SaveFails(w)
    <2>1. /\ w.op = "Save" /\ w.at # "Answer" /\ works' = {}
          /\ loose' = IF w.at = "Restrict" THEN loose \cup {w.path} ELSE loose
          /\ UNCHANGED <<keychain, listed, hostsShown, unread>>
      BY <1>1, <1>13 DEF Keyring!SaveFails
    <2>2. w.at \in {"Name", "Create", "Write", "Restrict"}
      <3>1. w = [op |-> "Save", at |-> "Name", stem |-> w.stem, key |-> w.key] => w.at = "Name"
        OBVIOUS
      <3> QED
        BY <2>1, <3>1 DEF ListInv, SaveKinds, Keyring!Reload
    <2>3. Held({})'
      <3>1. CASE w.at = "Restrict"
        BY <1>3, <1>4, <2>1, <3>1 DEF ListInv, SavesAt, Held, KeysHeld, HostsHeld
      <3>2. CASE w.at # "Restrict"
        BY <1>3, <1>4, <2>1, <2>2, <3>2 DEF ListInv, SavesAt, Held, KeysHeld, HostsHeld
      <3> QED
        BY <3>1, <3>2
    <2> QED
      BY <1>2, <2>1, <2>3, MoveStep
  <1> QED
    BY <1>5, <1>6, <1>7, <1>9, <1>10, <1>11, <1>12, <1>13

\* A key generated or imported starts while nothing is in flight.
LEMMA StartListStep ==
  ASSUME ListInv, NEW stem, NEW key, Keyring!Start(Keyring!Save(stem, key)) PROVE ListInv'
  <1> DEFINE next == Keyring!Save(stem, key)
  <1>1. /\ ~busy /\ busy' = TRUE /\ works' = works \cup {next}
        /\ UNCHANGED <<lines, task, keychain, listed, hostsShown, loose, unread>>
    BY DEF Keyring!Start
  <1>2. works = {} /\ task = Keyring!NoTask /\ Held({})
    BY <1>1 DEF ListInv, Held, Untouched
  <1>3. next = [op |-> "Save", at |-> "Name", stem |-> next.stem, key |-> next.key]
        /\ next.op = "Save" /\ next.at = "Name"
    BY DEF Keyring!Save
  <1> HIDE DEF next
  <1>4. works' = {next}
    BY <1>1, <1>2
  <1>5. Held({})'
    BY <1>1, <1>2, HeldOn DEF Held, KeysHeld, HostsHeld
  <1>6. SaveKinds'
    BY <1>3, <1>4 DEF SaveKinds
  <1> QED
    BY <1>1, <1>2, <1>3, <1>4, <1>5, <1>6 DEF ListInv, SavesAt

\* The pane starts over with a reload in flight.
LEMMA ReloadListStep ==
  ASSUME works' = {Keyring!Reload}, busy' = TRUE, task' = Keyring!NoTask
  PROVE  ListInv'
  <1>1. Keyring!Reload.op = "Reload" /\ Keyring!Reload.at = "Scan"
    BY DEF Keyring!Reload
  <1> QED
    BY <1>1 DEF ListInv, SaveKinds, SavesAt

\* The steps that change nothing the list is compared with.
LEMMA IdleListStep ==
  ASSUME ListInv, UNCHANGED <<lines, task, keychain, listed, hostsShown, busy, works, loose,
                              unread>>
  PROVE  ListInv'
  <1>1. Keyring!Scanned' = Keyring!Scanned /\ Keyring!Entries' = Keyring!Entries
    BY HeldOn
  <1>2. SaveKinds'
    BY DEF ListInv, SaveKinds
  <1>3. /\ \A skip : Held(skip)' <=> Held(skip)
        /\ KeysHeld({})' <=> KeysHeld({})
        /\ HostsHeld' <=> HostsHeld
        /\ Untouched' <=> Untouched
    BY <1>1 DEF Held, KeysHeld, HostsHeld, Untouched
  <1> QED
    BY <1>1, <1>2, <1>3 DEF ListInv

\* Every step of the pane keeps its lists whole.
LEMMA ListStep ==
  HostsInv /\ ListInv /\ [Keyring!KeysNext]_(Keyring!allVars) => ListInv'
  <1> SUFFICES ASSUME HostsInv, ListInv, [Keyring!KeysNext]_(Keyring!allVars) PROVE ListInv'
    OBVIOUS
  <1>1. ASSUME NEW w \in works,
               \/ Keyring!Scan(w) \/ Keyring!Reloaded(w) \/ Keyring!ChooseName(w)
               \/ Keyring!Create(w) \/ Keyring!Write(w) \/ Keyring!RestrictMode(w)
               \/ Keyring!Saved(w) \/ Keyring!SaveFails(w)
        PROVE  ListInv'
    BY <1>1, WorkListStep
  <1>2. ASSUME NEW e \in listed, Keyring!SelectKey(e) PROVE ListInv'
    BY <1>2, IdleListStep DEF Keyring!SelectKey, Keyring!vars
  <1>3. ASSUME NEW which, Keyring!Toggle(which) PROVE ListInv'
    BY <1>3, IdleListStep DEF Keyring!Toggle, Keyring!vars
  <1>4. ASSUME Keyring!Generate \/ \E stem \in Imports : Keyring!Import(stem) PROVE ListInv'
    BY <1>4, StartListStep DEF Keyring!Generate, Keyring!Import
  <1>5. ASSUME NEW h \in Hosts, NEW k \in Keys, Keyring!TrustTyped(h, k) PROVE ListInv'
    <2>1. /\ ~busy /\ busy' = TRUE /\ task = Keyring!NoTask
          /\ TasksAside /\ UNCHANGED <<lines, unread>>
      BY <1>5 DEF Keyring!TrustTyped, Keyring!TrustKey, TasksAside
    <2>2. works = {} /\ Untouched
      BY <2>1 DEF ListInv, Untouched
    <2> QED
      BY <2>1, <2>2, TaskListStep
  <1>6. CASE Keyring!ConfirmPending
    <2>1. /\ ~busy /\ busy' = TRUE /\ task = Keyring!NoTask
          /\ TasksAside /\ UNCHANGED <<lines, unread>>
      BY <1>6 DEF Keyring!ConfirmPending, Keyring!ConfirmChange, TasksAside
    <2>2. works = {} /\ Untouched
      BY <2>1 DEF ListInv, Untouched
    <2> QED
      BY <2>1, <2>2, TaskListStep
  <1>7. CASE Keyring!HostsStep
    BY <1>7, HostsListStep
  <1>8. CASE Keyring!HostsWritten
    <2>1. /\ task # Keyring!NoTask /\ task' = Keyring!NoTask /\ busy' = TRUE
          /\ works' = works \cup {Keyring!Reload}
      BY <1>8, TaskKinds DEF Keyring!HostsWritten, Keyring!Report
    <2>2. works = {}
      BY <2>1 DEF ListInv
    <2> QED
      BY <2>1, <2>2, ReloadListStep
  <1>9. CASE Keyring!Die
    <2>1. works' = {Keyring!Reload} /\ busy' = TRUE /\ task' = Keyring!NoTask
      BY <1>9 DEF Keyring!Die, Keyring!Crash, Keyring!vars
    <2> QED
      BY <2>1, ReloadListStep
  <1>10. CASE Keyring!DismissPending \/ UNCHANGED Keyring!allVars
    BY <1>10, IdleListStep DEF Keyring!DismissPending, Keyring!Dismiss, Keyring!allVars,
                               Keyring!vars, Keyring!keysVars
  <1> QED
    BY <1>1, <1>2, <1>3, <1>4, <1>5, <1>6, <1>7, <1>8, <1>9, <1>10 DEF Keyring!KeysNext

\* Whatever is generated, imported, trusted or replaced, at any interleaving of
\* the operations with the interface, whatever fails and wherever the program dies:
\* a pane with nothing in flight lists every key of the directory but those it
\* failed to restrict, and the known hosts as the file has them, unless a write that
\* failed changed the file since the pane read it.
THEOREM ListsAlwaysWhole ==
  ASSUME Lined
  PROVE  Keyring!KeysInit /\ [][Keyring!KeysNext]_(Keyring!allVars) => []Keyring!ListsAreWhole
  <1>1. ASSUME ListInv PROVE Keyring!ListsAreWhole
    <2> SUFFICES ASSUME ~busy PROVE Held({})
      BY DEF Keyring!ListsAreWhole, Held, KeysHeld, HostsHeld
    <2>1. works = {} /\ task = Keyring!NoTask
      BY <1>1 DEF ListInv
    <2> QED
      BY <1>1, <2>1 DEF ListInv, Held, Untouched
  <1> QED
    BY <1>1, HostsInit, ListInit, KeysPaneStep, ListStep, PTL

\* A work on the disk that is to write its file keeps clear of those of the tiles.
WorkTiles(w) ==
  /\ w.op = "Reload" /\ w.at = "Answer" =>
       \A e \in w.keys : e.path \in DOMAIN keychain /\ keychain[e.path] = e.key
  /\ SavesAt(w, {"Create"}) => w.path \notin DOMAIN keychain
  /\ SavesAt(w, {"Write"}) =>
       w.path \in DOMAIN keychain /\ \A e \in listed : e.path # w.path
  /\ SavesAt(w, {"Name", "Create"}) => Cardinality(DOMAIN keychain) < tasks

TilesInv ==
  /\ Keyring!TilesAreFiles
  /\ IsFiniteSet(DOMAIN keychain) /\ Cardinality(DOMAIN keychain) <= tasks
  /\ tasks \in 0 .. MaxTasks
  /\ \A w \in works : WorkTiles(w)

\* While the files are fewer than the keys that may be made, a stem has a name
\* that no file has.
LEMMA UniquePathIsFree ==
  ASSUME Numbered, NEW stem, IsFiniteSet(DOMAIN keychain),
         Cardinality(DOMAIN keychain) < MaxTasks
  PROVE  Keyring!UniquePath(stem) \notin DOMAIN keychain
  <1> DEFINE free == {n \in 0 .. MaxNumber : Keyring!Path(stem, n) \notin DOMAIN keychain}
             last == MaxNumber + 1
  <1>1. \A m, n \in Nat : Keyring!Path(stem, m) = Keyring!Path(stem, n) => m = n
    BY DEF Keyring!Path
  <1>2. \E n \in 0 .. last : Keyring!Path(stem, n) \notin DOMAIN keychain
    <2> SUFFICES ASSUME \A n \in 0 .. last : Keyring!Path(stem, n) \in DOMAIN keychain
                 PROVE  FALSE
      OBVIOUS
    <2> DEFINE f == [n \in 0 .. last |-> Keyring!Path(stem, n)]
               files == DOMAIN keychain
    <2>1. f \in Injection(0 .. last, files)
      <3>1. f \in [0 .. last -> files]
        OBVIOUS
      <3>2. \A m, n \in 0 .. last : f[m] = f[n] => m = n
        BY <1>1 DEF Numbered
      <3> HIDE DEF f, files
      <3> QED
        BY <3>1, <3>2 DEF Injection, IsInjective
    <2>2. last \in Nat
      BY DEF Numbered
    <2> HIDE DEF f, last
    <2>3. Cardinality(0 .. last) = last - 0 + 1
      BY <2>2, FS_Interval
    <2>4. IsFiniteSet(files) /\ Cardinality(files) < MaxTasks
      OBVIOUS
    <2> HIDE DEF files
    <2>5. Cardinality(0 .. last) <= Cardinality(files) /\ Cardinality(files) \in Nat
      BY <2>1, <2>4, FS_Injection, FS_CardinalityType
    <2> QED
      BY <2>2, <2>3, <2>4, <2>5 DEF Numbered, last
  <1>3. CASE free = {}
    <2>1. Keyring!Path(stem, last) \notin DOMAIN keychain
      BY <1>2, <1>3 DEF Numbered
    <2> QED
      BY <1>3, <2>1 DEF Keyring!UniquePath
  <1>4. CASE free # {}
    <2>1. free \in SUBSET Nat
      BY DEF Numbered
    <2> HIDE DEF free
    <2>2. \E n \in free : \A m \in free : n <= m
      BY <1>4, <2>1, LeastNatural
    <2> DEFINE n == CHOOSE k \in free : \A m \in free : k <= m
    <2>3. n \in free
      BY <2>2
    <2>4. Keyring!UniquePath(stem) = Keyring!Path(stem, n)
      BY <1>4 DEF Keyring!UniquePath, free
    <2> HIDE DEF n
    <2> QED
      BY <2>3, <2>4 DEF free
  <1> QED
    BY <1>3, <1>4

\* The pane opens over a directory without keys.
LEMMA TilesInit == Numbered /\ Keyring!KeysInit => TilesInv
  <1> SUFFICES ASSUME Numbered, Keyring!KeysInit PROVE TilesInv
    OBVIOUS
  <1>1. /\ works = {Keyring!Reload} /\ listed = {} /\ tasks = 0
        /\ keychain = Keyring!NoKeys
    BY DEF Keyring!KeysInit, Keyring!Init
  <1>2. DOMAIN keychain = {}
    BY <1>1 DEF Keyring!NoKeys
  <1>3. Keyring!Reload.op = "Reload" /\ Keyring!Reload.at = "Scan"
    BY DEF Keyring!Reload
  <1>4. IsFiniteSet({}) /\ Cardinality({}) = 0
    BY FS_EmptySet
  <1> QED
    BY <1>1, <1>2, <1>3, <1>4 DEF TilesInv, Keyring!TilesAreFiles, WorkTiles, SavesAt, Numbered

\* The steps that leave the directory and the tiles alone, or the tiles empty.
LEMMA AsideTilesStep ==
  ASSUME TilesInv, UNCHANGED keychain, tasks' \in 0 .. MaxTasks, tasks <= tasks',
         listed' \in {listed, {}}, \A w \in works' : WorkTiles(w)'
  PROVE  TilesInv'
  <1>1. Cardinality(DOMAIN keychain) \in Nat
    BY FS_CardinalityType DEF TilesInv
  <1>2. IsFiniteSet(DOMAIN keychain)' /\ (Cardinality(DOMAIN keychain) <= tasks)'
    BY <1>1 DEF TilesInv
  <1>3. Keyring!TilesAreFiles'
    BY DEF TilesInv, Keyring!TilesAreFiles
  <1> QED
    BY <1>2, <1>3 DEF TilesInv

\* The operations on the keys' directory.
LEMMA WorkTilesStep ==
  ASSUME Numbered, ListInv, TilesInv, NEW w \in works,
         \/ Keyring!Scan(w) \/ Keyring!Reloaded(w) \/ Keyring!ChooseName(w) \/ Keyring!Create(w)
         \/ Keyring!Write(w) \/ Keyring!RestrictMode(w) \/ Keyring!Saved(w) \/ Keyring!SaveFails(w)
  PROVE  TilesInv'
  <1>1. works = {w} /\ WorkTiles(w) /\ Keyring!TilesAreFiles /\ tasks \in 0 .. MaxTasks
    BY TheWork DEF TilesInv
  <1>2. UNCHANGED tasks
    BY DEF Keyring!Scan, Keyring!Reloaded, Keyring!ChooseName, Keyring!Create, Keyring!Write,
           Keyring!RestrictMode, Keyring!Saved, Keyring!SaveFails, Keyring!vars
  <1>3. /\ tasks' \in 0 .. MaxTasks /\ tasks <= tasks'
        /\ IsFiniteSet(DOMAIN keychain) /\ Cardinality(DOMAIN keychain) \in Nat
        /\ Cardinality(DOMAIN keychain) <= tasks
    BY <1>1, <1>2, FS_CardinalityType DEF TilesInv, Numbered
  <1>4. CASE Keyring!Scan(w)
    <2>1. UNCHANGED <<keychain, listed>>
      BY <1>1, <1>4 DEF Keyring!Scan
    <2>2. PICK next : works' = {next} /\ next.op = "Reload" /\ next.at = "Answer"
                      /\ next.keys = Keyring!Scanned
      <3> DEFINE next == [op |-> "Reload", at |-> "Answer", keys |-> Keyring!Scanned,
                          hosts |-> Keyring!Entries]
      <3>1. next.op = "Reload" /\ next.at = "Answer" /\ next.keys = Keyring!Scanned
        OBVIOUS
      <3>2. works' = {next}
        BY <1>1, <1>4 DEF Keyring!Scan, Keyring!Move
      <3> HIDE DEF next
      <3> QED
        BY <3>1, <3>2
    <2>3. WorkTiles(next)'
      BY <2>1, <2>2, ScannedFiles DEF WorkTiles, SavesAt
    <2> QED
      BY <1>3, <2>1, <2>2, <2>3, AsideTilesStep
  <1>5. CASE Keyring!Reloaded(w)
    <2>1. /\ w.op = "Reload" /\ w.at = "Answer" /\ listed' = w.keys
          /\ works' = {} /\ UNCHANGED keychain
      BY <1>1, <1>5 DEF Keyring!Reloaded
    <2>2. Keyring!TilesAreFiles'
      BY <1>1, <2>1 DEF WorkTiles, Keyring!TilesAreFiles
    <2> QED
      BY <1>1, <1>2, <1>3, <2>1, <2>2 DEF TilesInv
  <1>6. CASE Keyring!ChooseName(w)
    <2>1. SavesAt(w, {"Name"}) /\ UNCHANGED <<keychain, listed>>
      BY <1>1, <1>6 DEF Keyring!ChooseName, Keyring!Move, SavesAt
    <2>2. PICK next : works' = {next} /\ next.op = "Save" /\ next.at = "Create"
                      /\ next.path = Keyring!UniquePath(w.stem)
      <3> DEFINE next == [op |-> "Save", at |-> "Create",
                          path |-> Keyring!UniquePath(w.stem), key |-> w.key]
      <3>1. next.op = "Save" /\ next.at = "Create"
            /\ next.path = Keyring!UniquePath(w.stem)
        OBVIOUS
      <3>2. works' = {next}
        BY <1>1, <1>6 DEF Keyring!ChooseName, Keyring!Move
      <3> HIDE DEF next
      <3> QED
        BY <3>1, <3>2
    <2>3. Cardinality(DOMAIN keychain) < tasks
      BY <1>1, <2>1 DEF WorkTiles, SavesAt
    <2>4. Cardinality(DOMAIN keychain) < MaxTasks
      BY <1>1, <1>3, <2>3 DEF Numbered
    <2>5. next.path \notin DOMAIN keychain
      BY <1>3, <2>2, <2>4, UniquePathIsFree
    <2>6. WorkTiles(next)'
      BY <1>2, <2>1, <2>2, <2>3, <2>5 DEF WorkTiles, SavesAt
    <2> QED
      BY <1>3, <2>1, <2>2, <2>6, AsideTilesStep
  <1>7. ASSUME NEW place, NEW to, w.op = "Save", w.at = place,
               works' = {[w EXCEPT !.at = to]}, place \in {"Create", "Write", "Restrict"}
        PROVE  \E next : works' = {next} /\ next.op = "Save" /\ next.at = to /\ next.path = w.path
    <2>1. w = [op |-> "Save", at |-> w.at, path |-> w.path, key |-> w.key]
      BY <1>7 DEF ListInv, SaveKinds, Keyring!Reload
    <2> DEFINE next == [w EXCEPT !.at = to]
    <2>2. next.op = "Save" /\ next.at = to /\ next.path = w.path
      BY <2>1
    <2>3. works' = {next}
      BY <1>7
    <2> HIDE DEF next
    <2> QED
      BY <2>2, <2>3
  <1>8. CASE Keyring!Create(w)
    <2>1. /\ w.op = "Save" /\ w.at = "Create" /\ Keyring!Put(w.path, Keyring!Blank)
          /\ works' = {[w EXCEPT !.at = "Write"]} /\ UNCHANGED listed
      BY <1>1, <1>8 DEF Keyring!Create, Keyring!Move
    <2>2. PICK next : works' = {next} /\ next.op = "Save" /\ next.at = "Write" /\ next.path = w.path
      BY <1>7, <2>1
    <2>3. w.path \notin DOMAIN keychain /\ Cardinality(DOMAIN keychain) < tasks
      BY <1>1, <2>1 DEF WorkTiles, SavesAt
    <2>4. /\ DOMAIN keychain' = DOMAIN keychain \cup {w.path}
          /\ \A p \in DOMAIN keychain : p # w.path => keychain'[p] = keychain[p]
      BY <2>1, PutScanned
    <2>5. /\ IsFiniteSet(DOMAIN keychain')
          /\ Cardinality(DOMAIN keychain') = Cardinality(DOMAIN keychain) + 1
      BY <1>3, <2>3, <2>4, FS_AddElement
    <2>6. (Cardinality(DOMAIN keychain) <= tasks)'
      BY <1>1, <1>2, <1>3, <2>3, <2>5
    <2>7. Keyring!TilesAreFiles' /\ \A e \in listed : e.path # next.path
      BY <1>1, <2>1, <2>2, <2>3, <2>4 DEF Keyring!TilesAreFiles
    <2>8. WorkTiles(next)'
      BY <2>1, <2>2, <2>4, <2>7 DEF WorkTiles, SavesAt
    <2> QED
      BY <1>3, <2>2, <2>5, <2>6, <2>7, <2>8 DEF TilesInv
  <1>9. CASE Keyring!Write(w)
    <2>1. /\ w.op = "Save" /\ w.at = "Write" /\ Keyring!Put(w.path, w.key)
          /\ works' = {[w EXCEPT !.at = "Restrict"]} /\ UNCHANGED listed
      BY <1>1, <1>9 DEF Keyring!Write, Keyring!Move
    <2>2. PICK next : works' = {next} /\ next.op = "Save" /\ next.at = "Restrict"
                      /\ next.path = w.path
      BY <1>7, <2>1
    <2>3. /\ DOMAIN keychain' = DOMAIN keychain \cup {w.path}
          /\ \A p \in DOMAIN keychain : p # w.path => keychain'[p] = keychain[p]
      BY <2>1 DEF Keyring!Put
    <2>4. w.path \in DOMAIN keychain /\ \A e \in listed : e.path # w.path
      BY <1>1, <2>1 DEF WorkTiles, SavesAt
    <2>5. Keyring!TilesAreFiles'
      BY <1>1, <2>1, <2>3, <2>4 DEF Keyring!TilesAreFiles
    <2>6. WorkTiles(next)'
      BY <2>2 DEF WorkTiles, SavesAt
    <2>7. DOMAIN keychain' = DOMAIN keychain
      BY <2>3, <2>4
    <2> QED
      BY <1>2, <1>3, <2>2, <2>5, <2>6, <2>7 DEF TilesInv
  <1>10. CASE Keyring!RestrictMode(w)
    <2>1. /\ w.op = "Save" /\ w.at = "Restrict" /\ works' = {[w EXCEPT !.at = "Answer"]}
          /\ UNCHANGED <<keychain, listed>>
      BY <1>1, <1>10 DEF Keyring!RestrictMode, Keyring!Move
    <2>2. PICK next : works' = {next} /\ next.op = "Save" /\ next.at = "Answer"
                      /\ next.path = w.path
      BY <1>7, <2>1
    <2>3. WorkTiles(next)'
      BY <2>2 DEF WorkTiles, SavesAt
    <2> QED
      BY <1>3, <2>1, <2>2, <2>3, AsideTilesStep
  <1>11. CASE Keyring!Saved(w)
    <2>1. /\ SavesAt(w, {"Answer"}) /\ works' = {}
          /\ listed' = listed \cup {[path |-> w.path, key |-> w.key]} /\ UNCHANGED keychain
      BY <1>1, <1>11 DEF Keyring!Saved, SavesAt
    <2>2. w.path \in DOMAIN keychain /\ keychain[w.path] = w.key
      BY <2>1 DEF ListInv, SavesAt
    <2>3. Keyring!TilesAreFiles'
      BY <1>1, <2>1, <2>2 DEF Keyring!TilesAreFiles
    <2> QED
      BY <1>1, <1>2, <1>3, <2>1, <2>3 DEF TilesInv
  <1>12. CASE Keyring!SaveFails(w)
    <2>1. works' = {} /\ UNCHANGED <<keychain, listed>>
      BY <1>1, <1>12 DEF Keyring!SaveFails
    <2> QED
      BY <1>3, <2>1, AsideTilesStep
  <1> QED
    BY <1>4, <1>5, <1>6, <1>8, <1>9, <1>10, <1>11, <1>12

\* Every step of the pane keeps its tiles the files they name.
LEMMA TilesStep ==
  Numbered /\ ListInv /\ TilesInv /\ [Keyring!KeysNext]_(Keyring!allVars) => TilesInv'
  <1> SUFFICES ASSUME Numbered, ListInv, TilesInv, [Keyring!KeysNext]_(Keyring!allVars)
               PROVE  TilesInv'
    OBVIOUS
  <1>1. /\ tasks \in 0 .. MaxTasks /\ \A w \in works : WorkTiles(w)
        /\ tasks < MaxTasks => tasks + 1 \in 0 .. MaxTasks
        /\ tasks <= tasks /\ tasks <= tasks + 1
    BY DEF TilesInv, Numbered
  <1>2. ASSUME UNCHANGED <<keychain, listed, works>>,
               tasks' = tasks \/ (tasks < MaxTasks /\ tasks' = tasks + 1)
        PROVE  TilesInv'
    <2>1. tasks' \in 0 .. MaxTasks /\ tasks <= tasks'
      BY <1>1, <1>2
    <2>2. Cardinality(DOMAIN keychain) \in Nat
      BY FS_CardinalityType DEF TilesInv
    <2>3. ASSUME NEW w \in works PROVE WorkTiles(w)'
      BY <1>1, <1>2, <2>1, <2>2 DEF WorkTiles, SavesAt
    <2> QED
      BY <1>2, <2>1, <2>3, AsideTilesStep
  <1>3. ASSUME UNCHANGED keychain, listed' \in {listed, {}}, works' = {Keyring!Reload},
               tasks' = tasks
        PROVE  TilesInv'
    <2>1. Keyring!Reload.op = "Reload" /\ Keyring!Reload.at = "Scan"
      BY DEF Keyring!Reload
    <2>2. WorkTiles(Keyring!Reload)'
      BY <2>1 DEF WorkTiles, SavesAt, Keyring!Reload
    <2> QED
      BY <1>1, <1>3, <2>2, AsideTilesStep DEF Keyring!Reload
  <1>4. ASSUME NEW w \in works,
               \/ Keyring!Scan(w) \/ Keyring!Reloaded(w) \/ Keyring!ChooseName(w)
               \/ Keyring!Create(w) \/ Keyring!Write(w) \/ Keyring!RestrictMode(w)
               \/ Keyring!Saved(w) \/ Keyring!SaveFails(w)
        PROVE  TilesInv'
    BY <1>4, WorkTilesStep
  <1>5. ASSUME NEW e \in listed, Keyring!SelectKey(e) PROVE TilesInv'
    BY <1>2, <1>5 DEF Keyring!SelectKey, Keyring!vars
  <1>6. ASSUME NEW which, Keyring!Toggle(which) PROVE TilesInv'
    BY <1>2, <1>6 DEF Keyring!Toggle, Keyring!vars
  <1>7. ASSUME NEW stem, NEW key, Keyring!Start(Keyring!Save(stem, key)) PROVE TilesInv'
    <2>1. /\ ~busy /\ tasks < MaxTasks /\ tasks' = tasks + 1
          /\ works' = works \cup {Keyring!Save(stem, key)} /\ UNCHANGED <<keychain, listed>>
      BY <1>7 DEF Keyring!Start
    <2>2. PICK next : works' = {next} /\ next.op = "Save" /\ next.at = "Name"
      <3> DEFINE next == Keyring!Save(stem, key)
      <3>1. next.op = "Save" /\ next.at = "Name"
        BY DEF Keyring!Save
      <3> HIDE DEF next
      <3>2. works' = {next}
        BY <2>1 DEF ListInv, next
      <3> QED
        BY <3>1, <3>2
    <2>3. Cardinality(DOMAIN keychain) \in Nat /\ Cardinality(DOMAIN keychain) <= tasks
      BY FS_CardinalityType DEF TilesInv
    <2>4. Cardinality(DOMAIN keychain) < tasks + 1
      BY <1>1, <2>3
    <2>5. WorkTiles(next)'
      BY <2>1, <2>2, <2>4 DEF WorkTiles, SavesAt
    <2> QED
      BY <1>1, <2>1, <2>2, <2>5, AsideTilesStep
  <1>8. ASSUME Keyring!Generate \/ \E stem \in Imports : Keyring!Import(stem) PROVE TilesInv'
    BY <1>7, <1>8 DEF Keyring!Generate, Keyring!Import
  <1>9. ASSUME NEW h \in Hosts, NEW k \in Keys, Keyring!TrustTyped(h, k) PROVE TilesInv'
    BY <1>2, <1>9 DEF Keyring!TrustTyped, Keyring!TrustKey
  <1>10. CASE Keyring!ConfirmPending
    BY <1>2, <1>10 DEF Keyring!ConfirmPending, Keyring!ConfirmChange
  <1>11. CASE Keyring!HostsStep
    BY <1>2, <1>11 DEF Keyring!HostsStep, Keyring!LearnCheck, Keyring!ReadOld,
                       Keyring!AppendKey, Keyring!AppendFails, Keyring!Truncate,
                       Keyring!WriteSome, Keyring!WriteKept, Keyring!WriteFails
  <1>12. CASE Keyring!HostsWritten
    <2>1. /\ task # Keyring!NoTask /\ works' = works \cup {Keyring!Reload}
          /\ UNCHANGED <<keychain, listed, tasks>>
      BY <1>12, TaskKinds DEF Keyring!HostsWritten, Keyring!Report
    <2>2. works' = {Keyring!Reload}
      BY <2>1 DEF ListInv
    <2> QED
      BY <1>3, <2>1, <2>2
  <1>13. CASE Keyring!Die
    BY <1>3, <1>13 DEF Keyring!Die, Keyring!Crash, Keyring!vars
  <1>14. CASE Keyring!DismissPending \/ UNCHANGED Keyring!allVars
    BY <1>2, <1>14 DEF Keyring!DismissPending, Keyring!Dismiss, Keyring!allVars,
                       Keyring!vars, Keyring!keysVars
  <1> QED
    BY <1>4, <1>5, <1>6, <1>8, <1>9, <1>10, <1>11, <1>12, <1>13, <1>14 DEF Keyring!KeysNext

\* A tile stands for the file it names, which holds its key, whatever is generated
\* and imported beside it and wherever the program dies, while there are numbers
\* for the names of all the keys made.
THEOREM TilesAlwaysFiles ==
  ASSUME Lined, Numbered
  PROVE  Keyring!KeysInit /\ [][Keyring!KeysNext]_(Keyring!allVars) => []Keyring!TilesAreFiles
  <1>1. TilesInv => Keyring!TilesAreFiles
    BY DEF TilesInv
  <1>2. Keyring!KeysInit => HostsInv /\ ListInv /\ TilesInv
    BY HostsInit, ListInit, TilesInit
  <1>3. /\ HostsInv /\ ListInv /\ TilesInv /\ [Keyring!KeysNext]_(Keyring!allVars)
           => (HostsInv /\ ListInv /\ TilesInv)'
    BY KeysPaneStep, ListStep, TilesStep
  <1> QED
    BY <1>1, <1>2, <1>3, PTL

-----------------------------------------------------------------------------
(* The desk.  Each of its parts takes one of its own steps or none, so that *)
(* what is proved of the parts above holds of all of them together.        *)

\* Every part starts as it does alone.
LEMMA PartsStart ==
  DeskInit =>
    /\ Init /\ Keyring!KeysInit /\ Sftp!Init /\ Local!LocalInit /\ Forwarding!Init
    /\ Term!Init /\ Snips!Init /\ Safe!VaultInit /\ Drawer!DrawerInit /\ Prefs!Init
  BY Zenon DEF DeskInit

\* A part that does not move stays as it is.
LEMMA PartsStay ==
  /\ UNCHANGED safeVars => UNCHANGED Safe!vaultVars
  /\ UNCHANGED drawerVars => UNCHANGED Drawer!drawerVars
  /\ UNCHANGED keyringVars => UNCHANGED Keyring!allVars
  /\ UNCHANGED sftpVars => UNCHANGED Sftp!vars
  /\ UNCHANGED localVars => UNCHANGED Local!localVars
  /\ UNCHANGED forwardVars => UNCHANGED Forwarding!vars
  /\ UNCHANGED terminalVars => UNCHANGED Term!vars
  /\ UNCHANGED snippetsVars => UNCHANGED Snips!vars
  /\ UNCHANGED settingsVars => UNCHANGED Prefs!vars
  BY DEF safeVars, Safe!vaultVars, drawerVars, Drawer!drawerVars, keyringVars,
         Keyring!allVars, Keyring!vars, Keyring!keysVars, sftpVars, Sftp!vars, localVars,
         Local!localVars, forwardVars, Forwarding!vars, terminalVars, Term!vars,
         snippetsVars, Snips!vars, settingsVars, Prefs!vars

\* Whatever the desk does, each part takes a step of its own or none.
LEMMA PartsMove ==
  [DeskNext]_deskVars =>
    /\ [Next]_vars /\ [Keyring!KeysNext]_(Keyring!allVars) /\ [Sftp!Next]_(Sftp!vars)
    /\ [Local!LocalNext]_(Local!localVars) /\ [Forwarding!Next]_(Forwarding!vars)
    /\ [Term!Next]_(Term!vars) /\ [Snips!Next]_(Snips!vars)
    /\ [Safe!VaultNext]_(Safe!vaultVars) /\ [Drawer!DrawerNext]_(Drawer!drawerVars)
    /\ [Prefs!Next]_(Prefs!vars)
  <1> SUFFICES ASSUME [DeskNext]_deskVars
               PROVE  /\ [Next]_vars /\ [Keyring!KeysNext]_(Keyring!allVars)
                      /\ [Sftp!Next]_(Sftp!vars) /\ [Local!LocalNext]_(Local!localVars)
                      /\ [Forwarding!Next]_(Forwarding!vars) /\ [Term!Next]_(Term!vars)
                      /\ [Snips!Next]_(Snips!vars)
                      /\ [Safe!VaultNext]_(Safe!vaultVars)
                      /\ [Drawer!DrawerNext]_(Drawer!drawerVars) /\ [Prefs!Next]_(Prefs!vars)
    OBVIOUS
  <1>1. UNCHANGED vars \/ Next
    BY DEF DeskNext, Alone, deskVars
  <1>2. UNCHANGED safeVars \/ Safe!VaultNext
    BY DEF DeskNext, Alone, deskVars
  <1>3. UNCHANGED drawerVars \/ Drawer!DrawerNext
    BY DEF DeskNext, Alone, deskVars
  <1>4. UNCHANGED keyringVars \/ Keyring!KeysNext
    BY DEF DeskNext, Alone, deskVars
  <1>5. UNCHANGED sftpVars \/ Sftp!Next
    BY DEF DeskNext, Alone, deskVars
  <1>6. UNCHANGED localVars \/ Local!LocalNext
    BY DEF DeskNext, Alone, deskVars
  <1>7. UNCHANGED forwardVars \/ Forwarding!Next
    BY DEF DeskNext, Alone, deskVars
  <1>8. UNCHANGED terminalVars \/ Term!Next
    BY DEF DeskNext, Alone, deskVars
  <1>9. UNCHANGED snippetsVars \/ Snips!Next
    BY DEF DeskNext, Alone, deskVars
  <1>10. UNCHANGED settingsVars \/ Prefs!Next
    BY DEF DeskNext, Alone, deskVars
  <1> QED
    BY <1>1, <1>2, <1>3, <1>4, <1>5, <1>6, <1>7, <1>8, <1>9, <1>10, PartsStay

\* For any hosts, passwords, snippets and settings, whatever fails and wherever the
\* program dies: what the window finds after a restart is what it had.
THEOREM StoresAlwaysSurvive == DeskSpec => []StoresSurvive
  <1>1. DeskSpec => Spec
    BY PartsStart, PartsMove, PTL DEF DeskSpec, Spec
  <1>2. DeskSpec => [](Safe!ReadsAreAuthentic /\ Safe!FileIsWhole)
    BY PartsStart, PartsMove, SecretsAssumption, ReadsAlwaysAuthentic, FileAlwaysWhole, PTL
       DEF DeskSpec
  <1>3. DeskSpec => [](Snips!OneSnippetPerId /\ Snips!LibraryIsKept)
    BY PartsStart, PartsMove, SnippetsAlwaysKept, PTL DEF DeskSpec, Snips!Spec
  <1>4. DeskSpec => []Prefs!SettingsAreKept
    BY PartsStart, PartsMove, SizesAssumption, SettingsAlwaysKept, PTL DEF DeskSpec, Prefs!Spec
  <1> QED
    BY <1>1, <1>2, <1>3, <1>4, StoresDurable, LegacyNeverLost, PTL DEF StoresSurvive

\* The same of the known hosts: KeysAlwaysVouched, beside the other parts.
THEOREM DeskKeysVouched == DeskSpec => []KeysAreVouched
  BY PartsStart, PartsMove, FilesAssumption, KeysAlwaysVouched, PTL
     DEF DeskSpec, KeysAreVouched

\* For any number of everything the panes show: no pane shows or drives what is
\* another's.
THEOREM PanesAlwaysShowTheirOwn == DeskSpec => []PanesShowTheirOwn
  <1>1. DeskSpec =>
          [](Sftp!ListingIsCurrent /\ Sftp!RowsAreOfClient /\ Sftp!ConnectingIsTrue)
    BY PartsStart, PartsMove, LimitsAssumption, PaneAlwaysOfItsClient, PTL
       DEF DeskSpec, Sftp!Spec, DeskFairness
  <1>2. DeskSpec => [](Local!PickIsListed /\ Local!PlaceIsShown)
    BY PartsStart, PartsMove, DirsAssumption, PickAlwaysListed, PTL DEF DeskSpec
  <1>3. DeskSpec => []Forwarding!ForwardsInHand
    BY PartsStart, PartsMove, LimitsAssumption, ForwardsAlwaysInHand, PTL DEF DeskSpec
  <1>4. DeskSpec => []Term!ViewOK
    BY PartsStart, PartsMove, LimitsAssumption, ViewAlwaysOK, PTL DEF DeskSpec
  <1>5. DeskSpec => [](Snips!ValuesStayWithTheirSnippet /\ Prefs!PanesAreOneSize)
    BY PartsStart, PartsMove, SizesAssumption, SnippetsAlwaysKept, SettingsAlwaysKept, PTL
       DEF DeskSpec, Snips!Spec, Prefs!Spec
  <1>6. DeskSpec => [](Drawer!TypingReachesTheSelected /\ Drawer!SelectionIsThere)
    BY PartsStart, PartsMove, LabelsAssumption, TypingAlwaysReachesTheSelected, PTL
       DEF DeskSpec
  <1>7. DeskSpec => [](Keyring!TilesAreFiles /\ Keyring!ListsAreWhole)
    BY PartsStart, PartsMove, FilesAssumption, NumbersAssumption, ListsAlwaysWhole,
       TilesAlwaysFiles, PTL DEF DeskSpec
  <1> QED
    BY <1>1, <1>2, <1>3, <1>4, <1>5, <1>6, <1>7, PTL DEF PanesShowTheirOwn
=============================================================================
