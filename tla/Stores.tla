-------------------------------- MODULE Stores -------------------------------
(***************************************************************************)
(* What the window keeps on disk about hosts and their passwords:          *)
(* hosts.json, which only names a secret, and vault.json, which seals it.  *)
(* Each handler of the window changes the two stores in memory and then    *)
(* saves them one after the other; either save may fail, and the program   *)
(* may die between them.  The keys pane renames a username in hosts.json   *)
(* through a store of its own, on another thread.  A save is a temporary   *)
(* file renamed over the old one, so a crash leaves the old file or the    *)
(* new one.                                                                *)
(***************************************************************************)
EXTENDS Naturals, FiniteSets, Sequences

CONSTANTS
  Ids,          \* the host ids one label yields: 1 is the label's, 2 its "-2"
  Users,        \* usernames
  MaxFailures,  \* how many reads and writes may fail
  MaxStarts     \* how often the program is started

ASSUME IdsAssumption == Ids = 1 .. Cardinality(Ids) /\ IsFiniteSet(Ids)
ASSUME BoundsAssumption == MaxFailures \in Nat /\ MaxStarts \in Nat \ {0}

\* A text of hosts.json or of the vault: the stable id of a host, or a password.
Id(i) == [kind |-> "Id", of |-> i]
Typed == [kind |-> "Typed", of |-> 0]
Legacy == [kind |-> "Legacy", of |-> 0]
Nothing == [kind |-> "Nothing", of |-> 0]
Secrets == {Id(i) : i \in Ids} \cup {Typed, Legacy}

Agent == [method |-> "Agent", ref |-> Nothing]
Key == [method |-> "Key", ref |-> Nothing]
Password(ref) == [method |-> "Password", ref |-> ref]
Auths == {Agent, Key} \cup {Password(s) : s \in Secrets}

Host(user, auth) == [there |-> TRUE, user |-> user, auth |-> auth]
NoHost == [there |-> FALSE, user |-> CHOOSE u \in Users : TRUE, auth |-> Agent]
NoHosts == [i \in Ids |-> NoHost]
NoSecrets == [i \in Ids |-> Nothing]

VARIABLES
  running,    \* whether the program runs
  hosts,      \* the window's inventory
  vault,      \* its open vault: the secret under each host's stable id
  vaultOpen,
  disk,       \* hosts.json and vault.json
  saves,      \* the saves the handler in progress has left, in order
  secret,     \* the host whose password the prompt asks for, 0 if none
  rename,     \* the keys pane's rename in progress
  failures, starts,
  faithful,   \* no read or write failed, and no other store wrote, since the start
  forgotten,  \* the hosts whose legacy password the user replaced or dropped
  unsaved     \* the hosts whose record was changed in memory without a save to come

vars == <<running, hosts, vault, vaultOpen, disk, saves, secret, rename,
          failures, starts, faithful, forgotten, unsaved>>
memory == <<hosts, vault, vaultOpen, secret>>

NoRename == [phase |-> "None", read |-> NoHosts]

\* The program was used before passwords went to the vault: a host may still
\* hold its password as the reference.
Init ==
  /\ running = FALSE
  /\ hosts = NoHosts /\ vault = NoSecrets /\ vaultOpen = FALSE
  /\ \E u \in Users, a \in {Agent, Key, Password(Legacy)} :
       disk = [hosts |-> [NoHosts EXCEPT ![1] = Host(u, a)],
               vault |-> NoSecrets]
  /\ saves = <<>> /\ secret = 0 /\ rename = NoRename
  /\ failures = 0 /\ starts = 0
  /\ faithful = TRUE /\ forgotten = {} /\ unsaved = {}

There == {i \in Ids : hosts[i].there}
Idle == running /\ saves = <<>>

Resolve(v, ref) == IF ref.kind = "Id" THEN v[ref.of] ELSE Nothing

-----------------------------------------------------------------------------
(* Starting.                                                               *)

\* The references the vault cannot resolve and that are not the host's own id
\* are taken for passwords of the old format.
IsLegacy(h, i, v) ==
  /\ h[i].there /\ h[i].auth.method = "Password"
  /\ h[i].auth.ref # Id(i)
  /\ Resolve(v, h[i].auth.ref) = Nothing

Migrated(h, v) == {i \in Ids : IsLegacy(h, i, v)}

SavesOfMigrationHostsFirst == <<"Hosts", "Vault">>
SavesOfMigration == <<"Vault", "Hosts">>

\* The hosts are read, a file that cannot be read counting as none; the vault
\* is opened, or stays closed; with it the legacy references are migrated.
Start ==
  /\ ~running /\ starts < MaxStarts
  /\ running' = TRUE /\ starts' = starts + 1 /\ secret' = 0 /\ unsaved' = {}
  /\ \E readable, opens \in BOOLEAN :
       LET h == IF readable THEN disk.hosts ELSE NoHosts
           moved == IF opens THEN Migrated(h, disk.vault) ELSE {}
           failed == Cardinality({b \in {1, 2} : <<~readable, ~opens>>[b]})
       IN /\ failures + failed <= MaxFailures
          /\ failures' = failures + failed
          /\ faithful' = (failed = 0)
          /\ vaultOpen' = opens
          /\ hosts' = [i \in Ids |-> IF i \in moved
                         THEN [h[i] EXCEPT !.auth = Password(Id(i))] ELSE h[i]]
          /\ vault' = [i \in Ids |-> IF i \in moved THEN h[i].auth.ref
                                     ELSE IF opens THEN disk.vault[i]
                                     ELSE Nothing]
          /\ saves' = IF moved # {} THEN SavesOfMigration ELSE <<>>
  /\ UNCHANGED <<disk, rename, forgotten>>

\* The program is quit or dies, between two saves of one handler too, and the
\* thread of the rename with it.
Stop ==
  /\ running
  /\ running' = FALSE /\ saves' = <<>> /\ rename' = NoRename
  /\ hosts' = NoHosts /\ vault' = NoSecrets
  /\ vaultOpen' = FALSE /\ secret' = 0 /\ unsaved' = {}
  /\ UNCHANGED <<disk, failures, starts, faithful, forgotten, unsaved>>

\* One save of the handler in progress.  "VaultFirst" gives up the saves after
\* it when it fails; the other handlers go on.
Save ==
  /\ running /\ saves # <<>>
  /\ \/ /\ disk' = IF Head(saves) = "Hosts" THEN [disk EXCEPT !.hosts = hosts]
                                           ELSE [disk EXCEPT !.vault = vault]
        /\ saves' = Tail(saves)
        /\ unsaved' = IF Head(saves) = "Hosts" THEN unsaved ELSE {}
        /\ UNCHANGED <<failures, faithful>>
     \/ /\ failures < MaxFailures
        /\ failures' = failures + 1 /\ faithful' = FALSE
        /\ saves' = IF Head(saves) = "VaultFirst" THEN <<>> ELSE Tail(saves)
        /\ UNCHANGED <<disk, unsaved>>
  /\ UNCHANGED <<running, memory, rename, starts, forgotten>>

-----------------------------------------------------------------------------
(* The window's handlers.                                                  *)

UnusedId(h) == CHOOSE i \in Ids : ~h[i].there /\ \A j \in 1 .. i - 1 : h[j].there

AddDraftHost(u) ==
  /\ Idle /\ There # Ids
  /\ hosts' = [hosts EXCEPT ![UnusedId(hosts)] = Host(u, Agent)]
  /\ saves' = <<"Hosts">>
  /\ UNCHANGED <<running, vault, vaultOpen, disk, secret, rename, failures,
                 starts, faithful, forgotten, unsaved>>

\* The copy keeps the reference of its original.
Duplicate(i) ==
  /\ Idle /\ i \in There /\ There # Ids
  /\ hosts' = [hosts EXCEPT ![UnusedId(hosts)] = hosts[i]]
  /\ saves' = <<"Hosts">>
  /\ UNCHANGED <<running, vault, vaultOpen, disk, secret, rename, failures,
                 starts, faithful, forgotten, unsaved>>

RemoveHost(i) ==
  /\ Idle /\ i \in There
  /\ hosts' = [hosts EXCEPT ![i] = NoHost]
  /\ saves' = <<"Hosts">>
  /\ forgotten' = forgotten \cup {i}
  /\ UNCHANGED <<running, vault, vaultOpen, disk, secret, rename, failures,
                 starts, faithful, unsaved>>

CommitUsername(i, u) ==
  /\ Idle /\ i \in There /\ hosts[i].user # u
  /\ hosts' = [hosts EXCEPT ![i].user = u]
  /\ saves' = <<"Hosts">>
  /\ UNCHANGED <<running, vault, vaultOpen, disk, secret, rename, failures,
                 starts, faithful, forgotten, unsaved>>

\* The inventory keeps the reference to the sealed password.
StoredRefIsPassword(i, p) == p
StoredRef(i, p) == Id(i)

SavesOfCommitVaultOnly == <<"VaultFirst">>
SavesOfCommit == <<"VaultFirst", "Hosts">>

\* The password box of the details panel, on every change of its text: p is
\* what it then holds, Nothing when it is empty.  For a host that logs in with a
\* key the record is changed and no save follows.
CommitPassword(i, p) ==
  /\ Idle /\ vaultOpen /\ i \in There
  /\ vault[i] # p \/ p = Nothing
  /\ vault' = [vault EXCEPT ![i] = p]
  /\ LET auth == hosts[i].auth
     IN IF p = Nothing
        THEN /\ hosts' = [hosts EXCEPT ![i].auth =
                            IF auth.method = "Password" THEN Agent ELSE auth]
             /\ saves' = SavesOfCommit /\ UNCHANGED unsaved
        ELSE IF auth.method = "Key"
        THEN unsaved' = unsaved \cup {i} /\ UNCHANGED <<hosts, saves>>
        ELSE /\ hosts' = [hosts EXCEPT ![i].auth = Password(StoredRef(i, p))]
             /\ saves' = SavesOfCommit /\ UNCHANGED unsaved
  /\ forgotten' = forgotten \cup {i}
  /\ UNCHANGED <<running, vaultOpen, disk, secret, rename, failures, starts,
                 faithful>>

TypePassword(i) == \E p \in {Typed, Nothing} : CommitPassword(i, p)

\* Selecting a host fills its password box, which commits what it was filled
\* with: for a password host whose secret the vault does not have, nothing.
SelectHost(i) ==
  /\ i \in There
  /\ CommitPassword(i, IF hosts[i].auth.method = "Password"
                       THEN Resolve(vault, hosts[i].auth.ref) ELSE Nothing)

\* Connecting asks for the password the vault does not have.
Connect(i) ==
  /\ Idle /\ i \in There /\ hosts[i].auth.method = "Password"
  /\ Resolve(vault, hosts[i].auth.ref) = Nothing
  /\ secret # i
  /\ secret' = i
  /\ UNCHANGED <<running, hosts, vault, vaultOpen, disk, saves, rename,
                 failures, starts, faithful, forgotten, unsaved>>

SavesOfSubmitHostsOnly == <<"Hosts">>
SavesOfSubmit == <<"Vault", "Hosts">>

\* The prompt is answered: the host may have been removed meanwhile, and its id
\* taken by another of the same label.
SubmitSecret ==
  /\ Idle /\ secret # 0
  /\ secret' = 0
  /\ IF secret \in There /\ vaultOpen
     THEN /\ vault' = [vault EXCEPT ![secret] = Typed]
          /\ hosts' = [hosts EXCEPT ![secret].auth =
                         Password(StoredRef(secret, Typed))]
          /\ saves' = SavesOfSubmit
          /\ forgotten' = forgotten \cup {secret}
     ELSE UNCHANGED <<vault, hosts, saves, forgotten>>
  /\ UNCHANGED <<running, vaultOpen, disk, rename, failures, starts, faithful,
                 unsaved>>

-----------------------------------------------------------------------------
(* The keys pane renames an identity on a background thread, in a store it   *)
(* loads and saves itself, while the window goes on.                       *)

RenameLoad(old, new) ==
  /\ running /\ rename = NoRename /\ old # new
  /\ \E i \in Ids : disk.hosts[i].there /\ disk.hosts[i].user = old
  /\ rename' = [phase |-> "Loaded",
                read |-> [i \in Ids |->
                  IF disk.hosts[i].there /\ disk.hosts[i].user = old
                  THEN [disk.hosts[i] EXCEPT !.user = new] ELSE disk.hosts[i]]]
  /\ UNCHANGED <<running, memory, disk, saves, failures, starts, faithful,
                 forgotten, unsaved>>

RenameSave ==
  /\ rename.phase = "Loaded"
  /\ disk' = [disk EXCEPT !.hosts = rename.read]
  /\ rename' = NoRename /\ faithful' = FALSE
  /\ UNCHANGED <<running, memory, saves, failures, starts, forgotten, unsaved>>

-----------------------------------------------------------------------------
Next ==
  \/ Start \/ Stop \/ Save \/ SubmitSecret \/ RenameSave
  \/ \E u \in Users : AddDraftHost(u)
  \/ \E i \in Ids : \/ Duplicate(i) \/ RemoveHost(i) \/ TypePassword(i)
                    \/ SelectHost(i) \/ Connect(i)
                    \/ \E u \in Users : CommitUsername(i, u)
  \/ \E old, new \in Users : RenameLoad(old, new)

Spec == Init /\ [][Next]_vars

-----------------------------------------------------------------------------
TypeOK ==
  /\ running \in BOOLEAN /\ vaultOpen \in BOOLEAN /\ faithful \in BOOLEAN
  /\ \A h \in {hosts, disk.hosts, rename.read} :
       h \in [Ids -> [there : BOOLEAN, user : Users, auth : Auths]]
  /\ \A v \in {vault, disk.vault} : v \in [Ids -> Secrets \cup {Nothing}]
  /\ saves \in Seq({"Vault", "VaultFirst", "Hosts"}) /\ Len(saves) <= 2
  /\ secret \in Ids \cup {0} /\ forgotten \subseteq Ids /\ unsaved \subseteq Ids

\* Whatever fails and whenever the program dies, no password a user types is
\* ever written to hosts.json, which only names the vault's record.
TypedStaysOutOfHosts == \A i \in Ids : disk.hosts[i].auth.ref # Typed

\* When the window is idle and nothing went wrong, a restart finds every host and
\* every record of the vault as the window has them, but for a password typed for
\* a host that logs in with a key: that one stays in memory until something else
\* saves the vault, however the host is renamed, removed or copied meanwhile.
IdleIsDurable ==
  Idle /\ faithful =>
    /\ disk.hosts = hosts
    /\ vaultOpen => \A i \in Ids \ unsaved : disk.vault[i] = vault[i]

\* What is typed in the password box is sealed into the vault's file.
TypedIsSealed == Idle /\ faithful /\ vaultOpen => disk.vault = vault

\* A password of the old format is on disk, in one file or in the other, until
\* its host's password is replaced or its host removed, even if the program
\* dies during the migration.
LegacyIsNotLost ==
  failures = 0 => \A i \in Ids :
    disk.hosts[i].there /\ disk.hosts[i].auth = Password(Id(i)) /\ i \notin forgotten
      => disk.vault[i] # Nothing

\* The migration takes for a password only what is not a stable id.
MigrationTakesNoId == \A i \in Ids : disk.vault[i].kind # "Id"
=============================================================================
