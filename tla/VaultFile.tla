------------------------------ MODULE VaultFile -------------------------------
(***************************************************************************)
(* The vault of secrets: one file of sealed records, opened with a master   *)
(* secret that is kept in the keychain or that is a passphrase, changed in  *)
(* memory and written by a temporary file and a rename.  The program may    *)
(* die at any step; the keychain may be locked or lose its entry, and the   *)
(* records of the file may be exchanged by hand.                           *)
(*                                                                         *)
(* Cryptography is symbolic: a key is what it was derived from, and a       *)
(* sealed record is the key, the id and the value it was made of.          *)
(***************************************************************************)
EXTENDS Naturals

CONSTANTS
  SecretIds,  \* the ids of records
  Secrets,    \* the values sealed
  Phrases,    \* passphrases that are tried: numbers, none of them ever drawn
  MaxFresh    \* random salts and master secrets drawn

NoEntry == 0
Failure == "Failure"
Closed == [is |-> "Closed"]
Missing == [is |-> "Missing"]
\* Not JSON, of another version or another key derivation.
Damaged == [is |-> "Damaged"]
Torn == [is |-> "Torn"]

VARIABLES
  onDisk,     \* the file
  temporary,  \* the temporary file
  unlocked,   \* whether the keychain answers
  entry,      \* the master secret that it keeps for this vault
  vault,      \* the vault in memory, if open
  saving,     \* the step of a save under way
  fresh,      \* the random values drawn
  exchanged,  \* whether records of the file were exchanged
  given       \* the values that were ever set, of each id

vaultVars == <<onDisk, temporary, unlocked, entry, vault, saving, fresh, exchanged, given>>

VaultInit ==
  /\ onDisk \in {Missing, Damaged} /\ temporary = Missing
  /\ unlocked \in BOOLEAN /\ entry \in {NoEntry, 1} /\ fresh = entry
  /\ vault = Closed /\ saving = "No" /\ exchanged = FALSE /\ given = [i \in SecretIds |-> {}]

-----------------------------------------------------------------------------
(* Keys and records.                                                       *)

DeriveKey(master, salt) == <<master, salt>>
Seal(key, id, secret) == [key |-> key, id |-> id, secret |-> secret]

\* A record opens with the key and under the id that it was sealed with.
Unseal(key, id, sealed) ==
  IF sealed.key = key /\ sealed.id = id THEN sealed.secret ELSE Failure
UnsealAnyId(key, id, sealed) ==
  IF sealed.key = key THEN sealed.secret ELSE Failure

\* The secret of id, if there is a record of it: each id has one at most.
Get(id) == {Unseal(vault.key, id, sealed) : sealed \in vault.file.secrets[id]}

-----------------------------------------------------------------------------
(* Opening.                                                                *)

Unlock(file, master) ==
  vault' = [is |-> "Open", key |-> DeriveKey(master, file.salt), file |-> file]

CreateVault(source, master) ==
  /\ fresh < MaxFresh /\ fresh' = fresh + 1
  /\ Unlock([is |-> "Vault", source |-> source, salt |-> fresh',
             secrets |-> [i \in SecretIds |-> {}]], master)

Unchanging == UNCHANGED <<onDisk, temporary, unlocked, saving, exchanged, given>>

\* The first start puts a master secret into the keychain.
CreateEntry ==
  /\ vault = Closed /\ onDisk = Missing /\ unlocked /\ entry = NoEntry
  /\ fresh < MaxFresh /\ fresh' = fresh + 1 /\ entry' = fresh'
  /\ Unchanging /\ UNCHANGED vault

\* A vault that is there opens with the secret in the keychain, and not without.
Open ==
  /\ vault = Closed /\ unlocked /\ entry # NoEntry
  /\ \/ onDisk = Missing /\ CreateVault("Keychain", entry)
     \/ /\ onDisk.is = "Vault" /\ onDisk.source = "Keychain"
        /\ Unlock(onDisk, entry) /\ UNCHANGED fresh
  /\ Unchanging /\ UNCHANGED entry

\* With any passphrase: a wrong one is noticed by the records that do not open.
OpenWithPassphrase(phrase) ==
  /\ vault = Closed
  /\ \/ onDisk = Missing /\ CreateVault("Passphrase", phrase)
     \/ /\ onDisk.is = "Vault" /\ onDisk.source = "Passphrase"
        /\ Unlock(onDisk, phrase) /\ UNCHANGED fresh
  /\ Unchanging /\ UNCHANGED entry

-----------------------------------------------------------------------------
(* Changes, and the save.                                                  *)

Put(id, records) ==
  /\ vault # Closed /\ saving = "No"
  /\ vault' = [vault EXCEPT !.file.secrets[id] = records]
  /\ UNCHANGED <<onDisk, temporary, unlocked, entry, saving, fresh, exchanged>>

Set(id, secret) ==
  /\ Put(id, {Seal(vault.key, id, secret)})
  /\ given' = [given EXCEPT ![id] = @ \cup {secret}]
Remove(id) == Put(id, {}) /\ UNCHANGED given

SaveStep(from, to) ==
  /\ vault # Closed /\ saving = from /\ saving' = to
  /\ UNCHANGED <<unlocked, entry, vault, fresh, exchanged, given>>

CreateTemporary == SaveStep("No", "Write") /\ temporary' = Torn /\ UNCHANGED onDisk
WriteTemporary == SaveStep("Write", "Rename") /\ temporary' = vault.file /\ UNCHANGED onDisk
\* What it is renamed over is the file, in one step.
Rename == SaveStep("Rename", "No") /\ onDisk' = temporary /\ temporary' = Missing

\* A step fails; the temporary file stays as it is, until the next save.
SaveFails == \E from \in {"Write", "Rename"} : SaveStep(from, "No") /\ UNCHANGED <<onDisk, temporary>>

Die ==
  /\ vault # Closed /\ vault' = Closed /\ saving' = "No"
  /\ UNCHANGED <<onDisk, temporary, unlocked, entry, fresh, exchanged, given>>

-----------------------------------------------------------------------------
(* From outside.                                                           *)

KeychainChanges ==
  /\ \/ unlocked' = ~unlocked /\ UNCHANGED entry
     \/ entry # NoEntry /\ entry' = NoEntry /\ UNCHANGED unlocked
  /\ UNCHANGED <<onDisk, temporary, vault, saving, fresh, exchanged, given>>

Exchange(i, j) ==
  /\ onDisk.is = "Vault" /\ exchanged' = TRUE
  /\ onDisk' = [onDisk EXCEPT !.secrets[i] = onDisk.secrets[j],
                              !.secrets[j] = onDisk.secrets[i]]
  /\ UNCHANGED <<temporary, unlocked, entry, vault, saving, fresh, given>>

VaultNext ==
  \/ CreateEntry \/ Open \/ \E phrase \in Phrases : OpenWithPassphrase(phrase)
  \/ \E i \in SecretIds : Remove(i) \/ \E secret \in Secrets : Set(i, secret)
  \/ CreateTemporary \/ WriteTemporary \/ Rename \/ SaveFails \/ Die
  \/ KeychainChanges \/ \E i, j \in SecretIds : i # j /\ Exchange(i, j)

-----------------------------------------------------------------------------
\* What is read under an id was set under it, whatever was done to the file and
\* whatever passphrase it is read with; and with the keychain's secret all that
\* was saved is read, however saves were interrupted, unless the file was changed
\* by hand.
ReadsAreAuthentic ==
  vault # Closed =>
    \A i \in SecretIds :
      /\ Get(i) \subseteq {Failure} \cup given[i]
      /\ vault.file.source = "Keychain" /\ ~exchanged => Failure \notin Get(i)

\* The file is never half of a save, and one that could not be read is never
\* saved over.
FileIsWhole ==
  /\ onDisk.is \in {"Missing", "Damaged", "Vault"}
  /\ onDisk = Damaged => vault = Closed
=============================================================================
