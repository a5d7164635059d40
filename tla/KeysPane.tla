------------------------------- MODULE KeysPane -------------------------------
(***************************************************************************)
(* The keys pane: the private keys it generates, imports and lists beside   *)
(* the known hosts it lists and edits.  Everything that touches the disk    *)
(* runs on a background thread and answers to the interface, one operation  *)
(* at a time by the pane's busy flag; known_hosts itself is in KnownHosts.  *)
(* The two sections, the search and the order of the tiles are view alone.  *)
(***************************************************************************)
EXTENDS KnownHosts

CONSTANTS
  Generated,   \* the stem of the files of generated keys
  Imports,     \* the stems that files to import give; each holds a key of its own
  Dotted,      \* those that begin with a dot
  MaxNumber    \* the greatest number a file name is made unique with, a natural

VARIABLES
  keychain,    \* the files of the keys' directory: the key of each path
  listed,      \* the tiles of the keys, as [path, key]
  hostsShown,  \* the tiles of the known hosts, as lines of the file
  chosenKey,   \* the key whose detail is shown
  forms,       \* which of the import row and the trust form are open
  busy,        \* an operation is in flight
  works,       \* the operations on the disk, known_hosts apart
  loose,       \* the paths of keys whose permissions could not be restricted
  unread       \* whether a write of known_hosts that failed changed the file
               \* since the pane read it last

keysVars == <<keychain, listed, hostsShown, chosenKey, forms, busy, works, loose,
              unread>>
allVars == <<vars, keysVars>>

NoKey == <<"None", 0>>
NoKeys == [p \in {} |-> NoKey]
\* What a file holds between its creation and its write: nothing to parse.
Blank == <<"Blank", 0>>

Path(stem, n) == [stem |-> stem, n |-> n]
EntriesOf(file) == SelectSeq(file, LAMBDA l : l.names # {})
Entries == EntriesOf(lines)

\* The least number whose name is free; past the last the name is taken over.
UniquePath(stem) ==
  LET free == {n \in 0 .. MaxNumber : Path(stem, n) \notin DOMAIN keychain}
  IN Path(stem, IF free = {} THEN MaxNumber + 1
                ELSE CHOOSE n \in free : \A m \in free : n <= m)

\* The keys a scan of the directory finds.
Scanned ==
  {[path |-> p, key |-> keychain[p]] :
     p \in {q \in DOMAIN keychain : q.stem \notin Dotted /\ keychain[q] # Blank}}

Reload == [op |-> "Reload", at |-> "Scan"]
Save(stem, key) == [op |-> "Save", at |-> "Name", stem |-> stem, key |-> key]

KeysInit ==
  /\ Init
  /\ keychain = NoKeys
  /\ listed = {} /\ hostsShown = <<>> /\ chosenKey = NoKey /\ forms = {}
  /\ busy = TRUE /\ works = {Reload} /\ loose = {} /\ unread = FALSE

-----------------------------------------------------------------------------
(* The list.                                                               *)

Move(w, next) == works' = (works \ {w}) \cup {next}

Scan(w) ==
  /\ w.op = "Reload" /\ w.at = "Scan"
  /\ Move(w, [op |-> "Reload", at |-> "Answer", keys |-> Scanned, hosts |-> Entries])
  /\ unread' = FALSE
  /\ UNCHANGED <<vars, keychain, listed, hostsShown, chosenKey, forms, busy, loose>>

Reloaded(w) ==
  /\ w.op = "Reload" /\ w.at = "Answer"
  /\ listed' = w.keys /\ hostsShown' = w.hosts
  /\ works' = works \ {w} /\ busy' = FALSE
  /\ UNCHANGED <<vars, keychain, chosenKey, forms, loose, unread>>

SelectKey(e) ==
  /\ chosenKey' = e.key
  /\ UNCHANGED <<vars, keychain, listed, hostsShown, forms, busy, works, loose, unread>>

Toggle(form) ==
  /\ forms' = IF form \in forms THEN forms \ {form} ELSE forms \cup {form}
  /\ UNCHANGED <<vars, keychain, listed, hostsShown, chosenKey, busy, works, loose, unread>>

-----------------------------------------------------------------------------
(* A key generated or imported, and written under a name of its own.       *)

Start(work) ==
  /\ ~busy /\ tasks < MaxTasks
  /\ busy' = TRUE /\ works' = works \cup {work} /\ tasks' = tasks + 1
  /\ UNCHANGED <<lines, task, pending, torn, vouched>>
  /\ UNCHANGED <<keychain, listed, hostsShown, chosenKey, forms, loose, unread>>

Generate == Start(Save(Generated, <<Generated, tasks + 1>>))
Import(stem) == "Import" \in forms /\ Start(Save(stem, <<stem, 0>>))

ChooseName(w) ==
  /\ w.op = "Save" /\ w.at = "Name"
  /\ Move(w, [op |-> "Save", at |-> "Create", path |-> UniquePath(w.stem), key |-> w.key])
  /\ UNCHANGED <<vars, keychain, listed, hostsShown, chosenKey, forms, busy, loose, unread>>

Put(path, key) ==
  keychain' = [p \in DOMAIN keychain \cup {path} |-> IF p = path THEN key ELSE keychain[p]]

Create(w) ==
  /\ w.op = "Save" /\ w.at = "Create"
  /\ Put(w.path, Blank) /\ Move(w, [w EXCEPT !.at = "Write"])
  /\ UNCHANGED <<vars, listed, hostsShown, chosenKey, forms, busy, loose, unread>>

Write(w) ==
  /\ w.op = "Save" /\ w.at = "Write"
  /\ Put(w.path, w.key) /\ Move(w, [w EXCEPT !.at = "Restrict"])
  /\ UNCHANGED <<vars, listed, hostsShown, chosenKey, forms, busy, loose, unread>>

\* The owner alone may read it: then the pane hears of the new key.
RestrictMode(w) ==
  /\ w.op = "Save" /\ w.at = "Restrict"
  /\ Move(w, [w EXCEPT !.at = "Answer"])
  /\ UNCHANGED <<vars, keychain, listed, hostsShown, chosenKey, forms, busy, loose, unread>>

Saved(w) ==
  /\ w.op = "Save" /\ w.at = "Answer"
  /\ listed' = listed \cup {[path |-> w.path, key |-> w.key]}
  /\ chosenKey' = w.key /\ forms' = forms \ {"Import"}
  /\ busy' = FALSE /\ works' = works \ {w}
  /\ UNCHANGED <<vars, keychain, hostsShown, loose, unread>>

\* The source cannot be read, or a step of the write fails, which leaves on disk
\* what was there.
SaveFails(w) ==
  /\ w.op = "Save" /\ w.at # "Answer"
  /\ loose' = IF w.at = "Restrict" THEN loose \cup {w.path} ELSE loose
  /\ busy' = FALSE /\ works' = works \ {w}
  /\ UNCHANGED <<vars, keychain, listed, hostsShown, chosenKey, forms, unread>>

-----------------------------------------------------------------------------
(* The operations on known_hosts, and what the pane does when one answers. *)

TrustTyped(h, k) ==
  /\ ~busy /\ "Trust" \in forms /\ TrustKey(h, k) /\ busy' = TRUE
  /\ UNCHANGED <<keychain, listed, hostsShown, chosenKey, forms, works, loose, unread>>

ConfirmPending ==
  /\ ~busy /\ ConfirmChange /\ busy' = TRUE
  /\ UNCHANGED <<keychain, listed, hostsShown, chosenKey, forms, works, loose, unread>>

\* An answer without success ends the operation and reloads nothing, whether it
\* wrote or not.
Answered ==
  /\ busy' = IF task' = NoTask THEN FALSE ELSE busy
  /\ unread' = IF /\ task' = NoTask
                  /\ \/ lines' # lines \/ task.at = "Write"
                     \/ task.at = "Append" /\ task.kind = "Replace"
               THEN TRUE ELSE unread

HostsStep ==
  /\ \/ LearnCheck \/ AppendKey \/ AppendFails
     \/ ReadOld \/ Truncate \/ WriteSome \/ WriteKept \/ WriteFails
  /\ Answered
  /\ UNCHANGED <<keychain, listed, hostsShown, chosenKey, forms, works, loose>>

DismissPending ==
  /\ Dismiss
  /\ UNCHANGED keysVars

\* One that wrote reloads the lists.
HostsWritten ==
  /\ Report
  /\ forms' = IF task.kind = "Trust" THEN forms \ {"Trust"} ELSE forms
  /\ works' = works \cup {Reload} /\ busy' = TRUE
  /\ UNCHANGED <<keychain, listed, hostsShown, chosenKey, loose, unread>>

\* The program dies in the middle of an operation, and is started again.
Die ==
  /\ IF task = NoTask THEN works # {} /\ UNCHANGED vars ELSE Crash
  /\ listed' = {} /\ hostsShown' = <<>> /\ chosenKey' = NoKey /\ forms' = {}
  /\ busy' = TRUE /\ works' = {Reload}
  /\ UNCHANGED <<keychain, loose, unread>>

KeysNext ==
  \/ \E w \in works :
       \/ Scan(w) \/ Reloaded(w) \/ ChooseName(w) \/ Create(w) \/ Write(w)
       \/ RestrictMode(w) \/ Saved(w) \/ SaveFails(w)
  \/ \E e \in listed : SelectKey(e)
  \/ \E form \in {"Import", "Trust"} : Toggle(form)
  \/ Generate \/ \E stem \in Imports : Import(stem)
  \/ \E h \in Hosts, k \in Keys : TrustTyped(h, k)
  \/ ConfirmPending \/ HostsStep \/ DismissPending \/ HostsWritten \/ Die

-----------------------------------------------------------------------------
\* The tile of a key stands for the file it names, which holds that key: no
\* later key was written over it.
TilesAreFiles ==
  \A e \in listed : e.path \in DOMAIN keychain /\ keychain[e.path] = e.key

\* While nothing is in flight the pane lists every key of the directory but those
\* it failed to restrict, and the known hosts as the file has them, unless a write
\* that failed changed the file.
ListsAreWhole ==
  ~busy => /\ {e \in Scanned : e.path \notin loose} \subseteq listed
           /\ unread \/ hostsShown = Entries
=============================================================================
