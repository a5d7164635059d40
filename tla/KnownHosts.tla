----------------------------- MODULE KnownHosts ------------------------------
(***************************************************************************)
(* The known_hosts file: the keys pane, which is the only writer of the     *)
(* program and works on a background thread, and the sessions, which read   *)
(* the file whenever a server shows its key.  The file is rewritten in      *)
(* place, so a session may read a part of it, and a crash or a write that    *)
(* fails may leave no more, with its last line cut.                        *)
(***************************************************************************)
EXTENDS Naturals, Sequences, FiniteSets

CONSTANTS
  Hosts,     \* host:port pairs
  Keys,      \* public keys
  Alg,       \* the algorithm of each key
  Files,     \* the files the program may start with
  Cut,       \* what is left of a key on a line that was cut: no key
  MaxTasks   \* how many tasks the pane starts

\* A line of the file: a comment, or a key for one or several hosts.
Comment == [names |-> {}, key |-> CHOOSE k \in Keys : TRUE]
Entry(names, k) == [names |-> names, key |-> k]

VARIABLES
  lines,     \* the file
  task,      \* the pane's task in progress; its busy flag is that there is one
  pending,   \* the changed key that waits for the user's decision
  tasks,     \* tasks started
  torn,      \* whether a write died or failed half-way
  vouched    \* the keys the user stands by for each host

vars == <<lines, task, pending, tasks, torn, vouched>>

NoTask == [kind |-> "None"]
NoChange == [kind |-> "None"]

\* The number of an element in a set of numbers, counted from 1.
Rank(S, i) == Cardinality({j \in S : j <= i})

\* The keys recorded for a host, with the numbers of their lines: comments are
\* not counted.
Counted(file) == {i \in DOMAIN file : file[i] # Comment}
Naming(file, h) == {i \in DOMAIN file : h \in file[i].names}
Recorded(file, h) == {<<Rank(Counted(file), i), file[i].key>> : i \in Naming(file, h)}
RecordedKeys(file, h) == {r[2] : r \in Recorded(file, h)}

\* A key is known if it is recorded and changed if another of its algorithm is,
\* even beside it; a line for the host that was cut makes the check fail.
Check(file, h, k) ==
  LET keys == RecordedKeys(file, h)
  IN IF Cut \in keys THEN "Unreadable"
     ELSE IF \E r \in keys : Alg[r] = Alg[k] /\ r # k THEN "Changed"
     ELSE IF k \in keys THEN "Known" ELSE "Unknown"

\* A session goes on with a server only if its key is known.
Accepts(file, h, k) == Check(file, h, k) = "Known"

Init ==
  /\ lines \in Files
  /\ task = NoTask /\ pending = NoChange /\ tasks = 0 /\ torn = FALSE
  /\ vouched = [h \in Hosts |-> RecordedKeys(lines, h)]

-----------------------------------------------------------------------------
(* Trusting a key the user typed.                                          *)

TrustKey(h, k) ==
  /\ task = NoTask /\ tasks < MaxTasks
  /\ task' = [kind |-> "Trust", at |-> "Check", host |-> h, key |-> k]
  /\ tasks' = tasks + 1
  /\ UNCHANGED <<lines, pending, torn, vouched>>

\* On a conflict nothing is written and the user is asked; the file may not be
\* read at all.
LearnsWhenAsked == {"Unknown", "Changed"}
LearnsWhen == {"Unknown"}
LearnCheck ==
  /\ task.kind = "Trust" /\ task.at = "Check"
  /\ \E found \in {Check(lines, task.host, task.key), "Unreadable"} :
       /\ task' = IF found \in LearnsWhen THEN [task EXCEPT !.at = "Append"]
                                          ELSE NoTask
       /\ IF found = "Changed"
          THEN \E old \in RecordedKeys(lines, task.host) :
                 pending' = [kind |-> "Change", host |-> task.host,
                             old |-> old, key |-> task.key]
          ELSE UNCHANGED pending
  /\ UNCHANGED <<lines, tasks, torn, vouched>>

\* What may be left of a line: a comment is one still, a line without its key is
\* for no host.
CutLines(line) == IF line = Comment THEN {Comment}
                  ELSE {Entry({}, Cut), Entry(line.names, Cut)}

\* Once the line is written the user stands by the new key: beside those recorded,
\* or in place of all those a replacement took away, which takes a line from every
\* host that shares it.
Stands ==
  vouched' = [h \in Hosts |->
    IF task.kind = "Trust"
    THEN IF h = task.host /\ Check(lines, h, task.key) = "Unknown"
         THEN vouched[h] \cup {task.key} ELSE vouched[h]
    ELSE IF h = task.host THEN {task.key}
    ELSE {task.read[i].key : i \in Naming(task.read, h) \ Naming(task.read, task.host)}
           \ {Cut}]

\* The line is written, and then the file's mode may not be set, which ends the
\* task with an error all the same.
AppendKey ==
  /\ task.kind # "None" /\ task.at = "Append"
  /\ lines' = Append(lines, Entry({task.host}, task.key)) /\ Stands
  /\ task' \in {[task EXCEPT !.at = "Done"], NoTask}
  /\ UNCHANGED <<pending, tasks, torn>>

\* Nothing of the line is written, or a part.
AppendFails ==
  /\ task.kind # "None" /\ task.at = "Append"
  /\ lines' \in {lines} \cup
                {Append(lines, l) : l \in CutLines(Entry({task.host}, task.key))}
  /\ task' = NoTask /\ torn' = (torn \/ task.kind = "Replace" \/ lines' # lines)
  /\ UNCHANGED <<pending, tasks, vouched>>

-----------------------------------------------------------------------------
(* Replacing a changed key after the user has seen both fingerprints.      *)

ConfirmChange ==
  /\ task = NoTask /\ tasks < MaxTasks /\ pending # NoChange
  /\ task' = [kind |-> "Replace", at |-> "Read", host |-> pending.host,
              old |-> pending.old, key |-> pending.key]
  /\ tasks' = tasks + 1
  /\ UNCHANGED <<lines, pending, torn, vouched>>

\* The indexes in the file of the lines that have the given numbers.
RawOfCounted(file, numbers) == numbers
RawOf(file, numbers) == {i \in Counted(file) : Rank(Counted(file), i) \in numbers}

Without(file, dropped) ==
  LET kept == DOMAIN file \ dropped
  IN [n \in 1 .. Cardinality(kept) |-> file[CHOOSE i \in kept : Rank(kept, i) = n]]

\* Every line that records a key for the host is to go, if one of them is the
\* key the user was shown; or the file cannot be read.
ReadOld ==
  /\ task.kind = "Replace" /\ task.at = "Read"
  /\ \/ task' = NoTask
     \/ LET recorded == Recorded(lines, task.host)
            dropped == RawOf(lines, {r[1] : r \in recorded})
            keys == {r[2] : r \in recorded}
        IN /\ task.old \in keys /\ Cut \notin keys
           /\ task' = [kind |-> "Replace", at |-> "Truncate", host |-> task.host,
                       key |-> task.key, kept |-> Without(lines, dropped),
                       read |-> lines]
  /\ UNCHANGED <<lines, pending, tasks, torn, vouched>>

Truncate ==
  /\ task.kind = "Replace" /\ task.at = "Truncate"
  /\ \/ lines' = <<>> /\ task' = [task EXCEPT !.at = "Write"]
     \/ UNCHANGED lines /\ task' = NoTask
  /\ UNCHANGED <<pending, tasks, torn, vouched>>

\* The file is written from its beginning.
Beginnings(file) ==
  UNION {{SubSeq(file, 1, n - 1)} \cup {Append(SubSeq(file, 1, n - 1), l) : l \in CutLines(file[n])} :
           n \in DOMAIN file}
WriteSome ==
  /\ task.kind = "Replace" /\ task.at = "Write" /\ lines = <<>>
  /\ lines' \in Beginnings(task.kept)
  /\ UNCHANGED <<task, pending, tasks, torn, vouched>>

WriteKept ==
  /\ task.kind = "Replace" /\ task.at = "Write"
  /\ lines' = task.kept
  /\ task' = [task EXCEPT !.at = "Append"]
  /\ UNCHANGED <<pending, tasks, torn, vouched>>

WriteFails ==
  /\ task.kind = "Replace" /\ task.at = "Write"
  /\ task' = NoTask /\ torn' = TRUE
  /\ UNCHANGED <<lines, pending, tasks, vouched>>

\* The pane hears of the outcome.
Report ==
  /\ task.kind # "None" /\ task.at = "Done"
  /\ task' = NoTask
  /\ pending' = IF task.kind = "Replace" THEN NoChange ELSE pending
  /\ UNCHANGED <<lines, tasks, torn, vouched>>

\* The user does not go on with the change.
Dismiss ==
  /\ pending # NoChange /\ pending' = NoChange
  /\ UNCHANGED <<lines, task, tasks, torn, vouched>>

\* The program dies and is started again.
Crash ==
  /\ task # NoTask
  /\ torn' = (torn \/ (task.kind = "Replace" /\ task.at \in {"Write", "Append"}))
  /\ task' = NoTask /\ pending' = NoChange
  /\ UNCHANGED <<lines, tasks, vouched>>

Next ==
  \/ \E h \in Hosts, k \in Keys : TrustKey(h, k)
  \/ LearnCheck \/ AppendKey \/ AppendFails \/ ConfirmChange \/ ReadOld \/ Truncate
  \/ WriteSome \/ WriteKept \/ WriteFails \/ Report \/ Dismiss \/ Crash

Spec == Init /\ [][Next]_vars

-----------------------------------------------------------------------------
TypeOK ==
  /\ \A i \in DOMAIN lines : lines[i].names \subseteq Hosts /\ lines[i].key \in Keys \cup {Cut}
  /\ vouched \in [Hosts -> SUBSET Keys]
  /\ tasks \in 0 .. MaxTasks

\* Whenever a session checks a server's key, in the middle of a rewrite too and
\* after any that failed, it goes on only with a key the user stands by.
AcceptedIsVouched ==
  \A h \in Hosts, k \in Keys : Accepts(lines, h, k) => k \in vouched[h]

\* Once the pane is idle, the file records for every host exactly the keys the
\* user stands by, until a write died or failed half-way: replacing one host's key
\* takes no other host's away.
VouchedIsRecorded ==
  task = NoTask /\ ~torn => \A h \in Hosts : RecordedKeys(lines, h) = vouched[h]
=============================================================================
