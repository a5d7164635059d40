-------------------------- MODULE ResumableDownload --------------------------
(***************************************************************************)
(* Downloads into one local file, with the sidecar that lets a later       *)
(* attempt resume (client.rs download_file, partial.rs).                   *)
(*                                                                         *)
(* The session's runtime has two worker threads, so another download of    *)
(* the same local file may run between any two steps, not only at awaits;  *)
(* closing the session drops the task where it is.  A step is one call to  *)
(* the server or to the local file system, except that resume_decision     *)
(* and the clean-up at the end each count as one.                          *)
(*                                                                         *)
(* Abstracted: a file is a sequence of chunks, a chunk is the version of   *)
(* the remote file it came from or a hole.  Content never matters beyond   *)
(* that, and the position of a chunk is its index.  The server may replace *)
(* a remote file at any time: each open finds some version of it, and the  *)
(* bytes of one open handle come from that version.                        *)
(*                                                                         *)
(* No call to the file system is sure to succeed, the clean-up included:   *)
(* its errors are ignored.  stale and misled record what spoils the marks: *)
(* a sidecar that could not be cleared, and attempts that ran side by side. *)
(***************************************************************************)
EXTENDS Naturals, SequencesExt

CONSTANTS
  Downloads,    (* the download attempts, all into the same local path       *)
  Paths,        (* the remote paths they may name                            *)
  Versions,     (* the contents those remote files may have over time        *)
  PathOf,       (* the remote path a version belongs to                      *)
  SizeOf,       (* the length of a version in chunks                         *)
  MaxActive,    (* how many attempts run at once                             *)
  None          (* Option::None, and no file                                 *)

ASSUME PathsAssumption    == PathOf \in [Versions -> Paths]
ASSUME SizesAssumption    == SizeOf \in [Versions -> Nat \ {0}]
ASSUME NoneAssumption     == None \notin Downloads \cup Versions \cup [path : Paths, size : Nat]

VARIABLES
  link,         (* the file at the local path: the attempt that created it   *)
  files,        (* the chunks of the file each attempt created, if it did    *)
  sidecar,      (* the record beside the local path                          *)
  dl,           (* where each attempt is                                     *)
  cancel,       (* the attempts whose CancelToken is set                     *)
  told,         (* the terminal event of each attempt that ended             *)
  stale,        (* history: the sidecar is one that a refusal could not      *)
                (* clear, or that a misled attempt left                      *)
  misled        (* history: the attempts that resumed by a stale sidecar, or *)
                (* ran beside another                                        *)

history == <<stale, misled>>
vars == <<link, files, sidecar, dl, cancel, told, history>>

Hole == "hole"
Versioned(p) == {v \in Versions : PathOf[v] = p}
Record(p, n) == [path |-> p, size |-> n]

Fresh == [pc |-> "idle", version |-> None, size |-> None, inode |-> None,
          offset |-> 0, done |-> 0, stop |-> "none"]
Over == [Fresh EXCEPT !.pc = "over"]

Sizes == {SizeOf[v] : v \in Versions}
Chunks == 0..Max(Sizes)

TypeOK ==
  /\ link \in Downloads \cup {None}
  /\ \A d \in Downloads : \A i \in 1..Len(files[d]) : files[d][i] \in Versions \cup {Hole}
  /\ sidecar \in [path : Paths, size : Sizes] \cup {None}
  /\ dl \in [Downloads ->
       [pc : {"idle", "decide", "create", "open", "seek", "move", "read",
              "close", "settle", "over"},
        version : Versions \cup {None}, size : Sizes \cup {None},
        inode : Downloads \cup {None}, offset : Chunks, done : Chunks,
        stop : {"none", "Complete", "Cancelled", "Failed"}]]
  /\ cancel \subseteq Downloads
  /\ stale \in BOOLEAN /\ misled \subseteq Downloads

Init ==
  /\ link = None
  /\ files = [d \in Downloads |-> <<>>]
  /\ sidecar = None
  /\ dl = [d \in Downloads |-> Fresh]
  /\ cancel = {}
  /\ told = [d \in Downloads |-> None]
  /\ stale = FALSE
  /\ misled = {}

Active == {d \in Downloads : dl[d].pc \notin {"idle", "over"}}
PathIn(d) == PathOf[dl[d].version]

Goto(d, pc) == dl' = [dl EXCEPT ![d].pc = pc]

(* The attempt ends; the queue reports Cancelled whenever the token is set  *)
(* (finish()).                                                              *)
End(d, state, left) ==
  /\ told' = [told EXCEPT ![d] =
       [state |-> IF d \in cancel THEN "Cancelled" ELSE state, left |-> left]]
  /\ dl' = [dl EXCEPT ![d] = Over]
  /\ cancel' = cancel \ {d}
  /\ misled' = misled \ {d}

------------------------------------------------------------------------------
(* partial.rs *)

(* Mutants: the sidecar's path is not compared, or its size is not. *)
MayResumeAnyPath(path, size) ==
  /\ size # None
  /\ sidecar # None /\ sidecar.size = size
  /\ link # None
  /\ Len(files[link]) <= size

MayResumeAnySize(path, size) ==
  /\ size # None
  /\ sidecar # None /\ sidecar.path = path
  /\ link # None
  /\ Len(files[link]) <= size

(* resume_decision: a sidecar must name this remote file with the size it   *)
(* has now, and the partial may not be longer.  Resume keeps the sidecar,   *)
(* Fresh and Refused clear it and start at 0.                               *)
MayResume(path, size) ==
  /\ size # None
  /\ sidecar = Record(path, size)
  /\ link # None
  /\ Len(files[link]) <= size

(* clear_sidecar: best effort. *)
ClearSidecar == sidecar' \in {sidecar, None}

(* What a sidecar that was not written anew is worth after d used it.      *)
StaleAfter(d) == stale' = IF sidecar' = None THEN FALSE
                          ELSE IF d \in misled THEN TRUE ELSE stale

ResumeOffset(path, size) == IF MayResume(path, size) THEN Len(files[link]) ELSE 0

------------------------------------------------------------------------------
(* download_file, one system call or await at a time *)

(* sftp.open() answers, then metadata() answers or fails: .ok(). *)
OpenRemote(d, p) ==
  /\ dl[d].pc = "idle"
  /\ Cardinality(Active) < MaxActive
  /\ \E v \in Versioned(p) : \E size \in {SizeOf[v], None} :
       dl' = [dl EXCEPT ![d].pc = "decide", ![d].version = v, ![d].size = size]
  /\ misled' = IF Active = {} THEN misled ELSE Active \cup {d}
  /\ UNCHANGED <<link, files, sidecar, cancel, told, stale>>

OpenRemoteFails(d) ==
  /\ dl[d].pc = "idle"
  /\ Cardinality(Active) < MaxActive
  /\ End(d, "Failed", None)
  /\ UNCHANGED <<link, files, sidecar, stale>>

Decide(d) ==
  /\ dl[d].pc = "decide"
  /\ LET offset == ResumeOffset(PathIn(d), dl[d].size)
         resumes == MayResume(PathIn(d), dl[d].size)
     IN  /\ IF resumes THEN UNCHANGED sidecar ELSE ClearSidecar
         /\ dl' = [dl EXCEPT ![d].pc = IF offset = 0 THEN "create" ELSE "open",
                             ![d].offset = offset, ![d].done = offset]
         /\ stale' = IF sidecar' = None THEN FALSE ELSE IF resumes THEN stale ELSE TRUE
         /\ misled' = IF resumes /\ stale THEN misled \cup {d} ELSE misled
  /\ UNCHANGED <<link, files, cancel, told>>

(* File::create truncates the file that is there, or makes a new one. *)
CreateLocal(d) ==
  /\ dl[d].pc = "create"
  /\ LET inode == IF link = None THEN d ELSE link
     IN  /\ link' = inode
         /\ files' = [files EXCEPT ![inode] = <<>>]
         /\ dl' = [dl EXCEPT ![d].pc = "move", ![d].inode = inode]
  /\ UNCHANGED <<sidecar, cancel, told, history>>

OpenLocal(d) ==
  /\ dl[d].pc = "open"
  /\ link # None
  /\ dl' = [dl EXCEPT ![d].pc = "seek", ![d].inode = link]
  /\ UNCHANGED <<link, files, sidecar, cancel, told, history>>

SeekRemote(d) ==
  /\ dl[d].pc = "seek"
  /\ Goto(d, "move")
  /\ UNCHANGED <<link, files, sidecar, cancel, told, history>>

(* The `?` on create, open and seek: the attempt fails on the spot and      *)
(* marks nothing.                                                           *)
GiveUp(d) ==
  /\ dl[d].pc \in {"create", "open", "seek"}
  /\ UNCHANGED <<link, files, sidecar>>
  /\ StaleAfter(d)
  /\ End(d, "Failed", None)

(* The file once the chunk at position n + 1 is written: a file that is     *)
(* shorter than n is padded with a hole.                                    *)
Written(file, n, v) ==
  IF Len(file) <= n
    THEN file \o [i \in 1..(n - Len(file)) |-> Hole] \o <<v>>
    ELSE [file EXCEPT ![n + 1] = v]

Stop(d, why) == dl' = [dl EXCEPT ![d].pc = "close", ![d].stop = why]

(* The top of the loop: the token is looked at before each read. *)
LookAtToken(d) ==
  /\ dl[d].pc = "move"
  /\ IF d \in cancel THEN Stop(d, "Cancelled") ELSE Goto(d, "read")
  /\ UNCHANGED <<link, files, sidecar, cancel, told, history>>

AtEnd(d) == dl[d].done >= SizeOf[dl[d].version]

WriteChunk(d) ==
  files' = [files EXCEPT ![dl[d].inode] = Written(@, dl[d].done, dl[d].version)]

(* The handle writes at its own position; the name may be gone by now. *)
MoveChunk(d) ==
  /\ dl[d].pc = "read"
  /\ ~ AtEnd(d)
  /\ WriteChunk(d)
  /\ dl' = [dl EXCEPT ![d].pc = "move", ![d].done = @ + 1]
  /\ UNCHANGED <<link, sidecar, cancel, told, history>>

(* A read returned 0.  The token may have been set while it was awaited. *)
StopComplete(d) ==
  /\ dl[d].pc = "read"
  /\ AtEnd(d)
  /\ Stop(d, "Complete")
  /\ UNCHANGED <<link, files, sidecar, cancel, told, history>>

(* A read fails, or a write fails after it put the chunk on disk or not. *)
StopFailed(d) ==
  /\ dl[d].pc = "read"
  /\ UNCHANGED files \/ (~ AtEnd(d) /\ WriteChunk(d))
  /\ Stop(d, "Failed")
  /\ UNCHANGED <<link, sidecar, cancel, told, history>>

CloseRemote(d) ==
  /\ dl[d].pc = "close"
  /\ Goto(d, "settle")
  /\ UNCHANGED <<link, files, sidecar, cancel, told, history>>

SettleComplete(d) ==
  /\ dl[d].pc = "settle"
  /\ dl[d].stop = "Complete"
  /\ ClearSidecar
  /\ StaleAfter(d)
  /\ End(d, "Complete", None)
  /\ UNCHANGED <<link, files>>

(* Mutant: a partial is kept unmarked. *)
SettleKeptUnmarked(d) ==
  /\ dl[d].pc = "settle"
  /\ dl[d].stop # "Complete"
  /\ dl[d].done > 0
  /\ End(d, "Failed", [kind |-> "KeptResumable", done |-> dl[d].done])
  /\ UNCHANGED <<link, files, sidecar, stale>>

(* A partial that can be marked is kept. *)
SettleKept(d) ==
  /\ dl[d].pc = "settle"
  /\ dl[d].stop # "Complete"
  /\ dl[d].done > 0
  /\ dl[d].size # None
  /\ sidecar' = Record(PathIn(d), dl[d].size)
  /\ stale' = IF d \in misled THEN TRUE ELSE FALSE
  /\ End(d, "Failed", [kind |-> "KeptResumable", done |-> dl[d].done])
  /\ UNCHANGED <<link, files>>

(* Nothing was moved, the size is unknown, or the sidecar could not be      *)
(* written, which may leave one that cannot be read: what is at the local   *)
(* path is to be removed, and the sidecar.  Either may stay: the attempt    *)
(* reports Removed all the same.                                            *)
SettleRemoved(d) ==
  /\ dl[d].pc = "settle"
  /\ dl[d].stop # "Complete"
  /\ link' \in {link, None}
  /\ ClearSidecar
  /\ StaleAfter(d)
  /\ End(d, "Failed", [kind |-> "Removed", done |-> 0])
  /\ UNCHANGED <<files>>

------------------------------------------------------------------------------
(* The client, the server, the user *)

Cancel(d) ==
  /\ d \in Active \ cancel
  /\ cancel' = cancel \cup {d}
  /\ UNCHANGED <<link, files, sidecar, dl, told, history>>

(* The session ends or the process dies: every task is dropped where it is. *)
Abort ==
  /\ Active # {}
  /\ dl' = [d \in Downloads |-> IF d \in Active THEN Over ELSE dl[d]]
  /\ cancel' = {}
  /\ stale' = IF sidecar = None THEN FALSE ELSE IF misled # {} THEN TRUE ELSE stale
  /\ misled' = {}
  /\ UNCHANGED <<link, files, sidecar, told>>

UserDeletes ==
  /\ link # None
  /\ Active = {}
  /\ link' = None
  /\ UNCHANGED <<files, sidecar, dl, cancel, told, history>>

Step(d) ==
  \/ \E p \in Paths : OpenRemote(d, p)
  \/ OpenRemoteFails(d) \/ Decide(d) \/ CreateLocal(d) \/ OpenLocal(d) \/ SeekRemote(d) \/ GiveUp(d)
  \/ LookAtToken(d) \/ MoveChunk(d) \/ StopComplete(d) \/ StopFailed(d)
  \/ CloseRemote(d) \/ SettleComplete(d) \/ SettleKept(d) \/ SettleRemoved(d)
  \/ Cancel(d)

Next ==
  \/ \E d \in Downloads : Step(d)
  \/ Abort
  \/ UserDeletes

Spec == Init /\ [][Next]_vars

------------------------------------------------------------------------------
(* Properties *)

Whole(v) == [i \in 1..SizeOf[v] |-> v]

(* The versions that nothing the code looks at tells apart from v.         *)
Alike(v) == {w \in Versions : PathOf[w] = PathOf[v] /\ SizeOf[w] = SizeOf[v]}

(* What a sidecar stands for: the local file beside it is no longer than    *)
(* the remote file it names, and every chunk of it came from that path, in  *)
(* a version of the recorded size, whatever was cancelled, failed or        *)
(* dropped on the way, unless a refusal could not clear it.                 *)
SidecarTruthful ==
  sidecar # None /\ link # None /\ ~ stale /\ misled = {} =>
    /\ Len(files[link]) <= sidecar.size
    /\ \A i \in 1..Len(files[link]) :
         files[link][i] \in {v \in Versions : Record(PathOf[v], SizeOf[v]) = sidecar}

(* A download about to report Complete has at the local path, from the      *)
(* offset on, the file it opened, and before it chunks of versions of that  *)
(* file with the size it has: the whole file if it started over, or if no   *)
(* other version has its size.                                              *)
CompleteIsWhole ==
  \A d \in Downloads \ misled : dl[d].pc = "settle" /\ dl[d].stop = "Complete" =>
    /\ link # None /\ Len(files[link]) = SizeOf[dl[d].version]
    /\ \A i \in 1..Len(files[link]) :
         IF i <= dl[d].offset THEN files[link][i] \in Alike(dl[d].version)
                              ELSE files[link][i] = dl[d].version

(* KeptResumable { done } means what it says: a later download of the same  *)
(* remote file at the same size resumes, from done bytes or further on.     *)
KeptIsResumable ==
  [][\A d \in Downloads \ misled : told[d] = None /\ told'[d] # None =>
       \/ told'[d].left = None
       \/ told'[d].left.kind # "KeptResumable"
       \/ /\ sidecar' = Record(PathIn(d), dl[d].size)
          /\ link' # None
          /\ Len(files'[link']) \in told'[d].left.done..dl[d].size]_vars

(* No unmarked partial but where removing it failed: an attempt that comes  *)
(* to its own end leaves at the local path a whole file, one a later        *)
(* attempt may resume, or nothing, or it set out to leave nothing.          *)
(* (Dropped with its session, it leaves whatever was written.)              *)
NoUnmarkedPartial ==
  [][\A d \in Downloads \ misled : dl[d].pc = "settle" /\ told'[d] # None =>
       \/ link' = None
       \/ Len(files'[link']) = SizeOf[dl[d].version]
       \/ /\ sidecar' = Record(PathIn(d), dl[d].size)
          /\ Len(files'[link']) <= dl[d].size
       \/ told'[d].left = [kind |-> "Removed", done |-> 0]]_vars

(* What an attempt that comes to its end leaves at the local path is what   *)
(* it reports, and nothing a later attempt would take for something else.   *)
PartialsAreSettled == KeptIsResumable /\ NoUnmarkedPartial

(* What partial.rs says of the guards: with both the path and the size      *)
(* matched the bytes on disk cannot belong to a different file, so that a   *)
(* download that ran alone ends with the file it opened.                    *)
CompleteIsOpened ==
  \A d \in Downloads : dl[d].pc = "settle" /\ dl[d].stop = "Complete" =>
    link # None /\ files[link] = Whole(dl[d].version)

(* What transfer.rs says of Removed: the partial is gone.                   *)
RemovedIsGone ==
  [][\A d \in Downloads :
       told[d] = None /\ told'[d] # None /\ told'[d].left # None =>
         (told'[d].left.kind = "Removed" => link' = None)]_vars

(* What partial.rs says of the offset: a resumed download claims no bytes   *)
(* that were never written.                                                 *)
ResumeClaimsOnlyWrittenBytes ==
  \A d \in Downloads : dl[d].pc = "seek" =>
    \A i \in 1..dl[d].offset : files[dl[d].inode][i] # Hole

(* What transfer.rs says of PartialDisposition: a Cancelled that comes      *)
(* without a disposition left no bytes behind.                              *)
CancelledTellsWhatIsLeft ==
  [][\A d \in Downloads : told[d] = None /\ told'[d] # None =>
       (told'[d].state = "Cancelled" /\ told'[d].left = None => dl[d].done = 0)]_vars
==============================================================================
