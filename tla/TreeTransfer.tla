---------------------------- MODULE TreeTransfer ----------------------------
(***************************************************************************)
(* A recursive upload or download: the walk of sshdeck-sftp/src/tree.rs    *)
(* over the two file systems of client.rs, with the file copies it calls   *)
(* (upload_file, download_file), a cancellation that may come at any time, *)
(* calls that fail, and a retry that finds what the last attempt left.     *)
(*                                                                         *)
(* A source tree maps a directory to its listing, in the order it comes;   *)
(* an entry is [name, kind, dir, size], dir being the directory a "Dir"    *)
(* leads to.  A name is the sequence of its components, so a plain name    *)
(* has one; a server may list anything.  Destination paths are relative    *)
(* to the destination root; sizes are in chunks.  What a download may      *)
(* resume from, and whether that is the remote's own, is left to           *)
(* ResumableDownload: here a file is "whole" once it is copied to its end. *)
(***************************************************************************)
EXTENDS Naturals, Sequences, SequencesExt

CONSTANTS
  Trees,          (* the source trees the run looks at                       *)
  Top,            (* the directory every tree starts from                    *)
  Kept,           (* what may be at the destination before, one function each *)
  MaxTreeDepth,   (* MAX_TREE_DEPTH, 64 in the code                          *)
  MaxAttempts     (* runs of the transfer; bounds the model                  *)

ASSUME BoundsAssumption == MaxTreeDepth \in Nat /\ MaxAttempts \in Nat \ {0}

Entries(t) ==
  [name : Seq(STRING), kind : {"Dir", "File", "Symlink", "Other"}, dir : DOMAIN t, size : Nat]

ASSUME TreesAssumption ==
  \A t \in Trees : Top \in DOMAIN t /\ \A d \in DOMAIN t : t[d] \in Seq(Entries(t))

(* Before the first attempt the destination has directories and whole files. *)
ASSUME KeptAssumption == \A k \in Kept : \A p \in DOMAIN k : k[p] \in {"dir", "whole"}

VARIABLES
  upload,         (* the direction                                           *)
  tree,           (* the source                                              *)
  stack,          (* the directories being walked, innermost last            *)
  file,           (* the file being copied, or NoFile                        *)
  dest,           (* what is at each destination path, see TreeTypeOK     *)
  stuck,          (* partial files that could not be removed                 *)
  mark,           (* the disposition told to the progress sink, with the     *)
                  (* path it is about, which the code leaves out             *)
  cancel,         (* the token                                               *)
  moved,          (* chunks the walk has counted (done)                      *)
  reported,       (* the progress last reported, or 0                        *)
  result,         (* "none", "Complete", "Cancelled" or "Failed"             *)
  attempts

treeVars == <<upload, tree, stack, file, dest, stuck, mark, cancel, moved, reported, result, attempts>>

NoFile == [at |-> "none", path |-> <<>>, size |-> 0, done |-> 0, failed |-> FALSE]
NoMark == [what |-> "none", path |-> <<>>]
Frame(dir, path) == [dir |-> dir, path |-> path, at |-> "enter", rest |-> <<>>]

TreeTypeOK ==
  /\ upload \in BOOLEAN /\ tree \in Trees
  /\ Len(stack) <= MaxTreeDepth + 2
  /\ \A i \in 1..Len(stack) : stack[i].at \in {"enter", "list", "look", "entry"}
  /\ file.at \in {"none", "open", "loop", "close", "clean"}
  /\ \A p \in DOMAIN dest : dest[p] \in {"dir", "part", "whole", "unsure"}
  /\ stuck \subseteq DOMAIN dest
  /\ mark.what \in {"none", "Removed", "KeptResumable"}
  /\ cancel \in BOOLEAN
  /\ result \in {"none", "Complete", "Cancelled", "Failed"}
  /\ attempts \in 1..MaxAttempts

TreeInit ==
  /\ upload \in BOOLEAN /\ tree \in Trees
  /\ stack = <<Frame(Top, <<>>)>>
  /\ file = NoFile
  /\ dest \in Kept
  /\ stuck = {} /\ mark = NoMark /\ cancel = FALSE
  /\ moved = 0 /\ reported = 0 /\ result = "none" /\ attempts = 1

Busy == result = "none"
Walking == Busy /\ stack # <<>> /\ file = NoFile
Here == Last(stack)
SetTop(frame) == stack' = Append(Front(stack), frame)

At(path) == IF path \in DOMAIN dest THEN dest[path] ELSE "absent"
Put(path, what) ==
  dest' = [p \in DOMAIN dest \cup {path} |-> IF p = path THEN what ELSE dest[p]]
Without(path) == [p \in DOMAIN dest \ {path} |-> dest[p]]

Fail ==
  /\ result' = "Failed"
  /\ stack' = <<>>
  /\ file' = NoFile

transferVars == <<upload, tree, cancel, attempts>>

------------------------------------------------------------------------------
(* walk() *)

(* The depth limit, then ensure_dir(): a directory that is there is fine. *)
Enter ==
  /\ Walking /\ Here.at = "enter"
  /\ IF Len(stack) > MaxTreeDepth + 1 \/ At(Here.path) \notin {"dir", "absent"}
     THEN Fail /\ UNCHANGED dest
     ELSE \/ SetTop([Here EXCEPT !.at = "list"]) /\ Put(Here.path, "dir") /\ UNCHANGED <<file, result>>
          \/ Fail /\ UNCHANGED dest
  /\ UNCHANGED <<transferVars, stuck, mark, moved, reported>>

List ==
  /\ Walking /\ Here.at = "list"
  /\ \/ SetTop([Here EXCEPT !.at = "look", !.rest = tree[Here.dir]]) /\ UNCHANGED <<file, result>>
     \/ Fail
  /\ UNCHANGED <<transferVars, dest, stuck, mark, moved, reported>>

(* The end of the listing, or a cancellation: the directory is done with,    *)
(* and the one above goes on to see for itself.                              *)
Leave ==
  /\ Walking /\ Here.at = "look"
  /\ cancel \/ Here.rest = <<>>
  /\ stack' = Front(stack)
  /\ UNCHANGED <<transferVars, file, dest, stuck, mark, moved, reported, result>>

Look ==
  /\ Walking /\ Here.at = "look"
  /\ ~cancel /\ Here.rest # <<>>
  /\ SetTop([Here EXCEPT !.at = "entry"])
  /\ UNCHANGED <<transferVars, file, dest, stuck, mark, moved, reported, result>>

(* is_plain_name(): one component, and not one that means another place. *)
PlainName(name) == Len(name) = 1 /\ name[1] \notin {"", ".", ".."}

(* Mutant: what a link leads to is walked as a directory. *)
TakeLinks ==
  /\ Walking /\ Here.at = "entry"
  /\ LET e == Head(Here.rest)
         path == Here.path \o e.name
         onward == [Here EXCEPT !.at = "look", !.rest = Tail(@)]
     IN CASE PlainName(e.name) /\ e.kind \in {"Dir", "Symlink"} ->
               stack' = Append(Append(Front(stack), onward), Frame(e.dir, path)) /\ UNCHANGED file
          [] PlainName(e.name) /\ e.kind = "File" ->
               SetTop(onward) /\ file' = [NoFile EXCEPT !.at = "open", !.path = path, !.size = e.size]
          [] OTHER -> SetTop(onward) /\ UNCHANGED file
  /\ UNCHANGED <<transferVars, dest, stuck, mark, moved, reported, result>>

(* One entry: a directory is walked, a file copied, all else passed over. *)
Take ==
  /\ Walking /\ Here.at = "entry"
  /\ LET e == Head(Here.rest)
         path == Here.path \o e.name
         onward == [Here EXCEPT !.at = "look", !.rest = Tail(@)]
     IN CASE PlainName(e.name) /\ e.kind = "Dir" ->
               stack' = Append(Append(Front(stack), onward), Frame(e.dir, path)) /\ UNCHANGED file
          [] PlainName(e.name) /\ e.kind = "File" ->
               SetTop(onward) /\ file' = [NoFile EXCEPT !.at = "open", !.path = path, !.size = e.size]
          [] OTHER -> SetTop(onward) /\ UNCHANGED file
  /\ UNCHANGED <<transferVars, dest, stuck, mark, moved, reported, result>>

(* run_tree(): the token decides what a walk that ended well is called. *)
Outcome ==
  /\ Busy /\ stack = <<>> /\ file = NoFile
  /\ result' = IF cancel THEN "Cancelled" ELSE "Complete"
  /\ UNCHANGED <<transferVars, stack, file, dest, stuck, mark, moved, reported>>

------------------------------------------------------------------------------
(* upload_file() and download_file() *)

copying == <<transferVars, moved>>

(* Source and destination are opened.  An upload truncates what is there; a   *)
(* download starts again, or goes on after what a sidecar vouches for.       *)
OpenFile ==
  /\ Busy /\ file.at = "open"
  /\ \/ Fail /\ UNCHANGED <<dest, stuck>>
     \/ /\ At(file.path) # "dir"
        /\ \E offset \in 0..file.size :
             /\ offset > 0 => ~upload /\ At(file.path) # "absent"
             /\ file' = [file EXCEPT !.at = "loop", !.done = offset]
        /\ Put(file.path, "part")
        /\ stuck' = stuck \ {file.path}
        /\ UNCHANGED <<result, stack>>
  /\ UNCHANGED <<copying, mark, reported>>

(* One turn of the loop: the token, the read, the write, the report. *)
CopyChunk ==
  /\ Busy /\ file.at = "loop" /\ ~cancel
  /\ file.done < file.size
  /\ file' = [file EXCEPT !.done = @ + 1]
  /\ reported' = moved + file.done + 1
  /\ UNCHANGED <<copying, stack, dest, stuck, mark, result>>

(* Mutant: a read that fails is taken for the end of the file. *)
StopCopyShort ==
  /\ Busy /\ file.at = "loop"
  /\ \/ cancel /\ file' = [file EXCEPT !.at = "clean"]
     \/ ~cancel /\ file' = [file EXCEPT !.at = "close"]
  /\ UNCHANGED <<copying, stack, dest, stuck, mark, reported, result>>

(* Mutant: a read that fails starts the file again, as often as it fails. *)
StopCopyAgain ==
  /\ Busy /\ file.at = "loop"
  /\ \/ cancel /\ file' = [file EXCEPT !.at = "clean"]
     \/ ~cancel /\ file.done = file.size /\ file' = [file EXCEPT !.at = "close"]
     \/ ~cancel /\ file' = [file EXCEPT !.done = 0]
  /\ UNCHANGED <<copying, stack, dest, stuck, mark, reported, result>>

(* The token, the end of the source, or a read or a write that fails. *)
StopCopy ==
  /\ Busy /\ file.at = "loop"
  /\ \/ cancel /\ file' = [file EXCEPT !.at = "clean"]
     \/ ~cancel /\ file.done = file.size /\ file' = [file EXCEPT !.at = "close"]
     \/ ~cancel /\ file' = [file EXCEPT !.at = "clean", !.failed = TRUE]
  /\ UNCHANGED <<copying, stack, dest, stuck, mark, reported, result>>

(* close(), or the flush: the copy is whole, or the transfer fails with all  *)
(* its chunks written and nothing cleaned up.                                *)
CloseFile ==
  /\ Busy /\ file.at = "close"
  /\ \/ /\ Put(file.path, IF file.done = file.size THEN "whole" ELSE "part")
        /\ file' = NoFile /\ moved' = moved + file.done
        /\ UNCHANGED <<result, stack>>
     \/ Fail /\ Put(file.path, "unsure") /\ UNCHANGED moved
  /\ UNCHANGED <<transferVars, stuck, mark, reported>>

(* A copy that stopped early fails the transfer, or goes on as one that was  *)
(* cancelled: its chunks are counted, though nobody will look.               *)
EndCopy == IF file.failed THEN Fail /\ UNCHANGED moved
           ELSE file' = NoFile /\ moved' = moved + file.done /\ UNCHANGED <<result, stack>>

Marked(what) == mark' = [what |-> what, path |-> file.path]

(* Mutant: an upload that was cancelled stays on the server. *)
CleanUpFailedOnly ==
  /\ Busy /\ file.at = "clean" /\ upload
  /\ IF file.failed THEN dest' = Without(file.path) /\ Marked("Removed") ELSE UNCHANGED <<dest, mark>>
  /\ EndCopy
  /\ UNCHANGED <<transferVars, stuck, reported>>

(* Mutant: the server is taken at its word before it has answered. *)
CleanUpUnheard ==
  /\ Busy /\ file.at = "clean" /\ upload
  /\ \/ dest' = Without(file.path) /\ UNCHANGED stuck
     \/ stuck' = stuck \cup {file.path} /\ UNCHANGED dest
  /\ Marked("Removed")
  /\ EndCopy
  /\ UNCHANGED <<transferVars, reported>>

(* The server is asked to remove the partial upload, and may refuse. *)
CleanUpUpload ==
  /\ Busy /\ file.at = "clean" /\ upload
  /\ \/ dest' = Without(file.path) /\ Marked("Removed") /\ UNCHANGED stuck
     \/ stuck' = stuck \cup {file.path} /\ UNCHANGED <<dest, mark>>
  /\ EndCopy
  /\ UNCHANGED <<transferVars, reported>>

(* Mutant: the partial is called resumable before it is known to be. *)
CleanUpAlwaysKept ==
  /\ Busy /\ file.at = "clean" /\ ~upload
  /\ \/ file.done > 0 /\ UNCHANGED dest
     \/ dest' = Without(file.path)
  /\ Marked("KeptResumable")
  /\ EndCopy
  /\ UNCHANGED <<transferVars, stuck, reported>>

(* The partial download is kept with its sidecar, or removed; a removal that *)
(* fails is ignored, and told as if it had been done.                        *)
CleanUpDownload ==
  /\ Busy /\ file.at = "clean" /\ ~upload
  /\ \/ file.done > 0 /\ Marked("KeptResumable") /\ UNCHANGED <<dest, stuck>>
     \/ dest' = Without(file.path) /\ Marked("Removed") /\ UNCHANGED stuck
     \/ stuck' = stuck \cup {file.path} /\ Marked("Removed") /\ UNCHANGED dest
  /\ EndCopy
  /\ UNCHANGED <<transferVars, reported>>

CopyFile == OpenFile \/ CopyChunk \/ StopCopy \/ CloseFile \/ CleanUpUpload \/ CleanUpDownload

------------------------------------------------------------------------------
Cancel ==
  /\ Busy /\ ~cancel
  /\ cancel' = TRUE
  /\ UNCHANGED <<upload, tree, stack, file, dest, stuck, mark, moved, reported, result, attempts>>

(* The pane queues the transfer again. *)
Retry ==
  /\ ~Busy /\ result # "Complete" /\ attempts < MaxAttempts
  /\ attempts' = attempts + 1
  /\ stack' = <<Frame(Top, <<>>)>>
  /\ cancel' = FALSE /\ mark' = NoMark /\ moved' = 0 /\ reported' = 0 /\ result' = "none"
  /\ UNCHANGED <<upload, tree, file, dest, stuck>>

Run == Enter \/ List \/ Leave \/ Look \/ Take \/ Outcome \/ CopyFile
TreeNext == Run \/ Cancel \/ Retry

(* The transfer's future is polled until it is ready. *)
TreeSpec == TreeInit /\ [][TreeNext]_treeVars /\ WF_treeVars(Run)
------------------------------------------------------------------------------
(* What must hold *)

(* What the plain entries of a kind of some directories lead to, each with   *)
(* its path; a directory is a pair of its name in the tree and its path.     *)
Below(t, dirs, kind) ==
  UNION {{<<t[d[1]][i].dir, d[2] \o t[d[1]][i].name>> :
            i \in {j \in DOMAIN t[d[1]] : PlainName(t[d[1]][j].name) /\ t[d[1]][j].kind = kind}}
         : d \in dirs}

(* The directories of a tree n steps down, as far as the walk goes and one   *)
(* further.                                                                  *)
Levels ==
  [t \in Trees |->
     LET level[n \in 0..MaxTreeDepth + 1] ==
           IF n = 0 THEN {<<Top, <<>>>>} ELSE Below(t, level[n - 1], "Dir")
     IN level]

Directories == [t \in Trees |-> UNION {Levels[t][n] : n \in 0..MaxTreeDepth + 1}]
Files == [t \in Trees |-> Below(t, Directories[t], "File")]

(* transfer_tree: a transfer that is reported complete has every directory   *)
(* and every file of the source at the destination, whole, and no directory  *)
(* was too deep for it.                                                      *)
CompleteIsWholeTree ==
  result = "Complete" =>
    /\ \A d \in Directories[tree] : At(d[2]) = "dir" /\ Len(d[2]) <= MaxTreeDepth
    /\ \A f \in Files[tree] : At(f[2]) = "whole"

WasThere(path) == \E k \in Kept : path \in DOMAIN k

(* "Symlinks are never followed", and "a server could return a name          *)
(* containing a separator": what is created is spelled by plain names, along *)
(* directories only.                                                         *)
OnlyThePlain ==
  \A p \in DOMAIN dest :
    WasThere(p) \/ \E place \in Directories[tree] \cup Files[tree] : place[2] = p

(* A transfer puts at the destination the whole tree, once it says so, and   *)
(* never anything else.                                                      *)
TreeArrives == CompleteIsWholeTree /\ OnlyThePlain

(* "drop the partial rather than leave a file that looks complete": a copy   *)
(* that stopped early leaves a partial upload only where the server refused  *)
(* to remove it.  One whose close() failed is "unsure" and not cleaned up:   *)
(* see FailedUploadIsGone.                                                   *)
NoPartialUpload ==
  ~Busy /\ upload => \A p \in DOMAIN dest : dest[p] = "part" => p \in stuck

(* What the row is told about a partial is so: one that is kept is there to  *)
(* be resumed, and one that is removed is gone, unless it is a download that *)
(* could not be removed, of which the code does not ask (client.rs:763).     *)
DispositionTrue ==
  /\ mark.what = "KeptResumable" => ~upload /\ At(mark.path) = "part" /\ mark.path \notin stuck
  /\ mark.what = "Removed" => At(mark.path) = "absent" \/ (~upload /\ mark.path \in stuck)

(* A copy that stopped early leaves nothing partial on the server that could *)
(* be removed, and the row is told so only once it is.                       *)
LeftoversAreTold == NoPartialUpload /\ DispositionTrue

(* "On cancellation or failure the remote partial is removed": not so of one *)
(* whose close() fails, which is neither removed nor told.                   *)
FailedUploadIsGone ==
  result = "Failed" /\ upload => \A p \in DOMAIN dest : dest[p] \in {"part", "unsure"} => p \in stuck

(* A walk ends, whatever it finds and even if the source has a loop: every   *)
(* step goes on through a listing, down to a bounded depth, or through a     *)
(* file, and what fails is not tried again.                                  *)
WalkEnds == [](Busy => <>(result # "none"))

(* The progress of one attempt never goes back. *)
ProgressMonotone == [][attempts' = attempts => reported' >= reported]_treeVars
==============================================================================
