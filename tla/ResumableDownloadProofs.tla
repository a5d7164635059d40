----------------------- MODULE ResumableDownloadProofs -----------------------
(***************************************************************************)
(* What ResumableDownload guarantees for any number of attempts, remote    *)
(* files, versions and lengths, however many attempts run side by side and *)
(* whatever fails, the clean-up included: a sidecar tells the truth, a     *)
(* download reported Complete is whole, and an attempt that ends leaves    *)
(* what it says, but for the attempts misled by a sidecar that a refusal   *)
(* could not clear or by another attempt at the same file, and for what    *)
(* they leave.  Versions of one size are not told apart: the statements    *)
(* say what a mixture of them may be.                                      *)
(*                                                                         *)
(* None of it is inductive.  The argument follows an attempt that runs     *)
(* alone: from the decision on, the sidecar is stale, absent or names what *)
(* it reads; from the first byte on, the local file is what it opened,     *)
(* after what it resumed from.  Of a misled one only the types are kept.   *)
(***************************************************************************)
EXTENDS ResumableDownload, FiniteSetTheorems, TLAPS

Chunk == Versions \cup {Hole}

Attempts ==
  [pc : {"idle", "decide", "create", "open", "seek", "move", "read", "close", "settle", "over"},
   version : Versions \cup {None}, size : Nat \cup {None}, inode : Downloads \cup {None},
   offset : Nat, done : Nat, stop : {"none", "Complete", "Cancelled", "Failed"}]

Resting == {"idle", "over"}
AtFile == {"open", "seek", "move", "read", "close", "settle"}

SidecarOf(v) == Record(PathOf[v], SizeOf[v])

(* What is known of an attempt, misled or not. *)
Opened(a) ==
  a.pc \notin Resting => a.version \in Versions /\ a.size \in {SizeOf[a.version], None}

Types ==
  /\ link \in Downloads \cup {None}
  /\ files \in [Downloads -> Seq(Chunk)]
  /\ sidecar = None \/ \E v \in Versions : sidecar = SidecarOf(v)
  /\ dl \in [Downloads -> Attempts] /\ \A d \in Downloads : Opened(dl[d])
  /\ told = [d \in Downloads |-> told[d]]
  /\ \A d \in Downloads : dl[d].pc # "over" => told[d] = None
  /\ stale \in BOOLEAN

(* An attempt that is not misled runs alone. *)
Alone ==
  /\ misled \subseteq Active
  /\ \A d \in Active : d \notin misled => Active = {d}

(* The file is no longer than a record says, and of versions it stands for. *)
Named(r) == {v \in Versions : SidecarOf(v) = r}
Holds(file, r) == Len(file) <= r.size /\ \A i \in 1..Len(file) : file[i] \in Named(r)

Truth ==
  sidecar # None /\ link # None /\ ~ stale /\ misled = {} => Holds(files[link], sidecar)

(* The file is, after n chunks of versions like v, the beginning of v.     *)
Follows(file, v, n) ==
  /\ Len(file) <= SizeOf[v]
  /\ \A i \in 1..Len(file) : IF i <= n THEN file[i] \in Alike(v) ELSE file[i] = v

(* What holds at each step of an attempt that is not misled. *)
Stage(d) ==
  LET a == dl[d]
      v == a.version
  IN /\ a.pc \notin {"idle", "over", "decide"} => stale \/ sidecar \in {None, SidecarOf(v)}
     /\ a.pc = "create" => a.done = 0 /\ a.offset = 0
     /\ a.pc \in AtFile => link # None /\ Follows(files[link], v, a.offset)
     /\ a.pc \in AtFile \ {"open"} => a.inode = link
     /\ a.pc \in {"open", "seek", "move", "read"} =>
          Len(files[link]) = a.done /\ a.offset <= a.done
     /\ a.pc \in {"close", "settle"} => Len(files[link]) \in {a.done, a.done + 1}
     /\ a.pc \in {"close", "settle"} /\ a.stop = "Complete" => Len(files[link]) = SizeOf[v]

DownloadInv ==
  Types /\ Alone /\ Truth /\ \A d \in Active : d \notin misled => Stage(d)

------------------------------------------------------------------------------
(* Lemmas about files *)

(* A sidecar is a record, and not None. *)
LEMMA SidecarIsRecord ==
  ASSUME NEW v \in Versions
  PROVE  SidecarOf(v) # None /\ SidecarOf(v).size = SizeOf[v] /\ SizeOf[v] \in Nat
<1>1. PathOf[v] \in Paths /\ SizeOf[v] \in Nat
  BY PathsAssumption, SizesAssumption
<1>2. SidecarOf(v) \in [path : Paths, size : Nat] /\ SidecarOf(v).size = SizeOf[v]
  BY <1>1 DEF SidecarOf, Record
<1> QED
  BY <1>1, <1>2, NoneAssumption

(* The versions a sidecar stands for are those like the one it was written  *)
(* for.                                                                     *)
LEMMA NamedAreAlike ==
  ASSUME NEW v \in Versions PROVE Named(SidecarOf(v)) = Alike(v) /\ v \in Alike(v)
<1>1. ASSUME NEW w \in Versions
      PROVE  SidecarOf(w) = SidecarOf(v) <=> PathOf[w] = PathOf[v] /\ SizeOf[w] = SizeOf[v]
  <2>1. /\ SidecarOf(w).path = PathOf[w] /\ SidecarOf(w).size = SizeOf[w]
        /\ SidecarOf(v).path = PathOf[v] /\ SidecarOf(v).size = SizeOf[v]
    BY DEF SidecarOf, Record
  <2> QED
    BY <2>1 DEF SidecarOf
<1> QED
  BY <1>1 DEF Named, Alike

(* What follows a version may be marked with it, and what is marked with it *)
(* may be resumed.                                                          *)
LEMMA MarkedIsFollowed ==
  ASSUME NEW file \in Seq(Chunk), NEW v \in Versions
  PROVE  /\ \A n \in Nat : Follows(file, v, n) => Holds(file, SidecarOf(v))
         /\ Holds(file, SidecarOf(v)) => Follows(file, v, Len(file))
<1>1. /\ Named(SidecarOf(v)) = Alike(v) /\ v \in Alike(v)
      /\ SidecarOf(v).size = SizeOf[v] /\ SizeOf[v] \in Nat /\ Len(file) \in Nat
  BY NamedAreAlike, SidecarIsRecord
<1>2. ASSUME NEW n \in Nat, Follows(file, v, n) PROVE Holds(file, SidecarOf(v))
  BY <1>1, <1>2 DEF Follows, Holds
<1>3. ASSUME Holds(file, SidecarOf(v)) PROVE Follows(file, v, Len(file))
  BY <1>1, <1>3 DEF Follows, Holds
<1> QED
  BY <1>2, <1>3

(* A chunk written anywhere leaves a file of chunks. *)
LEMMA WrittenType ==
  ASSUME NEW file \in Seq(Chunk), NEW n \in Nat, NEW v \in Versions
  PROVE  Written(file, n, v) \in Seq(Chunk)
<1>1. Len(file) \in Nat /\ v \in Chunk /\ Hole \in Chunk
  BY DEF Chunk
<1>2. CASE Len(file) <= n
  <2> DEFINE m == n - Len(file)
             pad == [i \in 1..m |-> Hole]
  <2>1. m \in Nat
    BY <1>1, <1>2
  <2> HIDE DEF m
  <2>2. pad \in Seq(Chunk)
    BY <1>1, <2>1
  <2> HIDE DEF pad
  <2>3. file \o pad \o <<v>> \in Seq(Chunk)
    BY <1>1, <2>2
  <2> QED
    BY <1>2, <2>3 DEF Written, pad, m
<1>3. CASE ~ (Len(file) <= n)
  BY <1>1, <1>3 DEF Written
<1> QED
  BY <1>2, <1>3

(* A chunk written at the end of a file leaves no hole. *)
LEMMA WrittenAtEnd ==
  ASSUME NEW file \in Seq(Chunk), NEW v \in Versions
  PROVE  LET t == Written(file, Len(file), v)
         IN  /\ t \in Seq(Chunk) /\ Len(t) = Len(file) + 1
             /\ \A i \in 1..Len(file) : t[i] = file[i]
             /\ t[Len(file) + 1] = v
<1> DEFINE none == [i \in 1..(Len(file) - Len(file)) |-> Hole]
<1>1. Len(file) \in Nat /\ 1..(Len(file) - Len(file)) = {}
  OBVIOUS
<1>2. none = <<>>
  BY <1>1
<1>3. file \o none = file
  BY <1>2
<1>4. Written(file, Len(file), v) = file \o <<v>>
  BY <1>1, <1>3 DEF Written
<1>5. /\ file \o <<v>> \in Seq(Chunk) /\ Len(file \o <<v>>) = Len(file) + 1
      /\ \A i \in 1..Len(file) : (file \o <<v>>)[i] = file[i]
      /\ (file \o <<v>>)[Len(file) + 1] = v
  BY <1>1 DEF Chunk
<1> QED
  BY <1>4, <1>5

(* The next chunk of the version continues its beginning. *)
LEMMA WrittenFollows ==
  ASSUME NEW file \in Seq(Chunk), NEW v \in Versions, NEW n \in Nat,
         Follows(file, v, n), Len(file) < SizeOf[v], n <= Len(file)
  PROVE  Follows(Written(file, Len(file), v), v, n)
<1> DEFINE t == Written(file, Len(file), v)
<1>1. Len(file) \in Nat /\ SizeOf[v] \in Nat
  BY SizesAssumption
<1>2. \A i \in 1..(Len(file) + 1) : i \in 1..Len(file) \/ (i = Len(file) + 1 /\ ~ (i <= n))
  BY <1>1
<1>3. Len(t) = Len(file) + 1 /\ (\A i \in 1..Len(file) : t[i] = file[i]) /\ t[Len(file) + 1] = v
  BY WrittenAtEnd
<1> HIDE DEF t
<1>4. Len(t) <= SizeOf[v]
  BY <1>1, <1>3
<1>5. \A i \in 1..Len(t) : IF i <= n THEN t[i] \in Alike(v) ELSE t[i] = v
  BY <1>1, <1>2, <1>3 DEF Follows
<1>6. Follows(t, v, n)
  BY <1>4, <1>5 DEF Follows
<1> QED
  BY <1>6 DEF t

------------------------------------------------------------------------------
(* Kinds of steps *)

(* The attempts that are active after one has moved on to a step of its own. *)
LEMMA StillActive ==
  ASSUME dl \in [Downloads -> Attempts], NEW d \in Active, NEW a \in Attempts,
         dl' = [dl EXCEPT ![d] = a], a.pc \notin Resting
  PROVE  Active' = Active /\ dl'[d] = a /\ \A e \in Downloads : e # d => dl'[e] = dl[e]
BY DEF Active, Resting

(* The types after such a step. *)
LEMMA TypesOn ==
  ASSUME DownloadInv, NEW d \in Active, NEW a \in Attempts,
         dl' = [dl EXCEPT ![d] = a], a.pc \notin Resting, told' = told,
         a.version = dl[d].version, a.size = dl[d].size,
         link' \in Downloads \cup {None}, files' \in [Downloads -> Seq(Chunk)],
         sidecar' \in {None, sidecar}, stale' \in BOOLEAN
  PROVE  Types'
<1>1. dl \in [Downloads -> Attempts] /\ d \in Downloads
  BY DEF DownloadInv, Types, Active
<1>2. Active' = Active /\ dl'[d] = a /\ \A e \in Downloads : e # d => dl'[e] = dl[e]
  BY <1>1, StillActive
<1>3. dl' \in [Downloads -> Attempts]
  BY <1>1
<1>4. Opened(a)
  BY DEF DownloadInv, Types, Active, Opened, Resting
<1>5. \A e \in Downloads : Opened(dl'[e])
  BY <1>2, <1>4 DEF DownloadInv, Types
<1>6. \A e \in Downloads : dl'[e].pc # "over" => told'[e] = None
  BY <1>2 DEF DownloadInv, Types, Active
<1> QED
  BY <1>3, <1>5, <1>6 DEF DownloadInv, Types

(* An attempt that is misled, or is now, takes a step: so are all that run. *)
LEMMA MisledStep ==
  ASSUME DownloadInv, NEW d \in Active, NEW a \in Attempts, Types',
         dl' = [dl EXCEPT ![d] = a], a.pc \notin Resting,
         \/ d \in misled /\ misled' = misled
         \/ misled' = misled \cup {d}
  PROVE  DownloadInv'
<1>1. Active' = Active
  BY StillActive DEF DownloadInv, Types
<1>2. misled \subseteq Active /\ \A e \in Active : e \notin misled => Active = {e}
  BY DEF DownloadInv, Alone
<1>3. d \in misled' /\ misled' \subseteq Active /\ \A e \in Active : e \in misled'
  BY <1>2
<1> QED
  BY <1>1, <1>3 DEF DownloadInv, Alone, Truth

(* An attempt that is not misled takes a step. *)
LEMMA SoundStep ==
  ASSUME DownloadInv, NEW d \in Active, NEW a \in Attempts, Types',
         dl' = [dl EXCEPT ![d] = a], a.pc \notin Resting,
         d \notin misled, misled' = misled, Truth', Stage(d)'
  PROVE  DownloadInv'
<1>1. Active' = Active /\ dl'[d] = a /\ Active = {d}
  BY StillActive DEF DownloadInv, Types, Alone
<1>2. Alone'
  BY <1>1 DEF DownloadInv, Alone
<1>3. \A e \in Active' : e \notin misled' => Stage(e)'
  BY <1>1
<1> QED
  BY <1>2, <1>3 DEF DownloadInv

(* The attempt d ends; what it leaves on disk is truthful. *)
LEMMA Ends ==
  ASSUME DownloadInv, NEW d \in Downloads, NEW s, NEW left, End(d, s, left),
         link' \in Downloads \cup {None}, UNCHANGED files, stale' \in BOOLEAN,
         sidecar' = None \/ \E v \in Versions : sidecar' = SidecarOf(v),
         Truth',
         \A e \in Active : e # d => e \in misled
  PROVE  DownloadInv'
<1>1. Over \in Attempts /\ Over.pc = "over"
  BY DEF Over, Fresh, Attempts
<1>2. /\ dl' = [dl EXCEPT ![d] = Over] /\ dl'[d] = Over
      /\ \A e \in Downloads : e # d => dl'[e] = dl[e] /\ told'[e] = told[e]
      /\ told' = [e \in Downloads |-> told'[e]] /\ misled' = misled \ {d}
  BY DEF End, DownloadInv, Types
<1>3. Types'
  <2>1. dl' \in [Downloads -> Attempts]
    BY <1>1, <1>2 DEF DownloadInv, Types
  <2>2. \A e \in Downloads : Opened(dl'[e])
    BY <1>1, <1>2 DEF DownloadInv, Types, Opened, Resting
  <2>3. \A e \in Downloads : dl'[e].pc # "over" => told'[e] = None
    BY <1>1, <1>2 DEF DownloadInv, Types
  <2> QED
    BY <1>2, <2>1, <2>2, <2>3 DEF DownloadInv, Types
<1>4. Active' = Active \ {d}
  BY <1>1, <1>2 DEF Active
<1>5. \A e \in Active' : e \in misled'
  BY <1>2, <1>4
<1>6. misled' \subseteq Active'
  BY <1>2, <1>4 DEF DownloadInv, Alone
<1> QED
  BY <1>3, <1>5, <1>6 DEF DownloadInv, Alone

------------------------------------------------------------------------------
(* One lemma per action of an attempt that is not misled *)

(* What is known of an attempt that runs alone. *)
LEMMA Sound ==
  ASSUME DownloadInv, NEW d \in Active, d \notin misled
  PROVE  /\ d \in Downloads /\ dl \in [Downloads -> Attempts] /\ dl[d] \in Attempts
         /\ files \in [Downloads -> Seq(Chunk)] /\ link \in Downloads \cup {None}
         /\ dl[d].version \in Versions /\ SizeOf[dl[d].version] \in Nat
         /\ dl[d].size \in {SizeOf[dl[d].version], None}
         /\ Active = {d} /\ misled = {} /\ Stage(d)
         /\ dl[d].pc \in AtFile =>
              /\ link \in Downloads /\ files[link] \in Seq(Chunk)
              /\ Follows(files[link], dl[d].version, dl[d].offset)
<1>1. d \in Downloads /\ dl[d].pc \notin Resting
  BY DEF Active, Resting
<1>2. Active = {d} /\ misled = {}
  BY DEF DownloadInv, Alone
<1>3. Stage(d) /\ dl[d] \in Attempts /\ Opened(dl[d])
  BY <1>1 DEF DownloadInv, Types
<1>4. dl[d].pc \in AtFile => link # None /\ Follows(files[link], dl[d].version, dl[d].offset)
  BY <1>3 DEF Stage
<1> QED
  BY <1>1, <1>2, <1>3, <1>4, SizesAssumption DEF DownloadInv, Types, Opened

(* The steps that only move the program counter: opening the local file,    *)
(* seeking, looking at the token, the end of the loop, the close.           *)
LEMMA GoesOn ==
  ASSUME DownloadInv, NEW d \in Active, d \notin misled, NEW a \in Attempts,
         dl' = [dl EXCEPT ![d] = a], UNCHANGED <<link, files, sidecar, told, stale, misled>>,
         dl[d].pc \in {"open", "seek", "move", "read", "close"},
         a.pc \in {"seek", "move", "read", "close", "settle"},
         a.version = dl[d].version, a.size = dl[d].size, a.done = dl[d].done,
         a.offset = dl[d].offset, a.inode = link,
         a.pc \notin {"close", "settle"} => dl[d].pc # "close",
         a.pc \in {"close", "settle"} /\ a.stop = "Complete" =>
           Len(files[link]) = SizeOf[a.version]
  PROVE  DownloadInv'
<1>1. a.pc \notin Resting /\ dl[d].pc \in AtFile
  BY DEF Resting, AtFile
<1>2. Types'
  BY <1>1, Sound, TypesOn DEF DownloadInv, Types
<1>3. Truth'
  BY DEF DownloadInv, Truth
<1>4. dl'[d] = a
  BY Sound
<1>5. Stage(d)'
  <2>1. /\ stale \/ sidecar \in {None, SidecarOf(a.version)}
        /\ link # None /\ Follows(files[link], a.version, a.offset)
        /\ dl[d].pc # "close" => Len(files[link]) = a.done /\ a.offset <= a.done
        /\ Len(files[link]) \in {a.done, a.done + 1}
    BY <1>1, Sound DEF Stage, AtFile
  <2> QED
    BY <1>4, <2>1 DEF Stage, AtFile
<1> QED
  BY <1>1, <1>2, <1>3, <1>5, SoundStep

(* resume_decision: an attempt that resumes by a sidecar that is not stale  *)
(* goes on from chunks of versions like the one it opened.                  *)
LEMMA DecideKeeps ==
  ASSUME DownloadInv, NEW d \in Active, Decide(d) PROVE DownloadInv'
<1> DEFINE v == dl[d].version
           resume == MayResume(PathIn(d), dl[d].size)
           offset == ResumeOffset(PathIn(d), dl[d].size)
           a == [dl[d] EXCEPT !.pc = IF offset = 0 THEN "create" ELSE "open",
                              !.offset = offset, !.done = offset]
<1>1. /\ dl[d].pc = "decide" /\ UNCHANGED <<link, files, told>>
      /\ IF resume THEN UNCHANGED sidecar ELSE ClearSidecar
      /\ dl' = [dl EXCEPT ![d].pc = IF offset = 0 THEN "create" ELSE "open",
                          ![d].offset = offset, ![d].done = offset]
      /\ stale' = IF sidecar' = None THEN FALSE ELSE IF resume THEN stale ELSE TRUE
      /\ misled' = IF resume /\ stale THEN misled \cup {d} ELSE misled
  BY DEF Decide
<1>2. /\ d \in Downloads /\ dl \in [Downloads -> Attempts] /\ dl[d] \in Attempts
      /\ files \in [Downloads -> Seq(Chunk)] /\ link \in Downloads \cup {None}
      /\ v \in Versions /\ dl[d].size \in {SizeOf[v], None} /\ stale \in BOOLEAN
  BY <1>1 DEF DownloadInv, Types, Opened, Active, Resting
<1>3. resume => sidecar = SidecarOf(v) /\ link \in Downloads /\ link # None
  BY <1>2 DEF MayResume, SidecarOf, PathIn
<1>4. resume => offset = Len(files[link]) /\ offset \in Nat
  BY <1>2, <1>3 DEF ResumeOffset
<1>5. ~ resume => offset = 0
  BY DEF ResumeOffset
<1>6. offset \in Nat
  BY <1>4, <1>5
<1> HIDE DEF resume, offset
<1>7. /\ a \in Attempts /\ a.version = v /\ a.size = dl[d].size /\ a.done = offset
      /\ a.pc = (IF offset = 0 THEN "create" ELSE "open") /\ a.offset = offset
  BY <1>2, <1>6 DEF Attempts
<1>8. dl' = [dl EXCEPT ![d] = a]
  BY <1>1, <1>2 DEF Attempts
<1>9. a.pc \in {"create", "open"} /\ a.pc \notin Resting
  BY <1>7 DEF Resting
<1> HIDE DEF a
<1>10. sidecar' \in {None, sidecar} /\ stale' \in BOOLEAN
  BY <1>1, <1>2 DEF ClearSidecar
<1>11. Types'
  BY <1>1, <1>2, <1>7, <1>8, <1>9, <1>10, TypesOn
<1>12. CASE d \in misled \/ (resume /\ stale)
  BY <1>1, <1>8, <1>7, <1>9, <1>11, <1>12, MisledStep
<1>13. CASE d \notin misled /\ ~ (resume /\ stale)
  <2>1. misled = {} /\ misled' = misled
    BY <1>1, <1>13, Sound
  <2>2. Truth'
    <3>1. sidecar' # None /\ ~ stale' => sidecar' = sidecar /\ ~ stale
      BY <1>1, <1>2, <1>10
    <3> QED
      BY <1>1, <2>1, <3>1 DEF DownloadInv, Truth
  <2>3. dl'[d] = a
    BY <1>2, <1>8
  <2>4. resume => Follows(files[link], v, offset)
    <3>1. SUFFICES ASSUME resume PROVE Follows(files[link], v, offset)
      OBVIOUS
    <3>2. sidecar = SidecarOf(v) /\ sidecar # None /\ link # None /\ ~ stale
      BY <1>2, <1>3, <1>13, <3>1, SidecarIsRecord
    <3>3. Holds(files[link], SidecarOf(v)) /\ files[link] \in Seq(Chunk)
      BY <1>2, <1>3, <2>1, <3>1, <3>2 DEF DownloadInv, Truth
    <3> QED
      BY <1>2, <1>4, <3>1, <3>3, MarkedIsFollowed
  <2>5. stale' \/ sidecar' \in {None, SidecarOf(v)}
    BY <1>1, <1>3
  <2>6. /\ a.pc = "create" => a.done = 0 /\ a.offset = 0
        /\ a.pc = "open" => /\ link # None /\ Follows(files[link], v, a.offset)
                            /\ Len(files[link]) = a.done /\ a.offset <= a.done
    BY <1>3, <1>4, <1>5, <1>6, <1>7, <2>4
  <2>7. Stage(d)'
    BY <1>1, <1>7, <1>9, <2>3, <2>5, <2>6 DEF Stage, AtFile
  <2> QED
    BY <1>7, <1>8, <1>9, <1>11, <1>13, <2>1, <2>2, <2>7, SoundStep
<1> QED
  BY <1>12, <1>13

(* File::create: the file is empty, and begins everything. *)
LEMMA CreateLocalKeeps ==
  ASSUME DownloadInv, NEW d \in Active, CreateLocal(d) PROVE DownloadInv'
<1> DEFINE v == dl[d].version
           inode == IF link = None THEN d ELSE link
           a == [dl[d] EXCEPT !.pc = "move", !.inode = inode]
<1>1. /\ dl[d].pc = "create" /\ UNCHANGED <<sidecar, told, stale, misled>>
      /\ link' = inode /\ files' = [files EXCEPT ![inode] = <<>>]
      /\ dl' = [dl EXCEPT ![d].pc = "move", ![d].inode = inode]
  BY DEF CreateLocal, history
<1>2. /\ d \in Downloads /\ dl \in [Downloads -> Attempts] /\ dl[d] \in Attempts
      /\ files \in [Downloads -> Seq(Chunk)] /\ inode \in Downloads /\ inode # None
  BY NoneAssumption DEF DownloadInv, Types, Active
<1>3. files' \in [Downloads -> Seq(Chunk)] /\ files'[link'] = <<>>
  BY <1>1, <1>2
<1> HIDE DEF inode
<1>4. /\ a \in Attempts /\ a.version = v /\ a.size = dl[d].size /\ a.done = dl[d].done
      /\ a.pc = "move" /\ a.inode = inode /\ a.offset = dl[d].offset
  BY <1>2 DEF Attempts
<1>5. dl' = [dl EXCEPT ![d] = a] /\ a.pc \notin Resting
  BY <1>1, <1>2, <1>4 DEF Attempts, Resting
<1> HIDE DEF a
<1>6. Types'
  BY <1>1, <1>2, <1>3, <1>4, <1>5, TypesOn DEF DownloadInv, Types
<1>7. CASE d \in misled
  BY <1>1, <1>4, <1>5, <1>6, <1>7, MisledStep
<1>8. CASE d \notin misled
  <2>1. /\ dl[d].done = 0 /\ dl[d].offset = 0 /\ (stale \/ sidecar \in {None, SidecarOf(v)})
        /\ v \in Versions
    BY <1>1, <1>8, Sound DEF Stage
  <2>2. \A w \in Versions : Follows(<<>>, w, 0) /\ Holds(<<>>, SidecarOf(w))
    BY SizesAssumption, SidecarIsRecord DEF Follows, Holds
  <2>3. Truth'
    BY <1>1, <1>3, <2>2 DEF DownloadInv, Types, Truth
  <2>4. dl'[d] = a /\ Len(files'[link']) = 0
    BY <1>2, <1>3, <1>5
  <2>5. Follows(files'[link'], v, 0)
    BY <1>3, <2>1, <2>2
  <2>6. Stage(d)'
    BY <1>1, <1>2, <1>4, <2>1, <2>4, <2>5 DEF Stage, AtFile
  <2> QED
    BY <1>1, <1>4, <1>5, <1>6, <1>8, <2>3, <2>6, SoundStep
<1> QED
  BY <1>7, <1>8

(* The same of any attempt; what an attempt that runs alone needs is asked  *)
(* of it only.                                                              *)
LEMMA Moves ==
  ASSUME DownloadInv, NEW d \in Active, NEW a \in Attempts,
         dl' = [dl EXCEPT ![d] = a], UNCHANGED <<link, files, sidecar, told, stale, misled>>,
         dl[d].pc \in {"open", "seek", "move", "read", "close"},
         a.pc \in {"seek", "move", "read", "close", "settle"},
         a.version = dl[d].version, a.size = dl[d].size, a.done = dl[d].done,
         a.offset = dl[d].offset,
         a.pc \notin {"close", "settle"} => dl[d].pc # "close",
         d \notin misled =>
           /\ a.inode = link
           /\ a.pc \in {"close", "settle"} /\ a.stop = "Complete" =>
                Len(files[link]) = SizeOf[a.version]
  PROVE  DownloadInv'
<1>1. a.pc \notin Resting
  BY DEF Resting
<1>2. Types'
  BY <1>1, TypesOn DEF DownloadInv, Types
<1>3. CASE d \in misled
  BY <1>1, <1>2, <1>3, MisledStep
<1>4. CASE d \notin misled
  BY <1>4, GoesOn
<1> QED
  BY <1>3, <1>4

(* An attempt, and the file it holds open. *)
LEMMA Holder ==
  ASSUME DownloadInv, NEW d \in Active
  PROVE  /\ d \in Downloads /\ dl \in [Downloads -> Attempts] /\ dl[d] \in Attempts
         /\ link \in Downloads \cup {None} /\ files \in [Downloads -> Seq(Chunk)]
         /\ dl[d].version \in Versions /\ SizeOf[dl[d].version] \in Nat
         /\ dl[d].pc \in AtFile \ {"open"} /\ d \notin misled => dl[d].inode = link
<1>1. d \in Downloads /\ dl[d].pc \notin Resting
  BY DEF Active, Resting
<1> QED
  BY <1>1, SizesAssumption DEF DownloadInv, Types, Opened, Stage

(* The local file is opened for append. *)
LEMMA OpenLocalKeeps ==
  ASSUME DownloadInv, NEW d \in Active, OpenLocal(d) PROVE DownloadInv'
<1> DEFINE a == [dl[d] EXCEPT !.pc = "seek", !.inode = link]
<1>1. /\ dl[d].pc = "open" /\ UNCHANGED <<link, files, sidecar, told, stale, misled>>
      /\ dl' = [dl EXCEPT ![d].pc = "seek", ![d].inode = link]
  BY DEF OpenLocal, history
<1>2. dl \in [Downloads -> Attempts] /\ dl[d] \in Attempts /\ link \in Downloads \cup {None}
  BY Holder
<1>3. /\ a \in Attempts /\ a.pc = "seek" /\ a.inode = link /\ dl' = [dl EXCEPT ![d] = a]
      /\ a.version = dl[d].version /\ a.size = dl[d].size /\ a.done = dl[d].done
      /\ a.offset = dl[d].offset
  BY <1>1, <1>2 DEF Attempts
<1> HIDE DEF a
<1> QED
  BY <1>1, <1>3, Moves

(* The remote handle is at the offset. *)
LEMMA SeekRemoteKeeps ==
  ASSUME DownloadInv, NEW d \in Active, SeekRemote(d) PROVE DownloadInv'
<1> DEFINE a == [dl[d] EXCEPT !.pc = "move"]
<1>1. /\ dl[d].pc = "seek" /\ UNCHANGED <<link, files, sidecar, told, stale, misled>>
      /\ dl' = [dl EXCEPT ![d].pc = "move"]
  BY DEF SeekRemote, Goto, history
<1>2. /\ dl \in [Downloads -> Attempts] /\ dl[d] \in Attempts
      /\ d \notin misled => dl[d].inode = link
  BY <1>1, Holder DEF AtFile
<1>3. /\ a \in Attempts /\ a.pc = "move" /\ a.inode = dl[d].inode /\ dl' = [dl EXCEPT ![d] = a]
      /\ a.version = dl[d].version /\ a.size = dl[d].size /\ a.done = dl[d].done
      /\ a.offset = dl[d].offset
  BY <1>1, <1>2 DEF Attempts
<1> HIDE DEF a
<1> QED
  BY <1>1, <1>2, <1>3, Moves

(* The loop goes on, or stops because the token is set. *)
LEMMA LookAtTokenKeeps ==
  ASSUME DownloadInv, NEW d \in Active, LookAtToken(d) PROVE DownloadInv'
<1>1. dl[d].pc = "move" /\ UNCHANGED <<link, files, sidecar, told, stale, misled>>
  BY DEF LookAtToken, history
<1>2. /\ dl \in [Downloads -> Attempts] /\ dl[d] \in Attempts
      /\ d \notin misled => dl[d].inode = link
  BY <1>1, Holder DEF AtFile
<1>3. CASE d \in cancel
  <2> DEFINE a == [dl[d] EXCEPT !.pc = "close", !.stop = "Cancelled"]
  <2>1. /\ a \in Attempts /\ a.pc = "close" /\ a.inode = dl[d].inode
        /\ dl' = [dl EXCEPT ![d] = a] /\ a.offset = dl[d].offset
        /\ a.version = dl[d].version /\ a.size = dl[d].size /\ a.done = dl[d].done
        /\ a.stop = "Cancelled"
    BY <1>2, <1>3 DEF Attempts, LookAtToken, Stop
  <2> HIDE DEF a
  <2> QED
    BY <1>1, <1>2, <2>1, Moves
<1>4. CASE d \notin cancel
  <2> DEFINE a == [dl[d] EXCEPT !.pc = "read"]
  <2>1. /\ a \in Attempts /\ a.pc = "read" /\ a.inode = dl[d].inode
        /\ dl' = [dl EXCEPT ![d] = a] /\ a.offset = dl[d].offset
        /\ a.version = dl[d].version /\ a.size = dl[d].size /\ a.done = dl[d].done
    BY <1>2, <1>4 DEF Attempts, LookAtToken, Goto
  <2> HIDE DEF a
  <2> QED
    BY <1>1, <1>2, <2>1, Moves
<1> QED
  BY <1>3, <1>4

(* A read returned 0: everything up to the version's end has been moved, so *)
(* the file has all of it.                                                  *)
LEMMA StopCompleteKeeps ==
  ASSUME DownloadInv, NEW d \in Active, StopComplete(d) PROVE DownloadInv'
<1> DEFINE a == [dl[d] EXCEPT !.pc = "close", !.stop = "Complete"]
<1>1. /\ dl[d].pc = "read" /\ AtEnd(d)
      /\ UNCHANGED <<link, files, sidecar, told, stale, misled>>
      /\ dl' = [dl EXCEPT ![d].pc = "close", ![d].stop = "Complete"]
  BY DEF StopComplete, Stop, history
<1>2. /\ dl \in [Downloads -> Attempts] /\ dl[d] \in Attempts
      /\ d \notin misled => dl[d].inode = link
  BY <1>1, Holder DEF AtFile
<1>3. ASSUME d \notin misled PROVE Len(files[link]) = SizeOf[dl[d].version]
  <2>1. /\ files[link] \in Seq(Chunk) /\ SizeOf[dl[d].version] \in Nat
        /\ Len(files[link]) <= SizeOf[dl[d].version] /\ Len(files[link]) = dl[d].done
    BY <1>1, <1>3, Sound DEF AtFile, Follows, Stage
  <2> QED
    BY <1>1, <2>1 DEF AtEnd
<1>4. /\ a \in Attempts /\ a.pc = "close" /\ a.inode = dl[d].inode
      /\ dl' = [dl EXCEPT ![d] = a] /\ a.offset = dl[d].offset
      /\ a.version = dl[d].version /\ a.size = dl[d].size /\ a.done = dl[d].done
  BY <1>1, <1>2 DEF Attempts
<1> HIDE DEF a
<1>5. d \notin misled => a.inode = link /\ Len(files[link]) = SizeOf[a.version]
  BY <1>2, <1>3, <1>4
<1> QED
  BY <1>1, <1>4, <1>5, Moves

(* The remote handle is closed. *)
LEMMA CloseRemoteKeeps ==
  ASSUME DownloadInv, NEW d \in Active, CloseRemote(d) PROVE DownloadInv'
<1> DEFINE a == [dl[d] EXCEPT !.pc = "settle"]
<1>1. /\ dl[d].pc = "close" /\ UNCHANGED <<link, files, sidecar, told, stale, misled>>
      /\ dl' = [dl EXCEPT ![d].pc = "settle"]
  BY DEF CloseRemote, Goto, history
<1>2. /\ dl \in [Downloads -> Attempts] /\ dl[d] \in Attempts
      /\ d \notin misled => dl[d].inode = link
  BY <1>1, Holder DEF AtFile
<1>3. /\ a \in Attempts /\ a.pc = "settle" /\ a.inode = dl[d].inode
      /\ dl' = [dl EXCEPT ![d] = a] /\ a.offset = dl[d].offset
      /\ a.version = dl[d].version /\ a.size = dl[d].size /\ a.done = dl[d].done
      /\ a.stop = dl[d].stop
  BY <1>1, <1>2 DEF Attempts
<1>4. d \notin misled /\ dl[d].stop = "Complete" => Len(files[link]) = SizeOf[dl[d].version]
  BY <1>1, Sound DEF Stage
<1> HIDE DEF a
<1>5. d \notin misled =>
        a.inode = link /\ (a.stop = "Complete" => Len(files[link]) = SizeOf[a.version])
  BY <1>2, <1>3, <1>4
<1> QED
  BY <1>1, <1>3, <1>5, Moves

(* A chunk goes to the file, and of an attempt that runs alone to its end,  *)
(* which goes on following the version the handle reads.                    *)
LEMMA WriteKeeps ==
  ASSUME DownloadInv, NEW d \in Active, dl[d].pc = "read", ~ AtEnd(d), WriteChunk(d),
         UNCHANGED <<link, sidecar, stale, misled>>
  PROVE  /\ files' \in [Downloads -> Seq(Chunk)]
         /\ d \notin misled =>
              /\ Follows(files'[link], dl[d].version, dl[d].offset)
              /\ Len(files'[link]) = dl[d].done + 1
              /\ Truth'
<1> DEFINE v == dl[d].version
           file == files[link]
<1>1. /\ files \in [Downloads -> Seq(Chunk)] /\ v \in Versions /\ dl[d].done \in Nat
      /\ dl[d].inode \in Downloads \cup {None} /\ dl[d].offset \in Nat
  BY Holder DEF Attempts
<1>2. files' \in [Downloads -> Seq(Chunk)]
  <2>1. files' = [files EXCEPT ![dl[d].inode] = Written(files[dl[d].inode], dl[d].done, v)]
    BY DEF WriteChunk
  <2>2. CASE dl[d].inode \in Downloads
    <3>1. Written(files[dl[d].inode], dl[d].done, v) \in Seq(Chunk)
      BY <1>1, <2>2, WrittenType
    <3> QED
      BY <1>1, <2>1, <2>2, <3>1
  <2>3. CASE dl[d].inode \notin Downloads
    BY <1>1, <2>1, <2>3
  <2> QED
    BY <2>2, <2>3
<1>3. ASSUME d \notin misled
      PROVE  /\ Follows(files'[link], v, dl[d].offset)
             /\ Len(files'[link]) = dl[d].done + 1
             /\ Truth'
  <2>1. /\ link \in Downloads /\ file \in Seq(Chunk) /\ SizeOf[v] \in Nat
        /\ Follows(file, v, dl[d].offset) /\ dl[d].inode = link
        /\ stale \/ sidecar \in {None, SidecarOf(v)}
        /\ Len(file) = dl[d].done /\ dl[d].offset <= dl[d].done
    BY <1>3, Sound DEF Stage, AtFile
  <2>2. Len(file) < SizeOf[v]
    BY <2>1 DEF AtEnd, Follows
  <2>3. files' = [files EXCEPT ![link] = Written(file, Len(file), v)]
    BY <2>1 DEF WriteChunk
  <2>4. /\ Written(file, Len(file), v) \in Seq(Chunk)
        /\ Len(Written(file, Len(file), v)) = Len(file) + 1
    BY <1>1, <2>1, WrittenAtEnd
  <2>5. Follows(Written(file, Len(file), v), v, dl[d].offset)
    BY <1>1, <2>1, <2>2, WrittenFollows
  <2>6. files'[link] = Written(file, Len(file), v)
    BY <1>1, <2>1, <2>3
  <2>7. Holds(files'[link], SidecarOf(v))
    BY <1>1, <2>4, <2>5, <2>6, MarkedIsFollowed
  <2>8. Truth'
    BY <2>1, <2>7 DEF Truth
  <2> QED
    BY <2>1, <2>4, <2>5, <2>6, <2>8
<1> QED
  BY <1>2, <1>3

(* One chunk is read and written. *)
LEMMA MoveChunkKeeps ==
  ASSUME DownloadInv, NEW d \in Active, MoveChunk(d) PROVE DownloadInv'
<1> DEFINE a == [dl[d] EXCEPT !.pc = "move", !.done = dl[d].done + 1]
<1>1. /\ dl[d].pc = "read" /\ ~ AtEnd(d) /\ WriteChunk(d)
      /\ UNCHANGED <<link, sidecar, told, stale, misled>>
      /\ dl' = [dl EXCEPT ![d].pc = "move", ![d].done = @ + 1]
  BY DEF MoveChunk, history
<1>2. dl \in [Downloads -> Attempts] /\ dl[d] \in Attempts /\ link \in Downloads \cup {None}
  BY Holder
<1>3. dl[d].done + 1 \in Nat /\ dl[d].done \in Nat /\ dl[d].offset \in Nat
  BY <1>2 DEF Attempts
<1>4. /\ a \in Attempts /\ a.pc = "move" /\ a.inode = dl[d].inode /\ a.offset = dl[d].offset
      /\ a.version = dl[d].version /\ a.size = dl[d].size /\ a.done = dl[d].done + 1
  BY <1>2, <1>3 DEF Attempts
<1>5. dl' = [dl EXCEPT ![d] = a] /\ a.pc \notin Resting
  BY <1>1, <1>2, <1>4 DEF Attempts, Resting
<1> HIDE DEF a
<1>6. files' \in [Downloads -> Seq(Chunk)]
  BY <1>1, WriteKeeps
<1>7. Types'
  BY <1>1, <1>2, <1>4, <1>5, <1>6, TypesOn DEF DownloadInv, Types
<1>8. CASE d \in misled
  BY <1>1, <1>4, <1>5, <1>7, <1>8, MisledStep
<1>9. CASE d \notin misled
  <2>1. /\ Follows(files'[link], dl[d].version, dl[d].offset)
        /\ Len(files'[link]) = dl[d].done + 1 /\ Truth'
    BY <1>1, <1>9, WriteKeeps
  <2>2. /\ dl[d].inode = link /\ link # None /\ dl[d].offset <= dl[d].done
        /\ stale \/ sidecar \in {None, SidecarOf(dl[d].version)}
    BY <1>1, <1>9, Sound DEF Stage, AtFile
  <2>3. dl'[d] = a
    BY <1>2, <1>5, Holder
  <2>4. Stage(d)'
    BY <1>1, <1>3, <1>4, <2>1, <2>2, <2>3 DEF Stage, AtFile
  <2> QED
    BY <1>1, <1>4, <1>5, <1>7, <1>9, <2>1, <2>4, SoundStep
<1> QED
  BY <1>8, <1>9

(* A read or a write fails; the chunk may be on disk all the same. *)
LEMMA StopFailedKeeps ==
  ASSUME DownloadInv, NEW d \in Active, StopFailed(d) PROVE DownloadInv'
<1> DEFINE a == [dl[d] EXCEPT !.pc = "close", !.stop = "Failed"]
<1>1. /\ dl[d].pc = "read" /\ UNCHANGED <<link, sidecar, told, stale, misled>>
      /\ dl' = [dl EXCEPT ![d].pc = "close", ![d].stop = "Failed"]
  BY DEF StopFailed, Stop, history
<1>2. /\ dl \in [Downloads -> Attempts] /\ dl[d] \in Attempts /\ link \in Downloads \cup {None}
      /\ d \notin misled => dl[d].inode = link
  BY <1>1, Holder DEF AtFile
<1>3. /\ a \in Attempts /\ a.pc = "close" /\ a.inode = dl[d].inode /\ a.stop = "Failed"
      /\ a.version = dl[d].version /\ a.size = dl[d].size /\ a.done = dl[d].done
      /\ a.offset = dl[d].offset
  BY <1>2 DEF Attempts
<1>4. dl' = [dl EXCEPT ![d] = a] /\ a.pc \notin Resting
  BY <1>1, <1>2, <1>3 DEF Attempts, Resting
<1> HIDE DEF a
<1>5. CASE UNCHANGED files
  BY <1>1, <1>2, <1>3, <1>4, <1>5, Moves
<1>6. CASE ~ AtEnd(d) /\ WriteChunk(d)
  <2>1. files' \in [Downloads -> Seq(Chunk)]
    BY <1>1, <1>6, WriteKeeps
  <2>2. Types'
    BY <1>1, <1>2, <1>3, <1>4, <2>1, TypesOn DEF DownloadInv, Types
  <2>3. CASE d \in misled
    BY <1>1, <1>3, <1>4, <2>2, <2>3, MisledStep
  <2>4. CASE d \notin misled
    <3>1. /\ Follows(files'[link], dl[d].version, dl[d].offset)
          /\ Len(files'[link]) = dl[d].done + 1 /\ Truth'
      BY <1>1, <1>6, <2>4, WriteKeeps
    <3>2. /\ dl[d].inode = link /\ link # None
          /\ stale \/ sidecar \in {None, SidecarOf(dl[d].version)}
      BY <1>1, <2>4, Sound DEF Stage, AtFile
    <3>3. dl'[d] = a
      BY <1>2, <1>4, Holder
    <3>4. Stage(d)'
      BY <1>1, <1>3, <3>1, <3>2, <3>3 DEF Stage, AtFile
    <3> QED
      BY <1>1, <1>3, <1>4, <2>2, <2>4, <3>1, <3>4, SoundStep
  <2> QED
    BY <2>3, <2>4
<1> QED
  BY <1>5, <1>6 DEF StopFailed

(* The attempt ends: its sidecar stays, is cleared, or marks what it has    *)
(* just moved.                                                              *)
LEMMA EndsAtFile ==
  ASSUME DownloadInv, NEW d \in Active, NEW s, NEW left, End(d, s, left),
         UNCHANGED files, link' \in {link, None},
         \/ sidecar' \in {sidecar, None} /\ StaleAfter(d)
         \/ /\ dl[d].pc = "settle" /\ sidecar' = SidecarOf(dl[d].version)
            /\ stale' = IF d \in misled THEN TRUE ELSE FALSE
  PROVE  DownloadInv'
<1>1. /\ d \in Downloads /\ dl[d].version \in Versions /\ stale \in BOOLEAN
      /\ sidecar = None \/ \E v \in Versions : sidecar = SidecarOf(v)
  BY Holder DEF DownloadInv, Types
<1>2. \A e \in Active : e # d => e \in misled
  BY DEF DownloadInv, Alone
<1>3. misled' = misled \ {d}
  BY DEF End
<1>4. stale' \in BOOLEAN
  BY <1>1 DEF StaleAfter
<1>5. Truth'
  <2>1. CASE d \in misled
    BY <2>1 DEF StaleAfter, Truth
  <2>2. CASE d \notin misled
    <3>1. misled = {}
      BY <2>2, Sound
    <3>2. CASE sidecar' \in {sidecar, None} /\ StaleAfter(d)
      BY <2>2, <3>1, <3>2 DEF StaleAfter, DownloadInv, Truth
    <3>3. CASE dl[d].pc = "settle" /\ sidecar' = SidecarOf(dl[d].version)
      <4>1. /\ files[link] \in Seq(Chunk) /\ dl[d].offset \in Nat
            /\ Follows(files[link], dl[d].version, dl[d].offset)
        BY <2>2, <3>3, Sound DEF AtFile, Attempts
      <4>2. Holds(files[link], SidecarOf(dl[d].version))
        BY <1>1, <4>1, MarkedIsFollowed
      <4> QED
        BY <3>3, <4>2 DEF Truth
    <3> QED
      BY <3>2, <3>3
  <2> QED
    BY <2>1, <2>2
<1>6. /\ link' \in Downloads \cup {None}
      /\ sidecar' = None \/ \E v \in Versions : sidecar' = SidecarOf(v)
  BY <1>1 DEF DownloadInv, Types
<1> QED
  BY <1>1, <1>2, <1>4, <1>5, <1>6, Ends

(* The `?` on create, open and seek. *)
LEMMA GiveUpKeeps ==
  ASSUME DownloadInv, NEW d \in Active, GiveUp(d) PROVE DownloadInv'
BY EndsAtFile DEF GiveUp

(* The download is complete, and its sidecar cleared or not. *)
LEMMA SettleCompleteKeeps ==
  ASSUME DownloadInv, NEW d \in Active, SettleComplete(d) PROVE DownloadInv'
BY EndsAtFile DEF SettleComplete, ClearSidecar

(* The partial is kept, and marked with what the attempt opened. *)
LEMMA SettleKeptKeeps ==
  ASSUME DownloadInv, NEW d \in Active, SettleKept(d) PROVE DownloadInv'
<1>1. /\ End(d, "Failed", [kind |-> "KeptResumable", done |-> dl[d].done])
      /\ dl[d].pc = "settle" /\ dl[d].size # None /\ UNCHANGED <<link, files>>
      /\ sidecar' = Record(PathIn(d), dl[d].size)
      /\ stale' = IF d \in misled THEN TRUE ELSE FALSE
  BY DEF SettleKept
<1>2. dl[d].size = SizeOf[dl[d].version]
  BY <1>1 DEF DownloadInv, Types, Opened, Resting, Active
<1>3. sidecar' = SidecarOf(dl[d].version)
  BY <1>1, <1>2 DEF SidecarOf, PathIn
<1> QED
  BY <1>1, <1>3, EndsAtFile

(* What is at the local path is removed, or stays. *)
LEMMA SettleRemovedKeeps ==
  ASSUME DownloadInv, NEW d \in Active, SettleRemoved(d) PROVE DownloadInv'
BY EndsAtFile DEF SettleRemoved, ClearSidecar

------------------------------------------------------------------------------
(* The other steps *)

(* An attempt starts: alone, or beside those that are misled with it. *)
LEMMA OpenRemoteKeeps ==
  ASSUME DownloadInv, NEW d \in Downloads, NEW path \in Paths, OpenRemote(d, path)
  PROVE  DownloadInv'
<1>1. /\ dl[d].pc = "idle" /\ UNCHANGED <<link, files, sidecar, told, stale>>
      /\ misled' = IF Active = {} THEN misled ELSE Active \cup {d}
  BY DEF OpenRemote
<1>0. PICK v \in Versioned(path) : \E size \in {SizeOf[v], None} :
        dl' = [dl EXCEPT ![d].pc = "decide", ![d].version = v, ![d].size = size]
  BY DEF OpenRemote
<1>2. PICK size \in {SizeOf[v], None} :
        dl' = [dl EXCEPT ![d].pc = "decide", ![d].version = v, ![d].size = size]
  BY <1>0
<1> DEFINE a == [dl[d] EXCEPT !.pc = "decide", !.version = v, !.size = size]
<1>3. v \in Versions /\ SizeOf[v] \in Nat /\ dl \in [Downloads -> Attempts]
  BY SizesAssumption DEF Versioned, DownloadInv, Types
<1>4. a \in Attempts /\ a.pc = "decide" /\ a.version = v /\ a.size = size
  BY <1>3 DEF Attempts
<1>5. dl' = [dl EXCEPT ![d] = a]
  BY <1>2, <1>3 DEF Attempts
<1> HIDE DEF a
<1>6. dl' \in [Downloads -> Attempts] /\ dl'[d] = a /\ \A e \in Downloads : e # d => dl'[e] = dl[e]
  BY <1>3, <1>4, <1>5
<1>7. Types'
  <2>1. Opened(a)
    BY <1>3, <1>4 DEF Opened
  <2>2. \A e \in Downloads : Opened(dl'[e])
    BY <1>6, <2>1 DEF DownloadInv, Types
  <2>3. \A e \in Downloads : dl'[e].pc # "over" => told'[e] = None
    BY <1>1, <1>6 DEF DownloadInv, Types
  <2> QED
    BY <1>1, <1>6, <2>2, <2>3 DEF DownloadInv, Types
<1>8. Active' = Active \cup {d}
  BY <1>4, <1>6 DEF Active
<1>9. CASE Active = {}
  <2>1. misled = {} /\ misled' = {} /\ Active' = {d}
    BY <1>1, <1>8, <1>9 DEF DownloadInv, Alone
  <2>2. Truth'
    BY <1>1, <2>1 DEF DownloadInv, Truth
  <2>3. Stage(d)'
    BY <1>4, <1>6 DEF Stage, AtFile
  <2> QED
    BY <1>7, <2>1, <2>2, <2>3 DEF DownloadInv, Alone
<1>10. CASE Active # {}
  <2>1. misled' = Active' /\ d \in misled'
    BY <1>1, <1>8, <1>10
  <2> QED
    BY <1>7, <2>1 DEF DownloadInv, Alone, Truth
<1> QED
  BY <1>9, <1>10

(* open() fails: the attempt is over before it did anything. *)
LEMMA OpenRemoteFailsKeeps ==
  ASSUME DownloadInv, NEW d \in Downloads, OpenRemoteFails(d) PROVE DownloadInv'
<1>1. /\ UNCHANGED <<link, files, sidecar, stale>> /\ End(d, "Failed", None) /\ dl[d].pc = "idle"
  BY DEF OpenRemoteFails
<1>2. Over \in Attempts /\ Over.pc = "over"
  BY DEF Over, Fresh, Attempts
<1>3. /\ dl' = [dl EXCEPT ![d] = Over] /\ dl'[d] = Over
      /\ \A e \in Downloads : e # d => dl'[e] = dl[e] /\ told'[e] = told[e]
      /\ told' = [e \in Downloads |-> told'[e]] /\ misled' = misled \ {d}
  BY <1>1 DEF End, DownloadInv, Types
<1>4. d \notin Active /\ Active' = Active
  BY <1>1, <1>2, <1>3 DEF Active
<1>5. misled' = misled
  BY <1>3, <1>4 DEF DownloadInv, Alone
<1>6. Types'
  <2>1. dl' \in [Downloads -> Attempts]
    BY <1>2, <1>3 DEF DownloadInv, Types
  <2>2. \A e \in Downloads : Opened(dl'[e])
    BY <1>2, <1>3 DEF DownloadInv, Types, Opened, Resting
  <2>3. \A e \in Downloads : dl'[e].pc # "over" => told'[e] = None
    BY <1>2, <1>3 DEF DownloadInv, Types
  <2> QED
    BY <1>1, <1>3, <2>1, <2>2, <2>3 DEF DownloadInv, Types
<1>7. Truth' /\ Alone'
  BY <1>1, <1>4, <1>5 DEF DownloadInv, Truth, Alone
<1>8. ASSUME NEW e \in Active, e \notin misled PROVE Stage(e)'
  <2>1. dl'[e] = dl[e]
    BY <1>3, <1>4 DEF Active
  <2> QED
    BY <1>1, <1>8, <2>1 DEF DownloadInv, Stage
<1> QED
  BY <1>4, <1>5, <1>6, <1>7, <1>8 DEF DownloadInv

(* Closing the session drops every attempt where it is; the files stay. *)
LEMMA AbortKeeps ==
  ASSUME DownloadInv, Abort PROVE DownloadInv'
<1>1. /\ dl' = [d \in Downloads |-> IF d \in Active THEN Over ELSE dl[d]]
      /\ UNCHANGED <<link, files, sidecar, told>> /\ misled' = {}
      /\ stale' = IF sidecar = None THEN FALSE ELSE IF misled # {} THEN TRUE ELSE stale
  BY DEF Abort
<1>2. Over \in Attempts /\ Over.pc = "over"
  BY DEF Over, Fresh, Attempts
<1>3. ASSUME NEW e \in Downloads
      PROVE  dl'[e] \in Attempts /\ dl'[e].pc \in Resting /\ (dl'[e] = dl[e] \/ dl'[e] = Over)
  BY <1>1, <1>2 DEF Active, DownloadInv, Types, Resting
<1>4. Types'
  <2>1. dl' \in [Downloads -> Attempts]
    BY <1>1, <1>3
  <2>2. \A e \in Downloads : Opened(dl'[e]) /\ (dl'[e].pc # "over" => told'[e] = None)
    BY <1>1, <1>2, <1>3 DEF DownloadInv, Types, Opened
  <2> QED
    BY <1>1, <2>1, <2>2 DEF DownloadInv, Types
<1>5. Active' = {}
  BY <1>3 DEF Active, Resting
<1>6. Truth'
  BY <1>1 DEF DownloadInv, Truth
<1> QED
  BY <1>1, <1>4, <1>5, <1>6 DEF DownloadInv, Alone

(* Between attempts the user may delete the file. *)
LEMMA UserDeletesKeeps ==
  ASSUME DownloadInv, UserDeletes PROVE DownloadInv'
<1>1. UNCHANGED <<files, sidecar, dl, told, stale, misled>> /\ link' = None /\ Active = {}
  BY DEF UserDeletes, history
<1>2. Types' /\ Truth' /\ Alone' /\ Active' = {}
  BY <1>1 DEF DownloadInv, Types, Truth, Alone, Active
<1> QED
  BY <1>2 DEF DownloadInv

(* Nothing the invariant speaks of changes. *)
LEMMA SameState ==
  ASSUME DownloadInv, UNCHANGED <<link, files, sidecar, dl, told, stale, misled>>
  PROVE  DownloadInv'
BY DEF DownloadInv, Types, Alone, Active, Truth, Stage

(* The invariant is kept by every step. *)
LEMMA StepKeeps ==
  ASSUME DownloadInv, [Next]_vars PROVE DownloadInv'
<1>1. ASSUME NEW d \in Downloads, Step(d) PROVE DownloadInv'
  <2>1. ASSUME NEW path \in Paths, OpenRemote(d, path) PROVE DownloadInv'
    BY <2>1, OpenRemoteKeeps
  <2>2. CASE OpenRemoteFails(d)
    BY <2>2, OpenRemoteFailsKeeps
  <2>3. CASE Cancel(d)
    BY <2>3, SameState DEF Cancel, history
  <2>4. CASE \/ Decide(d) \/ CreateLocal(d) \/ OpenLocal(d) \/ SeekRemote(d) \/ GiveUp(d)
             \/ LookAtToken(d) \/ MoveChunk(d) \/ StopComplete(d) \/ StopFailed(d)
             \/ CloseRemote(d) \/ SettleComplete(d) \/ SettleKept(d) \/ SettleRemoved(d)
    <3>1. d \in Active
      BY <1>1, <2>4 DEF Active, Decide, CreateLocal, OpenLocal, SeekRemote, GiveUp, LookAtToken,
         MoveChunk, StopComplete, StopFailed, CloseRemote, SettleComplete, SettleKept,
         SettleRemoved
    <3> QED
      BY <2>4, <3>1, DecideKeeps, CreateLocalKeeps, OpenLocalKeeps, SeekRemoteKeeps, GiveUpKeeps,
         LookAtTokenKeeps, MoveChunkKeeps, StopCompleteKeeps, StopFailedKeeps, CloseRemoteKeeps,
         SettleCompleteKeeps, SettleKeptKeeps, SettleRemovedKeeps
  <2> QED
    BY <1>1, <2>1, <2>2, <2>3, <2>4 DEF Step
<1>2. CASE Abort
  BY <1>2, AbortKeeps
<1>3. CASE UserDeletes
  BY <1>3, UserDeletesKeeps
<1>4. CASE UNCHANGED vars
  BY <1>4, SameState DEF vars, history
<1> QED
  BY <1>1, <1>2, <1>3, <1>4 DEF Next

(* No attempt has begun, and nothing is on disk. *)
LEMMA InitHolds ==
  ASSUME Init PROVE DownloadInv
<1>1. Fresh \in Attempts /\ Fresh.pc = "idle"
  BY DEF Fresh, Attempts
<1>2. \A d \in Downloads : dl[d] = Fresh /\ told[d] = None
  BY DEF Init
<1>3. Types
  <2>1. dl \in [Downloads -> Attempts] /\ files \in [Downloads -> Seq(Chunk)]
    BY <1>1 DEF Init
  <2>2. \A d \in Downloads : Opened(dl[d])
    BY <1>1, <1>2 DEF Opened, Resting
  <2>3. told = [d \in Downloads |-> told[d]]
    BY DEF Init
  <2> QED
    BY <1>2, <2>1, <2>2, <2>3 DEF Init, Types
<1>4. Active = {} /\ misled = {} /\ Truth
  BY <1>1, <1>2 DEF Active, Truth, Init
<1> QED
  BY <1>3, <1>4 DEF DownloadInv, Alone

------------------------------------------------------------------------------
(* Theorems *)

(* The invariant holds in every state. *)
THEOREM Invariant == Spec => []DownloadInv
<1>1. Init => DownloadInv
  BY InitHolds
<1>2. DownloadInv /\ [Next]_vars => DownloadInv'
  BY StepKeeps
<1> QED
  BY <1>1, <1>2, PTL DEF Spec

(* partial.rs: beside a sidecar lies no more than the remote file it names  *)
(* had, and all of it from that path and of a version of the recorded size, *)
(* whatever was cancelled, failed or dropped on the way, unless the sidecar *)
(* is one that a refusal could not clear or that a misled attempt left.     *)
THEOREM SidecarAlwaysTruthful == Spec => []SidecarTruthful
<1>1. ASSUME DownloadInv PROVE SidecarTruthful
  <2>1. {v \in Versions : Record(PathOf[v], SizeOf[v]) = sidecar} = Named(sidecar)
    BY DEF Named, SidecarOf
  <2> QED
    BY <1>1, <2>1 DEF DownloadInv, Truth, Holds, SidecarTruthful
<1> QED
  BY <1>1, Invariant, PTL

(* download_file: a download about to report Complete, that was not misled, *)
(* has at the local path what it opened from its offset on, and before it   *)
(* what earlier attempts got of versions that neither path nor size tells   *)
(* apart.                                                                   *)
THEOREM CompleteAlwaysWhole == Spec => []CompleteIsWhole
<1>1. ASSUME DownloadInv PROVE CompleteIsWhole
  <2>1. SUFFICES ASSUME NEW d \in Downloads \ misled, dl[d].pc = "settle", dl[d].stop = "Complete"
                 PROVE  /\ link # None /\ Len(files[link]) = SizeOf[dl[d].version]
                        /\ \A i \in 1..Len(files[link]) :
                             IF i <= dl[d].offset THEN files[link][i] \in Alike(dl[d].version)
                                                  ELSE files[link][i] = dl[d].version
    BY DEF CompleteIsWhole
  <2>2. d \in Active
    BY <2>1 DEF Active
  <2> QED
    BY <1>1, <2>1, <2>2, Sound DEF Stage, AtFile, Follows
<1> QED
  BY <1>1, Invariant, PTL

(* Who ends in a step: an attempt that failed before its loop and says      *)
(* nothing of a partial, or one that settles.                               *)
LEMMA WhoEnds ==
  ASSUME DownloadInv, [Next]_vars, NEW d \in Downloads, told[d] = None, told'[d] # None
  PROVE  \/ dl[d].pc # "settle" /\ told'[d].left = None
         \/ SettleComplete(d)
         \/ SettleKept(d)
         \/ SettleRemoved(d)
<1>1. ASSUME NEW e \in Downloads, NEW s, NEW left, End(e, s, left)
      PROVE  e = d /\ told'[d].left = left
  BY <1>1 DEF End, DownloadInv, Types
<1>2. ~ (told' = told)
  OBVIOUS
<1>3. PICK e \in Downloads : Step(e)
  BY <1>2 DEF Next, vars, Abort, UserDeletes
<1>4. \/ OpenRemoteFails(e) \/ GiveUp(e) \/ SettleComplete(e) \/ SettleKept(e) \/ SettleRemoved(e)
  BY <1>2, <1>3 DEF Step, OpenRemote, Decide, CreateLocal, OpenLocal, SeekRemote, LookAtToken,
     MoveChunk, StopComplete, StopFailed, CloseRemote, Cancel
<1>5. CASE OpenRemoteFails(e)
  BY <1>1, <1>5 DEF OpenRemoteFails
<1>6. CASE GiveUp(e)
  BY <1>1, <1>6 DEF GiveUp
<1>7. CASE SettleComplete(e)
  BY <1>1, <1>7 DEF SettleComplete
<1>8. CASE SettleKept(e)
  BY <1>1, <1>8 DEF SettleKept
<1>9. CASE SettleRemoved(e)
  BY <1>1, <1>9 DEF SettleRemoved
<1> QED
  BY <1>4, <1>5, <1>6, <1>7, <1>8, <1>9

(* PartialDisposition: an attempt that was not misled and reports           *)
(* KeptResumable { done } leaves a sidecar with which a later download of   *)
(* the same file resumes from done bytes or further on; one that comes to   *)
(* its own end leaves a file of full length, a marked one, or none, or says *)
(* Removed and could not remove it.                                         *)
THEOREM PartialsAlwaysSettled == Spec => PartialsAreSettled
<1> DEFINE Kept(d) ==
             \/ told'[d].left = None
             \/ told'[d].left.kind # "KeptResumable"
             \/ /\ sidecar' = Record(PathIn(d), dl[d].size)
                /\ link' # None
                /\ Len(files'[link']) \in told'[d].left.done..dl[d].size
           Left(d) ==
             \/ link' = None
             \/ Len(files'[link']) = SizeOf[dl[d].version]
             \/ /\ sidecar' = Record(PathIn(d), dl[d].size)
                /\ Len(files'[link']) <= dl[d].size
             \/ told'[d].left = [kind |-> "Removed", done |-> 0]
<1>1. ASSUME DownloadInv, NEW d \in Downloads \ misled, SettleKept(d)
      PROVE  Kept(d) /\ Left(d)
  <2>1. /\ dl[d].pc = "settle" /\ dl[d].size # None /\ UNCHANGED <<link, files>>
        /\ sidecar' = Record(PathIn(d), dl[d].size)
        /\ told'[d] = [state |-> IF d \in cancel THEN "Cancelled" ELSE "Failed",
                       left |-> [kind |-> "KeptResumable", done |-> dl[d].done]]
    BY <1>1 DEF SettleKept, End, DownloadInv, Types
  <2>2. told'[d].left.done = dl[d].done
    BY <2>1
  <2>3. d \in Active
    BY <2>1 DEF Active
  <2>4. /\ dl[d].size = SizeOf[dl[d].version] /\ SizeOf[dl[d].version] \in Nat
        /\ link \in Downloads /\ dl[d].done \in Nat /\ files[link] \in Seq(Chunk)
        /\ Len(files[link]) <= SizeOf[dl[d].version]
        /\ Len(files[link]) \in {dl[d].done, dl[d].done + 1}
    BY <1>1, <2>1, <2>3, Sound DEF Attempts, AtFile, Stage, Follows
  <2>5. Len(files'[link']) \in dl[d].done..dl[d].size /\ Len(files'[link']) <= dl[d].size
    BY <2>1, <2>4
  <2> QED
    BY <2>1, <2>2, <2>4, <2>5, NoneAssumption
<1>2. ASSUME DownloadInv, NEW d \in Downloads \ misled, SettleComplete(d)
      PROVE  Kept(d) /\ Left(d)
  <2>1. /\ dl[d].pc = "settle" /\ dl[d].stop = "Complete" /\ UNCHANGED <<link, files>>
        /\ told'[d].left = None
    BY <1>2 DEF SettleComplete, End, DownloadInv, Types
  <2>2. Len(files[link]) = SizeOf[dl[d].version]
    BY <1>2, <2>1, Sound DEF Stage, Active
  <2> QED
    BY <2>1, <2>2
<1>3. ASSUME DownloadInv, NEW d \in Downloads \ misled, SettleRemoved(d)
      PROVE  Kept(d) /\ Left(d)
  <2>1. told'[d].left = [kind |-> "Removed", done |-> 0]
    BY <1>3 DEF SettleRemoved, End, DownloadInv, Types
  <2>2. told'[d].left.kind = "Removed"
    BY <2>1
  <2> QED
    BY <2>1, <2>2
<1>4. ASSUME DownloadInv, [Next]_vars, NEW d \in Downloads \ misled,
             told[d] = None, told'[d] # None
      PROVE  Kept(d) /\ (dl[d].pc = "settle" => Left(d))
  <2> HIDE DEF Kept, Left
  <2>1. CASE dl[d].pc # "settle" /\ told'[d].left = None
    BY <2>1 DEF Kept
  <2> QED
    BY <1>1, <1>2, <1>3, <1>4, <2>1, WhoEnds
<1>5. DownloadInv /\ [Next]_vars =>
        [\A d \in Downloads \ misled : told[d] = None /\ told'[d] # None => Kept(d)]_vars
  <2> HIDE DEF Kept, Left
  <2> QED
    BY <1>4
<1>6. ASSUME DownloadInv, NEW d \in Downloads, dl[d].pc = "settle" PROVE told[d] = None
  BY <1>6 DEF DownloadInv, Types
<1>7. DownloadInv /\ [Next]_vars =>
        [\A d \in Downloads \ misled : dl[d].pc = "settle" /\ told'[d] # None => Left(d)]_vars
  <2> HIDE DEF Kept, Left
  <2> QED
    BY <1>4, <1>6
<1> QED
  BY <1>5, <1>7, Invariant, PTL DEF Spec, PartialsAreSettled, KeptIsResumable, NoUnmarkedPartial
=============================================================================
