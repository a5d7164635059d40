----------------------------- MODULE RemotePaths -----------------------------
(***************************************************************************)
(* Remote paths (sshdeck-sftp/src/path.rs) and directory listings          *)
(* (listing.rs).                                                           *)
(*                                                                         *)
(* A path is the sequence of what stands between its slashes: "/a/b" is    *)
(* <<"", "a", "b">>, "/" is <<"", "">> and the empty path is <<"">>.       *)
(***************************************************************************)
EXTENDS Naturals, Sequences, SequencesExt, FiniteSets

\* What stands between two slashes in a row.
Blank == ""

Root == <<Blank, Blank>>
Here == <<".">>

Absolute(path) == Len(path) > 1 /\ path[1] = Blank

(* One component of normalize(): ".." takes back the one before it; at the   *)
(* root there is nothing to take, and a relative path keeps it.              *)
Collapse(parts, c, absolute) ==
  CASE c \in {Blank, "."} -> parts
    [] c = ".." -> IF parts # <<>> /\ Last(parts) # ".." THEN Front(parts)
                   ELSE IF absolute THEN parts ELSE Append(parts, "..")
    [] OTHER -> Append(parts, c)

Normalize(path) ==
  LET absolute == Absolute(path)
      parts == FoldLeft(LAMBDA ps, c : Collapse(ps, c, absolute), <<>>, path)
  IN CASE absolute /\ parts = <<>>  -> Root
       [] absolute /\ parts # <<>>  -> <<Blank>> \o parts
       [] ~absolute /\ parts = <<>> -> Here
       [] OTHER                     -> parts

(* Mutant: a path that starts with the text of the base is inside it. *)
WithinText(base, path) == SubSeq(path, 1, Len(base) - 1) = SubSeq(base, 1, Len(base) - 1)

Within(base, path) ==
  IF base \in {Root, Here} THEN path[1] # ".." ELSE IsPrefix(base, path)

Join(base, child) ==
  LET b == Normalize(base)
      joined == Normalize(IF Absolute(child) THEN child ELSE b \o child)
  IN [ok |-> Within(b, joined), path |-> joined]

(* Mutant: every directory on the way is made, the base's own included. *)
AncestorsFromRoot(base, path) ==
  LET target == Join(base, path).path
  IN SelectSeq([i \in 1..Len(target) |-> SubSeq(target, 1, i)], LAMBDA dir : Last(dir) # Blank)

(* The directories create_dir_all() makes, in the order it makes them. *)
Ancestors(base, path) ==
  LET b == Normalize(base)
      target == Join(base, path).path
      Made(dir) == Last(dir) # Blank /\ dir # b /\ Within(b, dir)
      Make(dirs, built) == IF Made(built) THEN Append(dirs, built) ELSE dirs
  IN IF target = b THEN <<>>
     ELSE FoldLeft(Make, <<>>, [i \in 1..Len(target) |-> SubSeq(target, 1, i)])

------------------------------------------------------------------------------
(* sort_entries(): directories, then names whatever their case, then names. *)

(* Mutant: names that differ in case only are left as they come. *)
BeforeAnyCase(a, b) ==
  \/ a.dir /\ ~b.dir
  \/ a.dir = b.dir /\ a.lower < b.lower

Before(a, b) ==
  \/ BeforeAnyCase(a, b)
  \/ a.dir = b.dir /\ a.lower = b.lower /\ a.exact < b.exact

(* The listing in order; entries that the order does not tell apart keep the *)
(* order in which the server sent them.                                      *)
Insert(sorted, e) ==
  LET before == SelectSeq(sorted, LAMBDA x : ~Before(e, x))
  IN Append(before, e) \o SubSeq(sorted, Len(before) + 1, Len(sorted))

SortEntries(entries) == FoldLeft(Insert, <<>>, entries)

------------------------------------------------------------------------------
(* format_permissions(): a mode is the set of its bits.                      *)

Classes == {"user", "group", "other"}
SetBit == [user |-> "suid", group |-> "sgid", other |-> "sticky"]
ModeBits == (Classes \X {"r", "w", "x"}) \cup {<<c, "set">> : c \in Classes}

(* Mutant: the execute bit hides the set bit. *)
SetIdCharPlain(class, exec, setid) ==
  CASE exec -> "x" [] ~exec /\ setid -> (IF class = "other" THEN "T" ELSE "S") [] OTHER -> "-"

SetIdChar(class, exec, setid) ==
  CASE exec /\ setid   -> IF class = "other" THEN "t" ELSE "s"
    [] ~exec /\ setid  -> IF class = "other" THEN "T" ELSE "S"
    [] exec /\ ~setid  -> "x"
    [] OTHER           -> "-"

FormatPermissions(mode) ==
  [c \in Classes |->
     <<IF <<c, "r">> \in mode THEN "r" ELSE "-",
       IF <<c, "w">> \in mode THEN "w" ELSE "-",
       SetIdChar(c, <<c, "x">> \in mode, <<c, "set">> \in mode)>>]
==============================================================================
