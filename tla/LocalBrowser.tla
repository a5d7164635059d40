---------------------------- MODULE LocalBrowser -----------------------------
(***************************************************************************)
(* The local half of the SFTP pane: the directory it lists, the history of  *)
(* its navigation, and the entry that is picked, which an upload sends.  A  *)
(* directory is read when it is asked for; it may have gone by then, or be  *)
(* unreadable, and the pane goes on showing the last that it could read.    *)
(* The user acts only through what the pane draws.                          *)
(***************************************************************************)
EXTENDS Naturals, Sequences

CONSTANTS
  Dirs,
  HomeDir,
  ParentOf,   \* the parent of a directory, itself at the root
  EntriesOf,  \* its entries: directories, and files
  MaxPlaces   \* places remembered in the history

VARIABLES
  readable,   \* the directories that can be read
  localCwd, localListing, localPicked, localError, localPast,
  sent        \* what the last upload sends: a directory and an entry

localVars == <<readable, localCwd, localListing, localPicked, localError, localPast, sent>>

Nothing == [dir |-> HomeDir, entry |-> "none"]

\* A home that cannot be read is shown without entries.
LocalInit ==
  /\ readable \in {Dirs, Dirs \ {HomeDir}}
  /\ localCwd = HomeDir
  /\ localListing = IF HomeDir \in readable THEN EntriesOf[HomeDir] ELSE <<>>
  /\ localPicked = 0 /\ localError = FALSE
  /\ localPast = [paths |-> <<HomeDir>>, at |-> 1] /\ sent = Nothing

\* The selection is of the listing, and goes with it.
LoadLocal(d) ==
  IF d \in readable
  THEN /\ localCwd' = d /\ localListing' = EntriesOf[d]
       /\ localPicked' = 0 /\ localError' = FALSE
  ELSE localError' = TRUE /\ UNCHANGED <<localCwd, localListing, localPicked>>

LoadLocalKeepingPick(d) ==
  IF d \in readable
  THEN /\ localCwd' = d /\ localListing' = EntriesOf[d] /\ localError' = FALSE
       /\ UNCHANGED localPicked
  ELSE localError' = TRUE /\ UNCHANGED <<localCwd, localListing, localPicked>>

NavigateLocal(d) ==
  /\ localPast.at < MaxPlaces
  /\ localPast' = [paths |-> Append(SubSeq(localPast.paths, 1, localPast.at), d),
                   at |-> localPast.at + 1]
  /\ LoadLocal(d)
  /\ UNCHANGED <<readable, sent>>

\* Each place of the history is loaded again, in either direction.
GoToPlace(n) ==
  /\ n \in DOMAIN localPast.paths
  /\ localPast' = [localPast EXCEPT !.at = n]
  /\ LoadLocal(localPast.paths[n])
  /\ UNCHANGED <<readable, sent>>

-----------------------------------------------------------------------------
(* What is drawn.                                                          *)

\* The menu.
UploadPicked ==
  /\ localPicked \in DOMAIN localListing
  /\ sent' = [dir |-> localCwd, entry |-> localListing[localPicked]]
  /\ UNCHANGED <<readable, localCwd, localListing, localPicked, localError, localPast>>

RefreshLocal == LoadLocal(localCwd) /\ UNCHANGED <<readable, localPast, sent>>
GoHome == NavigateLocal(HomeDir)
LocalUp == ParentOf[localCwd] # localCwd /\ NavigateLocal(ParentOf[localCwd])

\* The path bar: the trail to the directory without the root, and the history.
LocalTrail[d \in Dirs] ==
  IF ParentOf[d] = d THEN {} ELSE LocalTrail[ParentOf[d]] \cup {d}
ToLocalCrumb == \E d \in LocalTrail[localCwd] : NavigateLocal(d)
LocalBack == GoToPlace(localPast.at - 1)
LocalForward == GoToPlace(localPast.at + 1)

\* The rows.
PickLocal ==
  /\ localPicked' \in DOMAIN localListing
  /\ UNCHANGED <<readable, localCwd, localListing, localError, localPast, sent>>
\* The rows in the order of their dates, either way: the pick keeps its number.
SortLocal ==
  /\ localListing' \in {localListing,
                       [k \in DOMAIN localListing |->
                          localListing[Len(localListing) + 1 - k]]}
  /\ UNCHANGED <<readable, localCwd, localPicked, localError, localPast, sent>>
OpenLocal ==
  \E k \in DOMAIN localListing : localListing[k] \in Dirs /\ NavigateLocal(localListing[k])

\* A download that succeeds lists the directory then shown.
DownloadLands == RefreshLocal

\* Another program removes a directory, or makes it unreadable.
Vanish(d) ==
  /\ d \in readable /\ readable' = readable \ {d}
  /\ UNCHANGED <<localCwd, localListing, localPicked, localError, localPast, sent>>

LocalNext ==
  \/ UploadPicked \/ RefreshLocal \/ GoHome \/ LocalUp
  \/ ToLocalCrumb \/ LocalBack \/ LocalForward
  \/ PickLocal \/ SortLocal \/ OpenLocal \/ DownloadLands
  \/ \E d \in Dirs : Vanish(d)

-----------------------------------------------------------------------------
\* What is listed is of the directory shown, and a pick never outlives the listing
\* it was made in: what an upload sends was an entry of the directory it is sent
\* from.
PickIsListed ==
  LET Members(entries) == {entries[k] : k \in DOMAIN entries}
  IN /\ Members(localListing) \in {Members(EntriesOf[localCwd]), {}}
     /\ localPicked # 0 => localPicked \in DOMAIN localListing
     /\ sent # Nothing => sent.entry \in Members(EntriesOf[sent.dir])

\* The directory shown is the one at the place in the history, unless that one
\* cannot be read.
PlaceIsShown ==
  LET place == localPast.paths[localPast.at]
  IN localCwd # place => place \notin readable
=============================================================================
