------------------------------ MODULE SftpPane -------------------------------
(***************************************************************************)
(* The remote half of the SFTP pane: the client it is attached to, the      *)
(* directory it lists, the history of its navigation, the row that is       *)
(* picked, and the rows of the client's transfers.  The user acts only      *)
(* through what the pane draws: the browser of an attached client, the      *)
(* screen shown while a client connects, the host picker or the empty       *)
(* screen.  Listings, transfers and attachments end later, when the pane    *)
(* may have moved on or been attached to another session.                   *)
(*                                                                         *)
(* The filters and the order of the rows (PaneTexts), the menu and the tabs *)
(* that only fold controls away are left out.                               *)
(***************************************************************************)
EXTENDS Naturals, Sequences, FiniteSets

CONSTANTS
  Clients,     \* SFTP clients, one for each attachment
  Paths,       \* the paths asked for, spelled as the pane spells them
  Home,        \* what "." asks for
  Canonical,   \* the directory a path is
  Parent,      \* the parent of a directory, itself at the root
  Entries,     \* the rows of a directory: paths of directories, and files
  File,        \* a row that is not a directory
  MaxLoads,    \* how many listings are asked for, and places remembered
  MaxTransfers \* rows kept

Nowhere == "Nowhere"
NoClient == "NoClient"
Dirs == {Canonical[p] : p \in Paths}

VARIABLES
  client,    \* the attached client
  unused,    \* clients not asked for yet
  attempt,   \* the client that the window is opening, its latest attempt
  connecting, picker, \* what the pane shows without a client
  cwd, listing, loading, error,
  picked,    \* the number of the picked row, 0 for none
  past,      \* the history of the navigation and the place in it
  loads,     \* listings asked for and not answered
  loadGen,   \* the generation of the latest of them
  jobs,      \* uploads and downloads in flight, at most one of each client
  rows,      \* the transfers shown, oldest first
  watchers,  \* the tasks that follow a client's transfers
  watchGen

vars == <<client, unused, attempt, connecting, picker, cwd, listing, loading, error,
          picked, past, loads, loadGen, jobs, rows, watchers, watchGen>>
attachment == <<client, unused, attempt, connecting, picker>>
listings == <<loading, error, loads, loadGen>>
transfers == <<jobs, rows, watchers, watchGen>>

Empty == [of |-> NoClient, dir |-> Nowhere]
NoPast == [paths |-> <<>>, at |-> 0]

Init ==
  /\ client = NoClient /\ unused = Clients
  /\ attempt = NoClient /\ connecting = FALSE /\ picker = FALSE
  /\ cwd = Nowhere /\ listing = Empty /\ loading = FALSE /\ error = FALSE
  /\ picked = 0 /\ past = NoPast /\ loads = {} /\ loadGen = 0
  /\ jobs = {} /\ rows = <<>> /\ watchers = {} /\ watchGen = 0

-----------------------------------------------------------------------------
(* What is drawn.                                                          *)

Screen ==
  CASE client # NoClient -> "Browser"
    [] client = NoClient /\ connecting -> "Connecting"
    [] client = NoClient /\ ~connecting /\ picker -> "Picker"
    [] OTHER -> "Empty"

\* The header and the path bar stay while a client connects.
HeaderShown == Screen \in {"Browser", "Connecting"}

Listed == IF listing = Empty THEN <<>> ELSE Entries[listing.dir]

\* Rows are drawn, those of the last listing while the next is loading, unless
\* there are none or there is an error to show in their place.
RowsShown == Screen = "Browser" /\ ~error /\ Listed # <<>>
RetryShown == Screen = "Browser" /\ error

\* The trail to a directory, without the root unless it is all there is.
TrailTo[d \in Dirs] == IF Parent[d] = d THEN {} ELSE TrailTo[Parent[d]] \cup {d}
Crumbs == IF cwd = Nowhere THEN {}
          ELSE IF Parent[cwd] = cwd THEN {cwd} ELSE TrailTo[cwd]

-----------------------------------------------------------------------------
(* Listings.                                                               *)

\* A listing of p is asked for on client c, and supersedes the earlier ones.
Load(c, p) ==
  /\ loadGen < MaxLoads
  /\ loadGen' = loadGen + 1
  /\ loads' = loads \cup {[gen |-> loadGen', of |-> c, path |-> p]}
  /\ loading' = TRUE /\ error' = FALSE /\ picked' = 0

Here == IF cwd = Nowhere THEN Home ELSE cwd

\* From the menu, or to try again.
Refresh ==
  /\ HeaderShown \/ RetryShown
  /\ client # NoClient /\ Load(client, Here)
  /\ UNCHANGED <<attachment, cwd, listing, past, transfers>>

\* Entering a directory forgets the places ahead in the history; without a client
\* that is all that happens.
Pushed(p) == [paths |-> Append(SubSeq(past.paths, 1, past.at), p), at |-> past.at + 1]
Navigate(p) ==
  /\ past.at < MaxLoads
  /\ past' = Pushed(p)
  /\ IF client # NoClient THEN Load(client, p) ELSE UNCHANGED <<listings, picked>>
  /\ UNCHANGED <<attachment, cwd, listing, transfers>>

Pick(k) ==
  /\ RowsShown /\ k \in DOMAIN Listed /\ picked' = k
  /\ UNCHANGED <<attachment, cwd, listing, past, listings, transfers>>

Activate(k) == RowsShown /\ k \in DOMAIN Listed /\ Listed[k] # File /\ Navigate(Listed[k])

\* A directory whose name leads out of the one it is listed in is not opened.
RefuseName(k) ==
  /\ RowsShown /\ k \in DOMAIN Listed /\ Listed[k] # File
  /\ error' = TRUE
  /\ UNCHANGED <<attachment, cwd, listing, picked, past, loading, loads, loadGen,
                 transfers>>

GoUp == HeaderShown /\ cwd # Nowhere /\ Parent[cwd] # cwd /\ Navigate(Parent[cwd])
GoToCrumb(p) == HeaderShown /\ p \in Crumbs /\ Navigate(p)

GoTo(n) ==
  /\ client # NoClient /\ n \in DOMAIN past.paths
  /\ Load(client, past.paths[n])
  /\ past' = [past EXCEPT !.at = n]
  /\ UNCHANGED <<attachment, cwd, listing, transfers>>
GoBack == GoTo(past.at - 1)
GoForward == GoTo(past.at + 1)

AnyAnswer(load) == TRUE

\* An answer counts if nothing was asked for after it.
LatestOnly(load) == load.gen = loadGen

FailedStillLoading ==
  /\ listing' = Empty /\ error' = TRUE
  /\ UNCHANGED <<cwd, past, loading>>

\* A failure leaves the directory as it was and lists nothing of it.
Failed ==
  /\ listing' = Empty /\ error' = TRUE /\ loading' = FALSE
  /\ UNCHANGED <<cwd, past>>

\* A row picked meanwhile stays picked, by its number.
Arrived(load) ==
  /\ cwd' = Canonical[load.path]
  /\ listing' = [of |-> load.of, dir |-> cwd']
  /\ past' = IF past.paths = <<>> THEN [paths |-> <<cwd'>>, at |-> 1] ELSE past
  /\ error' = FALSE /\ loading' = FALSE

LoadAnswers(load) ==
  /\ load \in loads /\ loads' = loads \ {load}
  /\ IF LatestOnly(load) THEN Arrived(load) \/ Failed
     ELSE UNCHANGED <<cwd, listing, loading, error, past>>
  /\ UNCHANGED <<attachment, picked, loadGen, transfers>>

-----------------------------------------------------------------------------
(* Attaching and detaching, and the screens shown without a client.        *)

Cleared ==
  /\ cwd' = Nowhere /\ listing' = Empty /\ past' = NoPast /\ rows' = <<>>
  /\ picked' = 0 /\ watchGen' = watchGen + 1

\* The window drops the client, or gives up an attempt, for no other (c = NoClient)
\* or to open that of another session.
Detach(c) ==
  /\ \/ c = NoClient /\ (client # NoClient \/ attempt # NoClient)
     \/ c \in unused
  /\ Cleared /\ client' = NoClient /\ loading' = FALSE /\ error' = FALSE
  /\ attempt' = c /\ unused' = unused \ {c} /\ connecting' = (c # NoClient)
  /\ UNCHANGED <<picker, loads, loadGen, jobs, watchers>>

\* The attempt succeeds, whatever the pane shows by then.
Attach ==
  /\ attempt # NoClient /\ client' = attempt /\ attempt' = NoClient
  /\ connecting' = FALSE /\ picker' = FALSE
  /\ Cleared /\ watchers' = watchers \cup {[gen |-> watchGen', of |-> client']}
  /\ Load(client', Home)
  /\ UNCHANGED <<unused, jobs>>

AttemptFailsUnseen ==
  /\ attempt # NoClient /\ attempt' = NoClient
  /\ UNCHANGED <<client, unused, connecting, picker, cwd, listing, picked, past,
                 listings, transfers>>

AttemptFails ==
  /\ attempt # NoClient /\ attempt' = NoClient /\ connecting' = FALSE
  /\ UNCHANGED <<client, unused, picker, cwd, listing, picked, past, listings, transfers>>

Shows(isConnecting, isPicker) ==
  /\ connecting' = isConnecting /\ picker' = isPicker
  /\ UNCHANGED <<client, unused, attempt, cwd, listing, picked, past, listings, transfers>>

\* Closing the screen goes to the picker; the attempt goes on.
CloseConnecting == Screen = "Connecting" /\ Shows(FALSE, TRUE)
SelectHost == Screen = "Empty" /\ Shows(connecting, TRUE)
LeavePicker == Screen = "Picker" /\ Shows(connecting, FALSE)

-----------------------------------------------------------------------------
(* Transfers.                                                              *)

Job(c, kind) == [of |-> c, kind |-> kind]

Start(kind) ==
  /\ \A job \in jobs : job.of # client
  /\ jobs' = jobs \cup {Job(client, kind)}
  /\ UNCHANGED <<attachment, cwd, listing, picked, past, listings, rows, watchers, watchGen>>

\* Of an entry picked in the local half.
StartUpload == client # NoClient /\ Start("Upload")

\* Of the picked row, if the listing still has it.
StartDownload == client # NoClient /\ picked \in DOMAIN Listed /\ Start("Download")

\* A transfer that failed shows its error in the pane.  An upload that succeeded
\* lists the directory again, of the client then attached; a download lists the
\* local directory.
JobEnds(job) ==
  /\ job \in jobs /\ jobs' = jobs \ {job}
  /\ \/ /\ job.kind = "Upload" /\ client # NoClient /\ Load(client, Here)
     \/ /\ job.kind = "Download" \/ client = NoClient
        /\ UNCHANGED <<listings, picked>>
     \/ error' = TRUE /\ UNCHANGED <<loads, loadGen, loading, picked>>
  /\ UNCHANGED <<attachment, cwd, listing, past, rows, watchers, watchGen>>

Row(c, n, isOver) == [of |-> c, id |-> n, over |-> isOver]
Same(r, q) == r.of = q.of /\ r.id = q.id

\* One event of a transfer: its row is updated, or added in place of the oldest.
Applied(rs, r) ==
  IF \E k \in DOMAIN rs : Same(rs[k], r)
  THEN [k \in DOMAIN rs |-> IF Same(rs[k], r) THEN r ELSE rs[k]]
  ELSE Append(IF Len(rs) >= MaxTransfers THEN Tail(rs) ELSE rs, r)

\* A task goes on while the pane is attached to the client it follows.
Watches(w) == w.gen = watchGen

TransferEvent(w, n, isOver) ==
  /\ w \in watchers
  /\ IF Watches(w) THEN rows' = Applied(rows, Row(w.of, n, isOver)) /\ UNCHANGED watchers
                   ELSE watchers' = watchers \ {w} /\ UNCHANGED rows
  /\ UNCHANGED <<attachment, cwd, listing, picked, past, listings, jobs, watchGen>>

\* The button of a row whose transfer goes on asks the attached client to end it,
\* by its number.
CancelledOf(k) == IF rows[k].over THEN {} ELSE {[of |-> client, id |-> rows[k].id]}

AttachmentStep ==
  \/ \E c \in unused \cup {NoClient} : Detach(c)
  \/ Attach \/ AttemptFails \/ CloseConnecting \/ SelectHost \/ LeavePicker

Next ==
  \/ AttachmentStep
  \/ Refresh \/ GoUp \/ GoBack \/ GoForward \/ StartUpload \/ StartDownload
  \/ \E k \in DOMAIN Listed : Pick(k) \/ Activate(k) \/ RefuseName(k)
  \/ \E p \in Crumbs : GoToCrumb(p)
  \/ \E load \in loads : LoadAnswers(load)
  \/ \E job \in jobs : JobEnds(job)
  \/ \E w \in watchers, n \in 1 .. MaxTransfers + 1, isOver \in BOOLEAN :
       TransferEvent(w, n, isOver)

\* Every listing, and every attempt to open a client, is answered or fails, with
\* the session at the latest.
Fairness ==
  /\ WF_vars(\E load \in loads : LoadAnswers(load))
  /\ WF_vars(Attach \/ AttemptFails)

Spec == Init /\ [][Next]_vars /\ Fairness

-----------------------------------------------------------------------------
\* What an attached pane lists is the directory it names, read through the
\* client it is attached to, whatever arrives from an earlier one; and once
\* nothing is loading it lists something or says why not.
ListingIsCurrent ==
  client # NoClient =>
    /\ listing # Empty => listing = [of |-> client, dir |-> cwd]
    /\ ~loading => error \/ listing # Empty

\* Without a client the pane says that it connects only while an attempt goes on
\* that will end the saying, and nothing is picked; and a picked row was a row of
\* some directory of the client.
ConnectingIsTrue ==
  /\ connecting => attempt # NoClient /\ client = NoClient
  /\ picked # 0 => client # NoClient

\* The rows are the attached client's transfers, each once, and no more than are
\* kept: what a row's button cancels is the transfer that the row shows.
RowsAreOfClient ==
  /\ Len(rows) <= MaxTransfers
  /\ \A j, k \in DOMAIN rows : Same(rows[j], rows[k]) => j = k
  /\ \A k \in DOMAIN rows : CancelledOf(k) \subseteq {[of |-> rows[k].of, id |-> rows[k].id]}
=============================================================================
