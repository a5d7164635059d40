---------------------------------- MODULE Desk ----------------------------------
(***************************************************************************)
(* What the window keeps on disk and what its panes show: the stores, the   *)
(* vault's file, the keys and known hosts, the snippets, the settings, the  *)
(* drawer of hosts, the two halves of the SFTP pane, the port-forwarding    *)
(* pane and a terminal pane.  They share no state here, so that every       *)
(* behaviour of the desk is one of its parts while the others stay as they  *)
(* started.                                                                *)
(***************************************************************************)
EXTENDS Stores, Integers

CONSTANTS
  RecordIds, Sealable, Phrases, MaxFresh,                            \* VaultFile
  Names, BaseOf, CopyOf, Addresses, MaxHosts, Nobody,                \* HostDrawer
  Hosts, Keys, Alg, Files, Cut, MaxTasks,                            \* KnownHosts
  Generated, Imports, Dotted, MaxNumber,                             \* KeysPane
  Clients, Paths, Home, Canonical, Parent, RemoteEntries, File,      \* SftpPane
  MaxLoads, MaxTransfers,
  LocalDirs, HomeDir, ParentOf, LocalEntries, MaxPlaces,             \* LocalBrowser
  Sessions, MaxForwards, MaxForwardStarts,                           \* ForwardPane
  MaxKept, MaxMatches, MaxKeys,                                      \* TerminalPane
  SnippetLabels, IdOf, MaxFailed,                                    \* SnippetsPane
  MinSize, MaxSize, DefaultSize, SizeStep, MinZoom, MaxZoom,         \* Settings
  DefaultZoom, RawSizes, NaN, Panes

VARIABLE part    \* the part whose behaviour this is

VARIABLES onDisk, temporary, unlocked, entry, opened, saving, fresh, exchanged, given
VARIABLES inventory, telnet, selected, edited, boxes, drawerOpen, menu, more, themes,
          meant
VARIABLES lines, task, pending, tasks, torn, vouched, keychain, listed, hostsShown,
          chosenKey, forms, busy, works, loose, unread
VARIABLES client, unused, attempt, connecting, picker, cwd, listing, loading, error,
          picked, past, loads, loadGen, jobs, rows, watchers, watchGen
VARIABLES readable, localCwd, localListing, localPicked, localError, localPast, sent
VARIABLES session, ended, forwardRows, starting, pendingStarts, forwards, watching
VARIABLES at, kept, find, matches, selection, dragging, keys, active, wanted,
          timer, parked, lit, dirty
VARIABLES library, file, chosen, fields, expanded, form, editing, history, failed
VARIABLES settingsFile, settingsOpen, shown, autocompleteOn, zoom, paneZoom,
          asked, failedWrites

Safe == INSTANCE VaultFile
          WITH SecretIds <- RecordIds, Secrets <- Sealable, vault <- opened
Drawer == INSTANCE HostDrawer WITH hosts <- inventory, open <- drawerOpen
Keyring == INSTANCE KeysPane
Sftp == INSTANCE SftpPane WITH Entries <- RemoteEntries
Local == INSTANCE LocalBrowser WITH Dirs <- LocalDirs, EntriesOf <- LocalEntries
Forwarding == INSTANCE ForwardPane
                WITH rows <- forwardRows, starts <- pendingStarts,
                     MaxStarts <- MaxForwardStarts
Term == INSTANCE TerminalPane
Snips == INSTANCE SnippetsPane WITH Labels <- SnippetLabels
Prefs == INSTANCE Settings

-----------------------------------------------------------------------------
(* What the constants stand for.                                           *)

\* No secret is the word for a record that does not open.
ASSUME SecretsAssumption == Safe!Failure \notin Sealable

\* Every label, a copy's too, gives an id, and that there is no host is not one.
Labelled ==
  /\ MaxHosts \in Nat /\ Nobody \notin Drawer!HostIds
  /\ Names \subseteq Drawer!Labels /\ CopyOf \in [Drawer!Labels -> Drawer!Labels]
ASSUME LabelsAssumption == Labelled

\* known_hosts starts with comments and lines that record keys for hosts; what is
\* left of a key on a line that was cut is no key.
HostLines == [names : SUBSET Hosts, key : Keys]
Lined == Files \subseteq Seq(HostLines) /\ Cut \notin Keys
ASSUME FilesAssumption == Lined

\* There are numbers for all the keys that may be made, so that none takes over
\* another's name: there are ten thousand.
Numbered == MaxNumber \in Nat /\ MaxTasks \in Nat /\ MaxTasks <= MaxNumber + 2
ASSUME NumbersAssumption == Numbered

\* A directory's entries are a list.
EntryNames ==
  UNION {{LocalEntries[d][k] : k \in DOMAIN LocalEntries[d]} : d \in LocalDirs}
ASSUME DirsAssumption ==
  HomeDir \in LocalDirs /\ LocalEntries \in [LocalDirs -> Seq(EntryNames)]

\* The sizes are in order and not negative, and a file edited by hand has numbers.
Sized ==
  /\ MinSize \in Nat /\ MaxSize \in Nat /\ SizeStep \in Nat /\ DefaultSize \in Prefs!Sizes
  /\ MinZoom \in Int /\ MaxZoom \in Int /\ DefaultZoom \in Int
  /\ NaN \notin Int /\ RawSizes \subseteq Int \cup {NaN}
ASSUME SizesAssumption == Sized

ASSUME LimitsAssumption ==
  MaxTransfers \in Nat \ {0} /\ MaxForwards \in Nat /\ MaxKept \in Nat

-----------------------------------------------------------------------------
safeVars == <<onDisk, temporary, unlocked, entry, opened, saving, fresh, exchanged,
              given>>
drawerVars == <<inventory, telnet, selected, edited, boxes, drawerOpen, menu, more,
                themes, meant>>
keyringVars == <<lines, task, pending, tasks, torn, vouched, keychain, listed,
                 hostsShown, chosenKey, forms, busy, works, loose, unread>>
sftpVars == <<client, unused, attempt, connecting, picker, cwd, listing, loading,
              error, picked, past, loads, loadGen, jobs, rows, watchers, watchGen>>
localVars == <<readable, localCwd, localListing, localPicked, localError, localPast,
               sent>>
forwardVars == <<session, ended, forwardRows, starting, pendingStarts, forwards,
                 watching>>
terminalVars == <<at, kept, find, matches, selection, dragging, keys, active, wanted,
                  timer, parked, lit, dirty>>
snippetsVars == <<library, file, chosen, fields, expanded, form, editing, history,
                  failed>>
settingsVars == <<settingsFile, settingsOpen, shown, autocompleteOn, zoom, paneZoom,
                  asked, failedWrites>>
deskVars == <<part, vars, safeVars, drawerVars, keyringVars, sftpVars, localVars,
              forwardVars, terminalVars, snippetsVars, settingsVars>>

Parts == {"Stores", "KeysPane", "SftpPane", "LocalBrowser", "ForwardPane",
          "TerminalPane", "SnippetsPane", "Settings", "VaultFile", "HostDrawer"}

\* A part that does not move starts in one state.
DeskInit ==
  /\ part \in Parts
  /\ Init /\ disk.hosts[1].user = NoHost.user
  /\ part # "Stores" => disk.hosts[1].auth = Agent
  /\ Keyring!KeysInit /\ (part # "KeysPane" => lines = <<>>)
  /\ Sftp!Init /\ Forwarding!Init
  /\ Local!LocalInit /\ (part # "LocalBrowser" => HomeDir \in readable)
  /\ Term!Init /\ (part # "TerminalPane" => ~wanted)
  /\ Snips!Init /\ (part # "SnippetsPane" => library = {})
  /\ Safe!VaultInit
  /\ part # "VaultFile" => onDisk = Safe!Missing /\ unlocked /\ entry = Safe!NoEntry
  /\ Drawer!DrawerInit /\ (part # "HostDrawer" => selected = Nobody)
  /\ Prefs!Init /\ (part # "Settings" => settingsFile.state = "Missing")

\* One part moves, and the others stay.
Alone(mover) ==
  /\ part = mover /\ UNCHANGED part
  /\ mover # "Stores" => UNCHANGED vars
  /\ mover # "VaultFile" => UNCHANGED safeVars
  /\ mover # "HostDrawer" => UNCHANGED drawerVars
  /\ mover # "KeysPane" => UNCHANGED keyringVars
  /\ mover # "SftpPane" => UNCHANGED sftpVars
  /\ mover # "LocalBrowser" => UNCHANGED localVars
  /\ mover # "ForwardPane" => UNCHANGED forwardVars
  /\ mover # "TerminalPane" => UNCHANGED terminalVars
  /\ mover # "SnippetsPane" => UNCHANGED snippetsVars
  /\ mover # "Settings" => UNCHANGED settingsVars

DeskNext ==
  \/ Alone("Stores") /\ Next
  \/ Alone("KeysPane") /\ Keyring!KeysNext
  \/ Alone("SftpPane") /\ Sftp!Next
  \/ Alone("LocalBrowser") /\ Local!LocalNext
  \/ Alone("ForwardPane") /\ Forwarding!Next
  \/ Alone("TerminalPane") /\ Term!Next
  \/ Alone("SnippetsPane") /\ Snips!Next
  \/ Alone("Settings") /\ Prefs!Next
  \/ Alone("VaultFile") /\ Safe!VaultNext
  \/ Alone("HostDrawer") /\ Drawer!DrawerNext

DeskFairness ==
  /\ Sftp!Fairness /\ Forwarding!Fairness
  /\ WF_terminalVars(part = "TerminalPane" /\ Term!Render)
  /\ WF_terminalVars(part = "TerminalPane" /\ Term!Tick)

DeskSpec == DeskInit /\ [][DeskNext]_deskVars /\ DeskFairness

-----------------------------------------------------------------------------
(* Properties.                                                             *)

\* After a restart the window finds what it had: the hosts and the passwords, but
\* those typed for a host that logs in with a key, whatever order the two files
\* were written in, and a password of the old format after a crash of the
\* migration; a whole vault, of which every secret is read under the id it was set
\* under and no other; the snippets, none hidden behind another of its id; the
\* settings, whichever control gave them.
StoresSurvive ==
  /\ IdleIsDurable /\ LegacyIsNotLost
  /\ Safe!ReadsAreAuthentic /\ Safe!FileIsWhole
  /\ Snips!OneSnippetPerId /\ Snips!LibraryIsKept
  /\ Prefs!SettingsAreKept

\* Whenever a session checks a server's key it goes on only with one the user
\* stands by, in the middle of a rewrite too and after one that failed, and an idle
\* pane leaves the file with exactly those keys, until a write died or failed
\* half-way.
KeysAreVouched == Keyring!AcceptedIsVouched /\ Keyring!VouchedIsRecorded

\* No pane shows or drives another attachment's things: the SFTP pane lists the
\* directory it names through the client it has, with that client's transfers, says
\* it is connecting only while an attempt goes on, and its local half picks what it
\* lists and names the place it lists; the forwarding pane lets no running forward
\* out of hand; the terminal extends only a selection it has; a value typed for one
\* snippet is never expanded into another; all terminals have the text size that was
\* set last; the drawer edits the host whose details it shows; and the keys pane
\* lists the keys that are on disk and the hosts that the file has, unless a write of
\* it that failed left the list as it was.
PanesShowTheirOwn ==
  /\ Sftp!ListingIsCurrent /\ Sftp!RowsAreOfClient /\ Sftp!ConnectingIsTrue
  /\ Local!PickIsListed /\ Local!PlaceIsShown
  /\ Forwarding!ForwardsInHand
  /\ Term!ViewOK
  /\ Snips!ValuesStayWithTheirSnippet
  /\ Prefs!PanesAreOneSize
  /\ Drawer!TypingReachesTheSelected /\ Drawer!SelectionIsThere
  /\ Keyring!TilesAreFiles /\ Keyring!ListsAreWhole

\* However often it is asked, the SFTP pane ends its loading, the forwarding pane
\* stops showing a forward that is over as live, a forward whose row went comes to
\* its end, and a terminal in the background stops its timer; and the cursor goes on
\* blinking in an active window.  As one part alone moves, and as only so many
\* forwards are started, the first four are one formula.
PanesSettle ==
  /\ []<>(/\ ~loading /\ Term!NoTimerInBackground
          /\ Forwarding!NothingOverShownLive /\ Forwarding!NothingRunsUnseen)
  /\ Term!CursorBlinks
=============================================================================
