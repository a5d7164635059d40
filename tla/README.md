# A TLA+ model of sshdeck

This directory holds TLA+ specifications of sshdeck, a Rust SSH/SFTP/Telnet/Mosh client with
a desktop user interface, the TLC configurations that check them on small instances, and
TLAPS proofs of what matters most for every instance. Everything is translated from the
sources under `src/crates/`; file names below are relative to it (`main.rs` and the `*_pane.rs`
files are in `sshdeck-app/src/`). `PROJECT.json` lists the components, the runs, the mutants,
the hazards and, for each definition, the source lines it stands for.

1. Inventory
2. Plan, and how far it got
3. The modules and the code
4. Runs: what each checks, bounds, fairness
5. Disagreements between the code and what it says
6. Proofs
7. Not modelled

## 1. Inventory

sshdeck is a Cargo workspace. One process runs a GPUI interface on the main thread; each
connection has threads of its own (an SSH session a tokio runtime with two workers, the others
two plain threads). The interface and a connection share no memory: commands go one way
through a bounded channel (`try_send`, may be refused), events the other way through a bounded
channel (`send().await`, waits when full). Anything slow the interface does itself (reading a
directory, writing a key) runs on a background executor and answers later.

```
   panes (sshdeck-app)                      one thread per connection
 +--------------------+  SessionCommand   +----------------------------------+
 | Session handle     | ----- 64 slots -> | session.rs: dial, verify, auth,  |
 | event watcher      | <---- 256 slots - |   open, drive select! loop       |
 |                    |   SessionEvent    |     |            |               |
 | Forward handle     | ----- 1 slot ---> |  forward.rs     sftp.rs pumps    |---> server
 | event watcher      | <---- 16 slots -- |  serve() tasks  (2 threads' I/O) |
 |                    |                   +-------------------|--------------+
 | SftpClient handle  |  Request          +-------------------v--------------+
 | transfer watcher   | ----------------> | client.rs driver                 |
 |                    | <---------------- | transfer.rs queue -> download,   |
 +--------------------+   TransferEvent   |   upload, tree executors         |
   | save, rename        background tasks +----------------------------------+
   v
 hosts.json  vault.json  settings.json  snippets.json  ~/.ssh/known_hosts  ~/.ssh/* keys
```

The connection `Handle` sits behind one tokio mutex. Opening a channel (a bridged connection,
the SFTP subsystem), `tcpip_forward`, `cancel_tcpip_forward` and the last `disconnect` all take
it, and hold it across their await on the server. The files are read at the start and written
whole; only `known_hosts` is read again, by every session that checks a key.

| component | state it keeps | operations | what is hard | what makes it correct |
|---|---|---|---|---|
| SFTP transfer queue (`sshdeck-sftp/src/transfer.rs`) | the map of entries, the job and event channels | `enqueue`, `cancel`, `close`; workers `start`, `progress`, `finish` | N workers, callers and cancels interleave around one lock; events are emitted outside it; the event channel fills | one runner per transfer; a granted cancel is its end; nothing is forgotten; close drains |
| Resumable downloads (`client.rs` `download_file`, `partial.rs`) | the local partial, the sidecar, the remote file, the token | decide, create or open, seek, read/write loop, settle | a drop at any await; the remote file changes; clean-up fails half-way | the sidecar never lies; Complete means whole; what is left was told |
| Uploads and recursive transfers (`tree.rs`, `client.rs`) | the stack of directories, the file being copied, what failed | walk, make directories, copy files, clean up, retry | depth limit, links, unsafe names, a cancel between any two steps | Complete copied the plain tree; leftovers are told; the walk ends |
| SSH session (`sshdeck-core/src/session.rs`) | the phase, the hop, the exit status, both channels, the handle's lock | connect directly or through a chain, verify, authenticate, drive, resize, input, forward, SFTP, close, drop | `select!` over commands and channel messages, both channels full, the server's order of Eof/Close/status | hops are trusted in order; output and status are kept; events come in order; dropping the handle ends the thread |
| Port forwards (`forward.rs`, handler in `session.rs`) | one task per forward, the route table, listeners here and at the server | start, stop, drop, accept, bridge, route; parse specs; SOCKS5 | the server listens before the route exists; stop at any stage; the shared lock | each connection reaches its own target; nothing is left behind; Stop ends it |
| SFTP channel and driver (`client.rs`, `sshdeck-core/src/sftp.rs`, `stream.rs`) | the request channel, the subsystem channel and its pumps, the open timeout | open, answer, run transfers, shut down | the timeout strikes anywhere; either end closes first; tasks end by ownership only | the opening ends; the pane holds its own client; an end of file reaches the reader; commands are answered |
| Telnet (`sshdeck-telnet`) | options, the undecoded rest, two threads | negotiate, decode, session | IAC split across reads, negotiation loops | decoding does not depend on the cuts; two peers fall silent; the end comes last |
| Mosh, local shell (`sshdeck-mosh`, `local_session.rs`) | a child process, pty threads | find, call, spawn, read, write, resize, kill | the child's end against the end of its output | output before the end; the end is told; a name cannot become an option |
| Paths, listings, jump chains, inventory (`path.rs`, `listing.rs`, `jump.rs`, `sshdeck-core/src/lib.rs`) | none, or the inventory | join, sort, resolve, insert, remove | `..`, cycles, ids given again | agreement with a reference definition; no repeated host |
| Vault, hosts, settings, snippets (`sshdeck-vault`, `-config`, `-snippets`, `main.rs`) | one file each, and its copy in memory | set, get, save (temporary file, rename), migrate, expand | a crash or a failed save between two files | no typed password in `hosts.json`; what was saved is found again; records read as they were set |
| Known hosts, keys (`known_hosts.rs`, `keys_pane.rs`) | `known_hosts`, the key files, the pane's lists | verify, learn, replace, generate, import, remove | a rewrite that is read half-way; background operations in any order | no key is accepted that nobody vouched for; the lists are whole |
| Terminal, certificates, autocomplete, imports | buffers and parsed data | sequential | boundaries | agreement with a reference definition |
| Application (`main.rs`, panes, `palette.rs`) | sessions, tabs, tiles, the panes and what they are attached to | open, close, tile, drag, focus, attach, detach, watch | indexes that shift when a session closes; answers that outlive what they were for | indexes live; a pane shows its own attachment; loading ends |

The hazards, each at its line with the properties that cover it, are in `PROJECT.json`.

## 2. Plan, and how far it got

The order follows the weight of the behaviour: what loses the user's data first, then what
hangs, then the interface.

1. Done, with proofs: `TransferQueue` implementing `TransferLifecycle`, the refinement included.
2. Done, with proofs: `ResumableDownload`; `TreeTransfer`.
3. Done, with proofs: `SshSession` implementing `SessionLifecycle`; `ThreadSession` (Telnet, Mosh, local shell).
4. Done: `PortForward`, with proofs; `ForwardSpec`.
5. Done, with proofs: `SftpChannel`.
6. Done, with proofs: `Workspace` (sessions, tiles and the panes that follow them) and `Stores`.
7. Done, with proofs: `VaultFile`, `KnownHosts` and `KeysPane` over it, `SnippetsPane`, `Settings`.
8. Done, with proofs: the panes' states `SftpPane`, `LocalBrowser`, `ForwardPane`, `TerminalPane`, `HostDrawer`.
9. Done: the pure algorithms (section 3.5); with proofs: the streams and the paths.

Worth doing next: `Workspace` and `SftpPane` in one instance,
so that a client's lateness and a listing's lateness meet; the write buffer of `stream.rs`.

## 3. The modules and the code

`MC*` modules give constants small values; a `.cfg` is named after its module and its run.

### 3.1 Transfers

**TransferQueue** (`transfer.rs`). One action is one lock region, one channel operation or one
await; what a task can see between two of them is a state. A caller is `idle -> emit -> send ->
queued | refused`, a worker `recv -> announce -> execute <-> tick -> [flush ->] end -> recv`, the
awaits of `run_one`. `entries` is the map: `absent` and `removed` are keys it does not hold, which
the code cannot tell apart and the properties must. `cancel()` of a queued transfer is two steps,
the lock region (`CancelQueued`) and the event (`CancelEmit`). `view`, `promised` and `accepted`
are history variables. The executor may report any count and return any outcome, except that it
returns Cancelled only if its token was set. **TransferLifecycle** is the promise to the client.

**ResumableDownload** (`download_file`, `partial.rs`). The steps are the system calls and awaits. A
file is a sequence of chunks, each the version of the remote file it came from or a hole. A local
file is named by the attempt that created it (its inode): truncating and removing the name are
different, and an open handle keeps writing to a file whose name is gone. `Cancel` falls between
any two steps; `Abort` drops every running attempt where it is; `UserDeletes` removes the partial but
not the sidecar; the server may offer another version at each open, of the same length too. The clean-up is
best effort, as in the code: `ClearSidecar` and `SettleRemoved` may leave what they should remove and say that it
is gone all the same. Attempts at one local file may run at once. Two histories say what an attempt's
marks are worth: `stale`, the sidecar that a decision could not clear and that now lies beside a truncated file, and
`misled`, the attempts that resumed by such a sidecar or ran beside another, and those that go on from what they left.

**TreeTransfer** (`tree.rs`, `upload_file` and the tree executors of `client.rs`). The walk over a source tree
with links, devices, names with `..` or a slash, and a directory that contains itself; each file's copy as
open, pieces, close and settle; a cancel or a failure at any of them; clean-up, which may fail in either direction (a
download says Removed of what it could not remove, an upload marks what it could not, `mark`); a retry over what the last
attempt left.

### 3.2 Connections

**SshSession** (`session.rs`). `thread.pc` is the place in `run_session`/`run_chain_inner`/`drive`;
`out` holds the events the thread has to emit before it goes on, so that `emit().await` on a full channel
parks the thread where the code parks it. `drive` is `TakeCommand` and `TakeMessage`, the branches of the
`select!`. Input waits inside its branch for the server's window (`WriteInput`, `Widen`), and meanwhile neither
branch is looked at. A runtime that cannot be built ends the thread with Error alone (`Started`). A forward or SFTP
command spawns a task that takes the handle's lock (`TakeLock`) and holds it
until the server has answered; `Disconnect` needs the lock too. The server sends data, a status or a
signal, an end of file and a close in any order the protocol allows, and need not answer anything. **SessionLifecycle** is the promise to
the interface: the order of events.

**ThreadSession** (`sshdeck-telnet/src/session.rs`, `sshdeck-mosh/src/session.rs`, `local_session.rs`). The
three sessions on two plain threads: a supervisor serves the bounded command queue and writes, a reader fills
the bounded event queue, the caller holds a handle whose drop asks for the end. `kind` selects how the end is
found and told; that is where they differ.

**PortForward** (`forward.rs`, `server_channel_open_forwarded_tcpip`). `pc` is the place in `serve()` of
each forward. The lock is explicit for the global requests (`AskServer .. ServerAnswers`, `CancelForward ..
ServerCancels`) and for each local connection, which holds it until the server has opened a channel for it
(`OpenDirect .. DirectAnswered`); accepting may fail and ends the forward. The server listens (`bound`) from its answer on, before `InsertRoute`; it reports a
connection with the address it was given or a canonical one (`Wildcard`), and may refuse to listen or to
cancel. `Resolve` is `resolve()`: exact, else the one route on that port.

**SftpChannel** (`sshdeck-core/src/sftp.rs`, `connect_with` and `run_driver` in `client.rs`,
`reconcile_sftp` in `main.rs`). An element of `Clients` is one attempt to attach the pane. `StreamHeld` and
`InUse` say who owns the ends of the byte channels: ends of tasks are decided by ownership, since nobody
joins or aborts anything. A channel of async-channel keeps what is queued until its last sender and last
receiver are gone; what a queued value owns lives as long.

### 3.3 The window and its panes

**Workspace** (`main.rs`). The list of sessions, the surface shown, the tiles as a sequence of leaves, focus,
drags, tabs, and the SFTP and forwarding panes that follow the focused session (`reconcile_sftp`,
`reconcile_forward`). Everything in the window names a session by its *index*; the model gives each session an
identity as well, so that a property can say which one an index ought to mean. The actions are the handlers,
each with the calls it makes to the two reconcile functions and no others. **WorkspaceTree** is the tree of
splits and leaves as the code keeps it; `algorithms` compares its functions with the flat ones.

**SftpPane** (remote half), **LocalBrowser** (local half; both `sftp_pane.rs`). A load is an element of `loads`
with the client, the directory and the generation it was asked under; an answer is applied as the code applies it
(`LatestOnly`). The picked row is an index, as in the code. The pane is driven only through what it draws: the
browser, the connecting screen, the host picker or the empty screen. `past` and `localPast` are the histories;
transfers' rows are kept to the newest and fed by a watcher per client.

**ForwardPane** (`forward_pane.rs`): attachment, rows, events that arrive late, stops. A row holds the only handle of its
forward, and the handle the only sender of its commands, so that a row that goes ends its forward (`ToldToStop`). **TerminalPane**
(`terminal.rs`): scroll offset, find box, selection, the blink timer of the cursor. **HostDrawer** (the hosts screen of
`main.rs`): boxes that commit as they are typed in, over a selection and an inventory that change under them.
**SnippetsPane** (`snippets_pane.rs`), **Settings** (`settings.rs`, `-config`, the sidebar), **KeysPane**
(`keys_pane.rs`, over **KnownHosts**); the command palette (`palette.rs`) is in **CommandLine**. An operation of the keys pane
may fail at each of its steps, and one that fails ends without a reload; `unread` records that the file was written since the pane
read it.

### 3.4 What is on disk

**Stores** (`main.rs`, `-config`, `-vault`): `hosts.json` and the vault's entries, each handler's changes in memory
and then its saves, one after the other; either may fail and the program may die in between; the keys pane's rename of
a username works on a copy of its own in another thread. `unsaved` records the hosts whose password is in the open vault only. **VaultFile** (`sshdeck-vault/src/lib.rs`): the file, its
salt and key, the keychain's entry, the steps of a save. Cryptography is symbolic: a sealed record is the key, the id
and the value it was made of. **KnownHosts** (`known_hosts.rs`): the file is rewritten in place, so that a session may
read it empty or cut in the middle of a line (`Cut`), and a crash or a failed write may leave it so (`torn`); reading it, rewriting it and
appending to it may each fail, in an idle window too.

**Desk** composes ten parts: `Stores`, `VaultFile`, `HostDrawer`, `KeysPane`, both halves of the SFTP pane, `ForwardPane`,
`TerminalPane`, `SnippetsPane` and `Settings`. They share no state, and a behaviour of the desk is a behaviour of one of them.
It declares the constants of all parts with the assumptions their theorems need, and states the properties of the whole; `MCDesk` gives the
constants values.

### 3.5 Pure algorithms

Each is a set of operators on short sequences, checked by `MCAlgorithms` over every input of a small grammar against a
reference definition that is written differently (a set comprehension where the code loops, a round trip where the
code parses and prints).

| module | code | reference |
|---|---|---|
| `Streams` | `sshdeck-telnet/src/protocol.rs`, with the SOCKS5 part of `ForwardSpec` | the same whole as cut; two peers fall silent; proved for every input (section 6) |
| `ForwardSpec` | `forward.rs`: specs and SOCKS5 | what is shown parses to itself; chunks do not matter |
| `RemotePaths` | `path.rs`, `listing.rs` | what is joined leads where its parts lead, and not out of the base, proved for every path (section 6); a listing's order is that of its entries |
| `HostRecords` | `jump.rs`, `sshdeck-import/src/*.rs`, `sshdeck-certificates/src/lib.rs` | a jump spec reads back; hops are distinct, in order and bounded; an imported block's options stay in it; no secret is imported; a certificate's wildcards, validity and principals |
| `TerminalGrid` | `sshdeck-terminal/src/lib.rs`, `terminal.rs` | two keys never send the same bytes; a paste has one Return per line; rows drawn whole; a drag copies what it covers; matches; pointers; the size the shell is told |
| `CommandLine` | `main.rs`, `-core/src/lib.rs`, `sshdeck-autocomplete/src/lib.rs`, `palette.rs`, `sshdeck-mosh/src/binary.rs`, `invocation.rs` | candidates fit the word they replace; what the palette runs is what it shows, in a fixed ranking; arguments, quick connect, new ids; mosh: the first directory, the version of the first token that is one, arguments that read back and none of which becomes an option |
| `WorkspaceTree` | `main.rs` | agrees with the flat tiling of `Workspace` |
| `PaneTexts` | `sftp_pane.rs`, `keys_pane.rs`, `logs_pane.rs`, `snippets_pane.rs`, `sshdeck-snippets/src/lib.rs` | sorting, filters, sizes, dates, modes, trails, identities, the log; a template's expansion and field lists |

## 4. Runs

| run | instance | question | distinct states |
|---|---|---|---|
| `queue` | 2 transfers, 2 workers, 1 event slot, counts 0..2 | `OneRunner`, `NoTransferForgotten`, `CancelWins`, `FinalTickShown`, `Lifecycle` (refinement), `EveryJobEnds`, `WorkersExit` | 273 000 |
| `downloads` | 3 attempts, two at a time, two remote files, one of which is replaced by a longer version or by one of its size | `SidecarTruthful`, `CompleteIsWhole`, `PartialsAreSettled`: is what is on disk what the sidecar says, and is what an attempt says of its partial so, whatever of the clean-up failed | 4 313 000 |
| `session` | 2 hops, 2 tries, 1 command slot, 1 event slot, 2 messages in flight, 1 task, 2 chunks | `HopsInOrder`, `EndIsFaithful` (output and status are complete in the end that is told), `Lifecycle` (refinement), `DropEndsThread`, `EndIsTold` | 752 000 |
| `forwards` | 2 forwards of either kind on one port of two addresses | `UpIsReached` (a remote forward that is up has its channels, and nobody else has), `NothingLeftBehind`, `StopEnds` | 147 000 |
| `sftp_attach` | 2 attempts, a buffer of 1 | `OneClient`, `OpeningEnds`, `EofReachesReader`, `CommandsAnswered` | 101 000 |
| `threads` | all three kinds, 1 slot each way, 2 outputs, 2 inputs | `OutputThenEnd`, `DropEnds`, `EndIsTold` | 29 000 |
| `tree` | two trees (one contains itself), depth 2, 2 attempts, three states of the destination | `TreeArrives`, `LeftoversAreTold`, `WalkEnds` | 6 200 |
| `algorithms` | every input of each grammar; paths of up to three components under two working directories | `InputsMeanTheSame` (streams and paths), `TextsReadBack`, `ResolutionIsSound` | 175 000 |
| `workspace` | 3 sessions in one life of the window | `IndexesLive`, `ClientIsOfItsSession`, `ForwardsFollowFocus`, `TilesKeepTheirSessions` | 185 000 |
| `desk` | one part at a time of ten | `TypedStaysOutOfHosts`, `StoresSurvive`, `KeysAreVouched`, `PanesShowTheirOwn`, `PanesSettle` | 493 000 |
| `workspace_close_pane` | 3 sessions | does a tile's close button close that tile's sessions and no other | violated |
| `forward_reattached` | 2 sessions, 1 forward at a time | does a forward go on when its handle is dropped | violated |

The three invariants of `algorithms` and the last four of `desk` are conjunctions of named parts, one or two for each
module; each part is a definition with a comment of its own.

Each property of a passing run has at least one mutant in `PROJECT.json`: a definition of the model changed as a
plausible mistake in the code would, under which the run reports the property violated. The mutated forms stand
before the definitions they replace and are marked "Mutant".

### Bounds, and why they are enough

* *Capacities are 1.* A channel of one slot is full whenever it holds anything, so each `await` on a full channel
  and each refused `try_send` happens; larger channels only postpone it.
* *Two workers, two transfers.* Races are between two parties for one entry, and a second transfer is needed to
  fill the event channel from elsewhere (`OneRunner` and `CancelWins` are proved for any number). `MaxDone = 2`: a
  second count makes a tick overtake a refused one.
* *Three download attempts*: one leaves a partial, the second resumes it and stops again, the third resumes or
  starts fresh. Files of two and three chunks leave room for a partial of 1, of 2, and one that is longer than the
  other version; one version has the size of another, which only chance tells apart. `MaxActive` is 2, the number of workers
  of a session's runtime; `Explored` of `MCResumableDownload` lets two attempts run side by side while they are the first, so that the third goes on from
  what they left, and takes one version of each file for them.
* *Two hops*: the first hop and one reached through another; `MaxTries = 2`: a try that may be repeated and one
  that may not. `MaxData`, `MaxInput`, `MaxConns`, `MaxOutput` bound the number of chunks, keystrokes and pending
  connections.
* *Two forwards* on one port of two addresses, the case in which `resolve()` has to choose: routes interact in pairs. *Two attempts to attach*: one that is superseded and one that supersedes.
* *The trees* have a file before and after a directory, and every kind of entry the walk skips; two attempts are a
  failure and its retry.
* *Three sessions* (`workspace`): one before and one after the one that is closed. The constraint `Explored` of
  `MCWorkspace` explores tilings and drags before either pane exists, and each pane without the other under a tiling of
  one tile. The parts meet only through the sessions, the surface and the focus, and the theorems about the panes
  are proved without it.
* *The desk's parts* share no state, so that each behaviour is one of its parts. `Explored` of `MCDesk` lists what is not
  combined within a part, with the reason: sessions and clients that are alike are taken in order; two hosts (as copies and
  reused ids need) go with one username, and the rename, which is about usernames, with one host; failures and crashes are
  combined with either, not with both; rows of transfers are explored while the pane does nothing but attach and detach.
  The numbers `MaxFailures`, `MaxStarts`, `MaxTasks`, `MaxLoads`, `MaxTransfers`, `MaxPlaces`, `MaxForwards`, `MaxFailed`,
  `MaxFresh`, `MaxHosts`, `MaxKept`, `MaxMatches`, `MaxKeys` bound how often a thing happens. What goes
  wrong in a pane takes two of it: an answer that is late and the one it is late for, a row and the row that evicts it, a save
  that failed and the next start.
* *Grammars* (`algorithms`): each alphabet has one character for each class the code tells apart and each length
  is such that every branch of the algorithm is taken, which the mutants confirm. A subnegotiation holds one byte, two commands are in flight,
  and the turns of a negotiation are those that `NegotiationEnds` names, three for each command and two for each option; section 6 has any.

### Fairness

* `TransferQueue`: weak fairness of each caller's, canceller's and worker's steps (tokio polls a task that is ready),
  of the executor returning, and of the consumer while it holds its receiver. Nobody has to enqueue, cancel or close.
* `SshSession`: weak fairness of the thread's own steps and of the consumer; strong fairness of
  `TakeCommand`, because `select!` picks at random among ready branches and so cannot starve one, and of `Disconnect`,
  because the tokio mutex is fair. The server owes nothing: it need not answer a dial, a request or a channel, widen its window or
  close. No timeout of the code ends such a wait, so that `DropEndsThread` exempts a behaviour in which the thread waits for the server for ever
  (`Owed`); section 5 shows that the exemption is needed.
* `PortForward`: strong fairness of each task's own steps, since the mutex is fair and a sender that waits for a slot is woken in
  turn; weak fairness of the watcher. The server owes nothing: `StopEnds` exempts the behaviours in which it leaves a request on the connection
  unanswered for ever. Nobody has to stop a forward.
* `SftpChannel`: weak fairness of each task, of the timer, and of russh-sftp giving up on a handshake or a command; none
  for the server, which need not answer, send or close.
* `ThreadSession`: weak fairness of each of the two threads, of the interface's watcher, and of the end of a child that was
  killed. The peer need not write, answer or end.
* `TreeTransfer`: weak fairness of the executor's next step, whose calls return. Nobody has to cancel or to retry.
* `SftpPane`, `ForwardPane`: weak fairness of the answers to loads and attempts (a load ends with its client's answer
  or its error), of the end of a forward that was told to stop and of its events. The user need not do anything.
* `TerminalPane`: weak fairness of the frame that draws a changed pane and of the timer. Windows need not become active.

## 5. Disagreements

Two are runs that expect a violation, with the sentence they contradict quoted in `PROJECT.json`:

1. **A tile's close button** (`main.rs:8724`) walks the session indexes it captured when it was drawn; after the first close
   the next may name a session of another tile, or none (`workspace_close_pane`).
2. **The forwarding pane attached again** (`forward_pane.rs:323`) to the session it has, as on every notification of a
   terminal, drops its rows, and with them the only senders of their forwards' commands; the forwards take that for a Stop
   (`forward.rs:413`, 469, 525), although "dropping this handle does not stop the forward" (`forward.rs:83`) (`forward_reattached`).

The rest is recorded here. "Stated" means that the property is defined in the module named and fails under the instance
given; the others were met while reading.

### Transfers
* Stated in `ResumableDownload`: `CompleteIsOpened` fails with files of equal length, as `resume_decision` compares size and
  path only (`partial.rs:75`; `partial.rs:5` promises that the result is not "silently corrupt"). What does hold is that such a mixture is of versions of
  one path and size (`CompleteIsWhole`).
* Stated: `ResumeClaimsOnlyWrittenBytes` fails: two downloads into one path, one truncates under the
  other, whose next write leaves a hole that a later resume counts (`partial.rs:87`).
* Stated: `CancelledTellsWhatIsLeft` fails: a token set while the last read is awaited ends as a bare Cancelled though
  the file is whole (`client.rs:744`, against `transfer.rs:127`).
* Stated: `RemovedIsGone` fails: the error of `remove_file` is ignored and Removed is told all the same (`client.rs:763`, against
  `transfer.rs:132`).
* Stated in `TreeTransfer`: `FailedUploadIsGone` fails: an upload whose `close()` fails leaves the remote file, although
  `client.rs:618` says that it is removed. A cancel between
  the check of an entry and the open truncates and then deletes a remote file that was there. A retried upload that is
  cancelled removes a file that was whole before.
* A transfer whose job `close()` refuses was announced before: its row stays Queued for ever.

### Connections
* Stated in `PortForward`: `RightTarget` fails with two remote forwards on one port of two addresses (`forward.rs:683`): while one has no route, because the
  server listens before the route is inserted (517) or goes on after it was removed (533), the channels opened for it are piped to the target of the
  other, though `session.rs:466` says "reject anything we did not ask for". `UpIsReached` is what does hold.
* Stated in `SshSession`: `NoThreadLeaks` fails: a thread that waits for the server, for its window (`session.rs:697`), for an answer to what it dials or asks for, or at
  the end for a lock that is held until an answer (737), never looks at the closed channel of commands, and nothing ends the wait, although "do not leak
  the connection thread when the UI discards the handle" (385).
* Stated in `SshSession`: `ExitStatusReported` fails: a status after the end of file is never read (`session.rs:729`).
* Stated in `SftpChannel`: `RefusalReachesCaller` fails: `serve()` returns on a refusal before it takes the driver's job
  out of the queue, which `connect_with` keeps alive, so that the caller waits for ever (`sftp.rs:149`). `DroppedClientCloses`
  fails: nobody calls `TransferQueue::close()`, and idle workers keep the protocol session (`client.rs:361`); each attach adds one.
* Stated in `ThreadSession`: `EndAlwaysTold` fails, the end being a `try_send` a full queue refuses (telnet `session.rs:244`, mosh
  `session.rs:356`); `DroppedThreadsEnd` fails, the telnet reader being parked where no drop wakes it (telnet `session.rs:150`) and
  so is mosh's (`session.rs:243`). Malformed telnet input ends the reader and leaves the socket open; NAWS is sent whether
  or not it was agreed; a byte 255 that the user types is not escaped; reader and writer both call `write_all` on one socket.
* `serve()` sends Stopped after Failed (`forward.rs:375`), so that the pane's reason and red marker (`forward_pane.rs:186`)
  are overwritten at once. When a remote forward is stopped and started again on the same socket, the old task's `remove_route`
  takes out the new one's route. SOCKS bytes sent together with a CONNECT are dropped; the constant `REPLY_GENERAL_FAILURE` is 5, which is
  "connection refused".
* `run_headless` (`main.rs:642`) exits 0 when Closed carries no status.

### The window
* Moving the last tab of a pane to another does not renumber the target when its own pane goes (`main.rs:1129` promises `(to_pane, to_pos)`); a target
  beyond the shrunken tree loses the tab. Closing an earlier tab clamps `active`, so that a tile shows another of its sessions.
* `leaves.get(workspace_focus)` is read as a tab's index in two places (3338, 3629). `select_left_nav` and `handle_new_tab` do
  not reconcile the panes, contrary to 3641; a failed attach is tried again at every notification, contrary to 3704;
  switching a tile's tab, focusing it or maximising it does not reconcile the forwards; broadcast also sends from a session
  that is not tiled to tiles that are hidden. `set_workspace_chrome` is only ever called with false, so that the tiles'
  header actions are unreachable; `open_keys` (3141) is never called.
* "Choosing a command closes the palette, whatever its outcome" (3759), but the theme toggle leaves it open (`palette.rs:577`);
  the shortcut that closes a tab closes an overlay behind an open palette first (2232).
* *Hosts' drawer.* `commit_details_port` (2482) says that the empty text does not parse and is ignored; `parse_port("")` is 22 (461),
  so clearing the box writes 22, and each prefix of a port is committed as it is typed. "Filter by tags" alternates between the first
  two tags. After Collapse the boxes keep their texts, so that selecting the same host again may show an address or a
  port that it does not have. A host that the filter hides stays selected and connectable.
* *SFTP pane.* A load in flight at a detach fills the detached pane. Changing the order, or a listing that arrives after a
  click, keeps the picked *index*, so that Download may take another entry. A failed navigation leaves the history's place
  wrong; a failed local one is silent. An evicted transfer's event brings its row back; a detached client's upload shows its result
  in the new pane. A failed transfer hides the listing until Retry. Closing while connecting does not stop the attempt.
  `set_available_hosts`, `set_on_connect` and `set_remote_host_label` are never called by `main.rs`: the picker always says that
  there are no hosts.
* *Forwarding pane.* "`New forwarding` is disabled without a session" (452): it is not, only the form's Add is. A start in flight
  puts its row under the next session, or in a pane without one (stated in `ForwardPane`: `DetachedShowsNothing` fails); a Listening that comes late turns a stopped row back; a start that fails after the form was closed
  keeps its error hidden; the forwards of a session that ended send no Stopped.
* *Terminal.* A resize that a full command queue refuses is recorded as sent (1033, 1269), and `sync_size` on Connected therefore
  never sends (994 says it does). `coalesce_row` gives cells that were never written no width, so that what follows a gap
  slides left within its run (581 says blanks keep their width); copies and searches drop the gap too. The selection is kept when output
  moves under it (1515). Keys are encoded without the application-cursor mode (`sshdeck-terminal/src/lib.rs:336`), and pastes
  without `encode_paste`.
* *Snippets.* Saving an edit keeps the expansion of the version before it, and Run sends that; a label whose id is another
  snippet's replaces it; "Save snippet" from the history keeps the tags and variables of an earlier edit; the sidebar's Run sends the
  template unexpanded; two slices at a byte number (134, 1601) may fall inside a character.

### Files
* Stated in `Stores`: `TypedIsSealed` fails: a password typed in the drawer of a host that logs in with a key goes into the open vault and is not
  saved (`commit_details_password` returns before `vault.save()`, 2579-2583), while "a non-empty value is sealed into the encrypted vault"
  (`main.rs:2533`). A copy of the host that uses a password refers to that record, and works until the restart.
* Stated in `Stores`: `MigrationTakesNoId` fails: a duplicated host keeps the reference `login:<original>` (5896, against 1788), so
  the copy and the original share one secret. The migration ignores a failed save of the vault, which loses the old password if
  that save alone fails. A `hosts.json` that cannot be read becomes an empty inventory, which the next save writes over it.
  Removing a host leaves its secret, and its id is given again. A password host whose secret is missing is shown as Agent
  (2392).
* *Vault.* A wrong passphrase opens the vault, and only `get` fails; a `set` and `save` then mix records of two keys. Two first starts at
  once may each draw a master secret, of which the keychain keeps one (443). A lost keychain entry makes the vault unreadable for good.
  "Atomically" holds for one process: two share one `json.tmp`. An older record of the same id is accepted.
* *known_hosts.* The rewrite truncates in place; what the user's own `ssh` appends meanwhile is lost, or leaves two keys of which
  both are refused. `trust_changed` drops the keys of every algorithm, and lines shared with other hosts. A rewrite that fails
  half-way loses what was not yet written, other hosts' keys too, and nothing tells which.
* *Keys pane.* A key whose name begins with a dot vanishes at the next reload (2415, 2666); past 9 999 numbers a name is overwritten; a
  replacement that fails after the rewrite leaves the list stale; a key is written before its permissions are restricted
  (`keys.rs:79`) and stays if that fails. The identity screen is reset in each frame (4895). The button "Import known_hosts file"
  opens the import of keys, which is drawn in the other section.
* *Settings.* An unreadable file loads as defaults and is overwritten by the next change; failed saves are silent.

### Texts
* `path.rs:5` ("a configured base directory cannot be escaped") against a base ".", which accepts any absolute child, or one that
  begins with "..", which accepts more of them; `PathsStayInside` and its theorem leave out these two; cycles through the hops of a comma list are not looked for (`jump.rs:19`); "an IPv6
  host must be bracketed" (`jump.rs`, near 91) cannot be reached, because the port's error comes first; QuickConnect takes the last group of an
  IPv6 address for a port; completion looks only before the cursor; a proxy that is not a string is not reported
  (`termius.rs:31`); the trail of a relative path becomes absolute; lines of `@cert-authority` are listed as ordinary keys.

## 6. Proofs

`TransferQueueProofs` proves, for every set of transfers and workers, every capacity of at least 1 and every byte
bound (the three named assumptions of `TransferQueue`, and no others): `TypeCorrect` (`Spec => []TypeOK`, the bound on the
event channel included), `GrantedCancelWins` (`Spec => []CancelWins`), `OneRunnerAlways` (`Spec => []OneRunner`), `NothingForgotten`
(`Spec => []NoTransferForgotten`), `FinalTickAlwaysShown` (`Spec => FinalTickShown`) and the refinement `QueueImplementsLifecycle`
(`Spec => Lifecycle`).

`TypeOK` needs "a worker that is busy holds a transfer". `CancelWins` is not inductive: `finish()` keeps it because every
granted cancellation set the flag of its entry, and a later `cancel()` because an entry that was removed stays removed.
`QueueInv` is the conjunction of `TypeOK`, what each worker holds at each step (`WorkerInv`), what each entry says
(`EntryInv`) and "an end other than Cancelled, once sent or shown, is the end of a transfer that is gone and whose cancellation
was never granted" (`EventInv`). It is inductive one conjunct at a time (`TypeStep`, `EntryStep`, `WorkerInvStep`, `EventStep`).
`OneRunner` needs two more facts: no transfer is in the job channel twice, nor there while it is held or not yet sent
(`JobInv`), and what is moved has a Running entry and a worker of its own (`RunnerInv`).

`Lifecycle` and `FinalTickShown` speak of the row a client is shown, which is up to `Capacity` events behind. `ShownInv` follows each
transfer through the channel. `SideInv` says what the entry, the counts and the flags stand for (nothing is sent of a transfer
before its Queued event, `accepted` is what the worker counts, an end is sent only of a settled transfer). `TrailInv` says
that there is a report `last[t]` of each transfer such that the row, its events in the channel in their order and `last[t]` are
each allowed after the one before (`Trail`), and that `last[t]` is what the entry and the worker now stand for (`Stage`). An end is
allowed only after the last count accepted, which is what makes `undelivered` necessary: without the flush, `Stage` fails for
the worker that goes to its end. Sending extends the trail at one end, the consumer shortens it at the other (`TrailSends`,
`TrailConsumes`), and every other step keeps it (`TrailSame`).

`SshSessionProofs` proves, for a chain of any length and any capacity of the queues, `HopsAlwaysInOrder` (`Spec => []HopsInOrder`) and the
refinement `LifecycleKept` (`Spec => Lifecycle`: the interface is shown the hops in order, one Connected, and nothing after the
end). The invariant is of the same shape: what was shown, what waits in the channel and what the thread still has to emit form a
path through `SessionLifecycle` that ends at the stage the thread's `pc` stands for.

`EndAlwaysFaithful` (`Spec => []EndIsFaithful`) is of the same module and has an invariant of its own, `EndInv`, about what the
server sent: the bytes heard, queued, about to be emitted and still in the inbox add up to what was sent, as long as the thread
reads (`OutputInv`); while the server's end of file is on its way it is in the inbox with no data behind it (`EofAhead`), so
that the thread that meets it has met all data; the status is in the inbox before the end of file or was read (`StatusInv`).
The sums rest on lemmas about counting in a sequence (`CountTail`, `CountAppend`). It assumes that `None` is not one of the
ways to exit.

`ResumableDownloadProofs` proves `SidecarAlwaysTruthful` (`Spec => []SidecarTruthful`), `CompleteAlwaysWhole` (`Spec => []CompleteIsWhole`)
and `PartialsAlwaysSettled` (`Spec => PartialsAreSettled`), for any number of attempts, side by side too, of remote paths, versions and
lengths, whatever of the clean-up fails, and without a hypothesis beyond the constants' assumptions. The properties say what may then
be mixed: versions that neither path nor size tells apart (`Alike`); and they exempt what the code does not guard against, the attempts that
another one misled and what those leave (section 5). The invariant `DownloadInv` has four parts. `Types` is all that is known of a misled attempt.
`Alone`: an attempt that is not misled is the only one that runs. `Stage` follows that one: from its decision on, the sidecar is stale, absent or names what it
reads, and from the first byte on the local file continues that version behind the chunks it resumed from (`Follows`), up to the chunks counted
or one more, which is the failed write that reached the disk.
`Truth` carries this from one attempt to the next: a sidecar that is not stale holds a file of versions it stands for (`Holds`, `Named`).
`NoneAssumption` says that `None` is neither an attempt, a version nor a sidecar.

`PortForwardProofs` proves, for any finite set of forwards, whatever their addresses and ports, any capacity and any bound on the
connections, `TypesKept` (`Spec => []TypeOK`), `NothingEverLeftBehind` (`Spec => []NothingLeftBehind`) and `UpIsAlwaysReached` (`Spec => []UpIsReached`).
`ForwardInv` says at which steps of its task a forward may be in the route table, hold the lock or listen here, and that no two
routes are on one socket; `UpInv`, that the route of a forward which nobody shares its socket with stays from its insertion until its own task takes
it out. Then `resolve()` finds it under the address it asked for, and finds no other on its port under an address that no route has: two routes there are one
too many, and one is its own. Ports may be shared; what goes wrong then is about forwards that have no route (section 5).

`SftpProofs` proves, for any set of attempts and any buffer of at least one slot, `AttachTypes` (`Spec => []TypeOK`)
and `OneClientAlways` (`Spec => []OneClient`). When a connect call fails the pane forgets its attempt, and that attempt must
not hold a client: `ClientInv` says that only an attempt that was answered Ok has one; `HandleInv` says that the lock is held by
the attempt whose channel is being opened.

The same module proves of `TreeTransfer` `TreeAlwaysArrives` (`TreeSpec => []TreeArrives`) and `LeftoversAlwaysTold`
(`TreeSpec => []LeftoversAreTold`), for any set of source trees (`TreesAssumption`: a tree has the directory the walk starts from, and
lists entries in each), any destinations of directories and whole files (`KeptAssumption`), any depth limit and any number of
attempts (`BoundsAssumption`). `TreeArrives` compares the destination with the tree only at the end, when the stack is empty and says nothing of
where the walk has been. `WalkInv` keeps that: while nothing was cancelled and nothing failed, some set of directories is done with
(`DoneWith`: each is at the destination, within the depth, its directories are in the set, its files have arrived), and each entry taken from a
listing on the stack is in that set, is the next directory of the stack, or is the file about to be opened (`Taken`). A directory that is left joins the
set, and at the end the outermost one is in it, so that by induction over the levels all are. A set, and not a list of what was visited, because a
listing may name one place twice, and what is written second is what is there. `ShapeInv` says that the i-th directory of the stack is one of the
tree's, i - 1 steps down, with the rest of its own listing, and that the file's path holds a partial while it is copied;
`LeftInv`, that a partial upload is the one in hand or one the server refused to remove, and that what the row was told of a partial (`mark`) stays so, since it is
told on the way out of a cancelled walk, where nothing is opened any more. `Levels`, a recursive
function, is solved for every depth by the induction of `WorkspaceProofs`. `ProgressNeverBack` (`TreeSpec => ProgressMonotone`) is about what the row
is told: the count reported is never ahead of what is counted and copied, and an attempt never reports less than before.

`ThreadSessionProofs` proves, for any capacities of the two queues and however much is written, `TypesKept` (`Spec => []TypeOK`)
and `OutputBeforeEnd` (`Spec => OutputThenEnd`). The property compares two counters long after the reader saw the end; what is
inductive is how the end gets from one thread to the other. `Counted` says where each chunk written is; `JoinInv`, that mosh's supervisor
is past the join only when its reader is over; `NudgeInv`, that while the pane lives the local session ends only for the nudge that its
reader queued last; `EndInv`, what the reader and the peer have then done.

The rest of that module is about `Streams`: what the run `algorithms` checks of short inputs, for every input. `InputsAlwaysMeanTheSame`
(`AnyInput` implies `InputsMeanTheSame`) puts four theorems together; `AnyInput` only says that a telnet stream is a sequence of bytes, a
negotiation two codecs with any options and any sequence of commands, a SOCKS client two sequences of octets, and a path two sequences of components.
The second part is about the three streams:

* *A decoder is a run.* `FoldLeft` is a recursive function over sets of indexes, chosen by `CHOOSE`; `FoldRecursion` shows by induction that one
  exists when the step is a function, and `ScanRuns`, `DecodedRuns`, `ExchangeRuns` and `ReadsRun` turn each of the four folds into a sequence of states.
* *`AnyStreamReadsTheSame`*, for any policy (`OptionsAssumption`: finitely many options), any `MAX_SUBNEGOTIATION`, any codec and any cut. `Waits`,
  `Fault` and `Width` say what one turn does with the bytes in front of it, and `TurnIs` that it does nothing else. What is decided stays decided when more bytes
  follow (`ScanOfMore`, `TakenOfMore`), so every turn over the first part is a turn over the whole (`PrefixStep`), and where the first
  part waits the second call takes up (`AfterDecoded`: a turn does not look at what came out before). `ScanStepCounts` bounds what is kept.
* *`AnyNegotiationEnds`*. `Potential` counts three for a WILL or a DO in flight, two for a WONT or a DONT, and one for each option that a side of a
  peer may still enable. A WILL or DO is answered with another only by enabling an option, so every turn lowers it, and it begins at no more than
  the turns given.
* *`AnyClientIsAnsweredTheSame`*, for any limits that hold the longest greeting and request (`HandshakeAssumption`; the code's 512 and 4096 do). `GreetingIs` and
  `ConnectIs`: a greeting or request that is ready stays as it is when more follows, and one that is not is below the limit. So two reads are one
  read of both pieces (`TwoReadsAreOne`) but for bytes that nobody looks at again (`Alike`).

The third part is about `RemotePaths`: `AnyPathStaysInside`, for any base, child and working directory made of any components (that the path stays inside
is said of all but a base that begins with ".." and a relative base with an absolute child, where it does not), and
`PathsAlwaysStayInside`, which states the run's `PathsStayInside`, a part of `InputsMeanTheSame`. The property measures the text that `path.rs` computes against what the
path means: `Walked` follows its components one directory at a time, from the root or from where the session stands.

* `normalize()` is a fold that keeps the meaning (`CollapseStep`: the directory reached is the same after every component, although a ".."
  takes back the name before it), and keeps a form, `Normal`: names only, behind a relative path's leading "..". In that form nothing is left to
  collapse, so a second `normalize()` changes nothing (`NormalizedOnce`).
* `join()` walks the base and then the child (`CombinedIs`, `WalkInARow`), and `normalize()` loses nothing of it (`JoinLeads`).
* What `within()` accepts has, for each of its three cases, a beginning that leads where the base leads, and names behind it
  (`AcceptedIs`, `Below`). Names lead down (`GoesDown`), so the walk ends inside the base; and the beginnings that `ancestors()` keeps are those
  behind the base, one component apart (`MadeIs`), so each directory is made in the one before it.

The working directory is taken as names from the root and the server's symbolic links are not followed, as in `path.rs`, which works on text alone.

`WorkspaceProofs` proves, for any number of sessions in a life of the window, `ClientFollowsSession` (`Spec => []ClientIsOfItsSession`),
`ForwardsStayOnFocus` (`Spec => []ForwardsFollowFocus`) and `IndexesAlwaysLive` (`Spec => []IndexesLive`). The client outlives the SFTP
tab, because the new-tab shortcut and the left rail change the surface and tell no pane; it stays right because, while anything is
served, the pane's index *is* the focused index and the surface is one from which no session is added, tiled or focused without
settling the panes first. The invariant says that, and its induction step has one step per handler.

`IndexesLive` needs more than that indexes are in range. Closing a session renumbers the indexes above it in every tile and drops a tile that
is left empty, which keeps a tiling only if no session is in two tabs of it, so that `IndexInv` has that (`Loose`), "each tile shows a tab
it has" (`Tidy`), and the ranges of the focus, the drags and the surface. The first part of the module is about the tiling's operators alone:
what `Kept` keeps and in which order (`KeptPlaces`), what `Settled` leaves of a tiling, what insertion, a split and a move do, and
that `Leaves` lists each session once. `Kept` and the library's `FlattenSeq` are recursive functions; they are solved by induction over the
naturals in the form of a set that holds 0 and the next of each member (`LeastNatural`), since the library's induction theorem takes
an operator as its parameter. From there on only what they return is used.

`TilesAlwaysKeepTheirSessions` (`Spec => TilesKeepTheirSessions`) is the action property: whatever a step does to the indexes, the sessions a tile shows
stay the same ones, in their order. It needs of the invariant only that no two sessions are one (`IdentityInv`); what closing does is proved of
the operators: removing an index and renumbering those above it (`Up`) keeps the order of the tabs (`Ahead`), and the places of what is kept
determine it (`KeptUnique`).

`DeskProofs` proves, for any hosts, usernames, failures and restarts, `NoTypedPasswordInHosts` (`Spec => []TypedStaysOutOfHosts`). The
property speaks of the file only; the invariant says of the inventory in memory, of the file and of the rename's copy that all three
refer only to stable ids and to passwords of the old format.

`StoresDurable` (`Spec => []IdleIsDurable`) is of any hosts and usernames. What is typed for a host that logs in with a key is not saved (section 5), so that the
property leaves out the records of such hosts (`unsaved`) until the vault is saved for something else. Each handler changes memory and schedules saves; `Handled` says once, for all handlers, which of the two files a change
of each kind is followed by, and `DurableInv` that where memory and disk differ the save is still to come, something failed, or the record is in `unsaved`. `LegacyNeverLost`
(`Spec => []LegacyIsNotLost`) rests on `Sealed`: a record that a host refers to, in memory or in a file, is in the vault's file or is saved there before
the host is.

The same module proves, part by part and for any value of the constants, all that the run `desk` checks of safety. Each part has its
section, with its invariant:

* *`VaultFile`*, `ReadsAlwaysAuthentic` and `FileAlwaysWhole`. `SafeInv`: each record, in the file and in memory, is of a value set under its id, and
  unless records were exchanged, it is sealed with the key that the keychain's entry and the file's salt give, so that it opens
  again; what waits to be renamed is the vault in memory. Assumes that no secret is the answer "does not open".
* *`SftpPane`*, `PaneAlwaysOfItsClient`. Answers and events are told apart by numbers alone. `PaneInv`: the latest load and
  the latest watcher are the present client's; a row that an old watcher tells of can then be only one this client has.
* *`KnownHosts` and `KeysPane`*, `KeysAlwaysVouched`, of any file of whole lines (`Lined`, the assumption `FilesAssumption`). What the file records is vouched for,
  after a write that failed or died half-way too, where a cut line is no key (`StoredInv`); and what is vouched for is in the file, unless a rewrite is under way
  or one ended half-way. During a rewrite the keys kept are those of the lines that do not name the host (`RewriteInv`). With the types these are `HostsInv`.
  The numbers of the lines to drop count no comments, while the rewrite counts lines; `Ranks`, `RawOfHost` and `WithoutLines` show that
  it drops the lines meant and no others.
* *`KeysPane`*, `ListsAlwaysWhole` and `TilesAlwaysFiles`. `ListInv`: one operation is in flight at a time, and whatever it still does, its reload
  answers with the directory and the file as they are then. The known hosts shown are the file's as long as the operation has not changed it (`Untouched`), and afterwards
  unless it failed behind the change (`HostsHeld`, `unread`). That a key is never written over another needs `unique_path` to find a
  name, which it does while there are fewer keys than numbers (`Numbered`; section 5 says what happens past that):
  `UniquePathIsFree` is the pigeonhole, by an injection of the numbers into the files.
* *`SnippetsPane`*, `SnippetsAlwaysKept`, and *`Settings`*, `SettingsAlwaysKept`. A value typed outlives the selection it was typed for; `TypedInv` says that
  it is then not asked for. Each of three controls writes the whole settings from what it last read; `PrefsInv` says that what it last read is what was last asked for, and `ReadsBack` that the next read is what was written.
* *`ForwardPane`*, `ForwardsAlwaysInHand`. Events arrive after the rows were changed, so the invariant speaks of what is still queued: the last event of a
  forward is its end (`EndIsLast`), and a row that says of a forward that runs that it is over has given its handle up, which tells the forward to stop (`OverTold`). A forward
  that no row shows has lost its handle with its row. There is one row to a forward (`OneRowEach`), so the rows count those that go on.
* *`HostDrawer`*, `TypingAlwaysReachesTheSelected`. `DrawerInv`: while the boxes belong to a host, it is there and they read as it is, so that committing one that was not
  edited changes nothing. `FreshIdIsFree` shows that a new host takes no id in use.
* *`LocalBrowser`*, `PickAlwaysListed`, and *`TerminalPane`*, `ViewAlwaysOK`.

Each of these is a theorem about the part alone. `PartsStart` and `PartsMove` show that the desk's initial state is one of each part, and that each step of the desk is, for every part,
one of its steps or none. With them `StoresAlwaysSurvive`, `DeskKeysVouched` and `PanesAlwaysShowTheirOwn` state the three invariants the run checks
(`DeskSpec => []StoresSurvive`, `[]KeysAreVouched`, `[]PanesShowTheirOwn`). The assumptions are the seven that `Desk`
names (`SecretsAssumption` .. `LimitsAssumption`): texts have the kinds the code gives them, files found are of whole lines, bounds are numbers and in order,
and there are numbers enough for the keys. TLC evaluates them in the run.

All invariants were model-checked on the instance of their run before they were proved.

Only model-checked: liveness (`EveryJobEnds`, `WorkersExit`, `DropEndsThread`, `EndIsTold`, `StopEnds`, `OpeningEnds`, `EofReachesReader`,
`CommandsAnswered`, `DropEnds`, `WalkEnds`, `PanesSettle`), which the proof system cannot do under fairness, and of the pure algorithms
`TextsReadBack` and `ResolutionIsSound`, which put some thirty grammars and listings side by side, each of which would need an induction of its own.

## 7. Not modelled

* Wording, colours, icons, layout and rendering. Where a text matters (a forward's spec, a jump spec, a trail) the conversion
  is modelled by what it does.
* Cryptography, the SSH transport, the SFTP wire format, the terminal emulator and JSON, which are libraries; they are
  symbolic or external where a module needs them. Generating and parsing private keys is theirs too.
* What an SFTP command does on the server and the write buffer of `stream.rs`; the bytes of a bridged connection.
* The headless runs of the command line (`run_headless`), which are one session without a window; their argument parsing is in
  `CommandLine`.
* Loss and reordering between client and server: TCP and SSH deliver in order or break the connection, and a broken connection
  is the close the models have.
* Two processes of sshdeck at once, and other writers of its files, except where a module says so.
