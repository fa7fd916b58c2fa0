# A TLA+ model of easy-ssh

easy-ssh is an SSH client: a C++/Qt core on top of libssh, a Qt user interface
and a macOS one. This directory models what happens between the GUI thread, the
worker threads, the server, the keychain and the disk when commands,
connections, transfers, tunnels, terminals and the user's clicks meet cancels,
lost connections, restarts and each other.

| file | what it is |
| --- | --- |
| `ExecService.tla` | what the remote-command pool promises its callers (abstract) |
| `ExecPool.tla`, `MCExecPool.tla` | the pool: `SshWorker::execCommand`, `ExecIoHandler`, the I/O loop's share |
| `ExecPoolProofs.tla` | theorems about it, for every set of requests and every limit |
| `SessionTransport.tla` | connect, disconnect, reconnect, host keys, authentication: `Session`, `SshWorker`, `SshSession` |
| `FileTransfer.tla`, `MCFileTransfer.tla` | one file over SFTP with part file and job: `FsRemote`, `SftpAioTransfer`, `TransferJobStore` |
| `TreeWalk.tla` | a recursive transfer as the blocking functions carry it out (abstract) |
| `TreeTransfer.tla`, `MCTreeTransfer.tla` | the same as `FsRemote`'s work queue, tick by tick, over SFTP and SCP |
| `TransferProofs.tla` | theorems about both: files of any size, any tree |
| `Lists.tla` | `Pick`: the entries of a sequence at some positions, in their order |
| `FsService.tla` | what the file operations of a session promise the interface (abstract) |
| `RemoteFiles.tla` | a server's files, and what SFTP requests and shell commands do to them |
| `FsOperations.tla`, `MCFsOperations.tla` | the worker's queue of file operations and its SFTP and SCP handlers |
| `FsOperationsProofs.tla` | theorems about it, for any names and any number of operations |
| `FileExplorer.tla` | the file explorer as a client of `FsService` |
| `FileExplorerProofs.tla` | a theorem about it, for any directories and links |
| `TunnelBridge.tla` | one running tunnel and its byte pipes: local, remote, dynamic, agent |
| `TunnelList.tla`, `MCTunnelList.tla` | tunnel definitions, tabs, keychain, sessions and the worker's tunnel slots |
| `TunnelProofs.tla` | theorems about both, any number of bridges and items, any tabs and tunnels, and about `Connections`, for any of them |
| `Terminals.tla`, `MCTerminals.tla` | docked terminals, the session's list, the worker's channels |
| `TerminalsProofs.tla` | theorems about it, for any number of terminals |
| `Workspace.tla`, `MCWorkspace.tla` | main window: opening connections, restoring and saving the tabs |
| `SessionProofs.tla` | theorems about `SessionTransport`, for any number of workers, and `Workspace`, for any connections |
| `SshConfig.tla` | the scans of `~/.ssh/config` |
| `Connections.tla`, `MCConnections.tla` | connections and their secrets: two editors, list, keychain, open sessions |
| `Details.tla` | what a list and a detail dialog make of one service or container |
| `Explorers.tla`, `MCExplorers.tla` | explorer pages: source, table, view, detail dialog, session, host |
| `ExplorersProofs.tla` | theorems about it, for any names and any tools of the host |
| `*.cfg` | one per run |
| `PROJECT.json` | components, runs, mutants, hazards, theorems, and the source lines of each definition |

Run `tlc -workers 2 -config FileTransfer.cfg MCFileTransfer` and the like for a
run (the configuration is named after the module without its `MC`), and `tlapm
ExecPoolProofs.tla`, or the same with another `...Proofs.tla`, for the proofs. Two
modules that share a `...Proofs` module share no name either: `FileInit`, `BridgeSpec`,
`workspaceVars` and the like are what is called `Init`, `Spec`, `vars` elsewhere.

## 1. The system

### How the parts interact

Each open tab is a `Session` on the GUI thread. For every connection attempt it
makes an `SshWorker` on a `QThread` of its own. The GUI calls the worker by
*posted slots* (`QMetaObject::invokeMethod`, queued), the worker answers by
*queued signals*. The slot `connectToHost` authenticates and then stays in
`SshIoLoop::run`: it polls the registered handlers (`onIdle`), libssh's sockets
and, between two rounds, delivers the posted slots. A few calls cross the
threads directly: `requestCancel`, `respondHostKeyTrust` and `cancelTransfer`
set flags the worker reads. `cleanup()` at the end of a connection cancels all
that is left.

The widgets of the main window (file explorer, tunnel list, explorer pages) are
*bound* to the session of the active tab; what they started for another tab
answers later all the same. The keychain answers asynchronously, in order. Modal
dialogs run event loops of their own inside a handler. On disk there are the
connections, tunnels and settings (with the workspace), known_hosts, and for
interrupted transfers a job file and a `.filepart`. There are no documents beside
the README and the CHANGELOG; the tests (`src/tests/core`) are unit tests of the
core's parsers, stores and helpers and reach none of the interleavings.

### Inventory

For each component: its state, what is hard, what makes it correct, how far it is
modelled.

* **Remote command pool** (`ssh/SshWorker`, `ssh/ExecIoHandler`). State: the
  queue `m_pendingExecCommands`, the count `m_execInFlight`, one handler per
  running command. Hard: a handler finishes in one step, its slot is freed
  in a later one; a disconnect can fall between; a start may fail inside the
  refill loop. Correct: each command answered once, slots counted exactly, no
  command waits for a wake-up that does not come, no overtaking. *Modelled.*
* **Session transport** (`session/Session`). State: `m_state`, the current
  worker and thread, the auto-reconnect attempt. Hard: signals of a worker already
  replaced, nested dialogs, a GUI thread that waits for a thread that waits for
  the GUI. Correct: the state matches the worker, Connecting ends, abandoned
  threads end. *Modelled.*
* **SSH worker** (`ssh/SshWorker`): the slots and handlers of all the others, and the
  flags the GUI sets directly. *Partly*: each part with its component; typed input and
  resizing of terminals are left out.
* **SSH session and authentication, host keys** (`SshSession`, `SshAuth`,
  `SshKnownHosts`): a chain of blocking stages with a look at the cancel flag
  between them. Correct: a key is trusted by the answer to its own prompt.
  *Partly*: one gateway at most; which methods the server accepts is left open.
* **I/O loop** (`ssh/SshIoLoop`). *Partly*: as each component sees it.
* **File transfers** (`fs/FsRemote`, `SftpAioTransfer`, `ScpChunkTransfer`,
  `TransferJobStore`). State: files, part, job, running hash, flags, end reason,
  the work queue. Hard: the process or the connection dies anywhere, the source
  changes, the flag is reset by the transfer it should stop. Correct: only whole
  versions under the final name, reports that are true, trees walked entry by
  entry, nothing left for the next transfer. *Partly*: the copy of one file over SCP is
  not followed block by block.
* **File operations** (`SftpEngine`, `SftpMetaIoHandler`, `ScpMetaIoHandler`,
  `ShellCommandSet`; the queue `m_pendingFsOps`). Hard: operations that cannot
  start, a disconnect with operations queued, two sets of rules for links and
  directories, a command that runs after it was given up. Correct: answered once
  and in order, the answer is so on the server, nothing else is touched.
  *Partly*: the blocking variants, used without an I/O loop, and texts are left out.
* **Tunnels** (`tunnel/`, `gui/tunnel/`). State: bridges with socket, channel and
  a close under way; definitions, statuses, keychain reads. Hard: half-closes, a close
  posted behind data, the end of a tunnel inside a callback; statuses and
  passwords that arrive for another tab. Correct: responses complete, items in order,
  ended pipes released; what the list shows is true or about to be corrected.
  *Modelled.*
* **Terminals** (`terminal/`, `gui/session/`). State: panes, the session's list, the
  worker's handlers, pending output. Hard: open, close, failure and a shell's own
  end cross between the threads. Correct: both sides agree, output comes before the
  end. *Partly*: no resizing, renaming, emulation.
* **Agent forwarding** (`ssh/AgentForwardHost`): a bridge of kind `"agent"`. *Partly*:
  asking the server for it is left out.
* **Session manager and workspace** (`SessionManager`, `WorkspaceState`,
  `MainWindow`). State: tabs, queue of a restore, one set of pending credentials,
  keychain reads, prompts, the save timer. Hard: the restore goes on only from the end
  of what came before; one set of credentials serves every opening; a crash.
  Correct: nothing due is passed over, no secret goes elsewhere, the settings hold the
  open tabs. *Modelled.*
* **Connections, secrets, tunnel definitions** (`connection/`, `gui/connection/`).
  State: connections, keychain and its jobs, editors with old copies, sessions with
  theirs, the ssh configuration. Hard: asynchronous copies, two editors, files that
  include each other. Correct: keychain and sessions follow the user's last word,
  the list is the configuration. *Partly*: writes succeed; the configuration is read
  at the start only.
* **Explorers** (`explorer/`, `gui/explorer/*`). State: request on its way, poll
  timer, rows, view, last sample. Hard: late answers of a page hidden, rebound or
  refreshed meanwhile; counters that restart. Correct: never older than shown, the
  table is the listing, polled as long as it is shown. *Partly*: of the
  system information only rates.
* **Qt user interface**: what holds state and answers signals is in the modules
  above. *Partly.*
* **Settings, logging, utilities**; **macOS interface and bridge**. *Not modelled*, see
  §6.

The hazards, each at its line and with the properties that cover it, are in
`PROJECT.json`.

## 2. What is modelled, and how it corresponds to the code

Throughout: a step is one slot, signal, timer, poll or callback on one thread, the whole
handler with all the calls it makes. Queues between threads are sequences.
Texts, wording and layout are left out. Histories (what a property needs to remember)
are marked so at their declaration and never guard a step.

### ExecService, ExecPool

`ExecService` has one variable, the status of each request as its caller can
see it: submitted, running (at most `MaxConcurrent`), answered at most once,
abandoned when the session lets go of the worker.

`ExecPool` has the variables of the code (`pending`, `inFlight`, `running`, the
handlers' states) and the queues between the threads: `inbox` for posted slots,
`completed` for the posted completion lambdas. Completions are a set, so they are
delivered in any order, which includes that of the event queue. `DisconnectSession`
is the whole of `cleanup()` as far as the pool goes: queue failed, handlers
cancelled, count reset, completions still on their way. A blank command, refused, is
a choice in `ExecCommand`; kMaxConcurrentExec is the constant `MaxConcurrent`.
Mapping onto `ExecService`: a request is `answered` if it has an answer,
`new` if it was not asked for, `abandoned` if the session no longer listens,
`active` if its handler is live, else `waiting`.

### SessionTransport

Workers are numbered, so that a signal of a replaced worker can be told from one of
the current one in the properties: the handlers of `Session` do not look. `waitFor` and
`after` are the blocking `QThread::wait` of `teardownWorker` and what the caller
goes on with; `dialogs` is the stack of modal host-key dialogs. A worker goes through
the stages of `establish` where a cancel is noticed, for the target and at most one
gateway: the gateway's callbacks are run by libssh while `ssh_connect` is polled, which
is where a cancel is noticed then. A changed key, or one of another type, is only
reported and refused by the Qt dialog. Whether the server accepts a method of
authentication is left open. `answered`, `accepted` are the members the GUI
thread sets directly; the histories `by` and `astray` say which dialog did.

### FileTransfer

One file in one direction; its contents is a sequence of blocks, and the hash of
a file is its contents. The variables are the files on disk (`source`, `final`,
`part`, `job`), the worker (`activeOp`, `queue`, `stage`, `done`,
`streamed`, `cancelFile`, `reason`, `lastJob`) and the explorer (`busy`, `resumable`, `outcome`).

* `Begin`, `OpenFresh`, `Verify`/`Feed`, `Copy`, `Finish`, `RemoveOld`,
  `Rename`, `Done` are the ticks of a transfer. What the code does in one tick is cut only
  where something else can come between: the process may die between the removal of the
  final file and the rename, the source may be written between the check of
  its prefix and the second reading. No slot can: `Discard` and `Disconnect`
  require that the worker is not in the middle of a tick (`InTick`).
* The failures go through `FileFails` (a job is kept if there is something to
  resume), `Fails` and `EmitFailure`, in the order of the code: the reason of the end
  decides which signal the explorer gets, and a failure to *begin* reports with the
  reason of an earlier transfer because nothing was reset yet. A write that fails may have
  written its block all the same (`Written`), which the bytes of the job (`Partial`) do not
  count: such a job is refused when it is resumed (`Resumable`). Saving a job may fail, which the
  code ignores: the explorer hears of a job that is not on disk.
* `Report` is what the explorer does with any report: `m_opInFlight` is cleared
  whoever asked. `Abandon` ends everything without a report; the main window unbinds the
  explorer on every state other than Connected, which clears the flag too.
* "sync" is another file, saved in a local editor and uploaded by
  `OpenFileTracker`. A crash loses what a download had not flushed.

### TreeWalk, TreeTransfer

`TreeWalk` is the recursion of the blocking transfer functions (which the code
uses when `useAsyncFs` is off): depth first, a folder before what is in it.
`TreeTransfer` is `FsRemote`'s asynchronous machine: `work` is `m_asyncWork`, a tick
takes one item (`TickAsyncWorkItem`) or advances the open file (`TickAsyncAio`); the GUI
thread sets `cancel` and `interrupt` between any two. Links are followed or not,
`.filepart` files are left alone by a download, an existing file is asked about
beforehand. `jobs` are the interrupted files of the connection in the order of their
update: two updated in the same millisecond are not told apart, and at most `MaxJobs` are
kept. A close gives the transfer up. A resume continues the one interrupted file.
Over SCP a short read counts as the end of the file (`ScpChunkTransfer.cpp:307`).
What is assumed of the tree is that no entry is below itself or in two places, and of a selection,
which has any number of entries, that none of them is below another (`TreeAssumption`,
`SelectionAssumption`): the first is what a listing of a server without hard links to folders is,
the second what the explorer, which selects rows of one folder, can ask for.
Mapping: `plan`, `made` and `ended` are histories of the machine.

### FsService, RemoteFiles, FsOperations

`FsService` promises: operations answered one by one in the order they were asked for,
each once and with a signal of its kind, as long as the connection is open; nothing in
an answer says which call it belongs to; a discard waits for nobody.

`RemoteFiles` is a server's tree of files, directories and links, with `Where` and
`Target` as the server resolves paths, and every SFTP request and shell command as the set of
its outcomes: done, or refused. `RemovePath` is the recursive removal of `FsRemote`
with SFTP; `rm -rf`, `mv -f`, `ln -s`, `mkdir` and the tests are shell commands. `mv -f`
onto a directory moves into it, where SFTP refuses.

`FsOperations` has the worker's queue (`fsBusy`, `pending`, the event queue) and a handler
with its steps: SFTP in blocking requests with listings in batches, SCP as one command
after the other, each with a channel that opens, executes and is read. A command that is
given up by its timeout is answered with an error and may run later, beside the next
operation (`late`, `LateRun`). A channel that closes without an exit status is taken
for a failure, so that `test -d` is then taken for *no*: `sure` says whether
an answer can be relied on, and `DoesWhatItSays` speaks of those. Left out: other clients'
changes, the warnings of `ls` (exit status 1), names with ` -> ` in them, the
order of a listing. Mapping onto `FsService`: the calls are the handler's
operation while it is unanswered, the queue, and what is posted (`Posted`: the events but for the one completion).

### FileExplorer

Stands on `FsService` (its variables `calls`, `answers`, `open` are the service's, as is
each step that answers) and is the widget: path, pending navigation, link being resolved,
listing checked before an upload, queues of deletions, openings and
synchronisations, the busy flag, modal dialogs (whose nested event loops deliver
answers in the middle of a handler). `bound` says whether the session modelled is the one the
explorer follows. Abstracted: rows to whether a directory is still unlisted and whether
an upload meets a conflict, the transfer bar, more rows of a listing only without a
dialog. A backend is assumed; one answer is on its way at a time.

### TunnelBridge

One running tunnel and the bridges of its connections, in the worker's thread.
Items sent in each direction are numbered; the first ones of a SOCKS client are the
handshake. `WriteToChannel` writes what the channel's window takes and drops the rest of a
chunk (`writeSocketToChannel`); `ScheduleClose` posts the close that `PostedClose`
runs, `CloseBridges` is the release (callbacks unregistered, socket flushed and closed, of which
`Received` is what a client gets that reads in time), `PostStop`, `Stop` and `Delete` are the end of
the tunnel itself, `deleteLater` included. `cut` and `stray` are histories.

### TunnelList

The main window's one tunnel list, the store, the keychain with the list's single-shot
slots (`waiters`), the sessions and their workers' tunnel slots. `store` counts the
stored copies of a definition, since an edit that has lost its row adds one. `astray` marks
tunnels for which an answer or a dialog has outlived a change of tab. `Post`,
`ListenOutcomes`, `SetRuntimeStatus` and `Save` are the helpers of the code.

### Terminals

`gui` is all that lives on the GUI thread (list, panes, docking, restored layout),
`phase`/`out` the worker's handlers, whose output is a set of `Chunks` that are pending
(`unseen` is what the pane has not been given of them), `calls`/`signals` the queues. `session` and `up` are
the two ends' view of the connection. Opening a terminal is one step (libssh is in
blocking mode meanwhile); what an old worker still reports after it was replaced is left
to `SessionTransport`; a log dialog owns a terminal that the page does not show. Which of the
restored terminals is active is left to `ActivateTerminal`.

### Workspace

`tabs` with their sessions and the layout they wait for, `queue`/`workspace` of the
restore, `reads` of the keychain first in first out, `prompts` as a stack (each in the
event loop of the one before), `pending` the one `m_pendingCredentials`. Quit
saves, a crash does not; both are followed by a launch. A layout is `"full"` or `"plain"`.
The target's own secret is always written right before the session is opened, so only
the gateway's is followed. A connection that is created and connected at once goes on with the
secrets of the dialog, or is opened like any other (`ConnectAfterCreating`). The setting that restores
the workspace is on.

### SshConfig, Connections

`SshConfig` has the scans of a configuration with Includes (aliases, ProxyJump,
ForwardAgent) as recursions over files already visited and their depth, against a
reference `Expand` that reads the lines in order; its one step is the start of the program,
which fills the list. `Connections` has the connections the user keeps: the list, the
edit dialog and the manager's editor (each with the copy it has loaded), the
keychain with its jobs, the secrets of open sessions, and opening. A row of the configuration has
no secrets and meets `Connections` only where it is imported; `MCConnections` puts the start
before what the user does. Secrets are numbered by the
change that gave them. `kept` is the history of what the user meant the keychain to hold,
`Unknown` where a copy crossed a change or the tab menu deleted the connection (which leaves its
secrets). The tab menu's duplicate (`DuplicateOfTab`) copies no secret. A connection has at most
one jump hop: with several, the gateway fields of an editor are those of the hop that is selected, while
`persistSecrets` stores them for the first one, and this is not followed. One connection is opened at a
time, writes succeed, the prompt is modal, which host is imported is left open.

### Details, Explorers

`Details` follows one service or container from the host through list and `inspect` to the
dialog. An answer is whole; what the host says of an object is consistent (a stopped one has
no process, but for `ctr`'s tasks). `Explorers` is the machine the four sources share
(capability first, then polls; a request id that tells late answers), the table that is
patched row by row, the view, one detail dialog, and the session whose exec calls are
`ExecService`'s: each answered at most once, in any order, never once the worker is
released. Ids are used again once nobody waits for them: `order` is the
history of which of the answers on their way was read before which. Of the system information the rate is
followed. `applyClientDeltas` divides what a counter has grown by (`Delta`) by `m_sampleTimer`, the time since
the sample before was *received* (`elapsed`); when the host *read* the two samples, and what the interface
had carried by then, is in the histories `reading`, `span` and `moved`. `TimePasses` is the clock. A question that was
wanted while another was on its way (`after`) is asked when that one is answered, but for an answer
that cannot be parsed. `Refresh` is a call of the macOS bridge.

## 3. The runs

"Distinct" is the number of distinct states TLC finds.

| run | shows | bounds | distinct |
| --- | --- | --- | --- |
| `exec` | nothing lost, answered twice, overtaken or forgotten; slots exact; refinement of `ExecService` | 4 commands, 2 slots | 42,676 |
| `session` | Connecting is owed an outcome and ends, abandoned workers are on their way out, keys trusted by their own dialog | 2 workers, a gateway | 54,112 |
| `transfer` | whole versions only, true reports, explorer not stuck | 2 blocks of 2 kinds, 1 edit, 1 queued operation | 942,908 |
| `tree_transfer` | refinement of `TreeWalk`, stops when asked, leaves nothing | 6 entries, 3 selections (one of three entries), 2 jobs | 23,920 |
| `fs_operations` | refinement of `FsService`, queue never stalls, answers are so on the server | 9 places, 3 trees, 11 sets of 3 calls | 344,041 |
| `file_explorer` | blocked only while an answer is owed; busy ends | 2 directories, 1 link, 2 calls, 2 items | 1,181,821 |
| `tunnel_bridge` | responses complete, items in order, one deferred close, ends released | 2 connections, 1 item each way beside the handshake | 296,272 |
| `tunnel_list` | statuses true or about to be, strays only by stale answers, enabled tunnels start | 2 tabs, 2 tunnels, 1 read, 2 copies, 1 slot waiting | 362,273 |
| `terminals` | worker, session and dock agree; output before the end | 3 terminals, limit 2, 1 chunk, 2 slots, 3 signals | 1,084,121 |
| `workspace` | restore moves on, own secrets, layouts, saved tabs | 2 connections, 2 openings, 2 launches | 614,668 |
| `connections` | keychain and sessions follow the user; list is the configuration | 2 connections, 3 forms, 4 changes; 42,705 configurations | 1,235,095 |
| `explorers` | never older, table and rates true, keeps being answered | 4 kinds, 2 ids, 2 rows, counter 0 to 1, time 0 to 2 | 154,997 |

### Why the bounds are enough

* `exec`: one slot would not show an order of completions; with four commands two
  wait, so that order in the queue can go wrong. Commands are interchangeable, so
  `MCExecPool` has them asked for in one order.
* `session`: a current worker and one that was replaced and still talks. What needs a third
  (a timer armed before two others) is the known divergence `NoUnwantedConnect`.
* `transfer`: a part of one block is neither empty nor complete; two kinds of block tell a
  version from another and from a mixture; one edit gives a file with a part from before
  and one from after; one operation waits behind the active one. A
  local source may change at any time but between the two readings of its prefix in one
  tick (where a mixture is possible: listed as a hazard); a remote one does not change.
* `tree_transfer`: every kind of entry, one at each depth, folders before and after a file; a folder, a
  link, and a link, a file and a folder together are selected.
* `fs_operations`: a directory, a name that is a link to it, a dangling link or a file, and a
  third place; three calls are one running and two behind it, of which the sets
  pair each change with a listing or a resolution on the same path.
* `file_explorer`: the answer of an earlier call beside that of the current one; a second
  item shows what happens in the middle of a batch.
* `tunnel_bridge`: two bridges show that one's end leaves the other alone; one item each way
  beside the handshake shows loss, order and what is flushed at an end.
* `tunnel_list`: the tab a tunnel belongs to and another; a tunnel with a password and one
  without. Two passwords are the known divergence `AuthIsStarted`.
* `terminals`: as many as the limit and one to be refused. `workspace`: a connection with a
  gateway and one without; the second launch restores what the first one left.
* `connections`: two editors and four changes: a copy, an edit of each side, a deletion.
  Files of at most three lines that include files of at most two have every pair of
  lines in either order, cycles, and an option before and after its host. The user goes on after one of
  these starts only, since no step of `Connections` looks at the configuration.
* `explorers`: a question abandoned and the one that replaced it, one for page and dialog
  each; two rows show an insertion, a removal and an exchange. Two units of time and one of traffic tell a
  late answer followed by a prompt one: `RateIsTrue` is violated within them.

### Fairness

* `exec`: slots are delivered and handlers polled until their timeout. Nothing is asked of
  callers, the server or the network.
* `session`: both threads run, the network answers or times out, a user who sees a
  host-key dialog closes it. Nobody has to connect, no connection has to break.
* `transfer`, `tree_transfer`: the loop ticks the transfer, and the calls it makes return.
* `fs_operations`, `file_explorer`: the worker serves its events and ticks its handlers, the
  GUI thread its signals and timers. Users and losses are never fair.
* `tunnel_bridge`: the event loop serves sockets, channels and posted events;
  `tunnel_list`: both threads serve their queues and the keychain answers.
* `explorers`: the session answers what it was asked, because `ExecPool` answers every
  request or the session lets go of its worker, which it does after an end. The poll timer
  has strong fairness because the bound on ids may disable it for a while; the timer itself
  ticks for ever.

`terminals`, `workspace` and `connections` check safety only: what would be waited for there is
the user. Deadlock is checked in `transfer` and `tree_transfer`, where the system never stops; in the
others it may (an ended thread, a closed session, all calls made).

### Known divergences

What a comment, a text or the CHANGELOG says of the program and the code does not do. Those that
are formulas stand in their modules with the remark that they are in no run; naming them in
a configuration shows the behaviour.

1. `CancelAborts` (SessionTransport). `SshWorker.h:73`: requestCancel aborts a connect or a
   host-key wait from any thread. `connectToHost` clears the flag when it starts, and
   `waitForHostKeyTrust` resets the answer without a look at it. A cancel before either is
   forgotten; the thread may then wait for an answer to a prompt that nobody hears.
2. `LostIsReconnected` (SessionTransport). A fault of the I/O loop is reported as
   `errorOccurred` before `disconnected`. The first lets go of the worker, so the
   handler that would reconnect (CHANGELOG.md:18) does not get its turn.
3. `NoUnwantedConnect` (SessionTransport, three workers). The auto-reconnect timer is never
   cancelled: it connects a session that the user has closed by hand within its second.
4. `LostIsResumable` (FileTransfer). `cleanup()` closes the remote file system before the
   transfer notices the interrupt, and `close` saves no job (CHANGELOG.md:16).
5. `InterruptedIsResumable` (FileTransfer). The same CHANGELOG.md:16 says so of a cancel and a stall
   too. A failed write may leave a part longer than its job counts (`SftpAioTransfer.cpp:421`, `:488`), and
   `persistInterruptedJob` ignores a save that fails: what was reported as interrupted is then refused
   (`SftpAioTransfer.cpp:147`, `:306`) or not there.
6. `FinalIsAVersion` with `Editable <- RemoteEdits` (MCFileTransfer). A resumed download looks
   only at the size of the remote file (TransferTypes.h:38).
7. `RemovedForComplete` (FileTransfer). Discard and Restart reach a transfer the session has
   resumed by itself; the upload then removes the final file before it finds out.
8. `ShownIsLive` (TunnelList). A change of tab forgets the statuses of tunnels that
   go on running; nothing asks for them again.
9. `AuthIsStarted` with `Auth = {plain, secret}` (TunnelList). The answer for one tunnel's password
   uses up the single-shot slot that waits for another's: that one is not started.
10. `EveryShellIsDocked` with `Entries <- MCToolEntries` (Terminals). A workspace with tools and no
    terminal leaves the first shell, which comes with the connection, undocked.
11. `WaitingLayoutIsSaved` (Workspace). A save while a restored tab still waits for its session
    writes it without its layout: a crash then loses it.
12. `SavedPasswordIsThere` (Connections). "Password is required when saving to the keychain"
    (ConnectionEditor.cpp:705) is let pass by a flag that a change of type makes stale.
13. `RateIsTrue` (Explorers). A rate per second is divided by the time between two answers received and
    not between the two readings of the host (`SystemInfoSource.cpp:208`): when an answer took less time
    than the one before, it is higher than what the interface carried. What is checked and proved is
    `RateIsNotExaggerated`, which leaves out just these answers.

Met while modelling, and not formulas: a save in a local editor after a change of tab is not
uploaded, since binding another session untracks the file; an error of a running transfer
taken for that of a navigation leaves the transfer bar running; an upload right after a
navigation finds no conflicts since the rows are not there yet; a short read over SCP
counts as the end of the file; the label that would name a containerd container is never
used, because the row's name is the seed.

## 4. What is proved

Each theorem is `Spec => ...`; the specification a run checks is `Spec` or implies it (`FairSpec`,
`OrderedSpec`, `ProgramSpec`). Where an invariant is not
inductive it is strengthened to one that is (`IInv`, unless another name is given), and that
one was checked by TLC on the run's instance before it was proved. Types are
proved as far as the proofs need them (`Typed`; the module's own type invariant in `ExecPool`, `FileTransfer`,
`Workspace` and `Explorers`), without the bounds that only keep TLC's instance finite. What a
theorem assumes of the constants is the module's named `ASSUME`s, which TLC evaluates in every run.

### ExecPoolProofs

For every set `Requests` and every limit, from the two assumptions in `ExecPool`:
`MaxAssumption` (the limit is at least 1) and `StopAssumption` (the posted disconnect is
not a request).

* `TypeCorrect`: `Spec => []TypeOK`.
* `Invariance`: `Spec => []IInv` with `IInv == TypeOK /\ Located /\ Counted`.
* `SlotsNeverLeak`, `QueueNeverForgotten`, `NeverLostNorDuplicated`: the
  invariants `SlotsAccounted`, `QueueHasAWaker`, `EachRequestInOnePlace`.
* `FirstComeFirstServed`: the invariant `NoOvertaking`.
* `PoolImplementsService`: `Spec => ServiceSpec`.

Why `IInv` is needed: none of the invariants is inductive. *Counted* adds
that a completion on its way belongs to a finished handler while the worker runs
(so freeing its slot never counts one down twice), and that a stopped worker has
neither handlers nor a queue (so a completion that arrives late leaves the count at
zero). *Located* adds that the queues have no repetitions and no common elements, that
a request in a queue has neither handler nor answer, that only requests that were asked
for are anywhere, and that while the session listens none is nowhere and no stop has
been posted. For the order, *Ordered* adds to `IInv` that both queues are sorted by the
time of asking, that all of the pool's queue comes before all of the inbox, and
that whatever has a handler was asked for before whatever waits; that a command from the inbox
can be started past the queue only when the queue is empty is *Counted*'s. There is one
lemma per kind of step and part of the invariant. The refinement maps each step of the
pool, under `IInv`, to a step of the service or a stutter; the only limit the service
states, at most `MaxConcurrent` active, follows from *Counted*.

### SessionProofs: SessionTransport

For any `MaxWorkers` and `AutoReconnect`.

* `NoneIsForgotten`: the invariant `NobodyIsForgotten`. `IInv` adds to the types what the session
  holds (*Held*: a worker while it connects, none while it waits for a thread or is
  without a connection) and what is true of each worker (*WorkerKept*): one not made yet has done
  nothing; the one held has not been told to stop and no cancel has caught it while it
  establishes; `connectToHost` is posted once and first. The last is what makes an abandoned worker
  end: one that has taken its stop will not take a connect after it.
* `TrustIsForTheKeyShown`: the action property `TrustedIsShown`. *Trusting* adds to `IInv` that a
  worker that waits for an answer has at most one question open or posted, that it has none
  before it waits, and that an answer that is there came from that question or the worker
  is `astray`. Without the second part a question left from the gateway's key could answer
  for the target's.

### SessionProofs: Workspace

For any connections, secrets, gateways, number of openings and launches; that there is any
connection at all is not needed.

* `NothingDueIsPassedOver`, `SecretsStayWithTheirOwn`, `NoneOpensBare`, `SettingsHoldTheTabs`: the four
  invariants of the run. They are proved together, as conjuncts of `WorkspaceIInv`: *Sound* adds that a
  gateway's secret is asked for only where there is a gateway, and that prompts are for
  connections that exist (nothing is deleted under a modal prompt); *Unknown* that a
  connection not created yet has no tab and is not due; *OneByOne* that, unless connections
  were opened on top of each other, at most one is on its way, the pending secret is its own,
  and what is due still has its layout.

### TransferProofs: FileTransfer

For any blocks, `Size`, and number of edits and operations that wait. The hypothesis of the
theorems is `Undisturbed`: a local source may change at any time but between the two
readings of its prefix in one tick, and a remote one does not change. Both are what the run's instance
has; without either `FinalIsAVersion` is false (divergence 6, and a hazard of its own).

* `OnlyVersionsAreNamed`: the invariant `FinalIsAVersion`. `FileIInv` ties the part file to the running
  hash (*Follows*), a job to the blocks it has hashed (*Hashed*), a resume to a prefix of
  the source (*Continues*), a remote source to what was copied of it from its beginning (*Steady*), and
  says that what is about to be renamed is whole (*Whole*).
* `ToldTheTruth`: the action property `ReportsAreTrue`, from the same invariant with *Arrived* and
  *Unheard* (an operation that runs has left no job and reported no failure yet). What it says of a job is that it
  counts what the part held before the write that failed, and that the part has lost nothing of it; that the
  job can be resumed is false (divergence 5).

### TransferProofs: TreeTransfer

For any kinds of entries, and any tree and selections as the two assumptions describe them.

* `StopsAtOnce`: the invariant `StopsShort`. *LastOne* adds that once the one late file is made the
  transfer has been asked to stop and has none open, so that no second one can be.
* `EndsClean`: a transfer that has ended has an empty queue and no open file: the first half of
  `LeavesNothing`.
* `NothingIsLeftBehind`: the invariant `LeavesNothing`. Its other half, no job of a file that was
  completed, needs that no entry is transferred twice: `KInv` says that what the queued items
  cover (`Reach`, what is below an entry) is disjoint and has neither been made nor is open
  (*OnceEach*), that an open file or a job is of an entry that is sent as a file of bytes
  (*AllFit*), and that no job is of an entry made (*NoJobOfMade*). A folder that is taken is
  replaced by its children, which cover what it covered but itself: that is where the
  assumption on the tree is used, once, without an induction over its depth.

### TunnelProofs: TunnelBridge

For any `MaxBridges`, `MaxUp`, `MaxDown` and kinds of tunnel.

* `SentInOrder`: the invariant `UpstreamInOrder`; *Upstream* adds that what the server has was read from
  the socket, and that an open bridge has the handshake behind it.
* `ResponsesComplete`: the invariant `ResponseIsComplete`; *Downstream* adds that a close is only
  deferred when the server has ended the channel and all it sent has been passed on to the socket.
* `ClosedOnce`: the invariant `OneDeferredClose`; *Deferrals* adds that a close that is posted belongs to a
  bridge marked as closing, and that one that meets a bridge already gone was
  overtaken by what the client sent, its leaving or the stop of the tunnel.

### TunnelProofs: TunnelList

For any tabs, any finite set of tunnels, any `Home`, `Auth` and bounds.

* `StraysAreExplained`: the invariant `StrayOnlyByStaleAnswer`. *AtHome* adds, for a tunnel about
  which nothing has outlived a change of tab, that its row is in the list of its own session
  only, and that no start of it is posted to the worker of another: both are where a stray
  would come from.
* `ListeningIsNoLie`: the invariant `ListeningIsTrueOrCorrected`. *Told* adds the same of the
  signals: whatever a worker has said of a tunnel that does not run is followed by a signal that
  corrects it, and a tunnel without a row is not shown. The second is needed because the list drops a status
  for which it has no row.

### TunnelProofs: Connections

For any ids, forms, connections that are there at first, and `MaxChanges`.

* `SecretsArrive`: the invariant `KeychainFollows`. It speaks of the moment when no job waits; what is true
  before is *Promised*: the jobs that wait leave what the keychain is meant to hold of each secret, by
  themselves, or through the one copy of it that is still to be read and stored, whose source holds the
  secret when its turn comes. *Unborn* adds that of a connection not created yet nothing is
  known anywhere, so that a copy or an import begins with nothing; *KeptFits* that nothing is meant to be
  kept that the connection does not use, without which a change of its type would leave a secret behind.
* `SessionsHaveTheSecrets`: the invariant `SessionsFollow`, which is about the user's last word and not about
  what the keychain holds yet. *OneRead* adds that at most one secret is being read, for the connection that is being
  opened; *OpeningFits* that the secret will be, when the read is reached behind the jobs before
  it, what the keychain is meant to hold, and that the gateway's has been.

### FsOperationsProofs

For any trees of names, any `Ops` and their kinds, either engine. `IInv` has three parts:
*RightKinds* ties the step a handler is at to the kind of operation it carries out, *OneAtATime* says that a
completion is under way just while a finished handler (or one that the end of the connection has
cancelled) waits for it, at most one, and that `fsBusy` stands for one or the other.

* `NothingWaitsInVain`: the invariant `SomebodyStartsTheNext`, from *OneAtATime*.
* `ServesInTurn`: `Spec => Service!SafeSpec`, the safety half of the refinement the run checks as
  `ServiceSpec`. A step of the handler maps to an answer of the head of the calls, or to a stutter; a
  slot that is delivered moves from `Posted` to the queue, and the calls stay what they are
  because everything posted comes behind everything that waits.

### FileExplorerProofs

For any `Dirs`, `Links`, `MaxCalls` and `MaxItems`.

* `AnAnswerIsOwed`: the invariant `OwedAnAnswer`. *Excused* says which member of the explorer stands
  for which operation: the busy flag is explained by the timer, a prompt, a link, a
  listing to be checked, or by a flag (`awaiting`, `openActive`, `rootAsked`) for which an operation of its
  own kind is still to be answered. It is needed because an answer clears the flags of whichever
  operation the explorer takes it for. *Answering* adds that what is under way fits its operation.

### TerminalsProofs

For any number of terminals, any limit, set of chunks and bounds on the queues. The hypothesis of
the theorems is `ToolsNeedTerminals`: a workspace that is restored has a terminal if it has
explorers, as the run's instance does. Without it the agreement is false (divergence 10).

* `NoOutputIsLost`: the invariant `OutputBeforeClosed`; `NobodyIsAGhost`: the invariant `TerminalsAgree`.

Both follow from one `IInv`. *Ledger* is the agreement with what is on its way: a listed terminal has a
channel, or its opening or its end is under way; one with a channel is listed, failing, or about to be
retired; one not yet open is about to hear. It is not inductive without the parts that say what can
be under way for a terminal in each of its phases: *OpensFit* (an opening that is posted is of a
terminal that has no channel, has said nothing and is not retired before), *EndsFit* (a signal of an end comes after
the channel is gone, data never after it), *UnbornFits* (of a terminal that is still to be created or restored nothing is
anywhere), *WorkerFits* and *PageFits* (the session, the worker and the page are in step while a connection
is made or ends). *OutputFits*: what a pane has not been given is with the handler or in a signal.

### ExplorersProofs

For any names, kinds of explorer, ids of requests, rows of a listing, largest counter and time.

* `ExplorerTypes`: `Spec => []TypeOK`.
* `NothingOlderIsShown`: the invariant `NeverOlder`; *Fresh* adds that the request the page waits for
  was not read before what it shows.
* `WhatIsShownIsTrue`: the invariant `ShownIsTrue`. *Table*: no row comes twice, which is what lets patching
  a table row by row (rows removed, then kept ones exchanged, then new ones appended) end in the listing;
  *Rates*: what the interface has carried since a sample, up to the moment at which the host read the next one and
  since then, covers the rate that this one will show and the one after it.

### Only model-checked

* Liveness under fairness and `ENABLED` are out of the prover's reach: `EveryRequestAnswered`,
  `ConnectingEnds`, `AbandonedEndOrAsk`, `BusyEnds`, `EndedIsReleased`, `EnabledIsStarted`,
  `BusyIsReleased`, `KeepsBeingAnswered`, the fair halves of `ServiceSpec` in `FsOperations` and
  of `WalkSpec`.
* So is induction over data: `ListIsTheConfig`, the only invariant of a run without a theorem, compares two
  RECURSIVE scans, which the prover's backends do not take. The order of a
  walk in `WalkSpec` stands on `Preorder`, a recursion over the tree, and what `DoesWhatItSays` says of
  a server's tree on those of `RemoteFiles`.

## 5. What could come next

* The library functions the modules stand on: `Where`/`Target` of `RemoteFiles` against POSIX; the copy of a file
  over SCP, block by block, with its short reads.
* A module for the I/O loop itself with its list of handlers and nested event loops, under
  `Terminals` and `TunnelBridge`.
* The macOS bridge on top of `SessionTransport`'s worker, for the host-key answer that is
  posted to the thread that waits for it.
* Theorems: the steps of `WalkSpec`, which need the order of a walk described without its recursion.

## 6. Not modelled

* *macOS interface and bridge*: Objective-C++ and Swift on the same core; its own threading is listed
  among the hazards.
* *Settings, logging, utilities*: key/value settings, log levels, fuzzy match, themes: no behaviour over time.
* *Drawing, palette, tray, settings dialog, terminal emulation*: no state another part depends on.
  `TerminalSessionWidget.cpp` is not used by anything.
* *libssh, Qt, the keychain and the servers* are external: what the code needs of them is in the actions that
  stand for them, marked external in `PROJECT.json`. libssh's own threads and its write
  of known_hosts are not followed.
* *Blocking variants* of file operations and transfers, used when there is no I/O loop; for
  trees they are `TreeWalk`.
