----------------------------- MODULE Workspace -----------------------------
(***************************************************************************)
(* The main window: connections are opened with secrets that the keychain  *)
(* answers later or the user is asked for, the workspace of the last run   *)
(* is opened in the same way one connection after the other, and the tabs  *)
(* are written to the settings from time to time, for the next launch.     *)
(* What is in a tab is its layout: "full" is what the user had arranged,   *)
(* terminals and explorers; "plain" is less, the first terminal at least.  *)
(* Of the secrets the gateway's is kept track of: the target's own is      *)
(* always written right before a session is opened with it.                *)
(***************************************************************************)
EXTENDS Naturals, Sequences, SequencesExt

CONSTANTS
  Conns,       \* connections, now or later
  Auth,        \* "password", "ask" (a password that is not saved) or "key"
  Gateway,     \* the jump host's own "password" or "key", or "none"
  MaxPending,  \* connections the user is opening at a time, the bound of the model
  MaxLaunches  \* launches of the program, the bound of the model

ASSUME ConnsAssumption ==
  /\ Auth \in [Conns -> {"password", "ask", "key"}]
  /\ Gateway \in [Conns -> {"none", "password", "key"}]
ASSUME BoundAssumption == {MaxPending, MaxLaunches} \subseteq Nat

VARIABLES
  running, launches,
  conns,      \* ConnectionModel
  unused,     \* connections that have not been created yet
  saved,      \* AppSettings::workspaceState(), the layout of each connection
  timer,      \* m_workspaceSaveTimer is active
  tabs,       \* SessionTabWidget, with the session and the page of each tab
  restoring,  \* m_restoringWorkspace
  workspace,  \* m_workspaceRestore
  queue,      \* m_restoreQueue; the order of the tabs is left open
  reads,      \* ReadPasswordJobs of the keychain, one after the other
  prompts,    \* password prompts, each in the event loop of the one before
  pending,    \* m_pendingCredentials: whose gateway secret it holds
  due,        \* sessions of the workspace that have not been opened yet
  bare,       \* a session of the workspace was opened without its layout
  overlap,    \* the user has opened a connection while another was opening
  orphaned    \* a secret has come for a connection that is deleted

store == <<conns, unused>>
opening == <<reads, prompts, pending>>
restore == <<restoring, workspace, queue, due, bare>>
seen == <<overlap, orphaned>>
workspaceVars == <<running, launches, store, saved, timer, tabs, restore, opening, seen>>

None == "none"
Layouts == {"plain", "full"}
NoTab == [state |-> None, layout |-> None, restore |-> None, gateway |-> None]
NoWorkspace == [c \in Conns |-> None]
HasTab(c) == tabs[c] # NoTab
InFlight == {reads[i].conn : i \in DOMAIN reads} \union {prompts[i] : i \in DOMAIN prompts}
Owners == Conns \union {None}

WorkspaceTypeOK ==
  /\ running \in BOOLEAN /\ launches \in 0 .. MaxLaunches
  /\ conns \subseteq Conns /\ unused \subseteq Conns \ conns
  /\ saved \in [Conns -> Layouts \union {None}] /\ timer \in BOOLEAN
  /\ \A c \in Conns : HasTab(c) =>
       /\ tabs[c].state \in {"Connecting", "Connected", "Ended"}
       /\ tabs[c].layout \in Layouts
       /\ tabs[c].restore # None => tabs[c].state = "Connecting"
  /\ restoring \in BOOLEAN /\ (queue # {} => restoring)
  /\ due \subseteq Conns /\ {bare, overlap, orphaned} \subseteq BOOLEAN
  /\ pending \in Owners
  /\ ~running => tabs = [c \in Conns |-> NoTab] /\ InFlight = {} /\ ~restoring /\ ~timer

WorkspaceInit ==
  /\ running = FALSE /\ launches = 0 /\ timer = FALSE /\ tabs = [c \in Conns |-> NoTab]
  /\ conns \in SUBSET Conns /\ unused = Conns \ conns
  /\ saved \in [Conns -> {None, "full"}] /\ \A c \in unused : saved[c] = None
  /\ restoring = FALSE /\ workspace = NoWorkspace /\ queue = {}
  /\ reads = <<>> /\ prompts = <<>> /\ pending = None
  /\ due = {} /\ bare = FALSE /\ overlap = FALSE /\ orphaned = FALSE

-----------------------------------------------------------------------------
(* Opening a connection.                                                   *)

\* readTargetSecretForConnect; others are the reads and prompts that go on.
ReadTargetSecret(c, rs, ps) ==
  IF Auth[c] = "ask"
  THEN reads' = rs /\ prompts' = Append(ps, c)
  ELSE reads' = Append(rs, [conn |-> c, kind |-> "target"]) /\ prompts' = ps

\* Mutant: the credentials of the last connection are left where they are.
OpenConnectionByIdKeeps(c, rs, ps) ==
  /\ pending' = pending
  /\ IF Gateway[c] # "none"
     THEN reads' = Append(rs, [conn |-> c, kind |-> "gateway"]) /\ prompts' = ps
     ELSE ReadTargetSecret(c, rs, ps)

\* openConnectionById of a connection that exists.
OpenConnectionById(c, rs, ps) ==
  /\ pending' = None
  /\ IF Gateway[c] # "none"
     THEN reads' = Append(rs, [conn |-> c, kind |-> "gateway"]) /\ prompts' = ps
     ELSE ReadTargetSecret(c, rs, ps)

\* clearPendingConnect, and nothing else to open.
ClearPendingConnect(rs, ps) == pending' = None /\ reads' = rs /\ prompts' = ps

\* advanceWorkspaceRestore; entries that have been deleted are passed over. The
\* end of the restore schedules a save.
AdvanceWorkspaceRestore(rs, ps) ==
  LET next == queue \intersect conns
  IN  IF next # {}
      THEN /\ \E c \in next : queue' = queue \ {c} /\ OpenConnectionById(c, rs, ps)
           /\ UNCHANGED <<restoring, workspace, timer>>
      ELSE /\ restoring' = FALSE /\ workspace' = NoWorkspace /\ queue' = {} /\ timer' = TRUE
           /\ ClearPendingConnect(rs, ps)

\* The end of a connect, good or bad; saving is whether a save is due to it.
\* scheduleWorkspaceSave does nothing during a restore.
MoveOn(rs, ps, saving) ==
  IF restoring THEN AdvanceWorkspaceRestore(rs, ps)
  ELSE /\ ClearPendingConnect(rs, ps) /\ timer' = (timer \/ saving)
       /\ UNCHANGED <<restoring, workspace, queue>>

NewTab(entry, gateway) ==
  [state |-> "Connecting", layout |-> "plain", restore |-> entry, gateway |-> gateway]

\* openSshSession: a connection that has a tab keeps it, with the new secrets.
OpenSshSession(c, entry, gateway) ==
  tabs' = [tabs EXCEPT ![c] =
             IF @ = NoTab THEN NewTab(entry, gateway)
             ELSE IF @.state = "Ended" THEN NewTab(None, gateway)
             ELSE [@ EXCEPT !.gateway = gateway]]

\* Mutant: the layout is looked up when the restore has moved on.
FinishConnectLate(c, gateway, rs, ps) ==
  /\ MoveOn(rs, ps, ~HasTab(c))
  /\ OpenSshSession(c, workspace'[c], gateway)
  /\ due' = due \ {c}
  /\ bare' = (bare \/ (c \in due /\ ~HasTab(c) /\ workspace'[c] = None))

TakePendingRestoreEntry(c) == IF restoring THEN workspace[c] ELSE None

\* finishConnect.
FinishConnect(c, gateway, rs, ps) ==
  LET entry == TakePendingRestoreEntry(c)
  IN  /\ OpenSshSession(c, entry, gateway) /\ MoveOn(rs, ps, ~HasTab(c))
      /\ due' = due \ {c}
      /\ bare' = (bare \/ (c \in due /\ ~HasTab(c) /\ entry = None))

\* Mutant: a connect that is given up ends the restore without a word.
GiveUpStops(c, rs, ps) ==
  /\ ClearPendingConnect(rs, ps) /\ due' = due \ {c}
  /\ UNCHANGED <<tabs, bare, restoring, workspace, queue, timer>>

\* The prompt is cancelled, or the keychain fails.
GiveUp(c, rs, ps) ==
  /\ MoveOn(rs, ps, FALSE) /\ due' = due \ {c} /\ UNCHANGED <<tabs, bare>>

Kept == UNCHANGED <<running, launches, saved>>
Busy == Len(reads) + Len(prompts) > 0

\* openConnectionById from the lists, the palette or the tray.
UserOpens(c) ==
  /\ running /\ c \in conns /\ Len(reads) + Len(prompts) < MaxPending
  /\ OpenConnectionById(c, reads, prompts)
  /\ overlap' = (overlap \/ Busy \/ restoring)
  /\ UNCHANGED <<store, timer, tabs, restore, orphaned>> /\ Kept

\* connectAfterCreating: with the password of the dialog and what it was given for the
\* gateway, or, where it was given no password, like any other connection.
ConnectAfterCreating(c) ==
  \/ /\ Auth[c] # "key"
     /\ \E gateway \in IF Gateway[c] = "none" THEN {None} ELSE {None, c} :
          FinishConnect(c, gateway, reads, prompts)
  \/ /\ Len(reads) + Len(prompts) < MaxPending
     /\ OpenConnectionById(c, reads, prompts)
     /\ UNCHANGED <<timer, tabs, restore>>

\* createConnectionFromQuery.
CreateAndConnect(c) ==
  /\ running /\ prompts = <<>> /\ c \in unused
  /\ conns' = conns \union {c} /\ unused' = unused \ {c}
  /\ ConnectAfterCreating(c)
  /\ overlap' = (overlap \/ Busy \/ restoring)
  /\ UNCHANGED orphaned /\ Kept

\* readFinished, for a connection that still exists.
Answer(kind, c) ==
  /\ reads # <<>> /\ Head(reads) = [conn |-> c, kind |-> kind] /\ c \in conns
  /\ UNCHANGED <<store, seen>> /\ Kept

GatewayAnswered(c) ==
  /\ Answer("gateway", c) /\ ReadTargetSecret(c, Tail(reads), prompts)
  /\ \/ pending' = c
     \/ Gateway[c] = "key" /\ pending' = None
  /\ UNCHANGED <<timer, tabs, restore>>

TargetAnswered(c) ==
  /\ Answer("target", c)
  /\ FinishConnect(c, pending, Tail(reads), prompts)

\* No such entry, or for a key no entry that can be read.
TargetMissing(c) ==
  /\ Answer("target", c)
  /\ IF Auth[c] = "key"
     THEN FinishConnect(c, pending, Tail(reads), prompts)
     ELSE /\ reads' = Tail(reads) /\ prompts' = Append(prompts, c)
          /\ UNCHANGED <<timer, tabs, restore, pending>>

ReadFails(c) ==
  /\ \/ Answer("gateway", c) /\ Gateway[c] = "password"
     \/ Answer("target", c) /\ Auth[c] = "password"
  /\ GiveUp(c, Tail(reads), prompts)

ReadOfDeleted ==
  /\ reads # <<>> /\ Head(reads).conn \notin conns /\ reads' = Tail(reads) /\ orphaned' = TRUE
  /\ UNCHANGED <<store, timer, tabs, restore, prompts, pending, overlap>> /\ Kept

\* promptPasswordForConnect returns; the connection was read before.
PromptAccepted ==
  /\ prompts # <<>>
  /\ FinishConnect(Last(prompts), pending, reads, Front(prompts))
  /\ UNCHANGED <<store, seen>> /\ Kept

PromptCancelled ==
  /\ prompts # <<>> /\ GiveUp(Last(prompts), reads, Front(prompts))
  /\ UNCHANGED <<store, seen>> /\ Kept

-----------------------------------------------------------------------------
(* The tabs.                                                               *)

TabOnly == UNCHANGED <<store, timer, restore, opening, seen>> /\ Kept
InState(c, states) == HasTab(c) /\ tabs[c].state \in states

\* The session connects: the page restores its layout.
SessionConnected(c) ==
  /\ InState(c, {"Connecting"}) /\ TabOnly
  /\ tabs' = [tabs EXCEPT ![c].state = "Connected", ![c].restore = None,
                          ![c].layout = IF tabs[c].restore = None THEN @ ELSE tabs[c].restore]

\* The session fails or is disconnected: the page gives up its layout, the
\* explorers are closed, the terminals are listed as closed.
SessionEnds(c) ==
  /\ InState(c, {"Connecting", "Connected"}) /\ TabOnly
  /\ tabs' = [tabs EXCEPT ![c].state = "Ended", ![c].restore = None, ![c].layout = "plain"]

ReconnectTab(c) ==
  /\ InState(c, {"Ended"}) /\ TabOnly
  /\ tabs' = [tabs EXCEPT ![c].state = "Connecting", ![c].layout = "plain"]

\* Terminals and explorers are opened and closed.
ChangeLayout(c) ==
  /\ InState(c, {"Connected"}) /\ TabOnly
  /\ \E layout \in Layouts : tabs' = [tabs EXCEPT ![c].layout = layout]

\* scheduleWorkspaceSave.
ScheduleWorkspaceSave == timer' = (timer \/ ~restoring)

\* SessionManager::close.
Closed(c) == tabs' = [tabs EXCEPT ![c] = NoTab]

\* Mutant: a tab that is closed is saved with the next one that is opened.
CloseTabUnsaved(c) ==
  /\ prompts = <<>> /\ HasTab(c) /\ Closed(c)
  /\ UNCHANGED <<store, timer, restore, opening, seen>> /\ Kept

\* onTabCloseRequested.
CloseTab(c) ==
  /\ prompts = <<>> /\ HasTab(c) /\ Closed(c)
  /\ ScheduleWorkspaceSave
  /\ UNCHANGED <<store, restore, opening, seen>> /\ Kept

\* MainWindow::deleteConnection, from the menu of a tab.
DeleteConnection(c) ==
  /\ prompts = <<>> /\ c \in conns /\ HasTab(c) /\ conns' = conns \ {c}
  /\ Closed(c) /\ ScheduleWorkspaceSave
  /\ UNCHANGED <<unused, restore, opening, seen>> /\ Kept

\* From the list or the manager; open sessions are kept.
DeleteFromList(c) ==
  /\ running /\ prompts = <<>> /\ c \in conns /\ conns' = conns \ {c}
  /\ UNCHANGED <<unused, timer, tabs, restore, opening, seen>> /\ Kept

-----------------------------------------------------------------------------
(* The workspace across launches.                                          *)

\* captureWorkspaceState, written and read back.
Captured == [c \in Conns |-> tabs[c].layout]

SaveTimerFires ==
  /\ timer /\ timer' = FALSE /\ saved' = Captured
  /\ UNCHANGED <<running, launches, store, tabs, restore, opening, seen>>

\* All that is not in the settings is gone.
Stop ==
  /\ running /\ running' = FALSE /\ timer' = FALSE /\ tabs' = [c \in Conns |-> NoTab]
  /\ restoring' = FALSE /\ workspace' = NoWorkspace /\ queue' = {}
  /\ reads' = <<>> /\ prompts' = <<>> /\ pending' = None
  /\ due' = {} /\ bare' = FALSE /\ overlap' = FALSE /\ orphaned' = FALSE
  /\ UNCHANGED <<launches, store>>

\* closeEvent, once the user has confirmed.
Quit == Stop /\ saved' = Captured

Crash == Stop /\ UNCHANGED saved

\* The constructor and beginWorkspaceRestore.
BeginWorkspaceRestore ==
  LET entries == {c \in conns : saved[c] # None}
  IN  /\ ~running /\ launches < MaxLaunches /\ running' = TRUE /\ launches' = launches + 1
      /\ IF entries = {}
         THEN UNCHANGED <<restore, opening>>
         ELSE /\ restoring' = TRUE /\ workspace' = saved /\ due' = entries /\ bare' = FALSE
              /\ \E c \in entries : queue' = entries \ {c} /\ OpenConnectionById(c, <<>>, <<>>)
      /\ UNCHANGED <<store, saved, timer, tabs, seen>>

WorkspaceNext ==
  \/ BeginWorkspaceRestore \/ Quit \/ Crash \/ SaveTimerFires
  \/ ReadOfDeleted \/ PromptAccepted \/ PromptCancelled
  \/ \E c \in Conns :
       \/ UserOpens(c) \/ CreateAndConnect(c)
       \/ GatewayAnswered(c) \/ TargetAnswered(c) \/ TargetMissing(c) \/ ReadFails(c)
       \/ SessionConnected(c) \/ SessionEnds(c) \/ ReconnectTab(c) \/ ChangeLayout(c)
       \/ CloseTab(c) \/ DeleteConnection(c) \/ DeleteFromList(c)

WorkspaceSpec == WorkspaceInit /\ [][WorkspaceNext]_workspaceVars

-----------------------------------------------------------------------------
(* Properties.                                                             *)

\* No session of the workspace is passed over: what is still due is queued
\* or being opened, and a restore that is not over has something on its way
\* whose end moves it on. Only the answer for a connection that has been
\* deleted meanwhile stops it.
RestoreMovesOn ==
  /\ (due \intersect conns) \subseteq queue \union InFlight \union (IF orphaned THEN Conns ELSE {})
  /\ restoring => InFlight # {} \/ orphaned

\* A session is given the secret of its own gateway, and one without a
\* gateway none, unless connections were opened on top of each other.
OwnSecrets ==
  overlap \/ \A c \in Conns :
               tabs[c].gateway \in IF Gateway[c] = "none" THEN {None} ELSE {c, None}

\* Every session of the workspace is opened with the layout it had, unless
\* another connection was opened by hand while the restore was going on.
LayoutsComeBack == bare => overlap

\* What a crash would bring back: as soon as no save is pending the settings
\* hold the open tabs, no more and no less.
SavedIsCurrent ==
  running /\ ~restoring /\ ~timer
    => \A c \in conns : saved[c] # None <=> HasTab(c)

\* In no run, for it does not hold: while a tab waits for its session to
\* restore its layout, the settings still hold that layout.
WaitingLayoutIsSaved ==
  \A c \in Conns : tabs[c].restore # None => saved[c] = tabs[c].restore
=============================================================================
