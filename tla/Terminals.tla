----------------------------- MODULE Terminals -----------------------------
(***************************************************************************)
(* The terminals of one session, from the docked panes to the channels:    *)
(* SessionPage keeps a pane for every terminal the Session lists and docks *)
(* it, SshWorker keeps a TerminalIoHandler for every open channel, and the *)
(* two threads tell each other with posted slots and signals.              *)
(***************************************************************************)
EXTENDS Naturals, Sequences, FiniteSets, SequencesExt, Lists

CONSTANTS
  MaxIds,      \* terminals ever created, the bound of the model
  Limit,       \* SshWorker::kMaxTerminals
  Chunks,      \* of output, that are on their way from one shell at a time
  MaxCalls,    \* slots posted to the worker and not run, the bound of the model
  MaxSignals,  \* signals posted to the GUI thread and not received, likewise
  Entries      \* the workspaces to restore, as [count, tools]

ASSUME LimitAssumption == {MaxIds, Limit, MaxCalls, MaxSignals} \subseteq Nat \ {0}
ASSUME EntriesAssumption == Entries \subseteq [count : 0 .. Limit, tools : BOOLEAN]

Ids == 1 .. MaxIds
None == 0
Nothing == [count |-> 0, tools |-> FALSE]   \* no workspace to restore

VARIABLES
  session,   \* Session::m_state
  gui,       \* the session's list and the page that shows it, on one thread
  logs,      \* the terminal a ServiceLogsDialog owns, or None
  created,   \* terminals created so far
  calls,     \* slots posted to the worker
  up,        \* SshWorker::m_running
  phase,     \* the TerminalIoHandler of each terminal
  out,       \* chunks in its m_pendingOut
  signals,   \* signals posted to the GUI thread
  unseen,    \* chunks a shell has written and its pane has not been given
  asked      \* the terminals the user has asked to close

workerVars == <<up, phase, out>>
vars == <<session, gui, logs, created, calls, workerVars, signals, unseen, asked>>

ListedIds(terms) == {terms[i].id : i \in DOMAIN terms}
Visible(terms) == {terms[i].id : i \in {j \in DOMAIN terms : ~terms[j].aux}}
Signal(type, id) == [type |-> type, id |-> id]
Call(op, id) == [op |-> op, id |-> id]
Terminal(id, aux) == [id |-> id, aux |-> aux, state |-> "Opening"]

TypeOK ==
  /\ session \in {"Disconnected", "Connecting", "Connected", "Failed"}
  /\ up \in BOOLEAN
  /\ gui.terms \in Seq([id : Ids, aux : BOOLEAN,
                        state : {"Opening", "Open", "Failed", "Closed"}])
  /\ Len(gui.terms) <= Limit /\ Cardinality(ListedIds(gui.terms)) = Len(gui.terms)
  /\ gui.active \in Visible(gui.terms) \union {None}
  /\ gui.closing \subseteq gui.pinned /\ gui.pinned \subseteq gui.panes
  /\ gui.panes = Visible(gui.terms) /\ gui.restore \in Entries \union {Nothing}
  /\ logs \in Ids \union {None} /\ created \in 0 .. MaxIds
  /\ phase \in [Ids -> {"none", "open", "eof", "broken", "failing", "finished"}]
  /\ out \in [Ids -> SUBSET Chunks] /\ unseen \in [Ids -> SUBSET Chunks]

Init ==
  /\ session = "Disconnected"
  /\ gui = [terms |-> <<>>, active |-> None, panes |-> {}, pinned |-> {}, closing |-> {},
            restore |-> Nothing]
  /\ logs = None /\ created = 0
  /\ calls = <<>> /\ signals = <<>>
  /\ up = FALSE /\ phase = [id \in Ids |-> "none"] /\ out = [id \in Ids |-> {}]
  /\ unseen = [id \in Ids |-> {}] /\ asked = {}

-----------------------------------------------------------------------------
(* The page: what its slots make of the record gui.                        *)

\* TerminalDockHost: terminals get a dock, lose it, and all lose theirs.
Pinned(g, ids) == [g EXCEPT !.pinned = @ \union ids]
Unpinned(g, ids) == [g EXCEPT !.pinned = @ \ ids]
ClearLayout(g) == Unpinned(g, g.pinned)

\* pinTerminalToLayout; a terminal that is being closed is not docked again.
PinTerminal(g, id) ==
  IF id \in g.panes \ g.closing THEN Pinned(g, {id}) ELSE g

\* onActiveTerminalChanged.
ShowActive(g) == IF session = "Connected" THEN PinTerminal(g, g.active) ELSE g

SetActive(g, id) == IF id \in Visible(g.terms) THEN [g EXCEPT !.active = id] ELSE g

\* ensurePane and removePane for what the session lists.
SyncPanes(g) ==
  LET removed == (g.panes \union g.closing) \ ListedIds(g.terms)
  IN  [Unpinned(g, removed) EXCEPT !.panes = Visible(g.terms), !.closing = @ \ removed]

\* onTerminalsChanged, while no workspace is being restored: the last new
\* terminal is activated.
OnTerminalsChanged(g) ==
  LET born == Pick(g.terms, {i \in DOMAIN g.terms :
                               ~g.terms[i].aux /\ g.terms[i].id \notin g.panes})
      removed == g.panes \ ListedIds(g.terms) # {}
  IN  IF g.restore # Nothing THEN SyncPanes(g)
      ELSE IF session = "Connected" /\ born # <<>>
      THEN ShowActive(SetActive(SyncPanes(g), Last(born).id))
      ELSE IF removed THEN ShowActive(SyncPanes(g)) ELSE SyncPanes(g)

\* The session disconnects or fails: terminals are listed as closed, the page
\* takes its docks away and gives up a restore.
Cleared(g) ==
  [ClearLayout(g) EXCEPT !.terms = [i \in DOMAIN @ |-> [@[i] EXCEPT !.state = "Closed"]],
                         !.active = None, !.closing = {}, !.restore = Nothing]

\* onTerminalClosed and onTerminalOpenFailed of the session.
Removed(g, id) ==
  LET left == Pick(g.terms, {i \in DOMAIN g.terms : g.terms[i].id # id})
      shown == Pick(left, {i \in DOMAIN left : ~left[i].aux})
      open == Pick(shown, {i \in DOMAIN shown : shown[i].state = "Open"})
      next == IF open # <<>> THEN open[1].id ELSE IF shown # <<>> THEN shown[1].id ELSE None
      wasActive == id = g.active
      h == OnTerminalsChanged([g EXCEPT !.terms = left, !.active = IF wasActive THEN next ELSE @])
  IN  IF wasActive THEN ShowActive(h) ELSE h

WithState(g, id, state) ==
  OnTerminalsChanged([g EXCEPT !.terms = [i \in DOMAIN @ |->
                                            IF @[i].id = id THEN [@[i] EXCEPT !.state = state] ELSE @[i]]])

\* continueWorkspaceRestore: the terminals of the entry are the first of the
\* session; those that are missing are created and all are docked.
Restored(g) ==
  LET missing == Pick([i \in 1 .. g.restore.count |-> i],
                      1 .. g.restore.count \ ListedIds(g.terms))
      h == [g EXCEPT !.terms = @ \o [i \in DOMAIN missing |-> Terminal(missing[i], FALSE)],
                     !.restore = Nothing]
  IN  SyncPanes(Pinned(h, 1 .. g.restore.count))

\* ServiceLogsDialog::onTerminalsChanged and onSessionStateChanged.
LogsKept(g) == logs' = IF logs \in ListedIds(g.terms) THEN logs ELSE None

-----------------------------------------------------------------------------
(* The user.                                                               *)

\* detachSession: no handler is left.
Detached == phase' = [id \in Ids |-> "none"] /\ out' = [id \in Ids |-> {}]

\* The worker of the session is given up: nothing more comes of it but the
\* signals about terminals that are posted already; SessionTransport has its
\* late outcomes.
Outcomes == {"connected", "disconnected", "error"}
ReleaseWorker ==
  /\ calls' = <<>> /\ up' = FALSE /\ Detached
  /\ signals' = Pick(signals, {i \in DOMAIN signals : signals[i].type \notin Outcomes})
  /\ gui' = Cleared(gui) /\ logs' = None

\* openSshSession with the workspace to restore, and reconnect without one: the
\* old terminals are forgotten and the first new one is listed. The terminals
\* of a workspace have their old ids.
Connect(entry) ==
  LET first == created + 1
      last == created + (IF entry.count > 1 THEN entry.count ELSE 1)
  IN  /\ session \in {"Disconnected", "Failed"} /\ session' = "Connecting"
      /\ created = 0 \/ entry = Nothing
      /\ last <= MaxIds /\ created' = last
      /\ gui' = SyncPanes([gui EXCEPT !.terms = <<Terminal(first, FALSE)>>, !.active = first,
                                      !.restore = entry])
      /\ calls' = <<Call("connect", first)>>
      /\ unseen' = [id \in Ids |-> {}] /\ asked' = {}
      /\ UNCHANGED <<logs, workerVars, signals>>

DisconnectTransport ==
  /\ session \in {"Connected", "Connecting"} /\ session' = "Disconnected"
  /\ ReleaseWorker /\ UNCHANGED <<created, unseen, asked>>

NewTerminal(aux) ==
  /\ session = "Connected" /\ Len(gui.terms) < Limit
  /\ created < MaxIds /\ created' = created + 1
  /\ gui' = OnTerminalsChanged([gui EXCEPT !.terms = Append(@, Terminal(created', aux))])
  /\ calls' = Append(calls, Call("open", created'))
  /\ logs' = IF aux THEN created' ELSE logs
  /\ UNCHANGED <<session, workerVars, signals, unseen, asked>>

\* openLogs: one dialog at a time.
OpenLogs == logs = None /\ NewTerminal(TRUE)

\* Session::closeTerminal.
CloseTerminal(id) ==
  /\ session \in {"Connecting", "Connected"} /\ id \in ListedIds(gui.terms)
  /\ Len(calls) < MaxCalls
  /\ calls' = Append(calls, Call("close", id)) /\ asked' = asked \union {id}
  /\ UNCHANGED <<session, created, workerVars, signals, unseen>>

\* The dock's close button, once for each terminal.
OnDockShellCloseRequested(id) ==
  /\ id \in gui.pinned \ gui.closing
  /\ gui' = [gui EXCEPT !.closing = @ \union {id}] /\ UNCHANGED logs
  /\ CloseTerminal(id)

\* The "Close Terminal" action, on the active terminal.
CloseActive == gui.active # None /\ CloseTerminal(gui.active) /\ UNCHANGED <<gui, logs>>

\* closeOwnedTerminal of the logs dialog.
CloseLogs == logs # None /\ CloseTerminal(logs) /\ logs' = None /\ UNCHANGED gui

Activate(id) ==
  /\ id \in Visible(gui.terms) \ gui.closing
  /\ gui' = ShowActive(SetActive(gui, id))
  /\ UNCHANGED <<session, logs, created, calls, workerVars, signals, unseen, asked>>

\* activateTerminal: the palette and the list of terminals.
ActivateTerminal(id) == Activate(id)

\* A dock gets the focus.
OnDockTerminalFocused(id) == id \in gui.pinned /\ id # gui.active /\ Activate(id)

-----------------------------------------------------------------------------
(* The worker.                                                             *)

\* finishIfNeeded runs to its end.
Idle == Len(signals) < MaxSignals /\ \A id \in Ids : phase[id] # "failing"

RunSlot(op) ==
  /\ Idle /\ calls # <<>> /\ Head(calls).op = op /\ calls' = Tail(calls)
  /\ UNCHANGED <<session, gui, logs, created, unseen, asked>>

Posted(type, id) == signals' = Append(signals, Signal(type, id))

\* SshTerminal::open and the handler registered: the shell runs.
ShellOpens(id) == phase' = [phase EXCEPT ![id] = "open"]

\* connectToHost: the connection, then the first terminal.
ConnectToHost ==
  /\ RunSlot("connect") /\ UNCHANGED out
  /\ \/ /\ up' = TRUE /\ ShellOpens(Head(calls).id)
        /\ signals' = signals \o <<Signal("connected", Head(calls).id),
                                   Signal("opened", Head(calls).id)>>
     \/ Posted("error", None) /\ UNCHANGED <<up, phase>>

OpenTerminal ==
  LET id == Head(calls).id
  IN  /\ RunSlot("open") /\ UNCHANGED <<up, out>>
      /\ \/ /\ up /\ Cardinality({i \in Ids : phase[i] # "none"}) < Limit
            /\ ShellOpens(id) /\ Posted("opened", id)
         \/ UNCHANGED phase /\ Posted("openFailed", id)

\* Mutant: a handler that is removed is not announced.
RetireTerminalSilently ==
  /\ RunSlot("close") \/ RunSlot("retire")
  /\ phase' = [phase EXCEPT ![Head(calls).id] = "none"]
  /\ out' = [out EXCEPT ![Head(calls).id] = {}]
  /\ UNCHANGED <<up, signals>>

\* closeTerminal, and the slot a handler posts when its channel has ended.
RetireTerminal ==
  LET id == Head(calls).id
  IN  /\ RunSlot("close") \/ RunSlot("retire")
      /\ phase' = [phase EXCEPT ![id] = "none"] /\ out' = [out EXCEPT ![id] = {}]
      /\ IF phase[id] # "none" THEN Posted("closed", id) ELSE UNCHANGED signals
      /\ UNCHANGED up

Unseen == UNCHANGED <<session, gui, logs, created, asked, up>>

\* onData, onEof and onClose, called by libssh.
RemoteWrites(id) ==
  /\ Idle /\ phase[id] = "open"
  /\ \E chunk \in Chunks \ unseen[id] :
       /\ unseen' = [unseen EXCEPT ![id] = @ \union {chunk}]
       /\ out' = [out EXCEPT ![id] = @ \union {chunk}]
  /\ UNCHANGED <<calls, phase, signals>> /\ Unseen

RemoteEnds(id) ==
  /\ Idle /\ phase[id] = "open" /\ phase' = [phase EXCEPT ![id] = "eof"]
  /\ UNCHANGED <<calls, out, signals, unseen>> /\ Unseen

\* flushWriteQueue finds the channel closed under what the user has typed.
WriteFails(id) ==
  /\ Idle /\ phase[id] = "open" /\ phase' = [phase EXCEPT ![id] = "broken"]
  /\ UNCHANGED <<calls, out, signals, unseen>> /\ Unseen

\* deliverPendingOutput.
DeliverPendingOutput(id) ==
  IF out[id] = {} THEN signals
  ELSE Append(signals, [type |-> "data", id |-> id, chunks |-> out[id]])

\* Mutant: a channel that has ended is retired before its output is delivered.
OnIdleDropsOutput(id) ==
  /\ Idle /\ phase[id] = "eof"
  /\ calls' = Append(calls, Call("retire", id))
  /\ phase' = [phase EXCEPT ![id] = "finished"]
  /\ UNCHANGED <<out, signals, unseen>> /\ Unseen

\* onIdle of the handler: output is delivered, then a channel that has ended
\* posts its own retirement.
OnIdle(id) ==
  /\ Idle
  /\ phase[id] = "eof" \/ (phase[id] \in {"open", "broken"} /\ out[id] # {})
  /\ signals' = DeliverPendingOutput(id) /\ out' = [out EXCEPT ![id] = {}]
  /\ IF phase[id] = "eof"
     THEN /\ calls' = Append(calls, Call("retire", id))
          /\ phase' = [phase EXCEPT ![id] = "finished"]
     ELSE UNCHANGED <<calls, phase>>
  /\ UNCHANGED <<unseen>> /\ Unseen

\* finishIfNeeded after a failed write: the GUI thread may act on the signal
\* before the retirement is posted.
ReportFailed(id) ==
  /\ Idle /\ phase[id] = "broken" /\ out[id] = {}
  /\ Posted("failed", id) /\ phase' = [phase EXCEPT ![id] = "failing"]
  /\ UNCHANGED <<calls, out, unseen>> /\ Unseen
ReportClosed(id) ==
  /\ phase[id] = "failing" /\ phase' = [phase EXCEPT ![id] = "finished"]
  /\ calls' = Append(calls, Call("retire", id))
  /\ UNCHANGED <<out, signals, unseen>> /\ Unseen

\* The connection is lost: cleanup() removes the handlers without a word.
ConnectionLost ==
  /\ Idle /\ up /\ up' = FALSE /\ Detached
  /\ Posted("disconnected", None)
  /\ UNCHANGED <<session, gui, logs, created, calls, unseen, asked>>

-----------------------------------------------------------------------------
(* The session's slots for the worker's signals.                           *)

Receive(type) ==
  /\ signals # <<>> /\ Head(signals).type = type /\ signals' = Tail(signals)
  /\ UNCHANGED <<created, workerVars, asked>>

OnWorkerConnected ==
  LET g == WithState(gui, Head(signals).id, "Open")
      h == IF g.restore # Nothing THEN Restored(g) ELSE PinTerminal(g, g.active)
  IN  /\ Receive("connected") /\ session' = "Connected" /\ gui' = h
      /\ calls' = calls \o [i \in 1 .. Len(h.terms) - Len(g.terms) |->
                              Call("open", h.terms[Len(g.terms) + i].id)]
      /\ LogsKept(h) /\ UNCHANGED unseen

\* onWorkerDisconnected and onWorkerError, the worker's thread waited for.
OnWorkerGone ==
  /\ signals # <<>> /\ Head(signals).type \in {"disconnected", "error"}
  /\ session' = IF Head(signals).type = "error" THEN "Failed" ELSE "Disconnected"
  /\ ReleaseWorker /\ UNCHANGED <<created, unseen, asked>>

ReceiveForTerminal(type, g) ==
  Receive(type) /\ gui' = g /\ LogsKept(g) /\ UNCHANGED <<session, calls, unseen>>

OnTerminalOpened == signals # <<>> /\ ReceiveForTerminal("opened", WithState(gui, Head(signals).id, "Open"))

OnTerminalOpenFailed ==
  signals # <<>> /\ ReceiveForTerminal("openFailed", Removed(gui, Head(signals).id))

OnTerminalClosed == signals # <<>> /\ ReceiveForTerminal("closed", Removed(gui, Head(signals).id))

OnTerminalFailed ==
  /\ signals # <<>>
  /\ ReceiveForTerminal("failed", Removed(WithState(gui, Head(signals).id, "Failed"), Head(signals).id))

\* onTerminalData of the page or of the dialog.
OnTerminalData ==
  /\ Receive("data") /\ UNCHANGED <<session, gui, logs, calls>>
  /\ unseen' = IF Head(signals).id \in gui.panes \union {logs}
               THEN [unseen EXCEPT ![Head(signals).id] = @ \ Head(signals).chunks]
               ELSE unseen

-----------------------------------------------------------------------------
User == \/ \E entry \in Entries : Connect(entry)
        \/ DisconnectTransport \/ NewTerminal(FALSE) \/ OpenLogs
        \/ \E id \in Ids : OnDockShellCloseRequested(id) \/ ActivateTerminal(id)
                           \/ OnDockTerminalFocused(id)
        \/ CloseActive \/ CloseLogs
Slots == ConnectToHost \/ OpenTerminal \/ RetireTerminal
Handlers == \E id \in Ids : OnIdle(id) \/ ReportFailed(id) \/ ReportClosed(id)
Remote == ConnectionLost \/ \E id \in Ids : RemoteWrites(id) \/ RemoteEnds(id) \/ WriteFails(id)
Answers == OnWorkerConnected \/ OnWorkerGone \/ OnTerminalOpened \/ OnTerminalOpenFailed
           \/ OnTerminalClosed \/ OnTerminalFailed \/ OnTerminalData

Next == User \/ Slots \/ Handlers \/ Remote \/ Answers

Spec == Init /\ [][Next]_vars

-----------------------------------------------------------------------------
(* Properties.                                                             *)

Live == {id \in Ids : phase[id] # "none"}

\* When nothing is on its way between the threads of a connected session, the
\* session lists exactly the terminals the worker has channels for, none is
\* marked as closing, and what is listed is open: no ghost of either kind
\* is left by a close, a failure or a refusal that crossed another.
NoGhosts ==
  session = "Connected" /\ up /\ calls = <<>> /\ signals = <<>> /\ Idle
    => /\ ListedIds(gui.terms) = Live
       /\ \A i \in DOMAIN gui.terms : gui.terms[i].state = "Open"
       /\ gui.closing = {}

\* A shell that ends by itself has its whole output in its pane before the
\* session takes the pane away.
OutputBeforeClosed ==
  \A i \in DOMAIN signals :
    signals[i].type = "closed" /\ signals[i].id \notin asked /\ i = 1
      /\ signals[i].id \in gui.panes
      => unseen[signals[i].id] = {}

\* Every shell of a connected session is docked, the one that is created with
\* the connection too.
EveryShellIsDocked == session = "Connected" => Visible(gui.terms) \subseteq gui.pinned

\* The worker, the session and the dock agree about the terminals there are.
TerminalsAgree == NoGhosts /\ EveryShellIsDocked
=============================================================================
