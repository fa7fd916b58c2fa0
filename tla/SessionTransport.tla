-------------------------- MODULE SessionTransport --------------------------
(***************************************************************************)
(* The transport of one Session: the GUI thread makes an SshWorker and its *)
(* thread for every connection attempt, and the two talk through posted    *)
(* slots (GUI to worker) and queued signals (worker to GUI).               *)
(*                                                                         *)
(* Workers are numbered in the order of their creation, so that a signal   *)
(* of a worker the session has replaced can be told from one of its        *)
(* current worker: the handlers of Session cannot, and a signal that is    *)
(* posted already is delivered even after QObject::disconnect.  A step is  *)
(* one event handled by the GUI thread, up to a wait for a thread, or one  *)
(* stage of SshWorker::connectToHost or of its I/O loop.                   *)
(***************************************************************************)
EXTENDS Naturals, Sequences, SequencesExt

CONSTANTS MaxWorkers,      \* bound: workers made in a behaviour
          AutoReconnect    \* AppSettings::autoReconnect

ASSUME MaxWorkersAssumption == MaxWorkers \in Nat \ {0}
ASSUME AutoReconnectAssumption == AutoReconnect \in BOOLEAN

VARIABLES
  (* Session, on the GUI thread *)
  state,         \* m_state
  current,       \* m_worker and m_thread; 0 is nullptr
  made,          \* number of workers made so far
  shuttingDown,  \* m_shuttingDown
  attempted,     \* m_autoReconnectAttempted
  timers,        \* single-shot auto-reconnect timers that have not fired
  guiQueue,      \* signals posted to the GUI thread
  dialogs,       \* open host-key dialogs, one inside the other
  waitFor,       \* the thread QThread::wait blocks on, 0 if none
  after,         \* what the blocked call goes on with
  wanted,        \* history: the user's last command was to connect
  (* the workers *)
  phase,         \* where the thread is
  inbox,         \* slots posted to it
  cancel,        \* m_cancelRequested
  answered,      \* m_hostKeyAnswered
  accepted,      \* m_hostKeyAccepted
  by,            \* history: the dialog that answered last, NoDialog if no dialog
  astray,        \* history: workers answered by the dialog of another worker
  quit           \* QThread::quit has been called

sessionVars == <<state, current, made, shuttingDown, attempted>>
guiVars == <<timers, dialogs, waitFor, after, wanted>>
keyVars == <<answered, accepted, by, astray>>
workerVars == <<phase, inbox, cancel, keyVars, quit>>
vars == <<state, current, made, shuttingDown, attempted, timers, guiQueue,
          dialogs, waitFor, after, wanted, phase, inbox, cancel, answered,
          accepted, by, astray, quit>>

Workers == 1..MaxWorkers
States == {"Disconnected", "Connecting", "Connected", "Failed"}
Establishing == {"gateway", "askGateway", "connecting", "verifying", "askTarget",
                 "authenticating", "opening", "opened"}
Asking == {"askGateway", "askTarget"}
Phases == Establishing \cup {"idle", "running", "faulted", "ended"}
Slots == {"connect", "stop", "keepalive"}
Signals == [from : Workers, name : {"connected", "disconnected", "error"} \cup Asking]
NoDialog == [from |-> 0, name |-> "none"]

Init ==
    /\ state = "Disconnected"
    /\ current = 0 /\ made = 0
    /\ shuttingDown = FALSE /\ attempted = FALSE
    /\ timers = 0
    /\ guiQueue = <<>>
    /\ dialogs = <<>>
    /\ waitFor = 0 /\ after = "nothing"
    /\ wanted = FALSE
    /\ phase = [g \in Workers |-> "idle"]
    /\ inbox = [g \in Workers |-> <<>>]
    /\ cancel = [g \in Workers |-> FALSE]
    /\ answered = [g \in Workers |-> FALSE]
    /\ accepted = [g \in Workers |-> FALSE]
    /\ by = [g \in Workers |-> NoDialog] /\ astray = {}
    /\ quit = [g \in Workers |-> FALSE]
-----------------------------------------------------------------------------
(* GUI thread *)

GuiIdle == waitFor = 0 /\ after # "closed"

(* The host-key dialog is modal: it shuts the user out of the window, not  *)
(* the signals and timers, which its nested event loop delivers.           *)
UserIdle == GuiIdle /\ dialogs = <<>>

(* SshWorker::respondHostKeyTrust. *)
Respond(g, answer, dialog) ==
    /\ answered' = [answered EXCEPT ![g] = TRUE]
    /\ accepted' = [accepted EXCEPT ![g] = answer]
    /\ by' = [by EXCEPT ![g] = dialog]
    /\ astray' = IF dialog.from \in {0, g} THEN astray ELSE astray \cup {g}

(* Letting go of a worker whose thread is not told to quit. *)
CancelWithoutQuit(g) ==
    /\ cancel' = [cancel EXCEPT ![g] = TRUE]
    /\ Respond(g, FALSE, NoDialog)
    /\ inbox' = [inbox EXCEPT ![g] = Append(@, "stop")]
    /\ UNCHANGED <<phase, quit>>

(* requestCancel, a posted disconnectSession and QThread::quit. *)
TellToStop(g) ==
    /\ cancel' = [cancel EXCEPT ![g] = TRUE]
    /\ Respond(g, FALSE, NoDialog)
    /\ inbox' = [inbox EXCEPT ![g] = Append(@, "stop")]
    /\ quit' = [quit EXCEPT ![g] = TRUE]
    /\ UNCHANGED phase

(* Session::connectTransport, past its early returns, with ensureWorker.   *)
ConnectTransport ==
    /\ state' = "Connecting"
    /\ shuttingDown' = FALSE
    /\ \/ /\ current = 0
          /\ made < MaxWorkers
          /\ made' = made + 1
          /\ current' = made + 1
          /\ inbox' = [inbox EXCEPT ![made + 1] = <<"connect">>]
       \/ /\ current # 0
          /\ inbox' = [inbox EXCEPT ![current] = Append(@, "connect")]
          /\ UNCHANGED <<current, made>>
    /\ UNCHANGED <<attempted, phase, cancel, keyVars, quit>>

(* The tab opens and connects. *)
Open ==
    /\ UserIdle
    /\ made = 0
    /\ ConnectTransport
    /\ wanted' = TRUE
    /\ UNCHANGED <<timers, guiQueue, dialogs, waitFor, after>>

(* Session::disconnectTransport with releaseWorkerAsync: nothing is waited *)
(* for, the thread ends by itself.  It returns early in other states, and  *)
(* an auto-reconnect timer that is armed stays armed.                      *)
DisconnectTransport ==
    /\ UserIdle
    /\ state \in {"Connected", "Connecting"}
    /\ state' = "Disconnected"
    /\ attempted' = FALSE
    /\ shuttingDown' = TRUE
    /\ current' = 0
    /\ wanted' = FALSE
    /\ IF current = 0 THEN UNCHANGED workerVars ELSE TellToStop(current)
    /\ UNCHANGED <<made, timers, guiQueue, dialogs, waitFor, after>>

(* teardownWorker: blocks the GUI thread on the worker's thread. *)
Teardown(next) ==
    /\ current # 0
    /\ TellToStop(current)
    /\ current' = 0
    /\ shuttingDown' = TRUE
    /\ waitFor' = current
    /\ after' = next

Reconnect ==
    /\ UserIdle
    /\ made \in 1..MaxWorkers - 1
    /\ state # "Connecting"
    /\ wanted' = TRUE
    /\ \/ /\ Teardown("connect")
          /\ UNCHANGED <<state, made, attempted>>
       \/ /\ current = 0
          /\ ConnectTransport
          /\ UNCHANGED <<waitFor, after>>
    /\ UNCHANGED <<timers, guiQueue, dialogs>>

(* Session::shutdown: the tab is closed and the session deleted. *)
Shutdown ==
    /\ UserIdle
    /\ made > 0
    /\ wanted' = FALSE
    /\ state' = "Disconnected"
    /\ \/ Teardown("close")
       \/ /\ current = 0
          /\ shuttingDown' = TRUE
          /\ after' = "closed"
          /\ UNCHANGED <<workerVars, current, waitFor>>
    /\ UNCHANGED <<made, attempted, timers, guiQueue, dialogs>>

(* The thread is over: slots still posted are dropped, the worker deleted. *)
Gone(g) ==
    /\ phase' = [phase EXCEPT ![g] = "ended"]
    /\ inbox' = [inbox EXCEPT ![g] = <<>>]
    /\ cancel' = [cancel EXCEPT ![g] = FALSE]
    /\ answered' = [answered EXCEPT ![g] = FALSE]
    /\ accepted' = [accepted EXCEPT ![g] = FALSE]
    /\ by' = [by EXCEPT ![g] = NoDialog] /\ astray' = astray \ {g}
    /\ quit' = [quit EXCEPT ![g] = FALSE]

(* scheduleAutoReconnect *)
Schedule ==
    /\ attempted' = TRUE
    /\ timers' = timers + 1

(* QThread::wait has returned: the call that waited goes on. *)
GoOn ==
    /\ waitFor # 0
    /\ phase[waitFor] = "ended"
    /\ waitFor' = 0
    /\ \/ /\ after = "connect"
          /\ after' = "nothing"
          /\ ConnectTransport
          /\ UNCHANGED timers
       \/ /\ after = "schedule"
          /\ after' = "nothing"
          /\ Schedule
          /\ UNCHANGED <<state, current, made, shuttingDown, workerVars>>
       \/ /\ after \in {"nothing", "close"}
          /\ after' = IF after = "close" THEN "closed" ELSE "nothing"
          /\ UNCHANGED <<sessionVars, timers, workerVars>>
    /\ UNCHANGED <<guiQueue, dialogs, wanted>>

(* Two seconds have passed: the thread is terminated wherever it is. *)
Terminate ==
    /\ waitFor # 0
    /\ phase[waitFor] # "ended"
    /\ Gone(waitFor)
    /\ UNCHANGED <<sessionVars, guiQueue, guiVars>>

(* The timer of scheduleAutoReconnect. *)
TimerFires ==
    /\ GuiIdle
    /\ timers > 0
    /\ timers' = timers - 1
    /\ IF state \in {"Disconnected", "Failed"}
         THEN ConnectTransport
         ELSE UNCHANGED <<sessionVars, workerVars>>
    /\ UNCHANGED <<guiQueue, dialogs, waitFor, after, wanted>>

Delivers(name) ==
    /\ GuiIdle
    /\ guiQueue # <<>>
    /\ Head(guiQueue).name = name
    /\ guiQueue' = Tail(guiQueue)

OnWorkerConnected ==
    /\ Delivers("connected")
    /\ attempted' = FALSE
    /\ state' = "Connected"
    /\ UNCHANGED <<current, made, shuttingDown, guiVars, workerVars>>

(* onWorkerDisconnected: the worker is taken to be done, so it is neither  *)
(* cancelled nor told to disconnect; its thread is quit and waited for.    *)
OnWorkerDisconnected ==
    /\ Delivers("disconnected")
    /\ ~shuttingDown
    /\ state' = "Disconnected"
    /\ shuttingDown' = TRUE
    /\ current' = 0
    /\ LET again == AutoReconnect /\ ~attempted IN
         \/ /\ current # 0
            /\ quit' = [quit EXCEPT ![current] = TRUE]
            /\ waitFor' = current
            /\ after' = IF again THEN "schedule" ELSE "nothing"
            /\ UNCHANGED <<attempted, timers, phase, inbox, cancel, keyVars>>
         \/ /\ current = 0
            /\ IF again THEN Schedule ELSE UNCHANGED <<attempted, timers>>
            /\ UNCHANGED <<waitFor, after, workerVars>>
    /\ UNCHANGED <<made, dialogs, wanted>>

DropDisconnected ==
    /\ Delivers("disconnected")
    /\ shuttingDown
    /\ UNCHANGED <<sessionVars, guiVars, workerVars>>

OnWorkerError ==
    /\ Delivers("error")
    /\ state' = "Failed"
    /\ shuttingDown' = TRUE
    /\ current' = 0
    /\ \/ /\ current # 0
          /\ TellToStop(current)
          /\ waitFor' = current
       \/ /\ current = 0
          /\ UNCHANGED <<workerVars, waitFor>>
    /\ UNCHANGED <<made, attempted, timers, dialogs, after, wanted>>

(* SessionPage::onHostKeyPrompt opens a dialog, inside those that are open,*)
(* ...                                                                     *)
OnHostKeyPrompt ==
    /\ GuiIdle
    /\ guiQueue # <<>> /\ Head(guiQueue).name \in Asking
    /\ guiQueue' = Tail(guiQueue)
    /\ dialogs' = Append(dialogs, Head(guiQueue))
    /\ UNCHANGED <<sessionVars, timers, waitFor, after, wanted, workerVars>>

Answers(answer) ==
    /\ GuiIdle
    /\ dialogs # <<>>
    /\ dialogs' = Front(dialogs)
    /\ IF current = 0 THEN UNCHANGED keyVars ELSE Respond(current, answer, Last(dialogs))
    /\ UNCHANGED <<sessionVars, timers, guiQueue, waitFor, after, wanted, phase,
                   inbox, cancel, quit>>

(* A dialog whose refusal is not sent. *)
AnswerDialogYesOnly ==
    \/ Answers(TRUE)
    \/ /\ GuiIdle /\ dialogs # <<>> /\ dialogs' = Front(dialogs)
       /\ UNCHANGED <<sessionVars, timers, guiQueue, waitFor, after, wanted, workerVars>>

(* ... and sends the answer to the worker the session has by then; a key   *)
(* that has changed is only reported, and refused.                         *)
AnswerDialog == \E answer \in BOOLEAN : Answers(answer)

At(g, p) == phase[g] = p /\ g <= made
GoTo(g, p) == phase' = [phase EXCEPT ![g] = p]

(* emit: the signal is posted while the session is connected to the worker.*)
Post(g, names) ==
    guiQueue' = IF current = g
                  THEN guiQueue \o [i \in 1..Len(names) |-> [from |-> g, name |-> names[i]]]
                  ELSE guiQueue

Takes(g, slot) ==
    /\ inbox[g] # <<>>
    /\ Head(inbox[g]) = slot
    /\ inbox' = [inbox EXCEPT ![g] = Tail(@)]

(* applyConnectionOptions: a gateway is part of the connection's options. *)
Begin(g) == GoTo(g, "connecting") \/ GoTo(g, "gateway")

(* The connectToHost slot begins: it refuses to connect a second time, and *)
(* clears m_cancelRequested.                                               *)
ConnectToHost(g) ==
    /\ At(g, "idle") \/ At(g, "running")
    /\ Takes(g, "connect")
    /\ IF phase[g] = "running"
         THEN Post(g, <<"error">>) /\ UNCHANGED <<cancel, phase>>
         ELSE /\ cancel' = [cancel EXCEPT ![g] = FALSE]
              /\ Begin(g)
              /\ UNCHANGED guiQueue
    /\ UNCHANGED <<sessionVars, guiVars, keyVars, quit>>

(* The stages of SshSession::establish.  Between two of them the worker    *)
(* looks at m_cancelRequested; what is under way does not notice a cancel. *)
Passes(g, from, to) ==
    /\ At(g, from)
    /\ ~cancel[g]
    /\ GoTo(g, to)
    /\ UNCHANGED <<sessionVars, guiQueue, guiVars, inbox, cancel, keyVars, quit>>

(* waitForHostKeyTrust: the host key is not known.  A cancel that arrived  *)
(* since it was last looked at does not stop it, and its answer is reset.  *)
WaitForTrust(g, to) ==
    /\ answered' = [answered EXCEPT ![g] = FALSE]
    /\ accepted' = [accepted EXCEPT ![g] = FALSE]
    /\ by' = [by EXCEPT ![g] = NoDialog]
    /\ UNCHANGED astray
    /\ guiQueue' = IF current = g THEN Append(guiQueue, [from |-> g, name |-> to]) ELSE guiQueue
    /\ GoTo(g, to)
    /\ UNCHANGED <<sessionVars, guiVars, inbox, cancel, quit>>

(* The gateway's key is checked and the user authenticated to it by        *)
(* callbacks that libssh makes while ssh_connect is polled.                *)
GatewayPassed(g) == Passes(g, "gateway", "connecting")
GatewayAsks(g) == At(g, "gateway") /\ WaitForTrust(g, "askGateway")
GatewayTrusted(g) ==
    /\ At(g, "askGateway") /\ answered[g] /\ accepted[g]
    /\ GoTo(g, "connecting")
    /\ UNCHANGED <<sessionVars, guiQueue, guiVars, inbox, cancel, keyVars, quit>>

ConnectedToHost(g) == Passes(g, "connecting", "verifying")

(* A wait that takes an answer that is there already. *)
AskForTrustLate(g) ==
    /\ At(g, "verifying")
    /\ guiQueue' = IF current = g THEN Append(guiQueue, [from |-> g, name |-> "askTarget"])
                                  ELSE guiQueue
    /\ GoTo(g, "askTarget")
    /\ UNCHANGED <<sessionVars, guiVars, inbox, cancel, keyVars, quit>>
AskForTrust(g) == At(g, "verifying") /\ WaitForTrust(g, "askTarget")

(* The wait is over; a rejected key is an error, and so is one that cannot *)
(* be added to the known hosts.                                            *)
TrustDecided(g) ==
    /\ At(g, "askTarget")
    /\ answered[g]
    /\ \/ /\ accepted[g] /\ ~cancel[g]
          /\ GoTo(g, "authenticating")
          /\ UNCHANGED guiQueue
       \/ /\ accepted[g] /\ cancel[g]
          /\ GoTo(g, "idle")
          /\ UNCHANGED guiQueue
       \/ /\ Post(g, <<"error">>)
          /\ GoTo(g, "idle")
    /\ UNCHANGED <<sessionVars, guiVars, inbox, cancel, keyVars, quit>>

KeyKnown(g) == Passes(g, "verifying", "authenticating")

(* The key cannot be read or compared. *)
KeyFails(g) ==
    /\ At(g, "verifying")
    /\ Post(g, <<"error">>)
    /\ GoTo(g, "idle")
    /\ UNCHANGED <<sessionVars, guiVars, inbox, cancel, keyVars, quit>>

(* SshAuth goes through what the connection allows, the agent and a key or *)
(* the default identities, or the password in two ways; whether the server *)
(* takes one of them is left open.                                         *)
Authenticated(g) == Passes(g, "authenticating", "opening")

(* A failure that is not reported. *)
Failing(g) ==
    \/ phase[g] \in {"gateway", "askGateway", "connecting", "authenticating", "opening"}
    \/ phase[g] = "verifying" /\ cancel[g]
ConnectFailsSilently(g) ==
    /\ Failing(g)
    /\ GoTo(g, "idle")
    /\ UNCHANGED <<sessionVars, guiQueue, guiVars, inbox, cancel, keyVars, quit>>

(* A failure, or a cancel noticed on the way, also while libssh waits for  *)
(* the trust in a gateway: connectToHost returns, and reports an error     *)
(* unless it was cancelled.                                                *)
ConnectFails(g) ==
    /\ Failing(g)
    /\ IF cancel[g] THEN UNCHANGED guiQueue ELSE Post(g, <<"error">>)
    /\ GoTo(g, "idle")
    /\ UNCHANGED <<sessionVars, guiVars, inbox, cancel, keyVars, quit>>

(* The last look at m_cancelRequested ... *)
NotCancelled(g) == Passes(g, "opening", "opened")

(* ... and what is done on its strength: the loop runs. *)
Connected(g) ==
    /\ At(g, "opened")
    /\ Post(g, <<"connected">>)
    /\ GoTo(g, "running")
    /\ UNCHANGED <<sessionVars, guiVars, inbox, cancel, keyVars, quit>>

(* disconnectSession, after what was emitted before it. *)
DisconnectSession(g, before) ==
    /\ cancel' = [cancel EXCEPT ![g] = TRUE]
    /\ Respond(g, FALSE, NoDialog)
    /\ Post(g, IF phase[g] \in {"running", "faulted"}
                 THEN Append(before, "disconnected") ELSE before)
    /\ GoTo(g, "idle")
    /\ UNCHANGED <<sessionVars, guiVars, quit>>

(* The loop reports a fault, then disconnects. *)
LoopFault(g) ==
    /\ At(g, "running")
    /\ Post(g, <<"error">>)
    /\ GoTo(g, "faulted")
    /\ UNCHANGED <<sessionVars, guiVars, inbox, cancel, keyVars, quit>>

FaultDisconnects(g) ==
    /\ At(g, "faulted")
    /\ DisconnectSession(g, <<>>)
    /\ UNCHANGED inbox

SessionEof(g) ==
    /\ At(g, "running")
    /\ DisconnectSession(g, <<>>)
    /\ UNCHANGED inbox

(* keepaliveFailed posts a slot to its own thread. *)
KeepaliveFails(g) ==
    /\ At(g, "running")
    /\ \A i \in 1..Len(inbox[g]) : inbox[g][i] # "keepalive"
    /\ inbox' = [inbox EXCEPT ![g] = Append(@, "keepalive")]
    /\ UNCHANGED <<sessionVars, guiQueue, guiVars, phase, cancel, keyVars, quit>>

(* Slots are delivered by the loop and by the thread's own event loop. *)
KeepaliveSlot(g) ==
    /\ At(g, "running") \/ At(g, "idle")
    /\ Takes(g, "keepalive")
    /\ DisconnectSession(g, <<"error">>)

StopSlot(g) ==
    /\ At(g, "running") \/ At(g, "idle")
    /\ Takes(g, "stop")
    /\ DisconnectSession(g, <<>>)

(* The thread's event loop exits; slots still posted are dropped. *)
ThreadEnds(g) ==
    /\ At(g, "idle")
    /\ quit[g]
    /\ Gone(g)
    /\ UNCHANGED <<sessionVars, guiQueue, guiVars>>
-----------------------------------------------------------------------------
User == Open \/ DisconnectTransport \/ Reconnect \/ Shutdown

Gui == GoOn \/ Terminate \/ TimerFires \/ OnWorkerConnected
         \/ OnWorkerDisconnected \/ DropDisconnected \/ OnWorkerError
         \/ OnHostKeyPrompt \/ AnswerDialog

Establish(g) == ConnectToHost(g) \/ GatewayPassed(g) \/ GatewayAsks(g)
                  \/ GatewayTrusted(g) \/ ConnectedToHost(g) \/ AskForTrust(g)
                  \/ TrustDecided(g) \/ KeyKnown(g) \/ KeyFails(g) \/ Authenticated(g)
                  \/ ConnectFails(g) \/ NotCancelled(g) \/ Connected(g)

Loop(g) == FaultDisconnects(g) \/ KeepaliveSlot(g) \/ StopSlot(g)

Loss(g) == LoopFault(g) \/ SessionEof(g) \/ KeepaliveFails(g)

Next == User \/ Gui \/ \E g \in Workers : Establish(g) \/ Loop(g) \/ Loss(g) \/ ThreadEnds(g)

Spec == Init /\ [][Next]_vars

(* Both threads run; the network answers or times out; a user who is asked *)
(* for trust answers.  Nobody has to connect, and no connection has to be  *)
(* lost.                                                                   *)
Fairness ==
    /\ WF_vars(Gui)
    /\ \A g \in Workers : WF_vars(Establish(g)) /\ WF_vars(Loop(g)) /\ WF_vars(ThreadEnds(g))

FairSpec == Spec /\ Fairness
-----------------------------------------------------------------------------
(* Every variable has its type, and no more timers are armed than workers  *)
(* were made.                                                              *)
TypeOK ==
    /\ state \in States
    /\ current \in 0..MaxWorkers /\ made \in 0..MaxWorkers
    /\ shuttingDown \in BOOLEAN /\ attempted \in BOOLEAN
    /\ timers \in 0..made
    /\ guiQueue \in Seq(Signals)
    /\ dialogs \in Seq(Signals)
    /\ waitFor \in 0..MaxWorkers
    /\ after \in {"nothing", "connect", "schedule", "close", "closed"}
    /\ wanted \in BOOLEAN
    /\ phase \in [Workers -> Phases]
    /\ inbox \in [Workers -> Seq(Slots)]
    /\ cancel \in [Workers -> BOOLEAN]
    /\ answered \in [Workers -> BOOLEAN]
    /\ accepted \in [Workers -> BOOLEAN]
    /\ by \in [Workers -> Signals \cup {NoDialog}] /\ astray \subseteq Workers
    /\ quit \in [Workers -> BOOLEAN]

Has(q, x) == \E i \in 1..Len(q) : q[i] = x
Abandoned(g) == g <= made /\ g # current

(* A worker the session has let go of is on its way out: its thread is     *)
(* dead, or has been told to quit and is idle, will find the posted        *)
(* disconnectSession, or is waited for and terminated if it lingers.       *)
AbandonedAreStopped ==
    \A g \in Workers : Abandoned(g) =>
        \/ phase[g] = "ended"
        \/ quit[g] /\ (phase[g] = "idle" \/ waitFor = g \/ Has(inbox[g], "stop"))

(* A session that shows Connecting is owed an outcome by its worker.       *)
OwesOutcome(g) ==
    \/ phase[g] \in Establishing
    \/ Has(inbox[g], "connect")
    \/ \E i \in 1..Len(guiQueue) : guiQueue[i].from = g /\ guiQueue[i].name \notin Asking

ConnectingIsOwedAnOutcome == state = "Connecting" => OwesOutcome(current)

(* Neither a worker that was let go of nor a session that waits is left to *)
(* itself.                                                                 *)
NobodyIsForgotten == AbandonedAreStopped /\ ConnectingIsOwedAnOutcome

(* A key is taken for trusted by the answer to the dialog that showed it,  *)
(* never by that to another of the same connection, a gateway's for the    *)
(* target's, unless a dialog left over from a worker that was let go of    *)
(* has been answered meanwhile: its answer goes to the worker of the day.  *)
TrustedIsShown ==
    [][\A g \in Workers, ask \in Asking :
         phase[g] = ask /\ phase'[g] \in {"connecting", "authenticating"}
           => by[g] = [from |-> g, name |-> ask] \/ g \in astray]_vars

(* The session never stays in Connecting. *)
ConnectingEnds == state = "Connecting" ~> state # "Connecting"

(* The thread of an abandoned worker ends, unless a cancel that was lost   *)
(* left it at the host-key prompt.                                         *)
AbandonedEndOrAsk ==
    \A g \in Workers : Abandoned(g) ~> phase[g] \in {"ended", "askTarget"}

(* The next three are in no run, for they do not hold, the last with three *)
(* workers.                                                                *)

(* requestCancel is documented to abort an in-flight connect and the       *)
(* host-key wait, so that every abandoned thread ends.                     *)
CancelAborts == \A g \in Workers : Abandoned(g) ~> phase[g] = "ended"

(* A lost connection is connected again automatically, while the user      *)
(* still wants it and the setting is on.                                   *)
Lost(g) == current = g /\ state = "Connected" /\ phase[g] = "faulted"
LostIsReconnected ==
    \A g \in 1..MaxWorkers - 1 :
        Lost(g) /\ AutoReconnect ~> state = "Connecting" \/ ~wanted

(* Only a lost connection is connected again by itself, never one whose    *)
(* user has asked for it to be closed.                                     *)
NoUnwantedConnect == state = "Connecting" => wanted
=============================================================================
