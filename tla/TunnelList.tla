----------------------------- MODULE TunnelList -----------------------------
(***************************************************************************)
(* The tunnels of several sessions as the user handles them: the one       *)
(* tunnel list of the main window, bound to the session of the active tab; *)
(* the tunnel store; the keychain, which answers when it likes; the        *)
(* sessions; and the tunnel slots of each session's SSH worker.  Sessions  *)
(* and workers talk through queues: slots one way, signals the other.      *)
(*                                                                         *)
(* The list starts a SOCKS tunnel with a password only when the keychain   *)
(* has answered: each start connects a single-shot slot to readFinished,   *)
(* which every answer to anybody uses up.                                  *)
(***************************************************************************)
EXTENDS Integers, Sequences, FiniteSets, FiniteSetsExt, SequencesExt

CONSTANTS Sessions,    \* one per tab
          Tunnels,     \* ids of tunnel definitions
          Home,        \* the session of the connection a tunnel belongs to
          Auth,        \* the SOCKS tunnels with a password in the keychain
          Edited,      \* the tunnels the user opens dialogs for
          NoSession, NoTunnel,
          MaxReads,    \* keychain reads of one tunnel the user starts at a time
          MaxCopies,   \* stored definitions of one tunnel
          MaxBacklog   \* slots and signals under way before the user acts

ASSUME TunnelsAssumption == IsFiniteSet(Tunnels)
ASSUME HomeAssumption == Home \in [Tunnels -> Sessions]
ASSUME AuthAssumption == Auth \subseteq Tunnels /\ Edited \subseteq Tunnels
ASSUME SentinelAssumption == NoSession \notin Sessions /\ NoTunnel \notin Tunnels
ASSUME ReadsAssumption == {MaxReads, MaxCopies} \subseteq Nat \ {0} /\ MaxBacklog \in Nat

VARIABLES
  bound,     \* m_session of the list: the active tab's session or NoSession
  store,     \* the stored definitions of each tunnel, enabled or not
  rows,      \* the rows of each tunnel in the list's model
  shown,     \* the runtime status of the model's rows
  conn,      \* the sessions in the Connected state
  dialog,    \* the tunnel whose (non-modal) dialog is open, or NoTunnel
  waiters,   \* single-shot slots connected to readFinished, by tunnel
  reading,   \* keychain reads under way, by tunnel
  up,        \* the sessions whose worker runs
  running,   \* the worker's m_tunnelSessions
  inbox,     \* slots posted to the worker
  signals,   \* signals of the worker posted to the session
  astray     \* tunnels for which an answer or a dialog outlived a change of tab

list == <<bound, rows, shown>>
reads == <<waiters, reading>>
worker == <<up, running, inbox, signals>>
vars == <<list, store, conn, dialog, reads, worker, astray>>

Statuses == {"Off", "Starting", "Listening", "Error"}
Definitions == BoundedSeq({"on", "off"}, MaxCopies)
Slot == {"start", "stop"} \X Tunnels
Signal == {<<"connected">>, <<"disconnected">>} \union (Tunnels \X Statuses)

TypeOK ==
  /\ bound \in Sessions \union {NoSession}
  /\ store \in [Tunnels -> Definitions] /\ rows \in [Tunnels -> Definitions]
  /\ shown \in [Tunnels -> Statuses]
  /\ conn \subseteq Sessions /\ up \subseteq Sessions
  /\ dialog \in Tunnels \union {NoTunnel}
  /\ {waiters, reading} \subseteq [Tunnels -> 0 .. MaxReads * MaxCopies]
  /\ running \in [Sessions -> SUBSET Tunnels]
  /\ inbox \in [Sessions -> Seq(Slot)]
  /\ signals \in [Sessions -> Seq(Signal)]
  /\ astray \subseteq Tunnels

Init ==
  /\ bound = NoSession
  /\ store \in [Tunnels -> {<<"on">>, <<"off">>}]
  /\ rows = [t \in Tunnels |-> <<>>]
  /\ shown = [t \in Tunnels |-> "Off"]
  /\ conn = {} /\ up = {} /\ astray = {}
  /\ dialog = NoTunnel
  /\ waiters = [t \in Tunnels |-> 0]
  /\ reading = [t \in Tunnels |-> 0]
  /\ running = [s \in Sessions |-> {}]
  /\ inbox = [s \in Sessions |-> <<>>]
  /\ signals = [s \in Sessions |-> <<>>]

IsSessionConnected == bound \in conn

\* The bounds on the user: little is under way, and a read that is about to
\* start (with a session that has connected) still fits.
Arriving == {s \in Sessions : Contains(signals[s], <<"connected">>)}
Room == \A t \in Auth : reading[t] + Cardinality(Arriving) < MaxReads
UnderWay(s) == Len(inbox[s]) + Len(signals[s])
Calm == MapThenSumSet(UnderWay, Sessions) <= MaxBacklog
\* TunnelListModel: a status is shown only for a row there is.
ClearRuntimeStatuses == [t \in Tunnels |-> "Off"]
SetRuntimeStatus(t, status) ==
  shown' = IF rows[t] # <<>> THEN [shown EXCEPT ![t] = status] ELSE shown
Post(s, slots) == inbox' = [inbox EXCEPT ![s] = @ \o slots]

-----------------------------------------------------------------------------
(* The list.                                                               *)

\* TunnelStore::loadForConnection.
LoadForConnection(s) == [t \in Tunnels |-> IF Home[t] = s THEN store[t] ELSE <<>>]

\* TunnelListModel::upsert and removeById: the first row of the tunnel.
Upsert(t, def) == [rows EXCEPT ![t] = <<def>> \o IF @ = <<>> THEN <<>> ELSE Tail(@)]
RemoveById(t) == [rows EXCEPT ![t] = Tail(@)]

\* TunnelStore::save.
Save(definitions) ==
  /\ \A t \in Tunnels : Len(definitions[t]) <= MaxCopies
  /\ store' = definitions

\* persistAll: the stored definitions of the other connections, then the model.
PersistAll(model) ==
  Save([t \in Tunnels |-> (IF Home[t] = bound THEN <<>> ELSE store[t]) \o model[t]])

\* readSecret for each of the definitions, whose starts wait for the answers.
ReadSecrets(defs) ==
  LET more(n) == [t \in Tunnels |-> n[t] + Cardinality({d \in defs : d[1] = t})]
  IN  waiters' = more(waiters) /\ reading' = more(reading)

\* startTunnelWithSecrets: a plain tunnel is posted at once.
StartTunnelWithSecrets(t) ==
  IF ~IsSessionConnected THEN UNCHANGED <<reads, inbox>>
  ELSE IF t \in Auth THEN ReadSecrets({<<t, 1>>}) /\ UNCHANGED inbox
  ELSE Post(bound, <<<<"start", t>>>>) /\ UNCHANGED reads

\* The enabled definitions among defs of the tunnels ts.
EnabledOf(defs, ts) == {d \in ts \X (1 .. MaxCopies) :
                           d[2] <= Len(defs[d[1]]) /\ defs[d[1]][d[2]] = "on"}
EnabledAuth(model) == EnabledOf(model, Auth)

\* syncSidePanelsToActiveSession, on a change of tab: unbindSession empties the
\* model, bindSession loads it again and starts the enabled tunnels with a
\* password if the session is connected.
SelectTab(s) ==
  /\ Calm /\ s # bound /\ (s \in conn => Room)
  /\ bound' = s
  /\ rows' = LoadForConnection(s)
  /\ shown' = ClearRuntimeStatuses
  /\ IF s \in conn THEN ReadSecrets(EnabledAuth(rows')) ELSE UNCHANGED reads
  /\ UNCHANGED <<store, conn, dialog, worker, astray>>

\* toggleSelected, while the session is connected: the shown status decides.
ToggleOff(t) ==
  /\ Calm /\ IsSessionConnected /\ rows[t] # <<>>
  /\ shown[t] \in {"Listening", "Starting"}
  /\ rows' = Upsert(t, "off")
  /\ PersistAll(rows')
  /\ Post(bound, <<<<"stop", t>>>>)
  /\ UNCHANGED <<bound, shown, conn, dialog, reads, up, running, signals, astray>>

ToggleOn(t) ==
  /\ Calm /\ Room /\ IsSessionConnected /\ rows[t] # <<>>
  /\ shown[t] \notin {"Listening", "Starting"}
  /\ rows' = Upsert(t, "on")
  /\ PersistAll(rows')
  /\ StartTunnelWithSecrets(t)
  /\ UNCHANGED <<bound, shown, conn, dialog, up, running, signals, astray>>

DeleteSelected(t) ==
  /\ Calm /\ rows[t] # <<>>
  /\ IF IsSessionConnected THEN Post(bound, <<<<"stop", t>>>>) ELSE UNCHANGED inbox
  /\ rows' = RemoveById(t)
  /\ shown' = [shown EXCEPT ![t] = "Off"]
  /\ PersistAll(rows')
  /\ UNCHANGED <<bound, conn, dialog, reads, up, running, signals, astray>>

\* addTunnel and editSelected: the dialog of a new tunnel or of one that is not
\* running.  It stays open whatever happens to the list.
OpenDialog(t) ==
  /\ Calm /\ t \in Edited /\ dialog = NoTunnel /\ bound = Home[t]
  /\ shown[t] \notin {"Listening", "Starting"}
  /\ dialog' = t
  /\ UNCHANGED <<list, store, conn, reads, worker, astray>>

\* The dialog is accepted: the definition goes into the model of now.  A tunnel
\* with a password is started with the one typed, or with the stored one.
AcceptDialog(def) ==
  /\ Calm /\ Room /\ dialog # NoTunnel /\ bound # NoSession
  /\ dialog' = NoTunnel
  /\ rows' = Upsert(dialog, def)
  /\ PersistAll(rows')
  /\ astray' = IF Home[dialog] # bound THEN astray \union {dialog} ELSE astray
  /\ \/ def = "on" /\ StartTunnelWithSecrets(dialog)
     \/ /\ def = "on" /\ IsSessionConnected /\ dialog \in Auth
        /\ Post(bound, <<<<"start", dialog>>>>) /\ UNCHANGED reads
     \/ def = "off" /\ UNCHANGED <<reads, inbox>>
  /\ UNCHANGED <<bound, shown, conn, up, running, signals>>

\* readFinished for t.  Every slot that waits is used up; those of t start
\* their tunnel on the session the list is bound to now.
ReadFinished(t) ==
  /\ reading[t] > 0
  /\ reading' = [reading EXCEPT ![t] = @ - 1]
  /\ waiters' = [u \in Tunnels |-> 0]
  /\ IF IsSessionConnected
     THEN Post(bound, [i \in 1 .. waiters[t] |-> <<"start", t>>])
     ELSE UNCHANGED inbox
  /\ astray' = IF bound # Home[t] THEN astray \union {t} ELSE astray
  /\ UNCHANGED <<list, store, conn, dialog, up, running, signals>>

-----------------------------------------------------------------------------
(* The sessions.                                                           *)

\* A connection is established; its worker reports it.
Connect(s) ==
  /\ Calm /\ Room /\ s \notin conn /\ s \notin up /\ signals[s] = <<>>
  /\ up' = up \union {s}
  /\ signals' = [signals EXCEPT ![s] = Append(@, <<"connected">>)]
  /\ UNCHANGED <<list, store, conn, dialog, reads, running, inbox, astray>>

\* onWorkerConnected: the list, if it is bound, starts the tunnels with a
\* password; startEnabledTunnels starts the others from the store.
\* Mutants: the tunnels of all connections; those of the list.
EnabledOfAll(s) == SetToSeq(EnabledOf(store, Tunnels \ Auth))
EnabledInList(s) == SetToSeq(EnabledOf(rows, Tunnels \ Auth))
Enabled(s) == SetToSeq(EnabledOf(LoadForConnection(s), Tunnels \ Auth))

OnWorkerConnected(s) ==
  /\ signals[s] # <<>> /\ Head(signals[s]) = <<"connected">>
  /\ signals' = [signals EXCEPT ![s] = Tail(@)]
  /\ conn' = conn \union {s}
  /\ IF bound = s THEN ReadSecrets(EnabledAuth(rows)) ELSE UNCHANGED reads
  /\ Post(s, [i \in DOMAIN Enabled(s) |-> <<"start", Enabled(s)[i][1]>>])
  /\ UNCHANGED <<list, store, dialog, up, running, astray>>

\* The session's state leaves Connected: the list forgets the statuses and
\* loads the rows again if it has none; the worker is let go of.
LeaveConnectedKeepsStatus(s) ==   \* mutant: without clearRuntimeStatuses
  /\ conn' = conn \ {s}
  /\ inbox' = [inbox EXCEPT ![s] = <<>>]
  /\ signals' = [signals EXCEPT ![s] = <<>>]
  /\ shown' = shown
  /\ rows' = IF bound = s /\ \A t \in Tunnels : rows[t] = <<>>
             THEN LoadForConnection(s) ELSE rows

LeaveConnected(s) ==
  /\ conn' = conn \ {s}
  /\ inbox' = [inbox EXCEPT ![s] = <<>>]
  /\ signals' = [signals EXCEPT ![s] = <<>>]
  /\ IF bound # s THEN UNCHANGED <<rows, shown>>
     ELSE /\ shown' = ClearRuntimeStatuses
          /\ rows' = IF \A t \in Tunnels : rows[t] = <<>>
                     THEN LoadForConnection(s) ELSE rows

OnWorkerDisconnected(s) ==
  /\ signals[s] # <<>> /\ Head(signals[s]) = <<"disconnected">>
  /\ LeaveConnected(s)
  /\ UNCHANGED <<bound, store, dialog, reads, up, running, astray>>

\* disconnectTransport: the signals are cut off, the worker cleans up by itself.
DisconnectTransport(s) ==
  /\ Calm /\ s \in conn
  /\ LeaveConnected(s)
  /\ up' = up \ {s}
  /\ running' = [running EXCEPT ![s] = {}]
  /\ UNCHANGED <<bound, store, dialog, reads, astray>>

\* onTunnelStatusChanged.
OnTunnelStatus(s) ==
  /\ signals[s] # <<>> /\ Len(Head(signals[s])) = 2
  /\ signals' = [signals EXCEPT ![s] = Tail(@)]
  /\ IF bound = s THEN SetRuntimeStatus(Head(signals[s])[1], Head(signals[s])[2])
     ELSE UNCHANGED shown
  /\ UNCHANGED <<bound, rows, store, conn, dialog, reads, up, running, inbox, astray>>

-----------------------------------------------------------------------------
(* The worker.                                                             *)

Emits(s, statuses) == signals' = [signals EXCEPT ![s] = @ \o statuses]
Off(ts) == LET q == SetToSeq(ts) IN [i \in DOMAIN q |-> <<q[i], "Off">>]

\* ITunnelSession::start, on the local machine or on the server.
ListenOutcomes == {"Listening", "Error"}

\* SshWorker::startTunnel: one that runs is stopped first; listening may fail.
StartTunnel(s) ==
  /\ inbox[s] # <<>> /\ Head(inbox[s])[1] = "start"
  /\ inbox' = [inbox EXCEPT ![s] = Tail(@)]
  /\ LET t == Head(inbox[s])[2]
         before == Off(running[s] \intersect {t}) \o <<<<t, "Starting">>>>
     IN  \/ /\ s \notin up
            /\ Emits(s, <<<<t, "Error">>>>) /\ UNCHANGED running
         \/ /\ s \in up
            /\ \E outcome \in ListenOutcomes :
                 /\ Emits(s, before \o <<<<t, outcome>>>>)
                 /\ running' = [running EXCEPT ![s] = IF outcome = "Listening"
                                                        THEN @ \union {t} ELSE @ \ {t}]
  /\ UNCHANGED <<list, store, conn, dialog, reads, up, astray>>

StopTunnel(s) ==
  /\ inbox[s] # <<>> /\ Head(inbox[s])[1] = "stop"
  /\ inbox' = [inbox EXCEPT ![s] = Tail(@)]
  /\ running' = [running EXCEPT ![s] = @ \ {Head(inbox[s])[2]}]
  /\ Emits(s, <<<<Head(inbox[s])[2], "Off">>>>)
  /\ UNCHANGED <<list, store, conn, dialog, reads, up, astray>>

\* The connection is lost: cleanup stops all tunnels, then the worker reports.
Lost(s) ==
  /\ Calm /\ s \in up
  /\ up' = up \ {s}
  /\ running' = [running EXCEPT ![s] = {}]
  /\ Emits(s, Off(running[s]) \o <<<<"disconnected">>>>)
  /\ UNCHANGED <<list, store, conn, dialog, reads, inbox, astray>>

-----------------------------------------------------------------------------
User == \/ \E t \in Tunnels : \/ ToggleOff(t) \/ ToggleOn(t)
                              \/ DeleteSelected(t) \/ OpenDialog(t)
        \/ \E s \in Sessions : SelectTab(s) \/ Connect(s) \/ DisconnectTransport(s)
        \/ \E def \in {"on", "off"} : AcceptDialog(def)
Gui(s) == OnWorkerConnected(s) \/ OnWorkerDisconnected(s) \/ OnTunnelStatus(s)
Worker(s) == StartTunnel(s) \/ StopTunnel(s)

Next == \/ User
        \/ \E t \in Tunnels : ReadFinished(t)
        \/ \E s \in Sessions : Gui(s) \/ Worker(s) \/ Lost(s)

\* Both threads serve their queues and the keychain answers.
Fairness == /\ \A s \in Sessions : WF_vars(Gui(s)) /\ WF_vars(Worker(s))
            /\ \A t \in Tunnels : WF_vars(ReadFinished(t))

Spec == Init /\ [][Next]_vars /\ Fairness

-----------------------------------------------------------------------------
(* Properties.                                                             *)

\* The list never goes on showing Listening for a tunnel that is gone: while
\* it shows it, the tunnel runs, or the signal that corrects it is on its way.
ListeningIsTrueOrCorrected ==
  \A t \in Tunnels :
    bound # NoSession /\ shown[t] \in {"Starting", "Listening"} =>
      \/ t \in running[bound]
      \/ \E i \in DOMAIN signals[bound] :
           signals[bound][i] \in {<<"disconnected">>, <<t, "Off">>, <<t, "Error">>}

\* A tunnel runs through the session of another connection, or is stored twice,
\* only if a keychain answer or an open dialog has outlived a change of tab.
StrayOnlyByStaleAnswer ==
  \A t \in Tunnels :
    Len(store[t]) > 1 \/ (\E s \in Sessions \ {Home[t]} : t \in running[s])
      => t \in astray

\* When a connection is established each of its enabled plain tunnels is
\* started: it comes to run or its failure is reported, unless the connection
\* is lost or the user disables or deletes the tunnel.
Reported(s, t) == \E i \in DOMAIN signals[s] : signals[s][i] = <<t, "Error">>
Wanted(t) == EnabledOf(store, {t}) # {}
Moot(s, t) == s \notin up \/ ~Wanted(t)
Reports(s) == signals[s] # <<>> /\ Head(signals[s]) = <<"connected">>

EnabledIsStarted ==
  \A t \in Tunnels \ Auth :
    Reports(Home[t]) /\ Wanted(t)
      ~> t \in running[Home[t]] \/ Reported(Home[t], t) \/ Moot(Home[t], t)

\* In no run, for it does not hold: once nothing is under way, a tunnel that
\* runs through its session shows as listening. A change of tab forgets it.
Settled(s) == inbox[s] = <<>> /\ signals[s] = <<>>
ShownIsLive ==
  \A t \in Tunnels :
    bound \in conn /\ Settled(bound) /\ rows[t] # <<>> /\ t \in running[bound]
      => shown[t] = "Listening"

\* In no run, for it holds of one such tunnel and not of two: an enabled SOCKS
\* tunnel with a password is started by the list of its session once the
\* keychain has been asked for the password. The answer for another tunnel
\* uses up the slot that waits.
AuthIsStarted ==
  \A t \in Auth :
    bound = Home[t] /\ waiters[t] > 0 /\ Wanted(t)
      ~> t \in running[Home[t]] \/ Reported(Home[t], t) \/ Moot(Home[t], t) \/ bound # Home[t]
=============================================================================
