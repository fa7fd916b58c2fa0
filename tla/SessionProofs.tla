---------------------------- MODULE SessionProofs ----------------------------
(***************************************************************************)
(* Proofs about the sessions: SessionTransport, one session and its        *)
(* workers, for any number of workers and with automatic reconnection on   *)
(* or off, then Workspace, the window that opens sessions, for any         *)
(* connections, secrets and gateways, and any number of openings and       *)
(* launches.                                                               *)
(***************************************************************************)
EXTENDS SessionTransport, Workspace, SequenceTheorems, TLAPS

-----------------------------------------------------------------------------
(***************************************************************************)
(* SessionTransport.                                                       *)
(***************************************************************************)

(* The variables have the types the proofs rest on.                        *)
Typed ==
  /\ state \in States /\ shuttingDown \in BOOLEAN
  /\ made \in 0..MaxWorkers /\ current \in 0..made /\ waitFor \in 0..made
  /\ guiQueue \in Seq(Signals)
  /\ phase \in [Workers -> Phases]
  /\ inbox \in [Workers -> Seq(Slots)]
  /\ cancel \in [Workers -> BOOLEAN] /\ quit \in [Workers -> BOOLEAN]

(* The session has a worker while it connects, and none when it is without *)
(* a connection or waits for a thread.                                     *)
Held ==
  /\ state = "Connecting" => current # 0 /\ ~shuttingDown
  /\ state \in {"Disconnected", "Failed"} => current = 0
  /\ waitFor # 0 => current = 0

(* A worker that is not made yet has done nothing; one the session holds   *)
(* has not been told to stop, and a cancel has not caught it connecting;   *)
(* connectToHost is posted to a worker once, before everything else.  So a *)
(* worker that was let go of and has stopped does not connect again.       *)
Untouched(g) == g > made => phase[g] = "idle" /\ ~quit[g]
Undisturbed(g) == g = current => ~quit[g] /\ (phase[g] \in Establishing => ~cancel[g])
ConnectsFirst(g) == \A i \in 1..Len(inbox[g]) : inbox[g][i] = "connect" => i = 1
OnItsWayOut(g) ==
  \/ phase[g] = "ended"
  \/ quit[g] /\ \/ waitFor = g
                \/ Has(inbox[g], "stop")
                \/ phase[g] = "idle" /\ ~Has(inbox[g], "connect")

WorkerKept(g) ==
  /\ Untouched(g) /\ Undisturbed(g) /\ ConnectsFirst(g)
  /\ Abandoned(g) => OnItsWayOut(g)
  /\ state = "Connecting" /\ g = current => OwesOutcome(g)

IInv == Typed /\ Held /\ \A g \in Workers : WorkerKept(g)
-----------------------------------------------------------------------------
(* A slot that is taken from an inbox was its head, and a worker that has  *)
(* taken one will not connect any more.                                    *)
LEMMA TakenSlot ==
  ASSUME NEW s \in Seq(Slots), s # <<>>
  PROVE  /\ Tail(s) \in Seq(Slots)
         /\ \A x : Has(s, x) /\ x # Head(s) => Has(Tail(s), x)
         /\ \A x : Has(Tail(s), x) => Has(s, x)
         /\ (\A i \in 1..Len(s) : s[i] = "connect" => i = 1) => ~Has(Tail(s), "connect")
<1>1. Len(s) \in Nat \ {0} /\ Head(s) = s[1] /\ Tail(s) \in Seq(Slots)
  OBVIOUS
<1>2. Len(Tail(s)) = Len(s) - 1
  BY <1>1
<1>3. \A i \in 1..Len(Tail(s)) : Tail(s)[i] = s[i + 1] /\ i + 1 \in 1..Len(s) /\ i + 1 # 1
  BY <1>1, <1>2
<1>4. ASSUME NEW x, Has(s, x), x # Head(s)
      PROVE  Has(Tail(s), x)
  <2>1. PICK i \in 1..Len(s) : s[i] = x
    BY <1>4 DEF Has
  <2>2. i - 1 \in 1..Len(Tail(s)) /\ (i - 1) + 1 = i
    BY <1>1, <1>2, <1>4, <2>1
  <2> QED
    BY <1>3, <2>1, <2>2 DEF Has
<1>5. (\A i \in 1..Len(s) : s[i] = "connect" => i = 1) => ~Has(Tail(s), "connect")
  BY <1>3 DEF Has
<1>6. \A x : Has(Tail(s), x) => Has(s, x)
  BY <1>3 DEF Has
<1> QED
  BY <1>1, <1>4, <1>5, <1>6

(* A slot is posted behind the others.                                     *)
LEMMA PostedSlot ==
  ASSUME NEW s \in Seq(Slots), NEW x \in Slots \ {"connect"}
  PROVE  /\ Append(s, x) \in Seq(Slots) /\ Has(Append(s, x), x)
         /\ \A y : Has(s, y) => Has(Append(s, x), y)
         /\ \A y : y # x /\ Has(Append(s, x), y) => Has(s, y)
         /\ (\A i \in 1..Len(s) : s[i] = "connect" => i = 1)
              => \A i \in 1..Len(Append(s, x)) : Append(s, x)[i] = "connect" => i = 1
<1>1. Len(s) \in Nat /\ Append(s, x) \in Seq(Slots) /\ Len(Append(s, x)) = Len(s) + 1
  OBVIOUS
<1>2. Append(s, x)[Len(s) + 1] = x /\ \A i \in 1..Len(s) : Append(s, x)[i] = s[i]
  BY <1>1
<1>3. \A i \in 1..Len(s) + 1 : i = Len(s) + 1 \/ i \in 1..Len(s)
  BY <1>1
<1>4. Len(s) + 1 \in 1..Len(s) + 1 /\ \A i \in 1..Len(s) : i \in 1..Len(s) + 1
  BY <1>1
<1>5. Has(Append(s, x), x) /\ \A y : Has(s, y) => Has(Append(s, x), y)
  BY <1>1, <1>2, <1>4 DEF Has
<1>6. \A y : y # x /\ Has(Append(s, x), y) => Has(s, y)
  BY <1>1, <1>2, <1>3 DEF Has
<1>7. (\A i \in 1..Len(s) : s[i] = "connect" => i = 1)
        => \A i \in 1..Len(Append(s, x)) : Append(s, x)[i] = "connect" => i = 1
  BY <1>1, <1>2, <1>3
<1> QED
  BY <1>1, <1>5, <1>6, <1>7

(* The signals that are posted stay posted.                                *)
Longer == \A i \in 1..Len(guiQueue) : i \in 1..Len(guiQueue') /\ guiQueue'[i] = guiQueue[i]

(* A signal of g that is not a question is posted.                         *)
Told(g) == \E i \in 1..Len(guiQueue) : guiQueue[i].from = g /\ guiQueue[i].name \notin Asking

(* emit posts to the session of the worker, and only there.                *)
LEMMA Posted ==
  ASSUME Typed, NEW g \in Workers,
         NEW names \in Seq({"connected", "disconnected", "error"}), Post(g, names)
  PROVE  /\ guiQueue' \in Seq(Signals) /\ Longer
         /\ current = g /\ Len(names) # 0 => Told(g)'
<1> DEFINE s == [i \in 1..Len(names) |-> [from |-> g, name |-> names[i]]]
<1>1. CASE current # g
  BY <1>1 DEF Post, Typed, Longer
<1>2. CASE current = g
  <2>1. Len(names) \in Nat /\ \A i \in 1..Len(names) : names[i] \in {"connected", "disconnected", "error"}
    OBVIOUS
  <2>2. \A i \in 1..Len(names) : [from |-> g, name |-> names[i]] \in Signals
    BY <2>1 DEF Signals
  <2>3. s \in Seq(Signals) /\ DOMAIN s = 1..Len(names)
    BY <2>1, <2>2
  <2>4. Len(s) = Len(names)
    BY <2>1, <2>3, LenProperties
  <2>5. \A i \in 1..Len(names) : s[i].from = g /\ s[i].name \notin Asking
    BY <2>1 DEF Asking
  <2>6. guiQueue' = guiQueue \o s
    BY <1>2 DEF Post
  <2> HIDE DEF s
  <2>7. guiQueue \in Seq(Signals) /\ Len(guiQueue) \in Nat
    BY DEF Typed
  <2>8. /\ guiQueue' \in Seq(Signals) /\ Len(guiQueue') = Len(guiQueue) + Len(names)
        /\ \A i \in 1..Len(guiQueue) + Len(names) :
             guiQueue'[i] = IF i <= Len(guiQueue) THEN guiQueue[i] ELSE s[i - Len(guiQueue)]
    <3>1. /\ guiQueue \o s \in Seq(Signals) /\ Len(guiQueue \o s) = Len(guiQueue) + Len(s)
          /\ \A i \in 1..Len(guiQueue) + Len(s) : (guiQueue \o s)[i]
               = IF i <= Len(guiQueue) THEN guiQueue[i] ELSE s[i - Len(guiQueue)]
      BY ONLY <2>3, <2>7, ConcatProperties, SMTT(30)
    <3> QED
      BY <3>1, <2>4, <2>6
  <2>9. Longer
    BY <2>1, <2>7, <2>8 DEF Longer
  <2>10. ASSUME Len(names) # 0
         PROVE  Told(g)'
    <3>1. Len(guiQueue) + 1 \in 1..Len(guiQueue') /\ guiQueue'[Len(guiQueue) + 1] = s[1]
      BY <2>1, <2>7, <2>8, <2>10
    <3>2. s[1].from = g /\ s[1].name \notin Asking
      BY <2>1, <2>5, <2>10
    <3> QED
      BY <3>1, <3>2 DEF Told
  <2> QED
    BY <2>8, <2>9, <2>10
<1> QED
  BY <1>1, <1>2

(* What is posted stays an answer that is owed.                            *)
LEMMA StillTold ==
  ASSUME Typed, NEW g, Longer, Told(g)
  PROVE  Told(g)'
BY DEF Longer, Told
(* A worker is made or it is not.                                          *)
LEMMA MadeAndNot ==
  ASSUME Typed, NEW g \in Workers
  PROVE  g > made <=> ~(g <= made)
BY MaxWorkersAssumption DEF Typed, Workers
-----------------------------------------------------------------------------
(* A step of the thread of g leaves the session and the other workers      *)
(* alone.                                                                  *)
LEMMA WorkerStep ==
  ASSUME IInv, NEW g \in Workers, UNCHANGED <<sessionVars, waitFor>>,
         guiQueue' \in Seq(Signals), Longer,
         phase' \in [Workers -> Phases], inbox' \in [Workers -> Seq(Slots)],
         cancel' \in [Workers -> BOOLEAN], quit' = quit,
         \A h \in Workers \ {g} : /\ phase'[h] = phase[h] /\ inbox'[h] = inbox[h]
                                   /\ cancel'[h] = cancel[h],
         WorkerKept(g)'
  PROVE  IInv'
<1>1. Typed'
  BY DEF IInv, Typed, sessionVars
<1>2. Held'
  BY DEF IInv, Held, sessionVars
<1>3. ASSUME NEW h \in Workers \ {g}
      PROVE  WorkerKept(h)'
  <2>1. WorkerKept(h) /\ Typed
    BY DEF IInv
  <2>2. Told(h) => Told(h)'
    BY <2>1, StillTold
  <2>3. OwesOutcome(h) => OwesOutcome(h)'
    BY <2>2 DEF OwesOutcome, Told
  <2> QED
    BY <2>1, <2>3 DEF WorkerKept, Untouched, Undisturbed, ConnectsFirst, Abandoned, OnItsWayOut, sessionVars
<1> QED
  BY <1>1, <1>2, <1>3 DEF IInv

(* A worker goes from one stage to the next, or gives up and says so.      *)
LEMMA StageStep ==
  ASSUME IInv, NEW g \in Workers, NEW p \in Phases \ {"ended"},
         phase[g] \notin {"idle", "ended"}, GoTo(g, p),
         UNCHANGED <<sessionVars, waitFor, inbox, cancel, quit>>,
         guiQueue' \in Seq(Signals), Longer,
         p \in Establishing => phase[g] \in Establishing,
         p \in Establishing \/ phase[g] \notin Establishing \/ current # g \/ cancel[g] \/ Told(g)'
  PROVE  IInv'
<1>1. Typed /\ WorkerKept(g)
  BY DEF IInv
<1>2. /\ phase' \in [Workers -> Phases] /\ phase'[g] = p
      /\ \A h \in Workers \ {g} : phase'[h] = phase[h]
  BY <1>1 DEF GoTo, Typed
<1>3. Untouched(g)' /\ Undisturbed(g)' /\ ConnectsFirst(g)'
  BY <1>1, <1>2 DEF WorkerKept, Untouched, Undisturbed, ConnectsFirst, sessionVars
<1>4. Abandoned(g)' => OnItsWayOut(g)'
  BY <1>1, <1>2 DEF WorkerKept, Abandoned, OnItsWayOut, sessionVars
<1>5. Told(g) => Told(g)'
  BY <1>1, StillTold
<1>6. ASSUME state' = "Connecting", g = current'
      PROVE  OwesOutcome(g)'
  <2>1. g = current /\ OwesOutcome(g)
    BY <1>1, <1>6 DEF WorkerKept, sessionVars
  <2>2. phase[g] \in Establishing => ~cancel[g]
    BY <1>1, <2>1 DEF WorkerKept, Undisturbed
  <2> QED
    BY <1>2, <1>5, <2>1, <2>2 DEF OwesOutcome, Told
<1>7. WorkerKept(g)'
  BY <1>3, <1>4, <1>6 DEF WorkerKept
<1>8. /\ inbox' \in [Workers -> Seq(Slots)] /\ cancel' \in [Workers -> BOOLEAN]
      /\ \A h \in Workers \ {g} : /\ phase'[h] = phase[h] /\ inbox'[h] = inbox[h]
                                    /\ cancel'[h] = cancel[h]
  BY <1>1, <1>2 DEF Typed
<1> QED
  BY <1>2, <1>7, <1>8, WorkerStep
(* disconnectSession leaves a worker idle, whose slots are what they were  *)
(* but for the one that called it.                                         *)
LEMMA DisconnectStep ==
  ASSUME IInv, NEW g \in Workers, g <= made,
         NEW before \in Seq({"error"}), DisconnectSession(g, before),
         phase[g] \in {"idle", "running", "faulted"},
         inbox' = inbox \/ Takes(g, "keepalive") \/ Takes(g, "stop")
  PROVE  IInv'
<1>1. Typed /\ WorkerKept(g)
  BY DEF IInv
<1>2. /\ phase' = [phase EXCEPT ![g] = "idle"] /\ cancel' = [cancel EXCEPT ![g] = TRUE]
      /\ quit' = quit /\ UNCHANGED <<sessionVars, waitFor>>
  BY DEF DisconnectSession, GoTo, guiVars
<1>3. /\ phase' \in [Workers -> Phases] /\ phase'[g] = "idle" /\ cancel' \in [Workers -> BOOLEAN]
      /\ \A h \in Workers \ {g} : phase'[h] = phase[h] /\ cancel'[h] = cancel[h]
  BY <1>1, <1>2 DEF Typed, Phases
<1>4. guiQueue' \in Seq(Signals) /\ Longer
  <2>1. PICK names \in Seq({"connected", "disconnected", "error"}) : Post(g, names)
    <3>1. before \in Seq({"connected", "disconnected", "error"})
      OBVIOUS
    <3>2. Append(before, "disconnected") \in Seq({"connected", "disconnected", "error"})
      BY <3>1
    <3> QED
      BY <3>1, <3>2 DEF DisconnectSession
  <2> QED
    BY <1>1, <2>1, Posted
<1>5. /\ inbox' \in [Workers -> Seq(Slots)] /\ \A h \in Workers \ {g} : inbox'[h] = inbox[h]
      /\ Has(inbox[g], "connect") => Has(inbox'[g], "connect")
      /\ ConnectsFirst(g)'
      /\ Has(inbox[g], "stop") => Has(inbox'[g], "stop") \/ ~Has(inbox'[g], "connect")
      /\ ~Has(inbox[g], "connect") => ~Has(inbox'[g], "connect")
  <2>1. CASE inbox' = inbox
    BY <1>1, <2>1 DEF Typed, WorkerKept, ConnectsFirst
  <2>2. ASSUME NEW slot \in {"keepalive", "stop"}, Takes(g, slot)
        PROVE  <1>5!:
    <3>1. /\ inbox[g] \in Seq(Slots) /\ inbox[g] # <<>> /\ Head(inbox[g]) = slot
          /\ inbox' = [inbox EXCEPT ![g] = Tail(inbox[g])]
      BY <1>1, <2>2 DEF Takes, Typed
    <3>2. /\ Tail(inbox[g]) \in Seq(Slots)
          /\ \A x : Has(inbox[g], x) /\ x # slot => Has(Tail(inbox[g]), x)
          /\ ~Has(Tail(inbox[g]), "connect")
      BY <1>1, <3>1, TakenSlot DEF WorkerKept, ConnectsFirst
    <3>3. inbox'[g] = Tail(inbox[g]) /\ inbox' \in [Workers -> Seq(Slots)]
          /\ \A h \in Workers \ {g} : inbox'[h] = inbox[h]
      BY <1>1, <3>1, <3>2 DEF Typed
    <3>4. ConnectsFirst(g)'
      BY <3>2, <3>3 DEF ConnectsFirst, Has
    <3> QED
      BY <3>2, <3>3, <3>4
  <2> QED
    BY <2>1, <2>2
<1>6. Untouched(g)' /\ Undisturbed(g)'
  BY <1>1, <1>2, <1>3 DEF WorkerKept, Untouched, Undisturbed, Establishing, sessionVars
<1>7. Abandoned(g)' => OnItsWayOut(g)'
  BY <1>1, <1>2, <1>3, <1>5 DEF WorkerKept, Abandoned, OnItsWayOut, sessionVars
<1>8. Told(g) => Told(g)'
  BY <1>1, <1>4, StillTold
<1>9. state' = "Connecting" /\ g = current' => OwesOutcome(g)'
  BY <1>1, <1>2, <1>5, <1>8 DEF WorkerKept, OwesOutcome, Told, Establishing, sessionVars
<1>10. WorkerKept(g)'
  BY <1>5, <1>6, <1>7, <1>9 DEF WorkerKept
<1> QED
  BY <1>2, <1>3, <1>4, <1>5, <1>10, WorkerStep

(* The connectToHost slot uses up the request and is under way, or refuses.*)
LEMMA ConnectStep ==
  ASSUME IInv, NEW g \in Workers, ConnectToHost(g)
  PROVE  IInv'
<1>1. Typed /\ WorkerKept(g) /\ g <= made
  BY DEF IInv, ConnectToHost, At
<1>2. /\ inbox[g] \in Seq(Slots) /\ inbox[g] # <<>> /\ Head(inbox[g]) = "connect"
      /\ inbox' = [inbox EXCEPT ![g] = Tail(inbox[g])]
  BY <1>1 DEF ConnectToHost, Takes, Typed
<1>3. /\ Tail(inbox[g]) \in Seq(Slots)
      /\ \A x : Has(inbox[g], x) /\ x # "connect" => Has(Tail(inbox[g]), x)
      /\ ~Has(Tail(inbox[g]), "connect")
  BY <1>1, <1>2, TakenSlot DEF WorkerKept, ConnectsFirst
<1>4. Has(inbox[g], "connect")
  <2>1. 1 \in 1..Len(inbox[g]) /\ inbox[g][1] = "connect"
    BY <1>2
  <2> QED
    BY <2>1 DEF Has
<1>5. /\ inbox'[g] = Tail(inbox[g]) /\ inbox' \in [Workers -> Seq(Slots)]
      /\ \A h \in Workers \ {g} : inbox'[h] = inbox[h]
  BY <1>1, <1>2, <1>3 DEF Typed
<1>6. ConnectsFirst(g)'
  BY <1>3, <1>5 DEF ConnectsFirst, Has
<1>7. UNCHANGED <<sessionVars, waitFor, quit>> /\ Untouched(g)'
  <2>1. UNCHANGED <<sessionVars, waitFor, quit>>
    BY DEF ConnectToHost, guiVars, sessionVars
  <2> QED
    BY <1>1, <2>1, MadeAndNot DEF sessionVars, Untouched
<1>8. phase[g] # "ended"
  BY DEF ConnectToHost, At
<1>9. CASE phase[g] = "running"
  <2>1. Post(g, <<"error">>) /\ cancel' = cancel /\ phase' = phase
    BY <1>9 DEF ConnectToHost
  <2>2. guiQueue' \in Seq(Signals) /\ Longer /\ (current = g => Told(g)')
    <3>1. <<"error">> \in Seq({"connected", "disconnected", "error"}) /\ Len(<<"error">>) # 0
      OBVIOUS
    <3> QED
      BY <1>1, <2>1, <3>1, Posted
  <2>3. Undisturbed(g)' /\ (Abandoned(g)' => OnItsWayOut(g)')
    BY <1>1, <1>3, <1>5, <1>7, <1>8, <1>9, <2>1
       DEF WorkerKept, Undisturbed, Abandoned, OnItsWayOut, sessionVars
  <2>4. state' = "Connecting" /\ g = current' => OwesOutcome(g)'
    BY <1>7, <2>2 DEF OwesOutcome, Told, sessionVars
  <2>5. WorkerKept(g)'
    BY <1>6, <1>7, <2>3, <2>4 DEF WorkerKept
  <2> QED
    BY <1>1, <1>5, <1>7, <2>1, <2>2, <2>5, WorkerStep DEF Typed
<1>10. CASE phase[g] # "running"
  <2>1. guiQueue' = guiQueue /\ cancel' = [cancel EXCEPT ![g] = FALSE] /\ Begin(g)
    BY <1>10 DEF ConnectToHost
  <2>2. /\ phase' \in [Workers -> Phases] /\ phase'[g] \in Establishing
        /\ \A h \in Workers \ {g} : phase'[h] = phase[h]
    BY <1>1, <2>1 DEF Begin, GoTo, Typed, Phases, Establishing
  <2>3. /\ cancel' \in [Workers -> BOOLEAN] /\ ~cancel'[g]
        /\ \A h \in Workers \ {g} : cancel'[h] = cancel[h]
    BY <1>1, <2>1 DEF Typed
  <2>4. guiQueue' \in Seq(Signals) /\ Longer
    BY <1>1, <2>1 DEF Typed, Longer
  <2>5. Undisturbed(g)' /\ (Abandoned(g)' => OnItsWayOut(g)')
    BY <1>1, <1>3, <1>4, <1>5, <1>7, <1>8, <2>3
       DEF WorkerKept, Undisturbed, Abandoned, OnItsWayOut, sessionVars
  <2>6. WorkerKept(g)'
    BY <1>6, <1>7, <2>2, <2>5 DEF WorkerKept, OwesOutcome
  <2> QED
    BY <1>5, <1>7, <2>2, <2>3, <2>4, <2>6, WorkerStep
<1> QED
  BY <1>9, <1>10

(* The thread of a worker that the session does not hold is over.          *)
LEMMA GoneStep ==
  ASSUME IInv, NEW g \in Workers, g <= made, g # current, Gone(g),
         UNCHANGED <<sessionVars, guiQueue, waitFor>>
  PROVE  IInv'
<1>1. Typed
  BY DEF IInv
<1>2. /\ phase' \in [Workers -> Phases] /\ inbox' \in [Workers -> Seq(Slots)]
      /\ cancel' \in [Workers -> BOOLEAN] /\ quit' \in [Workers -> BOOLEAN]
      /\ phase'[g] = "ended" /\ inbox'[g] = <<>>
  BY <1>1 DEF Gone, Typed, Phases
<1>3. Typed' /\ Held'
  BY <1>1, <1>2 DEF IInv, Typed, Held, sessionVars
<1>4. ASSUME NEW h \in Workers
      PROVE  WorkerKept(h)'
  <2>1. WorkerKept(h)
    BY DEF IInv
  <2>2. CASE h = g
    <3>1. Untouched(g)'
      BY <1>1, MadeAndNot DEF Untouched, sessionVars
    <3>2. ConnectsFirst(g)'
      BY <1>2 DEF ConnectsFirst
    <3> QED
      BY <1>2, <2>2, <3>1, <3>2 DEF WorkerKept, Undisturbed, OnItsWayOut, sessionVars
  <2>3. CASE h # g
    <3>1. /\ phase'[h] = phase[h] /\ inbox'[h] = inbox[h] /\ cancel'[h] = cancel[h]
          /\ quit'[h] = quit[h]
      BY <1>1, <2>3 DEF Gone, Typed
    <3> QED
      BY <2>1, <3>1
         DEF WorkerKept, Untouched, Undisturbed, ConnectsFirst, Abandoned, OnItsWayOut, OwesOutcome,
             sessionVars
  <2> QED
    BY <2>2, <2>3
<1> QED
  BY <1>3, <1>4 DEF IInv
-----------------------------------------------------------------------------
(* The session has a signal of its worker's posted to it.                  *)
Heard == Told(current)

(* The session: a step that touches no worker and holds the same one.      *)
LEMMA QuietStep ==
  ASSUME IInv, UNCHANGED <<phase, inbox, cancel, quit, current, made>>,
         state' \in States, shuttingDown' \in BOOLEAN, guiQueue' \in Seq(Signals), Held',
         waitFor' = waitFor \/ (waitFor' = 0 /\ waitFor # 0 /\ phase[waitFor] = "ended"),
         state' = "Connecting" => state = "Connecting" /\ (Heard => Heard')
  PROVE  IInv'
<1>1. Typed'
  BY DEF IInv, Typed
<1>2. ASSUME NEW h \in Workers
      PROVE  WorkerKept(h)'
  <2>1. WorkerKept(h)
    BY DEF IInv
  <2>2. Untouched(h)' /\ Undisturbed(h)' /\ ConnectsFirst(h)'
    BY <2>1 DEF WorkerKept, Untouched, Undisturbed, ConnectsFirst
  <2>3. Abandoned(h)' => OnItsWayOut(h)'
    BY <2>1 DEF IInv, Typed, WorkerKept, Abandoned, OnItsWayOut, Has
  <2>4. state' = "Connecting" /\ h = current' => OwesOutcome(h)'
    BY <2>1 DEF WorkerKept, OwesOutcome, Heard, Told, Has
  <2> QED
    BY <2>2, <2>3, <2>4 DEF WorkerKept
<1> QED
  BY <1>1, <1>2 DEF IInv

(* Letting go of the worker tells its thread to quit, and posts it a stop  *)
(* or waits for it.                                                        *)
LEMMA LetGoStep ==
  ASSUME IInv, current # 0, current' = 0, UNCHANGED <<phase, made>>,
         state' \in States \ {"Connecting"}, shuttingDown' \in BOOLEAN,
         guiQueue' \in Seq(Signals), cancel' \in [Workers -> BOOLEAN],
         \A h \in Workers \ {current} : cancel'[h] = cancel[h],
         quit' = [quit EXCEPT ![current] = TRUE],
         waitFor = 0, waitFor' \in {0, current},
         \/ inbox' = inbox /\ waitFor' = current
         \/ inbox' = [inbox EXCEPT ![current] = Append(@, "stop")]
  PROVE  IInv'
<1>1. Typed /\ current \in Workers /\ current <= made
  BY MaxWorkersAssumption DEF IInv, Typed, Workers
<1>2. /\ inbox' \in [Workers -> Seq(Slots)]
      /\ \A i \in 1..Len(inbox'[current]) : inbox'[current][i] = "connect" => i = 1
      /\ \A h \in Workers \ {current} : inbox'[h] = inbox[h]
      /\ waitFor' = current \/ Has(inbox'[current], "stop")
  <2>1. WorkerKept(current) /\ inbox[current] \in Seq(Slots)
    BY <1>1 DEF IInv, Typed
  <2>2. CASE inbox' = inbox /\ waitFor' = current
    BY <1>1, <2>1, <2>2 DEF Typed, WorkerKept, ConnectsFirst
  <2>3. CASE inbox' = [inbox EXCEPT ![current] = Append(@, "stop")]
    <3>1. "stop" \in Slots \ {"connect"}
      BY DEF Slots
    <3>2. /\ Append(inbox[current], "stop") \in Seq(Slots)
          /\ Has(Append(inbox[current], "stop"), "stop")
          /\ \A i \in 1..Len(Append(inbox[current], "stop")) :
               Append(inbox[current], "stop")[i] = "connect" => i = 1
      BY <2>1, <3>1, PostedSlot DEF WorkerKept, ConnectsFirst
    <3>3. /\ inbox'[current] = Append(inbox[current], "stop")
          /\ inbox' \in [Workers -> Seq(Slots)]
          /\ \A h \in Workers \ {current} : inbox'[h] = inbox[h]
      BY <1>1, <2>3, <3>2 DEF Typed
    <3>4. \A i \in 1..Len(inbox'[current]) : inbox'[current][i] = "connect" => i = 1
      BY <3>2, <3>3
    <3> QED
      BY <3>2, <3>3, <3>4
  <2> QED
    BY <2>2, <2>3
<1>3. /\ quit' \in [Workers -> BOOLEAN] /\ quit'[current]
      /\ \A h \in Workers \ {current} : quit'[h] = quit[h]
  BY <1>1 DEF Typed
<1>4. Typed' /\ Held'
  BY <1>1, <1>2, <1>3 DEF Typed, Held
<1>5. ASSUME NEW h \in Workers
      PROVE  WorkerKept(h)'
  <2>1. WorkerKept(h) /\ h # 0
    BY MaxWorkersAssumption DEF IInv, Workers
  <2>2. CASE h = current
    <3>1. Untouched(h)'
      BY <1>1, <2>2, MadeAndNot DEF Untouched
    <3>2. OnItsWayOut(h)'
      BY <1>2, <1>3, <2>2 DEF OnItsWayOut
    <3>3. ConnectsFirst(h)'
      BY <1>2, <2>2 DEF ConnectsFirst
    <3> QED
      BY <2>1, <3>1, <3>2, <3>3 DEF WorkerKept, Undisturbed
  <2>3. CASE h # current
    <3>1. Abandoned(h)' => OnItsWayOut(h)'
      BY <1>2, <1>3, <2>1, <2>3 DEF WorkerKept, Abandoned, OnItsWayOut
    <3>2. Untouched(h)' /\ Undisturbed(h)' /\ ConnectsFirst(h)'
      BY <1>2, <1>3, <2>1, <2>3 DEF WorkerKept, Untouched, Undisturbed, ConnectsFirst
    <3> QED
      BY <3>1, <3>2 DEF WorkerKept
  <2> QED
    BY <2>2, <2>3
<1> QED
  BY <1>4, <1>5 DEF IInv

(* connectTransport makes a worker when the session has none, and it never *)
(* has one when it is asked to connect.                                    *)
LEMMA TransportStep ==
  ASSUME IInv, current = 0, ConnectTransport, guiQueue' = guiQueue, waitFor' = 0,
         waitFor = 0 \/ phase[waitFor] = "ended"
  PROVE  IInv'
<1> DEFINE g == made + 1
<1>1. /\ Typed /\ made < MaxWorkers /\ made' = g /\ current' = g /\ g \in Workers
      /\ ~(g <= made) /\ g > made /\ \A h \in Workers : h # g => (h <= made <=> h <= g)
  BY MaxWorkersAssumption DEF IInv, Typed, ConnectTransport, Workers
<1>2. /\ inbox' = [inbox EXCEPT ![g] = <<"connect">>] /\ state' = "Connecting" /\ ~shuttingDown'
      /\ UNCHANGED <<phase, cancel, quit>>
  BY DEF ConnectTransport
<1>3. <<"connect">> \in Seq(Slots) /\ Has(<<"connect">>, "connect")
  BY DEF Slots, Has
<1>4. /\ inbox' \in [Workers -> Seq(Slots)] /\ inbox'[g] = <<"connect">>
      /\ \A h \in Workers \ {g} : inbox'[h] = inbox[h]
  BY <1>1, <1>2, <1>3 DEF Typed
<1>5. Typed' /\ Held'
  <2>1. made' \in 0..MaxWorkers /\ current' \in 0..made' /\ waitFor' \in 0..made' /\ current' # 0
    BY <1>1, MaxWorkersAssumption DEF Typed
  <2> QED
    BY <1>1, <1>2, <1>4, <2>1 DEF Typed, Held, ConnectTransport, States
<1>6. ASSUME NEW h \in Workers
      PROVE  WorkerKept(h)'
  <2>1. WorkerKept(h) /\ h # 0
    BY MaxWorkersAssumption DEF IInv, Workers
  <2>2. CASE h = g
    <3>1. phase'[h] = "idle" /\ ~quit'[h]
      BY <1>1, <1>2, <2>1, <2>2 DEF WorkerKept, Untouched
    <3>2. Untouched(h)' /\ Undisturbed(h)'
      BY <3>1 DEF Untouched, Undisturbed, Establishing
    <3>3. ConnectsFirst(h)'
      BY <1>4, <2>2 DEF ConnectsFirst
    <3> QED
      BY <1>1, <1>3, <1>4, <2>2, <3>2, <3>3 DEF WorkerKept, Abandoned, OwesOutcome
  <2>3. CASE h # g
    <3>1. Untouched(h)' /\ Undisturbed(h)' /\ ConnectsFirst(h)'
      BY <1>1, <1>2, <1>4, <2>1, <2>3, MadeAndNot
         DEF WorkerKept, Untouched, Undisturbed, ConnectsFirst, Typed, Workers
    <3>2. Abandoned(h)' => OnItsWayOut(h)'
      BY <1>1, <1>2, <1>4, <2>1, <2>3 DEF WorkerKept, Abandoned, OnItsWayOut
    <3> QED
      BY <1>1, <2>3, <3>1, <3>2 DEF WorkerKept
  <2> QED
    BY <2>2, <2>3
<1> QED
  BY <1>5, <1>6 DEF IInv
-----------------------------------------------------------------------------
(* A signal is delivered; the others stay posted, so that none is lost but *)
(* the one that is handled.                                                *)
LEMMA Delivered ==
  ASSUME Typed, guiQueue # <<>>, guiQueue' = Tail(guiQueue)
  PROVE  /\ guiQueue' \in Seq(Signals)
         /\ Head(guiQueue).name \in Asking /\ UNCHANGED current
              => (Heard => Heard')
<1>1. /\ guiQueue \in Seq(Signals) /\ Len(guiQueue) \in Nat \ {0} /\ Head(guiQueue) = guiQueue[1]
      /\ Tail(guiQueue) \in Seq(Signals) /\ Len(Tail(guiQueue)) = Len(guiQueue) - 1
  BY DEF Typed
<1>2. \A i \in 1..Len(guiQueue) : i # 1 => /\ i - 1 \in 1..Len(Tail(guiQueue))
                                           /\ Tail(guiQueue)[i - 1] = guiQueue[i]
  BY <1>1
<1>3. ASSUME Head(guiQueue).name \in Asking, UNCHANGED current, Heard
      PROVE  Heard'
  <2>1. PICK i \in 1..Len(guiQueue) : guiQueue[i].from = current /\ guiQueue[i].name \notin Asking
    BY <1>3 DEF Heard, Told
  <2>2. i # 1
    BY <1>1, <1>3, <2>1
  <2>3. i - 1 \in 1..Len(guiQueue') /\ guiQueue'[i - 1] = guiQueue[i]
    BY <1>2, <2>1, <2>2
  <2> QED
    BY <1>3, <2>1, <2>3 DEF Heard, Told
<1> QED
  BY <1>1, <1>3

(* The user's commands.                                                    *)
LEMMA UserStep == IInv /\ User => IInv'
<1> SUFFICES ASSUME IInv, User
             PROVE  IInv'
  OBVIOUS
<1>1. Typed /\ Held /\ guiQueue \in Seq(Signals) /\ cancel \in [Workers -> BOOLEAN]
  BY DEF IInv, Typed
<1>2. waitFor = 0
  BY DEF User, Open, DisconnectTransport, Reconnect, Shutdown, UserIdle, GuiIdle
<1>3. current # 0 => current \in Workers
  BY <1>1, MaxWorkersAssumption DEF Typed, Workers
<1>4. ASSUME current # 0, TellToStop(current)
      PROVE  /\ cancel' \in [Workers -> BOOLEAN] /\ phase' = phase
             /\ \A h \in Workers \ {current} : cancel'[h] = cancel[h]
             /\ quit' = [quit EXCEPT ![current] = TRUE]
             /\ inbox' = [inbox EXCEPT ![current] = Append(@, "stop")]
  BY <1>1, <1>3, <1>4 DEF TellToStop
<1>5. CASE Open
  <2>1. current = 0
    BY <1>1, <1>5 DEF Open, Typed
  <2> QED
    BY <1>2, <1>5, <2>1, TransportStep DEF Open
<1>6. CASE DisconnectTransport
  <2>1. /\ state' = "Disconnected" /\ shuttingDown' /\ current' = 0
        /\ UNCHANGED <<made, guiQueue, waitFor>>
    BY <1>6 DEF DisconnectTransport
  <2>2. state' \in States \ {"Connecting"} /\ shuttingDown' \in BOOLEAN
    BY <1>6 DEF DisconnectTransport, States
  <2>3. CASE current = 0
    <3>1. UNCHANGED <<phase, inbox, cancel, quit, current, made>>
      BY <1>6, <2>1, <2>3 DEF DisconnectTransport, workerVars
    <3>2. Held' /\ guiQueue' \in Seq(Signals) /\ waitFor' = waitFor
      BY <1>1, <1>2, <2>1 DEF Held
    <3> QED
      BY <2>2, <3>1, <3>2, QuietStep
  <2>4. CASE current # 0
    <3>1. TellToStop(current)
      BY <1>6, <2>4 DEF DisconnectTransport
    <3> QED
      BY <1>1, <1>2, <1>4, <2>1, <2>2, <2>4, <3>1, LetGoStep
  <2> QED
    BY <2>3, <2>4
<1>7. ASSUME NEW next, Teardown(next), state' \in States \ {"Connecting"},
             UNCHANGED <<made, guiQueue>>
      PROVE  IInv'
  <2>1. /\ current # 0 /\ TellToStop(current) /\ current' = 0 /\ shuttingDown' \in BOOLEAN
        /\ waitFor' = current
    BY <1>7 DEF Teardown
  <2> QED
    BY <1>1, <1>2, <1>4, <1>7, <2>1, LetGoStep
<1>8. CASE Reconnect
  <2>1. guiQueue' = guiQueue
    BY <1>8 DEF Reconnect
  <2>2. CASE Teardown("connect") /\ UNCHANGED <<state, made>>
    BY <1>1, <1>7, <1>8, <2>1, <2>2 DEF Reconnect, Typed
  <2>3. CASE current = 0 /\ ConnectTransport /\ waitFor' = waitFor
    BY <1>2, <2>1, <2>3, TransportStep
  <2> QED
    BY <1>8, <2>2, <2>3 DEF Reconnect
<1>9. CASE Shutdown
  <2>1. state' = "Disconnected" /\ UNCHANGED <<made, guiQueue>>
    BY <1>9 DEF Shutdown
  <2>2. CASE Teardown("close")
    BY <1>7, <2>1, <2>2 DEF States
  <2>3. CASE current = 0 /\ shuttingDown' = TRUE /\ UNCHANGED <<workerVars, current, waitFor>>
    <3>1. UNCHANGED <<phase, inbox, cancel, quit, current, made>>
      BY <2>1, <2>3 DEF workerVars
    <3>2. Held' /\ guiQueue' \in Seq(Signals) /\ waitFor' = waitFor
      BY <1>1, <1>2, <2>1, <2>3 DEF Held
    <3>3. state' \in States \ {"Connecting"} /\ shuttingDown' \in BOOLEAN
      BY <2>1, <2>3 DEF States
    <3> QED
      BY <3>1, <3>2, <3>3, QuietStep
  <2> QED
    BY <1>9, <2>2, <2>3 DEF Shutdown
<1> QED
  BY <1>5, <1>6, <1>8, <1>9 DEF User

(* The events of the GUI thread.                                           *)
LEMMA GuiStep == IInv /\ Gui => IInv'
<1> SUFFICES ASSUME IInv, Gui
             PROVE  IInv'
  OBVIOUS
<1>1. /\ Typed /\ Held /\ guiQueue \in Seq(Signals) /\ cancel \in [Workers -> BOOLEAN]
      /\ state \in States /\ shuttingDown \in BOOLEAN
  BY DEF IInv, Typed
<1>2. current # 0 => current \in Workers
  BY <1>1, MaxWorkersAssumption DEF Typed, Workers
<1>3. CASE GoOn
  <2>1. waitFor # 0 /\ phase[waitFor] = "ended" /\ waitFor' = 0 /\ guiQueue' = guiQueue /\ current = 0
    BY <1>1, <1>3 DEF GoOn, Held
  <2>2. CASE ConnectTransport
    BY <2>1, <2>2, TransportStep
  <2>3. CASE UNCHANGED <<state, current, made, shuttingDown, workerVars>>
    <3>1. UNCHANGED <<phase, inbox, cancel, quit, current, made>>
      BY <2>3 DEF workerVars
    <3>2. Held' /\ guiQueue' \in Seq(Signals) /\ state' \in States /\ shuttingDown' \in BOOLEAN
      BY <1>1, <2>1, <2>3 DEF Held
    <3>3. state' # "Connecting"
      BY <1>1, <2>1, <2>3 DEF Held
    <3> QED
      BY <2>1, <3>1, <3>2, <3>3, QuietStep
  <2> QED
    BY <1>3, <2>2, <2>3 DEF GoOn, sessionVars
<1>4. CASE Terminate
  <2>1. /\ waitFor # 0 /\ Gone(waitFor) /\ UNCHANGED <<sessionVars, guiQueue, waitFor>>
    BY <1>4 DEF Terminate, guiVars
  <2>2. waitFor \in Workers /\ waitFor <= made /\ waitFor # current
    BY <1>1, <2>1, MaxWorkersAssumption DEF Typed, Held, Workers
  <2> QED
    BY <2>1, <2>2, GoneStep
<1>5. CASE TimerFires
  <2>1. waitFor = 0 /\ waitFor' = 0 /\ guiQueue' = guiQueue
    BY <1>5 DEF TimerFires, GuiIdle
  <2>2. CASE state \in {"Disconnected", "Failed"}
    <3>1. current = 0 /\ ConnectTransport
      BY <1>1, <1>5, <2>2 DEF TimerFires, Held
    <3> QED
      BY <2>1, <3>1, TransportStep
  <2>3. CASE state \notin {"Disconnected", "Failed"}
    <3>1. UNCHANGED <<sessionVars, workerVars>>
      BY <1>5, <2>3 DEF TimerFires
    <3>2. UNCHANGED <<phase, inbox, cancel, quit, current, made, state, shuttingDown>>
      BY <3>1 DEF sessionVars, workerVars
    <3>3. Held' /\ waitFor' = waitFor /\ guiQueue' \in Seq(Signals)
      BY <1>1, <2>1, <3>2 DEF Held
    <3>4. Heard => Heard'
      BY <2>1, <3>2 DEF Heard, Told
    <3> QED
      BY <1>1, <3>2, <3>3, <3>4, QuietStep
  <2> QED
    BY <2>2, <2>3
<1>6. ASSUME NEW name, Delivers(name)
      PROVE  guiQueue' \in Seq(Signals) /\ waitFor = 0
  BY <1>1, <1>6, Delivered DEF Delivers, GuiIdle
<1>7. CASE OnWorkerConnected
  <2>1. /\ state' = "Connected" /\ shuttingDown' = shuttingDown /\ waitFor' = waitFor
        /\ UNCHANGED <<phase, inbox, cancel, quit, current, made>>
        /\ guiQueue' \in Seq(Signals) /\ waitFor = 0
    BY <1>6, <1>7 DEF OnWorkerConnected, guiVars, workerVars
  <2>2. Held' /\ state' \in States \ {"Connecting"} /\ shuttingDown' \in BOOLEAN
    BY <1>1, <2>1 DEF Held, States
  <2> QED
    BY <2>1, <2>2, QuietStep
<1>8. CASE OnWorkerDisconnected
  <2>1. /\ state' = "Disconnected" /\ shuttingDown' = TRUE /\ current' = 0 /\ made' = made
        /\ guiQueue' \in Seq(Signals) /\ waitFor = 0
    BY <1>6, <1>8 DEF OnWorkerDisconnected
  <2>2. state' \in States \ {"Connecting"} /\ shuttingDown' \in BOOLEAN
    BY <2>1 DEF States
  <2>3. CASE /\ current # 0 /\ quit' = [quit EXCEPT ![current] = TRUE] /\ waitFor' = current
             /\ UNCHANGED <<phase, inbox, cancel>>
    BY <1>1, <2>1, <2>2, <2>3, LetGoStep
  <2>4. CASE current = 0 /\ UNCHANGED <<waitFor, workerVars>>
    <3>1. UNCHANGED <<phase, inbox, cancel, quit, current, made, waitFor>> /\ Held'
      BY <2>1, <2>4 DEF workerVars, Held
    <3> QED
      BY <2>1, <2>2, <3>1, QuietStep
  <2> QED
    BY <1>8, <2>3, <2>4 DEF OnWorkerDisconnected
<1>9. CASE DropDisconnected
  <2>1. /\ shuttingDown /\ guiQueue' \in Seq(Signals) /\ UNCHANGED <<state, shuttingDown, waitFor>>
        /\ UNCHANGED <<phase, inbox, cancel, quit, current, made>>
    BY <1>6, <1>9 DEF DropDisconnected, sessionVars, guiVars, workerVars
  <2>2. state # "Connecting" /\ Held'
    BY <1>1, <2>1 DEF Held
  <2> QED
    BY <1>1, <2>1, <2>2, QuietStep
<1>10. CASE OnWorkerError
  <2>1. /\ state' = "Failed" /\ shuttingDown' = TRUE /\ current' = 0 /\ made' = made
        /\ guiQueue' \in Seq(Signals) /\ waitFor = 0
    BY <1>6, <1>10 DEF OnWorkerError
  <2>2. state' \in States \ {"Connecting"} /\ shuttingDown' \in BOOLEAN
    BY <2>1 DEF States
  <2>3. CASE current # 0 /\ TellToStop(current) /\ waitFor' = current
    <3>1. /\ cancel' \in [Workers -> BOOLEAN] /\ phase' = phase
          /\ \A h \in Workers \ {current} : cancel'[h] = cancel[h]
          /\ quit' = [quit EXCEPT ![current] = TRUE]
          /\ inbox' = [inbox EXCEPT ![current] = Append(@, "stop")]
      BY <1>1, <1>2, <2>3 DEF TellToStop
    <3> QED
      BY <2>1, <2>2, <2>3, <3>1, LetGoStep
  <2>4. CASE current = 0 /\ UNCHANGED <<workerVars, waitFor>>
    <3>1. UNCHANGED <<phase, inbox, cancel, quit, current, made, waitFor>> /\ Held'
      BY <2>1, <2>4 DEF workerVars, Held
    <3> QED
      BY <2>1, <2>2, <3>1, QuietStep
  <2> QED
    BY <1>10, <2>3, <2>4 DEF OnWorkerError
<1>11. ASSUME UNCHANGED <<sessionVars, waitFor, phase, inbox, cancel, quit>>,
              guiQueue' \in Seq(Signals), Heard => Heard'
       PROVE  IInv'
  <2>1. UNCHANGED <<phase, inbox, cancel, quit, current, made, state, shuttingDown, waitFor>>
    BY <1>11 DEF sessionVars
  <2>2. Held'
    BY <1>1, <2>1 DEF Held
  <2> QED
    BY <1>1, <1>11, <2>1, <2>2, QuietStep
<1>12. CASE OnHostKeyPrompt
  <2>1. UNCHANGED <<sessionVars, waitFor, phase, inbox, cancel, quit>> /\ UNCHANGED current
    BY <1>12 DEF OnHostKeyPrompt, sessionVars, workerVars
  <2>2. guiQueue' \in Seq(Signals) /\ (Heard => Heard')
    BY <1>1, <1>12, <2>1, Delivered DEF OnHostKeyPrompt
  <2> QED
    BY <1>11, <2>1, <2>2
<1>13. CASE AnswerDialog
  <2>1. UNCHANGED <<sessionVars, waitFor, phase, inbox, cancel, quit, guiQueue>> /\ UNCHANGED current
    BY <1>13 DEF AnswerDialog, Answers, sessionVars
  <2>2. guiQueue' \in Seq(Signals) /\ (Heard => Heard')
    BY <1>1, <2>1 DEF Heard, Told
  <2> QED
    BY <1>11, <2>1, <2>2
<1> QED
  BY <1>3, <1>4, <1>5, <1>7, <1>8, <1>9, <1>10, <1>12, <1>13 DEF Gui
-----------------------------------------------------------------------------
(* The stages of a connection attempt.                                     *)
LEMMA EstablishStep ==
  ASSUME IInv, NEW g \in Workers, Establish(g)
  PROVE  IInv'
<1>1. /\ Typed /\ WorkerKept(g) /\ guiQueue \in Seq(Signals) /\ phase[g] \in Phases
      /\ Phases \ {"ended"} = Establishing \cup {"idle", "running", "faulted"}
  BY DEF IInv, Typed, Phases, Establishing
<1>2. guiQueue' = guiQueue => guiQueue' \in Seq(Signals) /\ Longer
  BY <1>1 DEF Longer
<1>3. ASSUME NEW from \in Establishing, NEW to \in Establishing, Passes(g, from, to)
      PROVE  IInv'
  <2>1. /\ phase[g] = from /\ GoTo(g, to) /\ guiQueue' = guiQueue
        /\ UNCHANGED <<sessionVars, waitFor, inbox, cancel, quit>>
    BY <1>3 DEF Passes, At, guiVars
  <2>2. phase[g] \notin {"idle", "ended"} /\ to \in Phases \ {"ended"}
    BY <2>1 DEF Establishing, Phases
  <2> QED
    BY <1>2, <1>3, <2>1, <2>2, StageStep
<1>4. ASSUME NEW ask \in Asking, phase[g] \in {"gateway", "verifying"}, WaitForTrust(g, ask)
      PROVE  IInv'
  <2>1. /\ GoTo(g, ask) /\ UNCHANGED <<sessionVars, waitFor, inbox, cancel, quit>>
        /\ phase[g] \in Establishing \ {"idle", "ended"} /\ ask \in Establishing
        /\ ask \in Phases \ {"ended"}
    BY <1>4 DEF WaitForTrust, guiVars, Establishing, Phases, Asking
  <2>2. [from |-> g, name |-> ask] \in Signals
    BY DEF Signals
  <2>3. guiQueue' \in Seq(Signals) /\ Longer
    <3>1. CASE guiQueue' = guiQueue
      BY <1>2, <3>1
    <3>2. CASE guiQueue' = Append(guiQueue, [from |-> g, name |-> ask])
      <4>1. /\ guiQueue' \in Seq(Signals) /\ Len(guiQueue) \in Nat
            /\ Len(guiQueue') = Len(guiQueue) + 1
            /\ \A i \in 1..Len(guiQueue) : guiQueue'[i] = guiQueue[i]
        BY <1>1, <2>2, <3>2
      <4> QED
        BY <4>1 DEF Longer
    <3> QED
      BY <1>4, <3>1, <3>2 DEF WaitForTrust
  <2> QED
    BY <2>1, <2>3, StageStep
<1>5. ASSUME phase[g] \in Establishing, GoTo(g, "idle"), Post(g, <<"error">>),
             UNCHANGED <<sessionVars, waitFor, inbox, cancel, quit>>
      PROVE  IInv'
  <2>1. <<"error">> \in Seq({"connected", "disconnected", "error"}) /\ Len(<<"error">>) # 0
    OBVIOUS
  <2>2. guiQueue' \in Seq(Signals) /\ Longer /\ (current = g => Told(g)')
    BY <1>1, <1>5, <2>1, Posted
  <2>3. phase[g] \notin {"idle", "ended"} /\ "idle" \in Phases \ {"ended"} /\ "idle" \notin Establishing
    BY <1>5 DEF Establishing, Phases
  <2> QED
    BY <1>5, <2>2, <2>3, StageStep
<1>6. ASSUME phase[g] \in Establishing, GoTo(g, "idle"), cancel[g], guiQueue' = guiQueue,
             UNCHANGED <<sessionVars, waitFor, inbox, cancel, quit>>
      PROVE  IInv'
  <2>1. phase[g] \notin {"idle", "ended"} /\ "idle" \in Phases \ {"ended"} /\ "idle" \notin Establishing
    BY <1>6 DEF Establishing, Phases
  <2> QED
    BY <1>2, <1>6, <2>1, StageStep
<1>7. ASSUME NEW to \in {"connecting", "authenticating"}, phase[g] \in Asking, GoTo(g, to),
             guiQueue' = guiQueue, UNCHANGED <<sessionVars, waitFor, inbox, cancel, quit>>
      PROVE  IInv'
  <2>1. /\ phase[g] \notin {"idle", "ended"} /\ phase[g] \in Establishing
        /\ to \in Phases \ {"ended"} /\ to \in Establishing
    BY <1>7 DEF Establishing, Phases, Asking
  <2> QED
    BY <1>2, <1>7, <2>1, StageStep
<1>8. CASE ConnectToHost(g)
  BY <1>8, ConnectStep
<1>9. CASE GatewayPassed(g) \/ ConnectedToHost(g) \/ KeyKnown(g) \/ Authenticated(g) \/ NotCancelled(g)
  BY <1>3, <1>9
     DEF GatewayPassed, ConnectedToHost, KeyKnown, Authenticated, NotCancelled, Establishing
<1>10. CASE GatewayAsks(g) \/ AskForTrust(g)
  BY <1>4, <1>10 DEF GatewayAsks, AskForTrust, At, Asking
<1>11. CASE GatewayTrusted(g)
  BY <1>7, <1>11 DEF GatewayTrusted, At, Asking, guiVars
<1>12. CASE TrustDecided(g)
  <2>1. phase[g] = "askTarget" /\ UNCHANGED <<sessionVars, waitFor, inbox, cancel, quit>>
    BY <1>12 DEF TrustDecided, At, guiVars
  <2>2. \/ GoTo(g, "authenticating") /\ guiQueue' = guiQueue
        \/ cancel[g] /\ GoTo(g, "idle") /\ guiQueue' = guiQueue
        \/ Post(g, <<"error">>) /\ GoTo(g, "idle")
    BY <1>12 DEF TrustDecided
  <2>3. phase[g] \in Asking /\ phase[g] \in Establishing
    BY <2>1 DEF Asking, Establishing
  <2> QED
    BY <1>5, <1>6, <1>7, <2>1, <2>2, <2>3
<1>13. CASE KeyFails(g)
  BY <1>5, <1>13 DEF KeyFails, At, Establishing, guiVars
<1>14. CASE ConnectFails(g)
  <2>1. phase[g] \in Establishing /\ UNCHANGED <<sessionVars, waitFor, inbox, cancel, quit>>
    BY <1>14 DEF ConnectFails, Failing, Establishing, guiVars
  <2>2. GoTo(g, "idle") /\ (IF cancel[g] THEN guiQueue' = guiQueue ELSE Post(g, <<"error">>))
    BY <1>14 DEF ConnectFails
  <2> QED
    BY <1>5, <1>6, <2>1, <2>2
<1>15. CASE Connected(g)
  <2>1. /\ phase[g] = "opened" /\ Post(g, <<"connected">>) /\ GoTo(g, "running")
        /\ UNCHANGED <<sessionVars, waitFor, inbox, cancel, quit>>
    BY <1>15 DEF Connected, At, guiVars
  <2>2. <<"connected">> \in Seq({"connected", "disconnected", "error"}) /\ Len(<<"connected">>) # 0
    OBVIOUS
  <2>3. guiQueue' \in Seq(Signals) /\ Longer /\ (current = g => Told(g)')
    BY <1>1, <2>1, <2>2, Posted
  <2>4. /\ phase[g] \notin {"idle", "ended"} /\ "running" \in Phases \ {"ended"}
        /\ "running" \notin Establishing
    BY <2>1 DEF Establishing, Phases
  <2> QED
    BY <2>1, <2>3, <2>4, StageStep
<1> QED
  BY <1>8, <1>9, <1>10, <1>11, <1>12, <1>13, <1>14, <1>15 DEF Establish

(* The loop of a connected worker, its losses, and the end of its thread.  *)
LEMMA LoopStep ==
  ASSUME IInv, NEW g \in Workers, Loop(g) \/ Loss(g) \/ ThreadEnds(g)
  PROVE  IInv'
<1>1. Typed /\ WorkerKept(g)
  BY DEF IInv
<1>2. << >> \in Seq({"error"}) /\ <<"error">> \in Seq({"error"})
  OBVIOUS
<1>3. CASE FaultDisconnects(g) \/ SessionEof(g)
  BY <1>2, <1>3, DisconnectStep DEF FaultDisconnects, SessionEof, At
<1>4. CASE KeepaliveSlot(g) \/ StopSlot(g)
  BY <1>2, <1>4, DisconnectStep DEF KeepaliveSlot, StopSlot, At
<1>5. CASE LoopFault(g)
  <2>1. /\ phase[g] = "running" /\ Post(g, <<"error">>) /\ GoTo(g, "faulted")
        /\ UNCHANGED <<sessionVars, waitFor, inbox, cancel, quit>>
    BY <1>5 DEF LoopFault, At, guiVars
  <2>2. <<"error">> \in Seq({"connected", "disconnected", "error"})
    OBVIOUS
  <2>3. guiQueue' \in Seq(Signals) /\ Longer
    BY <1>1, <2>1, <2>2, Posted
  <2>4. /\ phase[g] \notin {"idle", "ended"} /\ "faulted" \in Phases \ {"ended"}
        /\ "faulted" \notin Establishing /\ phase[g] \notin Establishing
    BY <2>1 DEF Establishing, Phases
  <2> QED
    BY <2>1, <2>3, <2>4, StageStep
<1>6. CASE KeepaliveFails(g)
  <2>1. /\ inbox' = [inbox EXCEPT ![g] = Append(@, "keepalive")]
        /\ UNCHANGED <<sessionVars, waitFor, phase, cancel, quit, guiQueue>>
    BY <1>6 DEF KeepaliveFails, guiVars
  <2>2. inbox[g] \in Seq(Slots) /\ "keepalive" \in Slots \ {"connect"}
    BY <1>1 DEF Typed, Slots
  <2>3. /\ inbox'[g] = Append(inbox[g], "keepalive")
        /\ \A h \in Workers \ {g} : inbox'[h] = inbox[h]
        /\ inbox' \in [Workers -> Seq(Slots)]
    BY <1>1, <2>1, <2>2, PostedSlot DEF Typed
  <2>4. /\ \A y : Has(inbox[g], y) => Has(inbox'[g], y)
        /\ \A y : y # "keepalive" /\ Has(inbox'[g], y) => Has(inbox[g], y)
        /\ ConnectsFirst(g) => ConnectsFirst(g)'
    BY <2>2, <2>3, PostedSlot DEF ConnectsFirst
  <2>5. guiQueue' \in Seq(Signals) /\ Longer
    BY <1>1, <2>1 DEF Typed, Longer
  <2>6. Told(g) => Told(g)'
    BY <1>1, <2>5, StillTold
  <2>7. WorkerKept(g)'
    <3>1. Untouched(g)' /\ Undisturbed(g)' /\ ConnectsFirst(g)'
      BY <1>1, <2>1, <2>4 DEF WorkerKept, Untouched, Undisturbed, sessionVars
    <3>2. Abandoned(g)' => OnItsWayOut(g)'
      BY <1>1, <2>1, <2>4 DEF WorkerKept, Abandoned, OnItsWayOut, sessionVars
    <3>3. state' = "Connecting" /\ g = current' => OwesOutcome(g)'
      BY <1>1, <2>1, <2>4, <2>6 DEF WorkerKept, OwesOutcome, Told, sessionVars
    <3> QED
      BY <3>1, <3>2, <3>3 DEF WorkerKept
  <2>8. /\ phase' \in [Workers -> Phases] /\ cancel' \in [Workers -> BOOLEAN]
        /\ \A h \in Workers \ {g} : phase'[h] = phase[h] /\ cancel'[h] = cancel[h]
    BY <1>1, <2>1 DEF Typed
  <2> QED
    BY <2>1, <2>3, <2>5, <2>7, <2>8, WorkerStep
<1>7. CASE ThreadEnds(g)
  <2>1. /\ g <= made /\ quit[g] /\ Gone(g) /\ UNCHANGED <<sessionVars, guiQueue, waitFor>>
    BY <1>7 DEF ThreadEnds, At, guiVars
  <2>2. g # current
    BY <1>1, <2>1 DEF WorkerKept, Undisturbed
  <2> QED
    BY <2>1, <2>2, GoneStep
<1> QED
  BY <1>3, <1>4, <1>5, <1>6, <1>7 DEF Loop, Loss

(* At first there is no worker.                                            *)
LEMMA Start == Init => IInv
<1> SUFFICES ASSUME Init
             PROVE  IInv
  OBVIOUS
<1>1. << >> \in Seq(Slots) /\ << >> \in Seq(Signals) /\ Len(<< >>) = 0
  OBVIOUS
<1>2. Typed
  <2>1. made \in 0..MaxWorkers /\ current \in 0..made /\ waitFor \in 0..made
    BY MaxWorkersAssumption DEF Init
  <2>2. state \in States /\ shuttingDown \in BOOLEAN /\ guiQueue \in Seq(Signals)
    BY <1>1 DEF Init, States
  <2>3. phase \in [Workers -> Phases] /\ inbox \in [Workers -> Seq(Slots)]
    BY <1>1 DEF Init, Phases
  <2>4. cancel \in [Workers -> BOOLEAN] /\ quit \in [Workers -> BOOLEAN]
    BY DEF Init
  <2> QED
    BY <2>1, <2>2, <2>3, <2>4 DEF Typed
<1>3. Held
  BY DEF Init, Held
<1>4. ASSUME NEW g \in Workers
      PROVE  WorkerKept(g)
  <2>1. phase[g] = "idle" /\ ~quit[g] /\ inbox[g] = << >> /\ g > made /\ g # current /\ ~(g <= made)
    BY <1>4, MaxWorkersAssumption DEF Init, Workers
  <2>2. ConnectsFirst(g)
    BY <1>1, <2>1 DEF ConnectsFirst
  <2> QED
    BY <2>1, <2>2 DEF WorkerKept, Untouched, Undisturbed, Abandoned
<1> QED
  BY <1>2, <1>3, <1>4 DEF IInv

(* A step that changes nothing.                                            *)
LEMMA Stutter == IInv /\ UNCHANGED vars => IInv'
BY DEF IInv, vars, Typed, Held, WorkerKept, Untouched, Undisturbed, ConnectsFirst, Abandoned, OnItsWayOut,
       OwesOutcome, Has

(* The inductive invariant: every reachable state satisfies it.            *)
THEOREM Invariance == Spec => []IInv
<1>1. IInv /\ [Next]_vars => IInv'
  BY UserStep, GuiStep, EstablishStep, LoopStep, Stutter DEF Next
<1> QED
  BY <1>1, Start, PTL DEF Spec

(* However many workers a session has gone through, each one it has let go *)
(* of is on its way out, and a session that shows Connecting is owed an    *)
(* outcome by the worker it holds: no signal of another worker, late or    *)
(* early, can take it away.                                                *)
THEOREM NoneIsForgotten == Spec => []NobodyIsForgotten
<1>1. IInv => NobodyIsForgotten
  <2> SUFFICES ASSUME IInv
               PROVE  NobodyIsForgotten
    OBVIOUS
  <2>1. AbandonedAreStopped
    BY DEF IInv, WorkerKept, OnItsWayOut, AbandonedAreStopped
  <2>2. ASSUME state = "Connecting"
        PROVE  OwesOutcome(current)
    <3>1. current \in Workers
      BY <2>2, MaxWorkersAssumption DEF IInv, Typed, Held, Workers
    <3> QED
      BY <2>2, <3>1 DEF IInv, WorkerKept
  <2> QED
    BY <2>1, <2>2 DEF NobodyIsForgotten, ConnectingIsOwedAnOutcome
<1> QED
  BY <1>1, Invariance, PTL
-----------------------------------------------------------------------------
(* The host-key questions of g that have no answer yet: posted to the      *)
(* session, or in a dialog.                                                *)
PostedAt(g) == {i \in 1..Len(guiQueue) : guiQueue[i].from = g /\ guiQueue[i].name \in Asking}
OpenAt(g) == {i \in 1..Len(dialogs) : dialogs[i].from = g}

NoQuestion(g) == PostedAt(g) = {} /\ OpenAt(g) = {}
OneQuestion(g, ask) ==
  /\ \A i, j \in PostedAt(g) : i = j
  /\ \A i, j \in OpenAt(g) : i = j
  /\ PostedAt(g) = {} \/ OpenAt(g) = {}
  /\ \A i \in PostedAt(g) : guiQueue[i].name = ask
  /\ \A i \in OpenAt(g) : dialogs[i].name = ask

(* Unless a dialog of another worker has answered it, a worker that is     *)
(* before a wait for trust has no question open; one that waits has asked  *)
(* once, for the key it waits for; and it is trusted by that one's answer. *)
Accepted(g) == answered[g] /\ accepted[g]
NotAsked(g) ==
  \/ phase[g] \in {"gateway", "connecting", "verifying"}
  \/ Has(inbox[g], "connect")
  \/ g > made
Shown(g) ==
  \/ g \in astray
  \/ /\ NotAsked(g) => NoQuestion(g)
     /\ \A ask \in Asking : phase[g] = ask =>
          /\ OneQuestion(g, ask)
          /\ Accepted(g) => NoQuestion(g) /\ by[g] = [from |-> g, name |-> ask]

KeyTyped ==
  /\ dialogs \in Seq(Signals)
  /\ answered \in [Workers -> BOOLEAN] /\ accepted \in [Workers -> BOOLEAN]
  /\ by \in [Workers -> Signals \cup {NoDialog}] /\ astray \subseteq Workers

(* Nor is connectToHost posted to a worker that has begun.                 *)
Fresh(g) == Has(inbox[g], "connect") => phase[g] = "idle"

Trusting == IInv /\ KeyTyped /\ \A g \in Workers : Fresh(g) /\ Shown(g)
-----------------------------------------------------------------------------
(* A step opens no question of g.                                          *)
NoNewQuestion(g) ==
  /\ NoQuestion(g) => NoQuestion(g)'
  /\ \A ask \in Asking : OneQuestion(g, ask) => OneQuestion(g, ask)'

(* A signal that is not a question is posted, or the queue is as it was.   *)
LEMMA OtherSignals ==
  ASSUME Typed, dialogs' = dialogs, Longer, NEW g,
         \A i \in 1..Len(guiQueue') : i \in 1..Len(guiQueue) \/ guiQueue'[i].name \notin Asking
                                       \/ guiQueue'[i].from # g
  PROVE  NoNewQuestion(g)
<1>1. PostedAt(g)' = PostedAt(g) /\ OpenAt(g)' = OpenAt(g)
  BY DEF PostedAt, OpenAt, Longer
<1>2. \A i \in PostedAt(g) : guiQueue'[i] = guiQueue[i]
  BY DEF PostedAt, Longer
<1> QED
  BY <1>1, <1>2 DEF NoNewQuestion, NoQuestion, OneQuestion

(* What emit posts is no question.                                         *)
LEMMA NoQuestionPosted ==
  ASSUME Typed, dialogs' = dialogs, NEW g \in Workers,
         NEW names \in Seq({"connected", "disconnected", "error"}), Post(g, names), NEW h
  PROVE  NoNewQuestion(h)
<1>1. guiQueue' \in Seq(Signals) /\ Longer
  BY Posted
<1>2. ASSUME NEW i \in 1..Len(guiQueue'), i \notin 1..Len(guiQueue)
      PROVE  guiQueue'[i].name \notin Asking
  <2>1. current = g
    BY <1>2 DEF Post
  <2> DEFINE s == [n \in 1..Len(names) |-> [from |-> g, name |-> names[n]]]
  <2>2. guiQueue' = guiQueue \o s
    BY <2>1 DEF Post
  <2>3. /\ Len(names) \in Nat
        /\ \A n \in 1..Len(names) : names[n] \in {"connected", "disconnected", "error"}
    OBVIOUS
  <2>4. \A n \in 1..Len(names) : [from |-> g, name |-> names[n]] \in Signals
    BY <2>3 DEF Signals
  <2>5. s \in Seq(Signals) /\ DOMAIN s = 1..Len(names)
    BY <2>3, <2>4
  <2>6. Len(s) = Len(names) /\ \A n \in 1..Len(names) : s[n].name \notin Asking
    BY <2>3, <2>5, LenProperties DEF Asking
  <2> HIDE DEF s
  <2>7. guiQueue \in Seq(Signals) /\ Len(guiQueue) \in Nat
    BY DEF Typed
  <2>8. /\ Len(guiQueue') = Len(guiQueue) + Len(names)
        /\ \A n \in 1..Len(guiQueue) + Len(names) :
             guiQueue'[n] = IF n <= Len(guiQueue) THEN guiQueue[n] ELSE s[n - Len(guiQueue)]
    <3>1. /\ Len(guiQueue \o s) = Len(guiQueue) + Len(s)
          /\ \A n \in 1..Len(guiQueue) + Len(s) :
               (guiQueue \o s)[n] = IF n <= Len(guiQueue) THEN guiQueue[n] ELSE s[n - Len(guiQueue)]
      BY <2>5, <2>7, ConcatProperties
    <3>2. Len(s) = Len(names)
      BY <2>6
    <3> QED
      BY <2>2, <3>1, <3>2
  <2>9. i - Len(guiQueue) \in 1..Len(names) /\ guiQueue'[i] = s[i - Len(guiQueue)]
    BY <1>2, <2>3, <2>7, <2>8
  <2> QED
    BY <2>6, <2>9
<1> QED
  BY <1>1, <1>2, OtherSignals

(* A signal is taken from the queue that was no question.                  *)
LEMMA OtherSignalTaken ==
  ASSUME Typed, dialogs' = dialogs, guiQueue # <<>>, guiQueue' = Tail(guiQueue), NEW g
  PROVE  NoNewQuestion(g)
<1>1. /\ Len(guiQueue) \in Nat \ {0} /\ Len(guiQueue') = Len(guiQueue) - 1
      /\ \A i \in 1..Len(guiQueue') : guiQueue'[i] = guiQueue[i + 1] /\ i + 1 \in 1..Len(guiQueue)
      /\ \A i, j \in 1..Len(guiQueue') : i + 1 = j + 1 => i = j
  BY DEF Typed
<1>2. \A i \in PostedAt(g)' : i + 1 \in PostedAt(g) /\ guiQueue'[i] = guiQueue[i + 1]
  BY <1>1 DEF PostedAt
<1>3. \A i, j \in PostedAt(g)' : i + 1 = j + 1 => i = j
  BY <1>1 DEF PostedAt
<1>4. OpenAt(g)' = OpenAt(g)
  BY DEF OpenAt
<1>5. PostedAt(g) = {} => PostedAt(g)' = {}
  BY <1>2
<1>6. NoQuestion(g) => NoQuestion(g)'
  BY <1>4, <1>5 DEF NoQuestion
<1>7. ASSUME NEW ask \in Asking, OneQuestion(g, ask)
      PROVE  OneQuestion(g, ask)'
  <2>1. \A i, j \in PostedAt(g)' : i = j
    BY <1>2, <1>3, <1>7 DEF OneQuestion
  <2>2. \A i \in PostedAt(g) : guiQueue[i].name = ask
    BY <1>7 DEF OneQuestion
  <2>3. \A i \in PostedAt(g)' : guiQueue'[i].name = ask
    BY <1>2, <2>2
  <2> QED
    BY <1>4, <1>5, <1>7, <2>1, <2>3 DEF OneQuestion
<1> QED
  BY <1>6, <1>7 DEF NoNewQuestion

(* A question moves from the queue into a dialog.                          *)
LEMMA QuestionOpened ==
  ASSUME Typed, KeyTyped, guiQueue # <<>>, Head(guiQueue).name \in Asking,
         guiQueue' = Tail(guiQueue), dialogs' = Append(dialogs, Head(guiQueue)), NEW g
  PROVE  NoNewQuestion(g)
<1>1. /\ Len(guiQueue) \in Nat \ {0} /\ Len(guiQueue') = Len(guiQueue) - 1
      /\ Head(guiQueue) = guiQueue[1] /\ 1 \in 1..Len(guiQueue)
      /\ \A i \in 1..Len(guiQueue') : /\ guiQueue'[i] = guiQueue[i + 1]
                                       /\ i + 1 \in 1..Len(guiQueue) /\ i + 1 # 1
      /\ \A i, j \in 1..Len(guiQueue') : i + 1 = j + 1 => i = j
  BY DEF Typed
<1>2. /\ Len(dialogs) \in Nat /\ Len(dialogs') = Len(dialogs) + 1
      /\ \A i \in 1..Len(dialogs) : dialogs'[i] = dialogs[i]
      /\ dialogs'[Len(dialogs) + 1] = Head(guiQueue)
      /\ \A i \in 1..Len(dialogs') : i \in 1..Len(dialogs) \/ i = Len(dialogs) + 1
  <2>1. dialogs \in Seq(Signals) /\ Head(guiQueue) \in Signals
    BY DEF Typed, KeyTyped
  <2> QED
    BY <2>1
<1>3. \A i \in PostedAt(g)' : /\ i + 1 \in PostedAt(g) /\ i + 1 # 1
                              /\ guiQueue'[i] = guiQueue[i + 1]
  BY <1>1 DEF PostedAt
<1>4. \A i, j \in PostedAt(g)' : i + 1 = j + 1 => i = j
  BY <1>1 DEF PostedAt
<1>5. CASE Head(guiQueue).from # g
  <2>1. OpenAt(g)' = OpenAt(g) /\ \A i \in OpenAt(g) : dialogs'[i] = dialogs[i]
    BY <1>2, <1>5 DEF OpenAt
  <2>2. PostedAt(g) = {} => PostedAt(g)' = {}
    BY <1>3
  <2>3. NoQuestion(g) => NoQuestion(g)'
    BY <2>1, <2>2 DEF NoQuestion
  <2>4. ASSUME NEW ask \in Asking, OneQuestion(g, ask)
        PROVE  OneQuestion(g, ask)'
    <3>1. \A i, j \in PostedAt(g)' : i = j
      BY <1>3, <1>4, <2>4 DEF OneQuestion
    <3>2. \A i \in PostedAt(g) : guiQueue[i].name = ask
      BY <2>4 DEF OneQuestion
    <3>3. \A i \in PostedAt(g)' : guiQueue'[i].name = ask
      BY <1>3, <3>2
    <3> QED
      BY <2>1, <2>2, <2>4, <3>1, <3>3 DEF OneQuestion
  <2> QED
    BY <2>3, <2>4 DEF NoNewQuestion
<1>6. CASE Head(guiQueue).from = g
  <2>1. 1 \in PostedAt(g)
    BY <1>1, <1>6 DEF PostedAt
  <2>2. \A i \in OpenAt(g)' : i \in OpenAt(g) \/ i = Len(dialogs) + 1
    BY <1>2 DEF OpenAt
  <2>3. ASSUME NEW ask \in Asking, OneQuestion(g, ask)
        PROVE  OneQuestion(g, ask)'
    <3>1. PostedAt(g)' = {}
      BY <1>3, <2>1, <2>3 DEF OneQuestion
    <3>2. OpenAt(g) = {}
      BY <2>1, <2>3 DEF OneQuestion
    <3>3. \A i \in OpenAt(g)' : i = Len(dialogs) + 1 /\ dialogs'[i].name = ask
      BY <1>1, <1>2, <2>1, <2>2, <2>3, <3>2 DEF OneQuestion
    <3> QED
      BY <3>1, <3>3 DEF OneQuestion
  <2> QED
    BY <2>1, <2>3 DEF NoNewQuestion, NoQuestion
<1> QED
  BY <1>5, <1>6

(* A dialog is closed; if it was g's one, g has no question open any more. *)
LEMMA DialogClosed ==
  ASSUME KeyTyped, dialogs # <<>>, dialogs' = Front(dialogs), guiQueue' = guiQueue, NEW g
  PROVE  /\ NoNewQuestion(g)
         /\ Last(dialogs).from = g =>
              /\ ~NoQuestion(g)
              /\ \A ask \in Asking : OneQuestion(g, ask) => NoQuestion(g)' /\ Last(dialogs).name = ask
         /\ dialogs' \in Seq(Signals) /\ Last(dialogs) \in Signals
<1>1. /\ dialogs \in Seq(Signals) /\ Len(dialogs) \in Nat \ {0} /\ Len(dialogs) \in 1..Len(dialogs)
      /\ Last(dialogs) = dialogs[Len(dialogs)] /\ Last(dialogs) \in Signals
  BY DEF KeyTyped, Last
<1>2. /\ dialogs' \in Seq(Signals) /\ Len(dialogs') = Len(dialogs) - 1
      /\ \A i \in 1..Len(dialogs') : dialogs'[i] = dialogs[i] /\ i \in 1..Len(dialogs) /\ i # Len(dialogs)
  <2> DEFINE n == Len(dialogs) - 1
             front == SubSeq(dialogs, 1, n)
  <2>1. /\ front \in Seq(Signals) /\ Len(front) = n
        /\ \A i \in 1..Len(front) : front[i] = dialogs[i]
    <3>1. n \in Nat /\ \A i \in 1..n : dialogs[i] \in Signals
      BY <1>1
    <3> HIDE DEF n
    <3>2. /\ front \in Seq(Signals)
          /\ Len(front) = IF 1 <= n THEN n - 1 + 1 ELSE 0
          /\ \A i \in 1..n - 1 + 1 : front[i] = dialogs[1 + i - 1]
      BY <3>1, SubSeqProperties
    <3> HIDE DEF front
    <3>3. Len(front) = n
      BY <3>1, <3>2
    <3>4. \A i \in 1..Len(front) : front[i] = dialogs[i]
      BY <3>1, <3>2, <3>3
    <3> QED
      BY <3>2, <3>3, <3>4
  <2>2. dialogs' = front
    BY DEF Front
  <2> HIDE DEF front
  <2> QED
    BY <1>1, <2>1, <2>2
<1>3. \A i \in OpenAt(g)' : i \in OpenAt(g) /\ dialogs'[i] = dialogs[i] /\ i # Len(dialogs)
  BY <1>2 DEF OpenAt
<1>4. PostedAt(g)' = PostedAt(g)
  BY DEF PostedAt
<1>5. NoNewQuestion(g)
  BY <1>3, <1>4 DEF NoNewQuestion, NoQuestion, OneQuestion
<1>6. ASSUME Last(dialogs).from = g
      PROVE  /\ ~NoQuestion(g)
             /\ \A ask \in Asking : OneQuestion(g, ask) => NoQuestion(g)' /\ Last(dialogs).name = ask
  <2>1. Len(dialogs) \in OpenAt(g)
    BY <1>1, <1>6 DEF OpenAt
  <2> QED
    BY <1>1, <1>3, <1>4, <2>1 DEF NoQuestion, OneQuestion
<1> QED
  BY <1>1, <1>2, <1>5, <1>6
-----------------------------------------------------------------------------
(* A step that neither moves a worker nor answers it.                      *)
LEMMA NotMoved ==
  ASSUME NEW h, Shown(h), NoNewQuestion(h), phase'[h] = phase[h], h \in astray => h \in astray',
         \/ answered'[h] = answered[h] /\ accepted'[h] = accepted[h] /\ by'[h] = by[h]
         \/ ~accepted'[h],
         Has(inbox'[h], "connect") => Has(inbox[h], "connect") \/ h > made,
         h > made' => h > made
  PROVE  Shown(h)'
<1>1. NotAsked(h)' => NotAsked(h)
  BY DEF NotAsked
<1>2. Accepted(h)' => Accepted(h) /\ by'[h] = by[h]
  BY DEF Accepted
<1> QED
  BY <1>1, <1>2 DEF Shown, NoNewQuestion

(* A worker goes on to a stage in which it waits for no answer.            *)
LEMMA MovedOn ==
  ASSUME NEW g, Shown(g), NoNewQuestion(g), phase'[g] \notin Asking, g \in astray => g \in astray',
         phase'[g] \in {"gateway", "connecting", "verifying"} => NoQuestion(g) \/ g \in astray,
         Has(inbox'[g], "connect") => Has(inbox[g], "connect"),
         ~(g > made')
  PROVE  Shown(g)'
<1>1. NotAsked(g)' => NoQuestion(g) \/ g \in astray
  BY DEF NotAsked, Shown
<1> QED
  BY <1>1 DEF Shown, NoNewQuestion

(* A worker that waits for trust has asked once, and has no answer yet.    *)
LEMMA AskedOnce ==
  ASSUME Typed, KeyTyped, NEW g \in Workers, Shown(g), ~(g > made), ~Has(inbox[g], "connect"),
         NEW ask \in Asking, phase[g] \in {"gateway", "verifying"}, WaitForTrust(g, ask)
  PROVE  Shown(g)' /\ \A h : h # g => NoNewQuestion(h)
<1>1. /\ phase'[g] = ask /\ ~answered'[g] /\ dialogs' = dialogs /\ astray' = astray
      /\ made' = made /\ inbox' = inbox
  BY DEF WaitForTrust, GoTo, Typed, KeyTyped, guiVars, sessionVars
<1>2. Len(guiQueue) \in Nat
  BY DEF Typed
<1>3. \/ guiQueue' = guiQueue
      \/ /\ Len(guiQueue') = Len(guiQueue) + 1
         /\ \A i \in 1..Len(guiQueue) : guiQueue'[i] = guiQueue[i]
         /\ guiQueue'[Len(guiQueue) + 1] = [from |-> g, name |-> ask]
  <2>1. [from |-> g, name |-> ask] \in Signals
    BY DEF Signals
  <2>2. CASE guiQueue' = Append(guiQueue, [from |-> g, name |-> ask])
    BY <1>2, <2>1, <2>2 DEF Typed
  <2> QED
    BY <2>2 DEF WaitForTrust
<1>4. Longer
  BY <1>2, <1>3 DEF Longer
<1>5. \A i \in 1..Len(guiQueue') :
        i \in 1..Len(guiQueue) \/ (i = Len(guiQueue) + 1 /\ guiQueue'[i] = [from |-> g, name |-> ask])
  BY <1>2, <1>3
<1>6. ASSUME NEW h, h # g
      PROVE  NoNewQuestion(h)
  <2>1. \A i \in 1..Len(guiQueue') : i \in 1..Len(guiQueue) \/ guiQueue'[i].from # h
    BY <1>5, <1>6
  <2> QED
    BY <1>1, <1>4, <2>1, OtherSignals
<1>7. ASSUME g \notin astray
      PROVE  Shown(g)'
  <2>1. NoQuestion(g)
    BY <1>7 DEF Shown, NotAsked
  <2>2. OpenAt(g)' = {} /\ \A i \in PostedAt(g)' : /\ i = Len(guiQueue) + 1
                                                 /\ guiQueue'[i] = [from |-> g, name |-> ask]
    BY <1>1, <1>4, <1>5, <2>1 DEF NoQuestion, PostedAt, OpenAt, Longer
  <2>3. OneQuestion(g, ask)'
    BY <2>2 DEF OneQuestion
  <2>4. ~NotAsked(g)'
    BY <1>1 DEF NotAsked, Asking
  <2> QED
    BY <1>1, <2>3, <2>4 DEF Shown, Accepted
<1> QED
  BY <1>1, <1>6, <1>7 DEF Shown

(* A dialog's answer counts for the worker it asks for, or leads it astray.*)
LEMMA Answered ==
  ASSUME Trusting, AnswerDialog
  PROVE  KeyTyped' /\ \A h \in Workers : Shown(h)'
<1>1. PICK answer \in BOOLEAN : Answers(answer)
  BY DEF AnswerDialog
<1>2. /\ dialogs # <<>> /\ dialogs' = Front(dialogs) /\ guiQueue' = guiQueue
      /\ UNCHANGED <<phase, inbox, made, current>>
  BY <1>1 DEF Answers, sessionVars
<1>3. KeyTyped /\ Typed /\ \A h \in Workers : Shown(h)
  BY DEF Trusting, IInv
<1>4. /\ \A h : NoNewQuestion(h)
      /\ dialogs' \in Seq(Signals) /\ Last(dialogs) \in Signals
  BY <1>2, <1>3, DialogClosed
<1>5. CASE current = 0
  <2>1. UNCHANGED <<answered, accepted, by, astray>>
    BY <1>1, <1>5 DEF Answers, keyVars
  <2>2. KeyTyped'
    BY <1>3, <1>4, <2>1 DEF KeyTyped
  <2> QED
    BY <1>2, <1>3, <1>4, <2>1, <2>2, NotMoved
<1>6. CASE current # 0
  <2>1. Respond(current, answer, Last(dialogs)) /\ current \in Workers
    BY <1>1, <1>3, <1>6, MaxWorkersAssumption DEF Answers, Typed, Workers
  <2>2. /\ answered' = [answered EXCEPT ![current] = TRUE]
        /\ accepted' = [accepted EXCEPT ![current] = answer]
        /\ by' = [by EXCEPT ![current] = Last(dialogs)]
        /\ astray' = IF Last(dialogs).from \in {0, current} THEN astray ELSE astray \cup {current}
    BY <2>1 DEF Respond
  <2>3. astray \subseteq astray' /\ astray' \subseteq Workers
    BY <1>3, <2>1, <2>2 DEF KeyTyped
  <2>4. KeyTyped'
    <3>1. answered' \in [Workers -> BOOLEAN]
      BY <1>3, <2>1, <2>2 DEF KeyTyped
    <3>2. accepted' \in [Workers -> BOOLEAN]
      BY <1>3, <2>1, <2>2 DEF KeyTyped
    <3>3. by' \in [Workers -> Signals \cup {NoDialog}]
      BY <1>3, <1>4, <2>1, <2>2 DEF KeyTyped
    <3> QED
      BY <1>4, <2>3, <3>1, <3>2, <3>3 DEF KeyTyped
  <2>5. ASSUME NEW h \in Workers, h # current
        PROVE  Shown(h)'
    <3>1. answered'[h] = answered[h] /\ accepted'[h] = accepted[h] /\ by'[h] = by[h]
      BY <1>3, <2>2, <2>5 DEF KeyTyped
    <3> QED
      BY <1>2, <1>3, <1>4, <2>3, <3>1, NotMoved
  <2>6. ASSUME NEW g \in Workers, g = current
        PROVE  Shown(g)'
    <3>1. Shown(g) /\ NoNewQuestion(g) /\ by'[g] = Last(dialogs)
      BY <1>3, <1>4, <2>2, <2>6 DEF KeyTyped
    <3>2. CASE Last(dialogs).from # g
      <4>1. Last(dialogs).from # 0
        BY <1>4, MaxWorkersAssumption DEF Signals, Workers
      <4> QED
        BY <2>2, <2>6, <3>2, <4>1 DEF Shown
    <3>3. CASE Last(dialogs).from = g /\ g \notin astray
      <4>1. /\ ~NoQuestion(g)
            /\ \A ask \in Asking : OneQuestion(g, ask) => NoQuestion(g)' /\ Last(dialogs).name = ask
        BY <1>2, <1>3, <3>3, DialogClosed
      <4>2. ~NotAsked(g)'
        BY <1>2, <3>1, <3>3, <4>1 DEF Shown, NotAsked
      <4>3. ASSUME NEW ask \in Asking, phase'[g] = ask
            PROVE  OneQuestion(g, ask)' /\ NoQuestion(g)' /\ by'[g] = [from |-> g, name |-> ask]
        <5>1. OneQuestion(g, ask)
          BY <1>2, <3>1, <3>3, <4>3 DEF Shown
        <5>2. OneQuestion(g, ask)' /\ NoQuestion(g)' /\ Last(dialogs).name = ask
          BY <3>1, <4>1, <5>1 DEF NoNewQuestion
        <5>3. Last(dialogs) = [from |-> g, name |-> ask]
          BY <1>4, <3>3, <5>2 DEF Signals
        <5> QED
          BY <3>1, <5>2, <5>3
      <4> QED
        BY <4>2, <4>3 DEF Shown
    <3>4. CASE g \in astray
      BY <2>3, <3>4 DEF Shown
    <3> QED
      BY <3>2, <3>3, <3>4
  <2> QED
    BY <2>4, <2>5, <2>6
<1> QED
  BY <1>5, <1>6

(* A step of the GUI thread that answers no dialog: at most it tells the   *)
(* current worker to stop, with an answer that is no trust.                *)
LEMMA Unanswered ==
  ASSUME Trusting, phase' = phase, astray \subseteq astray',
         \A h \in Workers : NoNewQuestion(h) /\ (h > made' => h > made),
         \A h \in Workers : Has(inbox'[h], "connect") => Has(inbox[h], "connect") \/ h > made,
         \A h \in Workers : \/ answered'[h] = answered[h] /\ accepted'[h] = accepted[h] /\ by'[h] = by[h]
                            \/ ~accepted'[h]
  PROVE  \A h \in Workers : Fresh(h)' /\ Shown(h)'
<1>1. ASSUME NEW h \in Workers
      PROVE  Fresh(h)' /\ Shown(h)'
  <2>1. Fresh(h) /\ Shown(h) /\ WorkerKept(h)
    BY DEF Trusting, IInv
  <2>2. Shown(h)'
    BY <2>1, NotMoved
  <2> QED
    BY <2>1, <2>2 DEF Fresh, WorkerKept, Untouched
<1> QED
  BY <1>1

(* The questions are where they were.                                      *)
LEMMA SameQuestions ==
  ASSUME UNCHANGED <<guiQueue, dialogs>>, NEW g
  PROVE  NoNewQuestion(g)
BY DEF NoNewQuestion, NoQuestion, OneQuestion, PostedAt, OpenAt

(* What TellToStop does to the answers and the inboxes.                    *)
LEMMA ToldToStop ==
  ASSUME Typed, KeyTyped, current # 0, TellToStop(current), dialogs' \in Seq(Signals)
  PROVE  /\ phase' = phase /\ astray' = astray /\ KeyTyped'
         /\ \A h \in Workers : Has(inbox'[h], "connect") => Has(inbox[h], "connect")
         /\ \A h \in Workers : \/ /\ answered'[h] = answered[h] /\ accepted'[h] = accepted[h]
                                 /\ by'[h] = by[h]
                              \/ ~accepted'[h]
<1>1. /\ current \in Workers /\ phase' = phase /\ inbox' = [inbox EXCEPT ![current] = Append(@, "stop")]
      /\ answered' = [answered EXCEPT ![current] = TRUE]
      /\ accepted' = [accepted EXCEPT ![current] = FALSE]
      /\ by' = [by EXCEPT ![current] = NoDialog] /\ astray' = astray
  BY MaxWorkersAssumption DEF TellToStop, Respond, NoDialog, Typed, Workers
<1>2. inbox[current] \in Seq(Slots) /\ "stop" \in Slots \ {"connect"}
  BY <1>1 DEF Typed, Slots
<1>3. \A y : y # "stop" /\ Has(Append(inbox[current], "stop"), y) => Has(inbox[current], y)
  BY <1>2, PostedSlot
<1>4. /\ inbox'[current] = Append(inbox[current], "stop")
      /\ \A h \in Workers \ {current} : inbox'[h] = inbox[h]
  BY <1>1 DEF Typed
<1>5. answered' \in [Workers -> BOOLEAN] /\ by' \in [Workers -> Signals \cup {NoDialog}]
  BY <1>1 DEF KeyTyped
<1>6. accepted' \in [Workers -> BOOLEAN] /\ ~accepted'[current]
  BY <1>1 DEF KeyTyped
<1>7. \A h \in Workers \ {current} : /\ answered'[h] = answered[h] /\ accepted'[h] = accepted[h]
                                    /\ by'[h] = by[h]
  BY <1>1 DEF KeyTyped
<1>8. KeyTyped'
  BY <1>1, <1>5, <1>6 DEF KeyTyped
<1>9. \A h \in Workers : Has(inbox'[h], "connect") => Has(inbox[h], "connect")
  BY <1>3, <1>4
<1> QED
  BY <1>1, <1>6, <1>7, <1>8, <1>9

(* A step that asks nothing, and stops the current worker or leaves the    *)
(* answers and the inboxes alone.                                          *)
LEMMA StopOrLeave ==
  ASSUME Trusting, made' = made, dialogs' \in Seq(Signals), \A h \in Workers : NoNewQuestion(h),
         \/ current # 0 /\ TellToStop(current)
         \/ UNCHANGED <<phase, inbox, keyVars>>
  PROVE  KeyTyped' /\ \A h \in Workers : Fresh(h)' /\ Shown(h)'
<1>1. Typed /\ KeyTyped
  BY DEF Trusting, IInv
<1>2. CASE current # 0 /\ TellToStop(current)
  <2>1. /\ phase' = phase /\ astray' = astray /\ KeyTyped'
        /\ \A h \in Workers : Has(inbox'[h], "connect") => Has(inbox[h], "connect")
        /\ \A h \in Workers : \/ /\ answered'[h] = answered[h] /\ accepted'[h] = accepted[h]
                                /\ by'[h] = by[h]
                             \/ ~accepted'[h]
    BY <1>1, <1>2, ToldToStop
  <2> QED
    BY <2>1, Unanswered
<1>3. CASE UNCHANGED <<phase, inbox, keyVars>>
  <2>1. UNCHANGED <<phase, inbox, answered, accepted, by, astray>>
    BY <1>3 DEF keyVars
  <2>2. KeyTyped'
    BY <1>1, <2>1 DEF KeyTyped
  <2> QED
    BY <2>1, <2>2, Unanswered
<1> QED
  BY <1>2, <1>3

(* A new worker has asked nothing yet.                                     *)
LEMMA NothingAskedYet ==
  ASSUME Trusting, current = 0, ConnectTransport, UNCHANGED <<guiQueue, dialogs>>
  PROVE  KeyTyped' /\ \A h \in Workers : Fresh(h)' /\ Shown(h)'
<1>1. Typed /\ KeyTyped
  BY DEF Trusting, IInv
<1>2. /\ made < MaxWorkers /\ made' = made + 1
      /\ inbox' = [inbox EXCEPT ![made + 1] = <<"connect">>]
      /\ UNCHANGED <<phase, answered, accepted, by, astray>>
  BY DEF ConnectTransport, keyVars
<1>3. KeyTyped'
  BY <1>1, <1>2 DEF KeyTyped
<1>4. \A h \in Workers : h > made' => h > made
  BY <1>1, <1>2, MaxWorkersAssumption DEF Typed, Workers
<1>5. \A h \in Workers : Has(inbox'[h], "connect") => Has(inbox[h], "connect") \/ h > made
  <2>1. \A h \in Workers : h = made + 1 \/ inbox'[h] = inbox[h]
    BY <1>1, <1>2 DEF Typed
  <2>2. made + 1 > made
    BY <1>1, MaxWorkersAssumption DEF Typed
  <2> QED
    BY <2>1, <2>2
<1>6. \A h \in Workers : NoNewQuestion(h)
  BY SameQuestions
<1> QED
  BY <1>2, <1>3, <1>4, <1>5, <1>6, Unanswered

(* The user's commands answer no dialog.                                   *)
LEMMA UserAnswersNothing ==
  ASSUME Trusting, User
  PROVE  KeyTyped' /\ \A h \in Workers : Fresh(h)' /\ Shown(h)'
<1>1. Typed /\ KeyTyped /\ Held
  BY DEF Trusting, IInv
<1>2. UNCHANGED <<guiQueue, dialogs>>
  BY DEF User, Open, DisconnectTransport, Reconnect, Shutdown
<1>3. dialogs' \in Seq(Signals) /\ \A h \in Workers : NoNewQuestion(h)
  BY <1>1, <1>2, SameQuestions DEF KeyTyped
<1>4. CASE Open
  <2>1. current = 0 /\ ConnectTransport
    BY <1>1, <1>4 DEF Open, Typed
  <2> QED
    BY <1>2, <2>1, NothingAskedYet
<1>5. CASE DisconnectTransport
  <2>1. /\ made' = made
        /\ \/ current # 0 /\ TellToStop(current)
           \/ UNCHANGED <<phase, inbox, keyVars>>
    BY <1>5 DEF DisconnectTransport, workerVars
  <2> QED
    BY <1>3, <2>1, StopOrLeave
<1>6. CASE Reconnect
  <2>1. CASE Teardown("connect") /\ made' = made
    BY <1>3, <2>1, StopOrLeave DEF Teardown
  <2>2. CASE current = 0 /\ ConnectTransport
    BY <1>2, <2>2, NothingAskedYet
  <2> QED
    BY <1>6, <2>1, <2>2 DEF Reconnect
<1>7. CASE Shutdown
  <2>1. /\ made' = made
        /\ \/ current # 0 /\ TellToStop(current)
           \/ UNCHANGED <<phase, inbox, keyVars>>
    BY <1>7 DEF Shutdown, Teardown, workerVars
  <2> QED
    BY <1>3, <2>1, StopOrLeave
<1> QED
  BY <1>4, <1>5, <1>6, <1>7 DEF User

(* Nor does the end of a thread.                                           *)
LEMMA GoneAnswersNothing ==
  ASSUME Trusting, NEW g \in Workers, g <= made, Gone(g), UNCHANGED <<sessionVars, guiQueue, dialogs>>
  PROVE  KeyTyped' /\ \A h \in Workers : Fresh(h)' /\ Shown(h)'
<1>1. Typed /\ KeyTyped /\ made' = made
  BY DEF Trusting, IInv, sessionVars
<1>2. /\ phase'[g] = "ended" /\ inbox'[g] = <<>>
      /\ astray' = astray \ {g}
      /\ \A h \in Workers \ {g} : phase'[h] = phase[h] /\ inbox'[h] = inbox[h]
  BY <1>1 DEF Gone, Typed
<1>3. answered' \in [Workers -> BOOLEAN] /\ \A h \in Workers \ {g} : answered'[h] = answered[h]
  BY <1>1 DEF Gone, KeyTyped
<1>4. accepted' \in [Workers -> BOOLEAN] /\ \A h \in Workers \ {g} : accepted'[h] = accepted[h]
  BY <1>1 DEF Gone, KeyTyped
<1>5. by' \in [Workers -> Signals \cup {NoDialog}] /\ \A h \in Workers \ {g} : by'[h] = by[h]
  BY <1>1 DEF Gone, KeyTyped
<1>6. KeyTyped'
  BY <1>1, <1>2, <1>3, <1>4, <1>5 DEF KeyTyped
<1>7. Fresh(g)' /\ Shown(g)'
  <2>1. ~(g > made') /\ Len(<<>>) = 0
    BY <1>1, MadeAndNot
  <2>2. ~Has(inbox'[g], "connect")
    BY <1>2, <2>1 DEF Has
  <2> QED
    BY <1>2, <2>1, <2>2 DEF Fresh, Shown, NotAsked, Asking
<1>8. ASSUME NEW h \in Workers \ {g}
      PROVE  Fresh(h)' /\ Shown(h)'
  <2>1. Fresh(h) /\ Shown(h) /\ NoNewQuestion(h)
    BY SameQuestions DEF Trusting
  <2> QED
    BY <1>1, <1>2, <1>3, <1>4, <1>5, <2>1, NotMoved DEF Fresh
<1> QED
  BY <1>6, <1>7, <1>8

(* The events of the GUI thread.                                           *)
LEMMA GuiAnswers ==
  ASSUME Trusting, Gui
  PROVE  KeyTyped' /\ \A h \in Workers : Fresh(h)' /\ Shown(h)'
<1>1. Typed /\ KeyTyped /\ Held
  BY DEF Trusting, IInv
<1>2. CASE AnswerDialog
  <2>1. KeyTyped' /\ \A h \in Workers : Shown(h)'
    BY <1>2, Answered
  <2>2. UNCHANGED <<phase, inbox>>
    BY <1>2 DEF AnswerDialog, Answers
  <2> QED
    BY <2>1, <2>2 DEF Trusting, Fresh
<1>3. ASSUME UNCHANGED <<guiQueue, dialogs>>
      PROVE  dialogs' \in Seq(Signals) /\ \A h \in Workers : NoNewQuestion(h)
  BY <1>1, <1>3, SameQuestions DEF KeyTyped
<1>4. CASE GoOn
  <2>1. UNCHANGED <<guiQueue, dialogs>> /\ current = 0
    BY <1>1, <1>4 DEF GoOn, Held
  <2>2. CASE ConnectTransport
    BY <2>1, <2>2, NothingAskedYet
  <2>3. CASE UNCHANGED <<made, workerVars>>
    BY <1>3, <2>1, <2>3, StopOrLeave DEF workerVars
  <2> QED
    BY <1>4, <2>2, <2>3 DEF GoOn, sessionVars
<1>5. CASE Terminate
  <2>1. waitFor # 0 /\ Gone(waitFor) /\ UNCHANGED <<sessionVars, guiQueue, dialogs>>
    BY <1>5 DEF Terminate, guiVars
  <2>2. waitFor \in Workers /\ waitFor <= made
    BY <1>1, <2>1, MaxWorkersAssumption DEF Typed, Workers
  <2> QED
    BY <2>1, <2>2, GoneAnswersNothing
<1>6. CASE TimerFires
  <2>1. UNCHANGED <<guiQueue, dialogs>>
    BY <1>6 DEF TimerFires
  <2>2. CASE state \in {"Disconnected", "Failed"}
    <3>1. current = 0 /\ ConnectTransport
      BY <1>1, <1>6, <2>2 DEF TimerFires, Held
    <3> QED
      BY <2>1, <3>1, NothingAskedYet
  <2>3. CASE state \notin {"Disconnected", "Failed"}
    BY <1>3, <1>6, <2>1, <2>3, StopOrLeave DEF TimerFires, sessionVars, workerVars
  <2> QED
    BY <2>2, <2>3
<1>7. ASSUME NEW name, Delivers(name), dialogs' = dialogs
      PROVE  dialogs' \in Seq(Signals) /\ \A h \in Workers : NoNewQuestion(h)
  <2>1. guiQueue # <<>> /\ guiQueue' = Tail(guiQueue)
    BY <1>7 DEF Delivers
  <2> QED
    BY <1>1, <1>7, <2>1, OtherSignalTaken DEF KeyTyped
<1>8. CASE OnWorkerConnected
  <2>1. Delivers("connected") /\ dialogs' = dialogs /\ made' = made /\ UNCHANGED <<phase, inbox, keyVars>>
    BY <1>8 DEF OnWorkerConnected, guiVars, workerVars
  <2> QED
    BY <1>7, <2>1, StopOrLeave
<1>9. CASE OnWorkerDisconnected
  <2>1. /\ Delivers("disconnected") /\ dialogs' = dialogs /\ made' = made
        /\ UNCHANGED <<phase, inbox, keyVars>>
    BY <1>9 DEF OnWorkerDisconnected, workerVars
  <2> QED
    BY <1>7, <2>1, StopOrLeave
<1>10. CASE DropDisconnected
  <2>1. /\ Delivers("disconnected") /\ dialogs' = dialogs /\ made' = made
        /\ UNCHANGED <<phase, inbox, keyVars>>
    BY <1>10 DEF DropDisconnected, sessionVars, guiVars, workerVars
  <2> QED
    BY <1>7, <2>1, StopOrLeave
<1>11. CASE OnWorkerError
  <2>1. /\ Delivers("error") /\ dialogs' = dialogs /\ made' = made
        /\ \/ current # 0 /\ TellToStop(current)
           \/ UNCHANGED <<phase, inbox, keyVars>>
    BY <1>11 DEF OnWorkerError, workerVars
  <2> QED
    BY <1>7, <2>1, StopOrLeave
<1>12. CASE OnHostKeyPrompt
  <2>1. /\ guiQueue # <<>> /\ Head(guiQueue).name \in Asking /\ guiQueue' = Tail(guiQueue)
        /\ dialogs' = Append(dialogs, Head(guiQueue)) /\ made' = made
        /\ UNCHANGED <<phase, inbox, keyVars>>
    BY <1>12 DEF OnHostKeyPrompt, sessionVars, workerVars
  <2>2. dialogs' \in Seq(Signals)
    BY <1>1, <2>1 DEF KeyTyped, Typed
  <2>3. \A h \in Workers : NoNewQuestion(h)
    BY <1>1, <2>1, QuestionOpened
  <2> QED
    BY <2>1, <2>2, <2>3, StopOrLeave
<1> QED
  BY <1>2, <1>4, <1>5, <1>6, <1>8, <1>9, <1>10, <1>11, <1>12 DEF Gui
-----------------------------------------------------------------------------
(* A step of the thread of g concerns the questions of g only.             *)
LEMMA OwnQuestions ==
  ASSUME Trusting, NEW g \in Workers, UNCHANGED <<sessionVars, dialogs>>, astray' = astray, KeyTyped',
         \A h \in Workers \ {g} : /\ NoNewQuestion(h)
                                   /\ phase'[h] = phase[h] /\ inbox'[h] = inbox[h]
                                   /\ answered'[h] = answered[h] /\ accepted'[h] = accepted[h]
                                   /\ by'[h] = by[h],
         Fresh(g)' /\ Shown(g)'
  PROVE  KeyTyped' /\ \A h \in Workers : Fresh(h)' /\ Shown(h)'
<1>1. ASSUME NEW h \in Workers \ {g}
      PROVE  Fresh(h)' /\ Shown(h)'
  <2>1. Fresh(h) /\ Shown(h) /\ made' = made
    BY DEF Trusting, sessionVars
  <2> QED
    BY <2>1, NotMoved DEF Fresh
<1> QED
  BY <1>1

(* A worker goes on to a stage in which it waits for no answer.            *)
LEMMA GoesOn ==
  ASSUME Trusting, NEW g \in Workers, g <= made, NEW p \in Phases \ Asking, GoTo(g, p),
         UNCHANGED <<sessionVars, dialogs, inbox, keyVars>>, \A h \in Workers : NoNewQuestion(h),
         phase[g] # "idle",
         p \in {"gateway", "connecting", "verifying"} => NoQuestion(g) \/ g \in astray
  PROVE  KeyTyped' /\ \A h \in Workers : Fresh(h)' /\ Shown(h)'
<1>1. /\ Typed /\ KeyTyped /\ Fresh(g) /\ Shown(g) /\ made' = made
      /\ UNCHANGED <<answered, accepted, by, astray>>
  BY DEF Trusting, IInv, sessionVars, keyVars
<1>2. KeyTyped'
  BY <1>1 DEF KeyTyped
<1>3. phase'[g] = p /\ \A h \in Workers \ {g} : phase'[h] = phase[h]
  BY <1>1 DEF GoTo, Typed
<1>4. Fresh(g)' /\ ~(g > made')
  BY <1>1, MadeAndNot DEF Fresh
<1>5. Shown(g)'
  BY <1>1, <1>3, <1>4, MovedOn
<1> QED
  BY <1>1, <1>2, <1>3, <1>4, <1>5, OwnQuestions

(* disconnectSession refuses a key that is waited for.                     *)
LEMMA DisconnectAnswersNothing ==
  ASSUME Trusting, NEW g \in Workers, g <= made,
         NEW before \in Seq({"error"}), DisconnectSession(g, before),
         inbox' = inbox \/ Takes(g, "keepalive") \/ Takes(g, "stop")
  PROVE  KeyTyped' /\ \A h \in Workers : Fresh(h)' /\ Shown(h)'
<1>1. /\ Typed /\ KeyTyped /\ Fresh(g) /\ Shown(g) /\ made' = made
      /\ UNCHANGED <<sessionVars, dialogs>>
  BY DEF Trusting, IInv, DisconnectSession, sessionVars, guiVars
<1>2. phase'[g] = "idle" /\ \A h \in Workers \ {g} : phase'[h] = phase[h]
  BY <1>1 DEF DisconnectSession, GoTo, Typed
<1>3. /\ answered' = [answered EXCEPT ![g] = TRUE] /\ accepted' = [accepted EXCEPT ![g] = FALSE]
      /\ by' = [by EXCEPT ![g] = NoDialog] /\ astray' = astray
  BY DEF DisconnectSession, Respond, NoDialog
<1>4. answered' \in [Workers -> BOOLEAN] /\ \A h \in Workers \ {g} : answered'[h] = answered[h]
  BY <1>1, <1>3 DEF KeyTyped
<1>5. accepted' \in [Workers -> BOOLEAN] /\ \A h \in Workers \ {g} : accepted'[h] = accepted[h]
  BY <1>1, <1>3 DEF KeyTyped
<1>6. by' \in [Workers -> Signals \cup {NoDialog}] /\ \A h \in Workers \ {g} : by'[h] = by[h]
  BY <1>1, <1>3 DEF KeyTyped
<1>7. KeyTyped'
  BY <1>1, <1>3, <1>4, <1>5, <1>6 DEF KeyTyped
<1>8. /\ \A h \in Workers \ {g} : inbox'[h] = inbox[h]
      /\ Has(inbox'[g], "connect") => Has(inbox[g], "connect")
  <2>1. ASSUME NEW slot, Takes(g, slot)
        PROVE  <1>8!:
    <3>1. inbox[g] \in Seq(Slots) /\ inbox[g] # <<>> /\ inbox' = [inbox EXCEPT ![g] = Tail(inbox[g])]
      BY <1>1, <2>1 DEF Takes, Typed
    <3>2. Has(Tail(inbox[g]), "connect") => Has(inbox[g], "connect")
      BY <3>1, TakenSlot
    <3>3. inbox'[g] = Tail(inbox[g]) /\ \A h \in Workers \ {g} : inbox'[h] = inbox[h]
      BY <1>1, <3>1 DEF Typed
    <3> QED
      BY <3>2, <3>3
  <2> QED
    BY <2>1
<1>9. \A h \in Workers : NoNewQuestion(h)
  <2>1. PICK names \in Seq({"connected", "disconnected", "error"}) : Post(g, names)
    <3>1. before \in Seq({"connected", "disconnected", "error"})
      OBVIOUS
    <3>2. Append(before, "disconnected") \in Seq({"connected", "disconnected", "error"})
      BY <3>1
    <3> QED
      BY <3>1, <3>2 DEF DisconnectSession
  <2> QED
    BY <1>1, <2>1, NoQuestionPosted
<1>10. Fresh(g)' /\ ~(g > made')
  BY <1>1, <1>2, MadeAndNot DEF Fresh
<1>11. Shown(g)'
  BY <1>1, <1>2, <1>3, <1>8, <1>9, <1>10, MovedOn DEF Asking
<1> QED
  BY <1>1, <1>2, <1>3, <1>4, <1>5, <1>6, <1>7, <1>8, <1>9, <1>10, <1>11, OwnQuestions

(* A connection attempt begins without a question, or is refused.          *)
LEMMA BeginsUnasked ==
  ASSUME Trusting, NEW g \in Workers, ConnectToHost(g)
  PROVE  KeyTyped' /\ \A h \in Workers : Fresh(h)' /\ Shown(h)'
<1>1. /\ Typed /\ KeyTyped /\ Fresh(g) /\ Shown(g) /\ made' = made /\ g <= made /\ WorkerKept(g)
      /\ UNCHANGED <<sessionVars, dialogs>> /\ UNCHANGED <<answered, accepted, by, astray>>
  BY DEF Trusting, IInv, ConnectToHost, At, sessionVars, guiVars, keyVars
<1>2. KeyTyped'
  BY <1>1 DEF KeyTyped
<1>3. inbox[g] \in Seq(Slots) /\ inbox[g] # <<>> /\ inbox' = [inbox EXCEPT ![g] = Tail(inbox[g])]
  BY <1>1 DEF ConnectToHost, Takes, Typed
<1>4. Has(inbox[g], "connect")
  <2>1. Head(inbox[g]) = "connect"
    BY DEF ConnectToHost, Takes
  <2>2. 1 \in 1..Len(inbox[g]) /\ inbox[g][1] = "connect"
    BY <1>3, <2>1
  <2> QED
    BY <2>2 DEF Has
<1>5. ~Has(Tail(inbox[g]), "connect")
  BY <1>1, <1>3, TakenSlot DEF WorkerKept, ConnectsFirst
<1>6. ~Has(inbox'[g], "connect") /\ \A h \in Workers \ {g} : inbox'[h] = inbox[h]
  BY <1>1, <1>3, <1>5 DEF Typed
<1>7. phase[g] = "idle" /\ (NoQuestion(g) \/ g \in astray)
  BY <1>1, <1>4 DEF Fresh, Shown, NotAsked
<1>8. /\ guiQueue' = guiQueue /\ phase'[g] \in {"connecting", "gateway"}
      /\ \A h \in Workers \ {g} : phase'[h] = phase[h]
  BY <1>1, <1>7 DEF ConnectToHost, Begin, GoTo, Typed
<1>9. \A h \in Workers : NoNewQuestion(h)
  BY <1>1, <1>8, SameQuestions
<1>10. Fresh(g)' /\ ~(g > made')
  BY <1>1, <1>6, MadeAndNot DEF Fresh
<1>11. Shown(g)'
  BY <1>1, <1>6, <1>7, <1>8, <1>9, <1>10, MovedOn DEF Asking
<1> QED
  BY <1>1, <1>2, <1>6, <1>8, <1>9, <1>10, <1>11, OwnQuestions

(* A worker asks for trust.                                                *)
LEMMA AsksOnce ==
  ASSUME Trusting, NEW g \in Workers, g <= made, NEW ask \in Asking,
         phase[g] \in {"gateway", "verifying"}, WaitForTrust(g, ask)
  PROVE  KeyTyped' /\ \A h \in Workers : Fresh(h)' /\ Shown(h)'
<1>1. /\ Typed /\ KeyTyped /\ Fresh(g) /\ Shown(g) /\ UNCHANGED <<sessionVars, dialogs, inbox>>
      /\ astray' = astray
  BY DEF Trusting, IInv, WaitForTrust, sessionVars, guiVars
<1>2. ~(g > made) /\ ~Has(inbox[g], "connect")
  BY <1>1, MadeAndNot DEF Fresh
<1>3. Shown(g)' /\ \A h : h # g => NoNewQuestion(h)
  BY <1>1, <1>2, AskedOnce
<1>4. answered' \in [Workers -> BOOLEAN] /\ \A h \in Workers \ {g} : answered'[h] = answered[h]
  BY <1>1 DEF WaitForTrust, KeyTyped
<1>5. accepted' \in [Workers -> BOOLEAN] /\ \A h \in Workers \ {g} : accepted'[h] = accepted[h]
  BY <1>1 DEF WaitForTrust, KeyTyped
<1>6. by' \in [Workers -> Signals \cup {NoDialog}] /\ \A h \in Workers \ {g} : by'[h] = by[h]
  BY <1>1 DEF WaitForTrust, KeyTyped
<1>7. KeyTyped'
  BY <1>1, <1>4, <1>5, <1>6 DEF KeyTyped
<1>8. \A h \in Workers \ {g} : phase'[h] = phase[h] /\ inbox'[h] = inbox[h]
  BY <1>1 DEF WaitForTrust, GoTo, Typed
<1>9. Fresh(g)'
  BY <1>1, <1>2 DEF Fresh
<1> QED
  BY <1>1, <1>3, <1>4, <1>5, <1>6, <1>7, <1>8, <1>9, OwnQuestions

(* The stages of a connection attempt.                                     *)
LEMMA EstablishAnswers ==
  ASSUME Trusting, NEW g \in Workers, Establish(g)
  PROVE  KeyTyped' /\ \A h \in Workers : Fresh(h)' /\ Shown(h)'
<1>1. Typed /\ KeyTyped /\ Shown(g) /\ WorkerKept(g)
  BY DEF Trusting, IInv
<1>2. ASSUME NEW from \in Establishing \ Asking, NEW to \in Establishing \ Asking, Passes(g, from, to),
             to \in {"gateway", "connecting", "verifying"} => from \in {"gateway", "connecting"}
      PROVE  KeyTyped' /\ \A h \in Workers : Fresh(h)' /\ Shown(h)'
  <2>1. /\ phase[g] = from /\ g <= made /\ GoTo(g, to) /\ UNCHANGED <<guiQueue, dialogs>>
        /\ UNCHANGED <<sessionVars, dialogs, inbox, keyVars>>
    BY <1>2 DEF Passes, At, guiVars
  <2>2. phase[g] # "idle" /\ to \in Phases \ Asking
    BY <1>2, <2>1 DEF Establishing, Phases
  <2>3. to \in {"gateway", "connecting", "verifying"} => NoQuestion(g) \/ g \in astray
    BY <1>1, <1>2, <2>1 DEF Shown, NotAsked
  <2>4. \A h \in Workers : NoNewQuestion(h)
    BY <2>1, SameQuestions
  <2> QED
    BY <2>1, <2>2, <2>3, <2>4, GoesOn
<1>3. ASSUME g <= made, phase[g] \in Phases \ {"idle"}, NEW p \in {"idle", "authenticating", "running"},
             GoTo(g, p), UNCHANGED <<sessionVars, dialogs, inbox, keyVars>>,
             \/ guiQueue' = guiQueue
             \/ Post(g, <<"error">>)
             \/ Post(g, <<"connected">>)
      PROVE  KeyTyped' /\ \A h \in Workers : Fresh(h)' /\ Shown(h)'
  <2>1. p \in Phases \ Asking /\ p \notin {"gateway", "connecting", "verifying"} /\ phase[g] # "idle"
    BY <1>3 DEF Phases, Establishing, Asking
  <2>2. /\ <<"error">> \in Seq({"connected", "disconnected", "error"})
        /\ <<"connected">> \in Seq({"connected", "disconnected", "error"})
    OBVIOUS
  <2>3. \A h \in Workers : NoNewQuestion(h)
    BY <1>1, <1>3, <2>2, NoQuestionPosted, SameQuestions
  <2> QED
    BY <1>3, <2>1, <2>3, GoesOn
<1>4. CASE ConnectToHost(g)
  BY <1>4, BeginsUnasked
<1>5. CASE GatewayPassed(g) \/ ConnectedToHost(g) \/ KeyKnown(g) \/ Authenticated(g) \/ NotCancelled(g)
  BY <1>2, <1>5
     DEF GatewayPassed, ConnectedToHost, KeyKnown, Authenticated, NotCancelled, Establishing, Asking
<1>6. CASE GatewayAsks(g) \/ AskForTrust(g)
  BY <1>6, AsksOnce DEF GatewayAsks, AskForTrust, At, Asking
<1>7. CASE GatewayTrusted(g)
  <2>1. /\ phase[g] = "askGateway" /\ g <= made /\ Accepted(g) /\ GoTo(g, "connecting")
        /\ guiQueue' = guiQueue /\ UNCHANGED <<sessionVars, dialogs, inbox, keyVars>>
    BY <1>7 DEF GatewayTrusted, At, Accepted, guiVars
  <2>2. NoQuestion(g) \/ g \in astray
    BY <1>1, <2>1 DEF Shown, Asking
  <2>3. "connecting" \in Phases \ Asking
    BY DEF Phases, Establishing, Asking
  <2>4. \A h \in Workers : NoNewQuestion(h)
    BY <2>1, SameQuestions
  <2> QED
    BY <2>1, <2>2, <2>3, <2>4, GoesOn
<1>8. CASE TrustDecided(g)
  <2>1. /\ phase[g] \in Phases \ {"idle"} /\ g <= made
        /\ UNCHANGED <<sessionVars, dialogs, inbox, keyVars>>
    BY <1>1, <1>8 DEF TrustDecided, At, guiVars, Typed
  <2>2. \/ GoTo(g, "authenticating") /\ guiQueue' = guiQueue
        \/ GoTo(g, "idle") /\ guiQueue' = guiQueue
        \/ GoTo(g, "idle") /\ Post(g, <<"error">>)
    BY <1>8 DEF TrustDecided
  <2> QED
    BY <1>3, <2>1, <2>2
<1>9. CASE KeyFails(g)
  <2>1. phase[g] \in Phases \ {"idle"}
    BY <1>1, <1>9 DEF KeyFails, At, Typed
  <2> QED
    BY <1>3, <1>9, <2>1 DEF KeyFails, At, guiVars
<1>10. CASE ConnectFails(g)
  <2>1. phase[g] \in Phases \ {"idle"} /\ g <= made
    BY <1>1, <1>10, MadeAndNot DEF ConnectFails, Failing, Typed, WorkerKept, Untouched
  <2>2. /\ GoTo(g, "idle") /\ UNCHANGED <<sessionVars, dialogs, inbox, keyVars>>
        /\ guiQueue' = guiQueue \/ Post(g, <<"error">>)
    BY <1>10 DEF ConnectFails, guiVars
  <2> QED
    BY <1>3, <2>1, <2>2
<1>11. CASE Connected(g)
  <2>1. phase[g] \in Phases \ {"idle"}
    BY <1>1, <1>11 DEF Connected, At, Typed
  <2> QED
    BY <1>3, <1>11, <2>1 DEF Connected, At, guiVars
<1> QED
  BY <1>4, <1>5, <1>6, <1>7, <1>8, <1>9, <1>10, <1>11 DEF Establish

(* The loop of a connected worker, its losses, and the end of its thread.  *)
LEMMA LoopAnswers ==
  ASSUME Trusting, NEW g \in Workers, Loop(g) \/ Loss(g) \/ ThreadEnds(g)
  PROVE  KeyTyped' /\ \A h \in Workers : Fresh(h)' /\ Shown(h)'
<1>1. Typed /\ KeyTyped /\ Fresh(g)
  BY DEF Trusting, IInv
<1>2. << >> \in Seq({"error"}) /\ <<"error">> \in Seq({"error"})
  OBVIOUS
<1>3. CASE FaultDisconnects(g) \/ SessionEof(g)
  BY <1>2, <1>3, DisconnectAnswersNothing DEF FaultDisconnects, SessionEof, At
<1>4. CASE KeepaliveSlot(g) \/ StopSlot(g)
  BY <1>2, <1>4, DisconnectAnswersNothing DEF KeepaliveSlot, StopSlot, At
<1>5. CASE LoopFault(g)
  <2>1. /\ phase[g] = "running" /\ g <= made /\ Post(g, <<"error">>) /\ GoTo(g, "faulted")
        /\ UNCHANGED <<sessionVars, dialogs, inbox, keyVars>>
    BY <1>5 DEF LoopFault, At, guiVars
  <2>2. <<"error">> \in Seq({"connected", "disconnected", "error"})
    OBVIOUS
  <2>3. \A h \in Workers : NoNewQuestion(h)
    BY <1>1, <2>1, <2>2, NoQuestionPosted
  <2>4. "faulted" \in Phases \ Asking
    BY DEF Phases, Establishing, Asking
  <2> QED
    BY <2>1, <2>3, <2>4, GoesOn
<1>6. CASE KeepaliveFails(g)
  <2>1. /\ phase[g] = "running" /\ inbox' = [inbox EXCEPT ![g] = Append(@, "keepalive")]
        /\ UNCHANGED <<sessionVars, guiQueue, dialogs, phase, keyVars>>
    BY <1>6 DEF KeepaliveFails, At, guiVars
  <2>2. inbox[g] \in Seq(Slots) /\ "keepalive" \in Slots \ {"connect"}
    BY <1>1 DEF Typed, Slots
  <2>3. Has(Append(inbox[g], "keepalive"), "connect") => Has(inbox[g], "connect")
    BY <2>2, PostedSlot
  <2>4. \A h \in Workers : Has(inbox'[h], "connect") => Has(inbox[h], "connect")
    BY <1>1, <2>1, <2>3 DEF Typed
  <2>5. KeyTyped' /\ UNCHANGED <<phase, made, answered, accepted, by, astray>>
    BY <1>1, <2>1 DEF KeyTyped, keyVars, sessionVars
  <2>6. \A h \in Workers : NoNewQuestion(h)
    BY <2>1, SameQuestions
  <2> QED
    BY <2>4, <2>5, <2>6, Unanswered
<1>7. CASE ThreadEnds(g)
  BY <1>7, GoneAnswersNothing DEF ThreadEnds, At, guiVars
<1> QED
  BY <1>3, <1>4, <1>5, <1>6, <1>7 DEF Loop, Loss

(* At first nothing has been asked.                                        *)
LEMMA TrustingInit == Init => Trusting
<1> SUFFICES ASSUME Init
             PROVE  Trusting
  OBVIOUS
<1>1. << >> \in Seq(Signals) /\ Len(<< >>) = 0
  OBVIOUS
<1>2. KeyTyped
  BY <1>1 DEF Init, KeyTyped
<1>3. ASSUME NEW g \in Workers
      PROVE  Fresh(g) /\ Shown(g)
  BY <1>1, <1>3 DEF Init, Fresh, Shown, NoQuestion, PostedAt, OpenAt, Asking
<1> QED
  BY <1>2, <1>3, Start DEF Trusting

(* Every step keeps a key's trust with the dialog that showed it.          *)
LEMMA TrustingNext == Trusting /\ [Next]_vars => Trusting'
<1> SUFFICES ASSUME Trusting, [Next]_vars
             PROVE  Trusting'
  OBVIOUS
<1>1. IInv'
  BY UserStep, GuiStep, EstablishStep, LoopStep, Stutter DEF Next, Trusting
<1>2. KeyTyped' /\ \A h \in Workers : Fresh(h)' /\ Shown(h)'
  <2>1. CASE UNCHANGED vars
    <3>1. KeyTyped /\ UNCHANGED <<phase, inbox, made, guiQueue, dialogs, answered, accepted, by, astray>>
      BY <2>1 DEF vars, Trusting
    <3>2. \A h \in Workers : NoNewQuestion(h)
      BY <3>1, SameQuestions
    <3>3. KeyTyped'
      BY <3>1 DEF KeyTyped
    <3> QED
      BY <3>1, <3>2, <3>3, Unanswered
  <2> QED
    BY <2>1, UserAnswersNothing, GuiAnswers, EstablishAnswers, LoopAnswers DEF Next
<1> QED
  BY <1>1, <1>2 DEF Trusting

(* A worker that waits for trust goes on to connect or to authenticate by  *)
(* an answer that accepts the key, and by no other step.                   *)
LEMMA OnlyByTrust ==
  ASSUME Typed, [Next]_vars, NEW g \in Workers, phase[g] \in Asking,
         phase'[g] \in {"connecting", "authenticating"}
  PROVE  Accepted(g)
<1>1. phase[g] \in Phases /\ phase'[g] # phase[g] /\ phase[g] # "idle" /\ phase[g] # "running"
      /\ phase[g] # "faulted" /\ phase[g] \notin {"gateway", "connecting", "verifying", "authenticating",
                                                "opening", "opened"}
  BY DEF Typed, Asking
<1>2. \A h \in Workers : \A p : GoTo(h, p) => h = g /\ p \in {"connecting", "authenticating"}
  BY <1>1 DEF GoTo, Typed
<1>3. \A h : ~Gone(h)
  BY <1>1 DEF Gone, Typed
<1>4. phase' # phase
  BY <1>1
<1>5. ~TellToStop(current) /\ ~ConnectTransport
  BY <1>4 DEF TellToStop, ConnectTransport
<1>6. ~User
  BY <1>4, <1>5
     DEF User, Open, DisconnectTransport, Reconnect, Shutdown, Teardown, workerVars
<1>7. ~Gui
  <2>1. ~GoOn /\ ~TimerFires /\ ~OnHostKeyPrompt /\ ~AnswerDialog
    BY <1>4, <1>5 DEF GoOn, TimerFires, OnHostKeyPrompt, AnswerDialog, Answers, workerVars
  <2>2. ~OnWorkerConnected /\ ~OnWorkerDisconnected /\ ~DropDisconnected /\ ~OnWorkerError
    BY <1>4, <1>5
       DEF OnWorkerConnected, OnWorkerDisconnected, DropDisconnected, OnWorkerError, workerVars
  <2> QED
    BY <1>3, <2>1, <2>2 DEF Gui, Terminate
<1>8. ASSUME NEW h \in Workers, Establish(h)
      PROVE  Accepted(g)
  <2>1. CASE ConnectToHost(h)
    BY <1>1, <1>2, <1>4, <2>1 DEF ConnectToHost, At, Begin
  <2>2. CASE \/ GatewayPassed(h) \/ ConnectedToHost(h) \/ KeyKnown(h) \/ Authenticated(h)
             \/ NotCancelled(h)
    BY <1>1, <1>2, <2>2
       DEF GatewayPassed, ConnectedToHost, KeyKnown, Authenticated, NotCancelled, Passes, At
  <2>3. CASE GatewayAsks(h) \/ AskForTrust(h)
    BY <1>1, <1>2, <2>3 DEF GatewayAsks, AskForTrust, WaitForTrust
  <2>4. CASE GatewayTrusted(h)
    BY <1>2, <2>4 DEF GatewayTrusted, Accepted
  <2>5. CASE TrustDecided(h)
    BY <1>2, <2>5 DEF TrustDecided, Accepted
  <2>6. CASE KeyFails(h) \/ ConnectFails(h) \/ Connected(h)
    BY <1>2, <2>6 DEF KeyFails, ConnectFails, Connected
  <2> QED
    BY <1>8, <2>1, <2>2, <2>3, <2>4, <2>5, <2>6 DEF Establish
<1>9. ASSUME NEW h \in Workers
      PROVE  ~Loop(h) /\ ~Loss(h) /\ ~ThreadEnds(h)
  <2>1. ~FaultDisconnects(h) /\ ~KeepaliveSlot(h) /\ ~StopSlot(h) /\ ~SessionEof(h)
    <3>1. ~GoTo(h, "idle")
      BY <1>2
    <3>2. ASSUME NEW before
          PROVE  ~DisconnectSession(h, before)
      BY <3>1, Zenon DEF DisconnectSession
    <3> QED
      BY <3>2 DEF FaultDisconnects, KeepaliveSlot, StopSlot, SessionEof
  <2>2. ~LoopFault(h) /\ ~KeepaliveFails(h) /\ ~ThreadEnds(h)
    BY <1>2, <1>3, <1>4 DEF LoopFault, KeepaliveFails, ThreadEnds
  <2> QED
    BY <2>1, <2>2 DEF Loop, Loss
<1> QED
  BY <1>4, <1>6, <1>7, <1>8, <1>9 DEF Next, vars

(* However many workers, late signals and open dialogs there are, a host   *)
(* key is trusted by the answer to the dialog that showed it, never by one *)
(* to another question of the same connection; the exception, an answer    *)
(* given to a dialog left over from another worker, is the one the code    *)
(* has.                                                                    *)
THEOREM TrustIsForTheKeyShown == Spec => TrustedIsShown
<1>1. Trusting /\ [Next]_vars =>
        [\A g \in Workers, ask \in Asking :
           phase[g] = ask /\ phase'[g] \in {"connecting", "authenticating"}
             => by[g] = [from |-> g, name |-> ask] \/ g \in astray]_vars
  <2> SUFFICES ASSUME Trusting, [Next]_vars, NEW g \in Workers, NEW ask \in Asking,
                      phase[g] = ask, phase'[g] \in {"connecting", "authenticating"}
               PROVE  by[g] = [from |-> g, name |-> ask] \/ g \in astray
    OBVIOUS
  <2>1. Accepted(g)
    BY OnlyByTrust DEF Trusting, IInv
  <2>2. Shown(g)
    BY DEF Trusting
  <2> QED
    BY <2>1, <2>2 DEF Shown
<1> QED
  BY <1>1, TrustingInit, TrustingNext, PTL DEF Spec, TrustedIsShown

-----------------------------------------------------------------------------
(***************************************************************************)
(* Workspace.                                                              *)
(***************************************************************************)

Read == [conn : Conns, kind : {"gateway", "target"}]
Tab == [state : {"Connecting", "Connected", "Ended"}, layout : Layouts,
        restore : Layouts \union {None}, gateway : Owners]

(* The variables have the types the proofs rest on.                        *)
WorkspaceTyped ==
  /\ WorkspaceTypeOK
  /\ tabs \in [Conns -> Tab \union {NoTab}]
  /\ workspace \in [Conns -> Layouts \union {None}] /\ queue \subseteq Conns
  /\ ~running => ~orphaned

(* What is on its way for a connection, in the reads rs and the prompts ps *)
(* while cs are the connections: a gateway is asked about only where there *)
(* is one, and a prompt is for a connection that exists, for nothing is    *)
(* deleted under it.                                                       *)
Flight(rs, ps) == {rs[i].conn : i \in DOMAIN rs} \union {ps[i] : i \in DOMAIN ps}
Number(rs, ps) == Len(rs) + Len(ps)
Sound(rs, ps, cs) ==
  /\ rs \in Seq(Read) /\ ps \in Seq(Conns)
  /\ \A i \in DOMAIN rs : rs[i].kind = "gateway" => Gateway[rs[i].conn] # "none"
  /\ \A i \in DOMAIN ps : ps[i] \in cs

(* A connection that has not been created has no tab and is in no          *)
(* workspace, of this run or for the next.                                 *)
Unknown == \A c \in unused : ~HasTab(c) /\ c \notin due /\ saved[c] = None

(* As long as no connection is opened on top of another there is at most   *)
(* one on its way, the pending secret is its own, an answer for a deleted  *)
(* one has left nothing on its way, and what is still due has its layout.  *)
OneByOne ==
  ~overlap =>
    /\ Number(reads, prompts) <= 1
    /\ \A c \in InFlight : pending \in {None, c} /\ (pending # None => Gateway[c] # "none")
    /\ restoring /\ orphaned => InFlight = {}
    /\ \A c \in due \intersect conns : restoring /\ workspace[c] # None

WorkspaceIInv ==
  /\ WorkspaceTyped /\ Sound(reads, prompts, conns) /\ Unknown /\ OneByOne
  /\ RestoreMovesOn /\ OwnSecrets /\ LayoutsComeBack /\ SavedIsCurrent
-----------------------------------------------------------------------------
(* Reads and prompts that are added and taken.                             *)
LEMMA NoneOnItsWay ==
  ASSUME NEW rs \in Seq(Read), NEW ps \in Seq(Conns)
  PROVE  /\ Number(rs, ps) \in Nat
         /\ Number(rs, ps) = 0 => Flight(rs, ps) = {}
         /\ Number(rs, ps) > 0 <=> rs # <<>> \/ ps # <<>>
         /\ rs # <<>> /\ Number(rs, ps) <= 1 => ps = <<>>
<1>1. /\ Len(rs) \in Nat /\ DOMAIN rs = 1 .. Len(rs) /\ (Len(rs) = 0 <=> rs = <<>>)
      /\ Len(ps) \in Nat /\ DOMAIN ps = 1 .. Len(ps) /\ (Len(ps) = 0 <=> ps = <<>>)
  BY LenProperties, EmptySeq
<1> QED
  BY <1>1 DEF Number, Flight

LEMMA Nothing ==
  ASSUME NEW cs
  PROVE  Sound(<<>>, <<>>, cs) /\ Flight(<<>>, <<>>) = {} /\ Number(<<>>, <<>>) = 0
BY DEF Sound, Flight, Number

LEMMA ReadAdded ==
  ASSUME NEW cs, NEW rs, NEW ps, Sound(rs, ps, cs), NEW r \in Read,
         r.kind = "gateway" => Gateway[r.conn] # "none"
  PROVE  /\ Sound(Append(rs, r), ps, cs)
         /\ Flight(Append(rs, r), ps) = Flight(rs, ps) \union {r.conn}
         /\ Number(Append(rs, r), ps) = Number(rs, ps) + 1
<1>1. rs \in Seq(Read) /\ ps \in Seq(Conns)
  BY DEF Sound
<1>2. /\ Len(rs) \in Nat /\ DOMAIN rs = 1 .. Len(rs) /\ Len(ps) \in Nat
      /\ Append(rs, r) \in Seq(Read) /\ Len(Append(rs, r)) = Len(rs) + 1
      /\ \A i \in 1 .. Len(rs) : Append(rs, r)[i] = rs[i]
      /\ Append(rs, r)[Len(rs) + 1] = r
  BY <1>1, LenProperties, AppendProperties
<1>3. DOMAIN Append(rs, r) = 1 .. Len(rs) + 1
  BY <1>2, LenProperties
<1>4. Number(Append(rs, r), ps) = Number(rs, ps) + 1
  BY <1>2 DEF Number
<1> DEFINE longer == Append(rs, r)
<1> HIDE DEF longer
<1>5. /\ longer \in Seq(Read) /\ DOMAIN longer = 1 .. Len(rs) + 1
      /\ \A i \in 1 .. Len(rs) : longer[i] = rs[i]
      /\ longer[Len(rs) + 1] = r
  BY <1>2, <1>3 DEF longer
<1>6. Len(rs) + 1 \in DOMAIN longer /\ \A i \in DOMAIN longer : i = Len(rs) + 1 \/ i \in 1 .. Len(rs)
  BY <1>2, <1>5
<1>7. {longer[i].conn : i \in DOMAIN longer} = {rs[i].conn : i \in DOMAIN rs} \union {r.conn}
  BY <1>2, <1>5, <1>6
<1>8. \A i \in DOMAIN longer : longer[i].kind = "gateway" => Gateway[longer[i].conn] # "none"
  BY <1>2, <1>5, <1>6 DEF Sound
<1> QED
  BY <1>1, <1>4, <1>5, <1>7, <1>8 DEF Sound, Flight, longer

LEMMA PromptAdded ==
  ASSUME NEW cs, NEW rs, NEW ps, Sound(rs, ps, cs), NEW c \in Conns \intersect cs
  PROVE  /\ Sound(rs, Append(ps, c), cs)
         /\ Flight(rs, Append(ps, c)) = Flight(rs, ps) \union {c}
         /\ Number(rs, Append(ps, c)) = Number(rs, ps) + 1
<1>1. rs \in Seq(Read) /\ ps \in Seq(Conns)
  BY DEF Sound
<1>2. /\ Len(ps) \in Nat /\ DOMAIN ps = 1 .. Len(ps) /\ Len(rs) \in Nat
      /\ Append(ps, c) \in Seq(Conns) /\ Len(Append(ps, c)) = Len(ps) + 1
      /\ \A i \in 1 .. Len(ps) : Append(ps, c)[i] = ps[i]
      /\ Append(ps, c)[Len(ps) + 1] = c
  BY <1>1, LenProperties, AppendProperties
<1>3. DOMAIN Append(ps, c) = 1 .. Len(ps) + 1
  BY <1>2, LenProperties
<1>4. Number(rs, Append(ps, c)) = Number(rs, ps) + 1
  BY <1>2 DEF Number
<1> DEFINE longer == Append(ps, c)
<1> HIDE DEF longer
<1>5. /\ longer \in Seq(Conns) /\ DOMAIN longer = 1 .. Len(ps) + 1
      /\ \A i \in 1 .. Len(ps) : longer[i] = ps[i]
      /\ longer[Len(ps) + 1] = c
  BY <1>2, <1>3 DEF longer
<1>6. Len(ps) + 1 \in DOMAIN longer /\ \A i \in DOMAIN longer : i = Len(ps) + 1 \/ i \in 1 .. Len(ps)
  BY <1>2, <1>5
<1>7. {longer[i] : i \in DOMAIN longer} = {ps[i] : i \in DOMAIN ps} \union {c}
  BY <1>2, <1>5, <1>6
<1>8. \A i \in DOMAIN longer : longer[i] \in cs
  BY <1>2, <1>5, <1>6 DEF Sound
<1> QED
  BY <1>1, <1>4, <1>5, <1>7, <1>8 DEF Sound, Flight, longer

LEMMA ReadTaken ==
  ASSUME NEW cs, NEW rs, NEW ps, Sound(rs, ps, cs), rs # <<>>
  PROVE  /\ Sound(Tail(rs), ps, cs) /\ Head(rs) \in Read
         /\ Head(rs).kind = "gateway" => Gateway[Head(rs).conn] # "none"
         /\ Flight(rs, ps) = Flight(Tail(rs), ps) \union {Head(rs).conn}
         /\ Number(rs, ps) = Number(Tail(rs), ps) + 1
<1>1. rs \in Seq(Read) /\ ps \in Seq(Conns)
  BY DEF Sound
<1>2. /\ Len(rs) \in Nat \ {0} /\ DOMAIN rs = 1 .. Len(rs) /\ Len(ps) \in Nat
      /\ Tail(rs) \in Seq(Read) /\ Len(Tail(rs)) = Len(rs) - 1
      /\ \A i \in 1 .. Len(Tail(rs)) : Tail(rs)[i] = rs[i + 1]
      /\ Head(rs) = rs[1] /\ Head(rs) \in Read
  BY <1>1, LenProperties, HeadTailProperties, EmptySeq
<1>3. DOMAIN Tail(rs) = 1 .. Len(rs) - 1
  BY <1>2, LenProperties
<1>4. Number(rs, ps) = Number(Tail(rs), ps) + 1
  BY <1>2 DEF Number
<1> DEFINE rest == Tail(rs)
<1> HIDE DEF rest
<1>5. /\ rest \in Seq(Read) /\ DOMAIN rest = 1 .. Len(rs) - 1
      /\ \A i \in 1 .. Len(rs) - 1 : rest[i] = rs[i + 1] /\ i + 1 \in DOMAIN rs
      /\ 1 \in DOMAIN rs
  BY <1>2, <1>3 DEF rest
<1>6. \A i \in DOMAIN rs : i # 1 => i - 1 \in DOMAIN rest /\ rest[i - 1] = rs[i]
  BY <1>2, <1>5
<1>7. {rs[i].conn : i \in DOMAIN rs} = {rest[i].conn : i \in DOMAIN rest} \union {rs[1].conn}
  <2>1. ASSUME NEW i \in DOMAIN rs
        PROVE  rs[i].conn \in {rest[j].conn : j \in DOMAIN rest} \union {rs[1].conn}
    BY <1>6
  <2>2. ASSUME NEW i \in DOMAIN rest
        PROVE  rest[i].conn \in {rs[j].conn : j \in DOMAIN rs}
    BY <1>5
  <2>3. rs[1].conn \in {rs[j].conn : j \in DOMAIN rs}
    BY <1>5
  <2> QED
    BY <2>1, <2>2, <2>3
<1>8. \A i \in DOMAIN rest : rest[i].kind = "gateway" => Gateway[rest[i].conn] # "none"
  BY <1>5 DEF Sound
<1>9. rs[1].kind = "gateway" => Gateway[rs[1].conn] # "none"
  BY <1>5 DEF Sound
<1>10. \A i \in DOMAIN ps : ps[i] \in cs
  BY DEF Sound
<1>11. Sound(rest, ps, cs)
  BY <1>1, <1>5, <1>8, <1>10 DEF Sound
<1>12. Flight(rs, ps) = Flight(rest, ps) \union {rs[1].conn}
  BY <1>7 DEF Flight
<1> QED
  BY <1>2, <1>4, <1>9, <1>11, <1>12 DEF rest

LEMMA PromptTaken ==
  ASSUME NEW cs, NEW rs, NEW ps, Sound(rs, ps, cs), ps # <<>>
  PROVE  /\ Sound(rs, Front(ps), cs) /\ Last(ps) \in Conns \intersect cs
         /\ Flight(rs, ps) = Flight(rs, Front(ps)) \union {Last(ps)}
         /\ Number(rs, ps) = Number(rs, Front(ps)) + 1
<1>1. rs \in Seq(Read) /\ ps \in Seq(Conns)
  BY DEF Sound
<1>2. /\ Len(ps) \in Nat \ {0} /\ DOMAIN ps = 1 .. Len(ps) /\ Len(rs) \in Nat
      /\ \A i \in 1 .. Len(ps) : ps[i] \in Conns
  BY <1>1, LenProperties, EmptySeq, ElementOfSeq
<1> DEFINE rest == SubSeq(ps, 1, Len(ps) - 1)
<1>3. /\ rest \in Seq(Conns) /\ Len(rest) = Len(ps) - 1
      /\ \A i \in 1 .. Len(ps) - 1 : rest[i] = ps[i]
  <2>1. 1 \in Int /\ Len(ps) - 1 \in Int /\ \A j \in 1 .. Len(ps) - 1 : ps[j] \in Conns
    BY <1>2
  <2> QED
    BY <1>1, <1>2, <2>1, SubSeqProperties
<1>4. Front(ps) = rest /\ Last(ps) = ps[Len(ps)]
  BY DEF Front, Last
<1> HIDE DEF rest
<1>5. DOMAIN rest = 1 .. Len(ps) - 1
  BY <1>3, LenProperties
<1>6. Len(ps) \in DOMAIN ps /\ \A i \in DOMAIN ps : i = Len(ps) \/ i \in DOMAIN rest
  BY <1>2, <1>5
<1>7. {ps[i] : i \in DOMAIN ps} = {rest[i] : i \in DOMAIN rest} \union {ps[Len(ps)]}
  BY <1>2, <1>3, <1>5, <1>6
<1>8. Number(rs, ps) = Number(rs, rest) + 1
  BY <1>2, <1>3 DEF Number
<1>9. Sound(rs, rest, cs) /\ ps[Len(ps)] \in Conns \intersect cs
  <2>1. \A i \in DOMAIN ps : ps[i] \in cs
    BY DEF Sound
  <2>2. \A i \in DOMAIN rest : i \in DOMAIN ps /\ rest[i] = ps[i]
    BY <1>2, <1>3, <1>5
  <2>3. \A i \in DOMAIN rest : rest[i] \in cs
    BY <2>1, <2>2
  <2>4. Sound(rs, rest, cs)
    BY <1>1, <1>3, <2>3 DEF Sound
  <2> QED
    BY <1>2, <1>6, <2>1, <2>4
<1> QED
  BY <1>4, <1>7, <1>8, <1>9 DEF Flight
-----------------------------------------------------------------------------
(* The helpers of the handlers.                                            *)
LEMMA SecretAskedFor ==
  ASSUME NEW cs, NEW c \in Conns \intersect cs, NEW rs, NEW ps, Sound(rs, ps, cs),
         ReadTargetSecret(c, rs, ps)
  PROVE  /\ Sound(reads', prompts', cs)
         /\ Flight(reads', prompts') = Flight(rs, ps) \union {c}
         /\ Number(reads', prompts') = Number(rs, ps) + 1
<1> DEFINE r == [conn |-> c, kind |-> "target"]
<1>1. r \in Read /\ r.conn = c /\ r.kind # "gateway"
  BY DEF Read
<1>2. CASE Auth[c] = "ask"
  <2>1. reads' = rs /\ prompts' = Append(ps, c)
    BY <1>2 DEF ReadTargetSecret
  <2>2. /\ Sound(rs, Append(ps, c), cs)
        /\ Flight(rs, Append(ps, c)) = Flight(rs, ps) \union {c}
        /\ Number(rs, Append(ps, c)) = Number(rs, ps) + 1
    BY PromptAdded
  <2> QED
    BY <2>1, <2>2
<1>3. CASE Auth[c] # "ask"
  <2>1. reads' = Append(rs, r) /\ prompts' = ps
    BY <1>3 DEF ReadTargetSecret
  <2> HIDE DEF r
  <2> QED
    BY <1>1, <2>1, ReadAdded
<1> QED
  BY <1>2, <1>3

LEMMA OpeningStarted ==
  ASSUME NEW cs, NEW c \in Conns \intersect cs, NEW rs, NEW ps, Sound(rs, ps, cs),
         OpenConnectionById(c, rs, ps)
  PROVE  /\ Sound(reads', prompts', cs) /\ pending' = None
         /\ Flight(reads', prompts') = Flight(rs, ps) \union {c}
         /\ Number(reads', prompts') = Number(rs, ps) + 1
<1> DEFINE r == [conn |-> c, kind |-> "gateway"]
<1>1. r \in Read /\ r.conn = c
  BY DEF Read
<1>2. CASE Gateway[c] = "none"
  BY <1>2, SecretAskedFor DEF OpenConnectionById
<1>3. CASE Gateway[c] # "none"
  <2>1. reads' = Append(rs, r) /\ prompts' = ps /\ pending' = None
    BY <1>3 DEF OpenConnectionById
  <2> HIDE DEF r
  <2> QED
    BY <1>1, <1>3, <2>1, ReadAdded
<1> QED
  BY <1>2, <1>3

(* Where the end of a connect leads: nothing but the end of it without a   *)
(* restore, the next connection that exists, or the end of the restore.    *)
Alone(rs, ps, saving) ==
  /\ ~restoring /\ restoring' = restoring /\ queue' = queue /\ workspace' = workspace
  /\ reads' = rs /\ prompts' = ps /\ (saving => timer') /\ (timer => timer')
OnToNext(rs, ps) ==
  /\ restoring /\ restoring' = restoring /\ workspace' = workspace /\ timer' = timer
  /\ \E n \in queue \intersect conns :
       /\ queue' = queue \ {n} /\ Flight(reads', prompts') = Flight(rs, ps) \union {n}
       /\ Number(reads', prompts') = Number(rs, ps) + 1
RestoreOver(rs, ps) ==
  /\ restoring /\ ~restoring' /\ queue \intersect conns = {} /\ queue' = {} /\ timer'
  /\ reads' = rs /\ prompts' = ps

LEMMA RestoreMovedOn ==
  ASSUME WorkspaceTyped, NEW rs, NEW ps, Sound(rs, ps, conns), NEW saving,
         MoveOn(rs, ps, saving)
  PROVE  /\ Sound(reads', prompts', conns) /\ pending' = None
         /\ timer' \in BOOLEAN /\ restoring' \in BOOLEAN /\ (queue' # {} => restoring')
         /\ queue' \subseteq Conns /\ workspace' \in [Conns -> Layouts \union {None}]
         /\ Alone(rs, ps, saving) \/ OnToNext(rs, ps) \/ RestoreOver(rs, ps)
<1>1. /\ restoring \in BOOLEAN /\ timer \in BOOLEAN /\ conns \subseteq Conns /\ queue \subseteq Conns
      /\ (queue # {} => restoring) /\ workspace \in [Conns -> Layouts \union {None}]
  BY DEF WorkspaceTyped, WorkspaceTypeOK
<1>2. CASE ~restoring
  BY <1>1, <1>2 DEF MoveOn, ClearPendingConnect, Alone
<1>3. CASE restoring /\ queue \intersect conns # {}
  <2>1. PICK n \in queue \intersect conns : queue' = queue \ {n} /\ OpenConnectionById(n, rs, ps)
    BY <1>3 DEF MoveOn, AdvanceWorkspaceRestore
  <2>2. UNCHANGED <<restoring, workspace, timer>>
    BY <1>3 DEF MoveOn, AdvanceWorkspaceRestore
  <2>3. /\ Sound(reads', prompts', conns) /\ pending' = None
        /\ Flight(reads', prompts') = Flight(rs, ps) \union {n}
        /\ Number(reads', prompts') = Number(rs, ps) + 1
    BY <1>1, <2>1, OpeningStarted
  <2> QED
    BY <1>1, <1>3, <2>1, <2>2, <2>3 DEF OnToNext
<1>4. CASE restoring /\ queue \intersect conns = {}
  <2>1. /\ restoring' = FALSE /\ workspace' = NoWorkspace /\ queue' = {} /\ timer' = TRUE
        /\ pending' = None /\ reads' = rs /\ prompts' = ps
    BY <1>4 DEF MoveOn, AdvanceWorkspaceRestore, ClearPendingConnect
  <2>2. NoWorkspace \in [Conns -> Layouts \union {None}]
    BY DEF NoWorkspace
  <2> QED
    BY <1>4, <2>1, <2>2 DEF RestoreOver
<1> QED
  BY <1>1, <1>2, <1>3, <1>4

(* A tab that the window has is kept, and has a session with the secrets.  *)
LEMMA TabOpened ==
  ASSUME WorkspaceTyped, NEW c \in Conns, NEW entry \in Layouts \union {None}, NEW gateway \in Owners,
         OpenSshSession(c, entry, gateway)
  PROVE  /\ tabs' \in [Conns -> Tab \union {NoTab}]
         /\ \A d \in Conns : HasTab(d)' <=> HasTab(d) \/ d = c
         /\ \A d \in Conns \ {c} : tabs'[d] = tabs[d]
         /\ tabs'[c].gateway = gateway /\ tabs'[c].state \in {"Connecting", "Connected", "Ended"}
         /\ tabs'[c].layout \in Layouts
         /\ tabs'[c].restore # None => tabs'[c].state = "Connecting"
<1>1. /\ tabs \in [Conns -> Tab \union {NoTab}]
      /\ tabs[c] # NoTab /\ tabs[c].restore # None => tabs[c].state = "Connecting"
  BY DEF WorkspaceTyped, WorkspaceTypeOK, HasTab
<1> DEFINE tab == IF tabs[c] = NoTab THEN NewTab(entry, gateway)
                  ELSE IF tabs[c].state = "Ended" THEN NewTab(None, gateway)
                  ELSE [tabs[c] EXCEPT !.gateway = gateway]
<1>2. tabs' = [tabs EXCEPT ![c] = tab]
  BY DEF OpenSshSession
<1>3. \A e \in Layouts \union {None} :
        /\ NewTab(e, gateway) \in Tab /\ NewTab(e, gateway).gateway = gateway
        /\ NewTab(e, gateway).state = "Connecting"
  BY DEF NewTab, Tab, Layouts
<1>4. tab \in Tab /\ tab.gateway = gateway /\ (tab.restore # None => tab.state = "Connecting")
  <2>1. CASE tabs[c] = NoTab
    BY <1>3, <2>1
  <2>2. CASE tabs[c] # NoTab /\ tabs[c].state = "Ended"
    BY <1>3, <2>2
  <2>3. CASE tabs[c] # NoTab /\ tabs[c].state # "Ended"
    <3>1. tabs[c] \in Tab /\ tab = [tabs[c] EXCEPT !.gateway = gateway]
      BY <1>1, <2>3
    <3>2. tab \in Tab /\ tab.gateway = gateway /\ tab.restore = tabs[c].restore /\ tab.state = tabs[c].state
      BY <3>1 DEF Tab
    <3> QED
      BY <1>1, <2>3, <3>2
  <2> QED
    BY <2>1, <2>2, <2>3
<1> HIDE DEF tab
<1>5. tab # NoTab /\ tab.state \in {"Connecting", "Connected", "Ended"} /\ tab.layout \in Layouts
  BY <1>4 DEF Tab, NoTab, None
<1> QED
  BY <1>1, <1>2, <1>4, <1>5 DEF HasTab
-----------------------------------------------------------------------------
(* The end of a connect.                                                   *)
LEMMA FlightNow == InFlight = Flight(reads, prompts) /\ InFlight' = Flight(reads', prompts')
BY DEF InFlight, Flight

LEMMA MoreExist ==
  ASSUME NEW rs, NEW ps, NEW cs, NEW ds, Sound(rs, ps, cs), cs \subseteq ds \/ ps = <<>>
  PROVE  Sound(rs, ps, ds)
BY DEF Sound

(* What is due is still queued or on its way.                              *)
LEMMA EndMovesOn ==
  ASSUME WorkspaceTyped, RestoreMovesOn, NEW c \in Conns, NEW rs, NEW ps, Sound(rs, ps, conns),
         InFlight \subseteq Flight(rs, ps) \union {c},
         NEW saving, MoveOn(rs, ps, saving),
         due' = due \ {c}, conns' \subseteq conns \union {c}, orphaned' = orphaned
  PROVE  RestoreMovesOn'
<1>1. InFlight' = Flight(reads', prompts')
  BY FlightNow
<1>2. Alone(rs, ps, saving) \/ OnToNext(rs, ps) \/ RestoreOver(rs, ps)
  BY RestoreMovedOn
<1>3. due' \intersect conns' \subseteq (due \intersect conns) \ {c}
  OBVIOUS
<1>4. CASE orphaned
  <2>1. due' \subseteq Conns
    BY DEF WorkspaceTyped, WorkspaceTypeOK
  <2> QED
    BY <1>4, <2>1 DEF RestoreMovesOn
<1>5. CASE ~orphaned
  <2>1. due' \intersect conns' \subseteq (queue \intersect conns) \union Flight(rs, ps)
    BY <1>3, <1>5 DEF RestoreMovesOn
  <2>2. CASE Alone(rs, ps, saving)
    BY <1>1, <2>1, <2>2 DEF Alone, RestoreMovesOn
  <2>3. CASE OnToNext(rs, ps)
    BY <1>1, <2>1, <2>3 DEF OnToNext, RestoreMovesOn
  <2>4. CASE RestoreOver(rs, ps)
    BY <1>1, <2>1, <2>4 DEF RestoreOver, RestoreMovesOn
  <2> QED
    BY <1>2, <2>2, <2>3, <2>4
<1> QED
  BY <1>4, <1>5

(* One by one: the one that ends was the only one.                         *)
LEMMA EndOneByOne ==
  ASSUME WorkspaceTyped, OneByOne, RestoreMovesOn, NEW c \in Conns, NEW rs, NEW ps, Sound(rs, ps, conns),
         InFlight = Flight(rs, ps) \union {c}, Number(reads, prompts) = Number(rs, ps) + 1,
         NEW saving, MoveOn(rs, ps, saving),
         due' = due \ {c}, UNCHANGED <<store, seen>>
  PROVE  OneByOne'
<1> SUFFICES ASSUME ~overlap'
             PROVE  /\ Number(reads', prompts') <= 1
                    /\ \A d \in InFlight' : pending' \in {None, d} /\ (pending' # None => Gateway[d] # "none")
                    /\ restoring' /\ orphaned' => InFlight' = {}
                    /\ \A d \in due' \intersect conns' : restoring' /\ workspace'[d] # None
  BY DEF OneByOne
<1>1. conns' = conns /\ ~overlap /\ orphaned' = orphaned
  BY DEF store, seen
<1>2. /\ Number(reads, prompts) <= 1
      /\ restoring => ~orphaned
      /\ \A d \in due \intersect conns : restoring /\ workspace[d] # None
  BY <1>1 DEF OneByOne
<1>3. Number(rs, ps) \in Nat /\ (Number(rs, ps) = 0 => Flight(rs, ps) = {})
  BY NoneOnItsWay DEF Sound
<1>4. Number(rs, ps) = 0 /\ Flight(rs, ps) = {} /\ InFlight = {c}
  BY <1>2, <1>3
<1>5. pending' = None /\ (Alone(rs, ps, saving) \/ OnToNext(rs, ps) \/ RestoreOver(rs, ps))
  BY RestoreMovedOn
<1>6. Number(reads', prompts') <= 1
  BY <1>4, <1>5 DEF Alone, OnToNext, RestoreOver
<1>7. ~(restoring' /\ orphaned')
  BY <1>1, <1>2, <1>5 DEF Alone, OnToNext, RestoreOver
<1>8. ASSUME NEW d \in due' \intersect conns'
      PROVE  restoring' /\ workspace'[d] # None
  <2>1. d \in due \intersect conns /\ d # c /\ restoring /\ workspace[d] # None /\ ~orphaned
    BY <1>1, <1>2, <1>8
  <2>2. d \in queue \intersect conns
    BY <1>4, <2>1 DEF RestoreMovesOn
  <2> QED
    BY <1>5, <2>1, <2>2 DEF Alone, OnToNext, RestoreOver
<1> QED
  BY <1>5, <1>6, <1>7, <1>8

(* A connect that is given up.                                             *)
LEMMA GivenUp ==
  ASSUME WorkspaceIInv, running, Kept, NEW c \in Conns, NEW rs, NEW ps, Sound(rs, ps, conns),
         InFlight = Flight(rs, ps) \union {c}, Number(reads, prompts) = Number(rs, ps) + 1,
         GiveUp(c, rs, ps), UNCHANGED <<store, seen>>
  PROVE  WorkspaceIInv'
<1>1. /\ MoveOn(rs, ps, FALSE) /\ due' = due \ {c} /\ tabs' = tabs /\ bare' = bare
      /\ running' = running /\ launches' = launches /\ saved' = saved
      /\ conns' = conns /\ unused' = unused /\ overlap' = overlap /\ orphaned' = orphaned
  BY DEF GiveUp, Kept, store, seen
<1>2. WorkspaceTyped /\ RestoreMovesOn /\ OneByOne /\ Unknown /\ OwnSecrets /\ LayoutsComeBack /\ SavedIsCurrent
  BY DEF WorkspaceIInv
<1>3. /\ Sound(reads', prompts', conns) /\ pending' = None
      /\ timer' \in BOOLEAN /\ restoring' \in BOOLEAN /\ (queue' # {} => restoring')
      /\ queue' \subseteq Conns /\ workspace' \in [Conns -> Layouts \union {None}]
      /\ Alone(rs, ps, FALSE) \/ OnToNext(rs, ps) \/ RestoreOver(rs, ps)
  BY <1>1, <1>2, RestoreMovedOn
<1>4. WorkspaceTyped'
  BY <1>1, <1>2, <1>3 DEF WorkspaceTyped, WorkspaceTypeOK, HasTab, Owners
<1>5. RestoreMovesOn'
  BY <1>1, <1>2, EndMovesOn
<1>6. OneByOne'
  BY <1>1, <1>2, EndOneByOne
<1>7. Unknown' /\ OwnSecrets' /\ LayoutsComeBack'
  BY <1>1, <1>2 DEF Unknown, OwnSecrets, LayoutsComeBack, HasTab
<1>8. SavedIsCurrent'
  BY <1>1, <1>2, <1>3 DEF SavedIsCurrent, HasTab, Alone, OnToNext, RestoreOver
<1> QED
  BY <1>1, <1>3, <1>4, <1>5, <1>6, <1>7, <1>8 DEF WorkspaceIInv

(* A connect that succeeds; the connection exists, or is created with it.  *)
LEMMA Finished ==
  ASSUME WorkspaceIInv, running, Kept, NEW c \in Conns, NEW gateway \in Owners, NEW rs, NEW ps,
         Sound(rs, ps, conns), FinishConnect(c, gateway, rs, ps),
         InFlight \subseteq Flight(rs, ps) \union {c},
         conns' = conns \union {c}, unused' = unused \ {c}, c \in conns \/ c \in unused,
         overlap' \in BOOLEAN, overlap => overlap', orphaned' = orphaned,
         ~overlap' => gateway \in IF Gateway[c] = "none" THEN {None} ELSE {c, None},
         ~overlap' /\ c \in due => restoring /\ workspace[c] # None,
         OneByOne'
  PROVE  WorkspaceIInv'
<1> DEFINE entry == TakePendingRestoreEntry(c)
<1>1. WorkspaceTyped /\ RestoreMovesOn /\ Unknown /\ OwnSecrets /\ LayoutsComeBack /\ SavedIsCurrent
  BY DEF WorkspaceIInv
<1>2. /\ running \in BOOLEAN /\ launches \in 0 .. MaxLaunches
      /\ conns \subseteq Conns /\ unused \subseteq Conns \ conns
      /\ saved \in [Conns -> Layouts \union {None}]
      /\ due \subseteq Conns /\ bare \in BOOLEAN /\ overlap \in BOOLEAN /\ orphaned \in BOOLEAN
      /\ restoring \in BOOLEAN /\ workspace \in [Conns -> Layouts \union {None}]
      /\ \A d \in Conns : HasTab(d) =>
           /\ tabs[d].state \in {"Connecting", "Connected", "Ended"} /\ tabs[d].layout \in Layouts
           /\ tabs[d].restore # None => tabs[d].state = "Connecting"
  BY <1>1 DEF WorkspaceTyped, WorkspaceTypeOK
<1>3. entry \in Layouts \union {None}
  BY <1>2 DEF TakePendingRestoreEntry
<1>4. /\ OpenSshSession(c, entry, gateway) /\ MoveOn(rs, ps, ~HasTab(c))
      /\ due' = due \ {c} /\ bare' = (bare \/ (c \in due /\ ~HasTab(c) /\ entry = None))
  BY DEF FinishConnect
<1>5. running' = running /\ launches' = launches /\ saved' = saved
  BY DEF Kept
<1>6. /\ tabs' \in [Conns -> Tab \union {NoTab}]
      /\ \A d \in Conns : HasTab(d)' <=> HasTab(d) \/ d = c
      /\ \A d \in Conns \ {c} : tabs'[d] = tabs[d]
      /\ tabs'[c].gateway = gateway /\ tabs'[c].state \in {"Connecting", "Connected", "Ended"}
      /\ tabs'[c].layout \in Layouts
      /\ tabs'[c].restore # None => tabs'[c].state = "Connecting"
  <2> HIDE DEF entry
  <2> QED
    BY <1>1, <1>3, <1>4, TabOpened
<1>7. /\ Sound(reads', prompts', conns) /\ pending' = None
      /\ timer' \in BOOLEAN /\ restoring' \in BOOLEAN /\ (queue' # {} => restoring')
      /\ queue' \subseteq Conns /\ workspace' \in [Conns -> Layouts \union {None}]
      /\ Alone(rs, ps, ~HasTab(c)) \/ OnToNext(rs, ps) \/ RestoreOver(rs, ps)
  BY <1>1, <1>4, RestoreMovedOn
<1>8. WorkspaceTyped'
  <2>1. \A d \in Conns : HasTab(d)' =>
          /\ tabs'[d].state \in {"Connecting", "Connected", "Ended"} /\ tabs'[d].layout \in Layouts
          /\ tabs'[d].restore # None => tabs'[d].state = "Connecting"
    BY <1>2, <1>6
  <2>2. bare' \in BOOLEAN /\ due' \subseteq Conns /\ pending' \in Owners
    BY <1>2, <1>4, <1>7 DEF Owners
  <2>3. running' \in BOOLEAN /\ launches' \in 0 .. MaxLaunches /\ running'
    BY <1>2, <1>5
  <2>4. conns' \subseteq Conns /\ unused' \subseteq Conns \ conns'
    BY <1>2
  <2>5. WorkspaceTypeOK'
    BY <1>2, <1>5, <1>7, <2>1, <2>2, <2>3, <2>4 DEF WorkspaceTypeOK
  <2> QED
    BY <1>6, <1>7, <2>3, <2>5 DEF WorkspaceTyped
<1>9. RestoreMovesOn'
  <2>1. conns' \subseteq conns \union {c}
    OBVIOUS
  <2> QED
    BY <1>1, <1>4, <2>1, EndMovesOn
<1>10. Unknown'
  BY <1>1, <1>2, <1>4, <1>6 DEF Unknown, Kept
<1>11. OwnSecrets'
  BY <1>1, <1>6 DEF OwnSecrets
<1>12. LayoutsComeBack'
  BY <1>1, <1>4 DEF LayoutsComeBack, TakePendingRestoreEntry
<1>13. SavedIsCurrent'
  <2> SUFFICES ASSUME running', ~restoring', ~timer'
               PROVE  \A d \in conns' : saved'[d] # None <=> HasTab(d)'
    BY DEF SavedIsCurrent
  <2>1. Alone(rs, ps, ~HasTab(c))
    BY <1>7 DEF OnToNext, RestoreOver, WorkspaceTyped
  <2>2. HasTab(c) /\ ~restoring /\ ~timer
    BY <1>7, <2>1 DEF Alone
  <2>3. c \in conns
    BY <1>1, <2>2 DEF Unknown
  <2> QED
    BY <1>1, <1>2, <1>5, <1>6, <2>2, <2>3 DEF SavedIsCurrent
<1>14. Sound(reads', prompts', conns')
  BY <1>7, MoreExist
<1> QED
  BY <1>8, <1>9, <1>10, <1>11, <1>12, <1>13, <1>14 DEF WorkspaceIInv
-----------------------------------------------------------------------------
(* The steps of an opening.                                                *)
LEMMA Running ==
  ASSUME WorkspaceTyped, InFlight # {} \/ (\E c \in Conns : HasTab(c))
  PROVE  running
BY DEF WorkspaceTyped, WorkspaceTypeOK, HasTab

(* An answer of the keychain is taken from the reads.                      *)
LEMMA AnswerTaken ==
  ASSUME WorkspaceIInv, NEW kind, NEW c \in Conns, Answer(kind, c)
  PROVE  /\ running /\ c \in conns /\ Kept /\ UNCHANGED <<store, seen>>
         /\ Sound(Tail(reads), prompts, conns)
         /\ kind = "gateway" => Gateway[c] # "none"
         /\ InFlight = Flight(Tail(reads), prompts) \union {c}
         /\ Number(reads, prompts) = Number(Tail(reads), prompts) + 1
<1>1. /\ reads # <<>> /\ Head(reads) = [conn |-> c, kind |-> kind] /\ c \in conns
      /\ UNCHANGED <<store, seen>> /\ Kept
  BY DEF Answer
<1>2. Sound(reads, prompts, conns) /\ WorkspaceTyped
  BY DEF WorkspaceIInv
<1>3. /\ Sound(Tail(reads), prompts, conns)
      /\ Head(reads).kind = "gateway" => Gateway[Head(reads).conn] # "none"
      /\ Flight(reads, prompts) = Flight(Tail(reads), prompts) \union {Head(reads).conn}
      /\ Number(reads, prompts) = Number(Tail(reads), prompts) + 1
  BY <1>1, <1>2, ReadTaken
<1>4. Head(reads).conn = c /\ Head(reads).kind = kind
  BY <1>1
<1>5. InFlight = Flight(reads, prompts)
  BY FlightNow
<1>6. running
  BY <1>2, <1>3, <1>4, <1>5, Running
<1> QED
  BY <1>1, <1>3, <1>4, <1>5, <1>6

(* A session is opened with the pending secret: it is that of the one      *)
(* connection that was on its way.                                         *)
LEMMA FinishedWithPending ==
  ASSUME WorkspaceIInv, running, Kept, NEW c \in Conns \intersect conns, NEW rs, NEW ps,
         Sound(rs, ps, conns), InFlight = Flight(rs, ps) \union {c},
         Number(reads, prompts) = Number(rs, ps) + 1,
         FinishConnect(c, pending, rs, ps), UNCHANGED <<store, seen>>
  PROVE  WorkspaceIInv'
<1>1. WorkspaceTyped /\ RestoreMovesOn /\ OneByOne /\ Unknown
  BY DEF WorkspaceIInv
<1>2. /\ pending \in Owners /\ overlap \in BOOLEAN /\ unused \subseteq Conns \ conns
  BY <1>1 DEF WorkspaceTyped, WorkspaceTypeOK
<1>3. conns' = conns /\ unused' = unused /\ overlap' = overlap /\ orphaned' = orphaned
  BY DEF store, seen
<1>4. MoveOn(rs, ps, ~HasTab(c)) /\ due' = due \ {c}
  BY DEF FinishConnect
<1>5. OneByOne'
  BY <1>1, <1>4, EndOneByOne
<1>6. ~overlap => /\ pending \in {None, c} /\ (pending # None => Gateway[c] # "none")
                  /\ c \in due => restoring /\ workspace[c] # None
  BY <1>1 DEF OneByOne
<1>7. ~overlap' => pending \in IF Gateway[c] = "none" THEN {None} ELSE {c, None}
  BY <1>3, <1>6
<1>8. /\ conns' = conns \union {c} /\ unused' = unused \ {c}
      /\ overlap' \in BOOLEAN /\ (overlap => overlap')
      /\ ~overlap' /\ c \in due => restoring /\ workspace[c] # None
  BY <1>2, <1>3, <1>6
<1> QED
  BY <1>2, <1>3, <1>5, <1>7, <1>8, Finished

(* A question is put, answered or dropped, and no connect has ended.       *)
OneIsCreated == \E c \in unused : conns' = conns \union {c} /\ unused' = unused \ {c}

LEMMA StillOpening ==
  ASSUME WorkspaceIInv, Kept, UNCHANGED <<timer, tabs, restore>>, running,
         (conns' = conns /\ unused' = unused) \/ OneIsCreated,
         overlap' \in BOOLEAN, orphaned' \in BOOLEAN,
         overlap => overlap', orphaned => orphaned',
         Sound(reads', prompts', conns'), InFlight \subseteq InFlight' \/ orphaned',
         pending' \in Owners, OneByOne'
  PROVE  WorkspaceIInv'
<1>1. WorkspaceTyped /\ RestoreMovesOn /\ Unknown /\ OwnSecrets /\ LayoutsComeBack /\ SavedIsCurrent
  BY DEF WorkspaceIInv
<1>2. /\ running' = running /\ launches' = launches /\ saved' = saved /\ timer' = timer
      /\ tabs' = tabs /\ restoring' = restoring /\ workspace' = workspace /\ queue' = queue
      /\ due' = due /\ bare' = bare
  BY DEF Kept, restore
<1>3. conns' \subseteq Conns /\ unused' \subseteq Conns \ conns' /\ unused' \subseteq unused
      /\ due' \intersect conns' = due \intersect conns
      /\ \A d \in conns' : d \in conns \/ d \in unused
  <2>1. conns \subseteq Conns /\ unused \subseteq Conns \ conns
    BY <1>1 DEF WorkspaceTyped, WorkspaceTypeOK
  <2>2. CASE conns' = conns /\ unused' = unused
    BY <1>2, <2>1, <2>2
  <2>3. CASE OneIsCreated
    <3>1. PICK c \in unused : conns' = conns \union {c} /\ unused' = unused \ {c}
      BY <2>3 DEF OneIsCreated
    <3>2. c \notin due
      BY <1>1 DEF Unknown
    <3> QED
      BY <1>2, <2>1, <3>1, <3>2
  <2> QED
    BY <2>2, <2>3
<1>4. WorkspaceTyped'
  BY <1>1, <1>2, <1>3 DEF WorkspaceTyped, WorkspaceTypeOK, HasTab
<1>5. RestoreMovesOn'
  <2>1. CASE orphaned'
    <3>1. due \subseteq Conns
      BY <1>1 DEF WorkspaceTyped, WorkspaceTypeOK
    <3> QED
      BY <1>2, <2>1, <3>1 DEF RestoreMovesOn
  <2>2. CASE ~orphaned'
    BY <1>1, <1>2, <1>3, <2>2 DEF RestoreMovesOn
  <2> QED
    BY <2>1, <2>2
<1>6. Unknown'
  BY <1>1, <1>2, <1>3 DEF Unknown, HasTab
<1>7. SavedIsCurrent'
  <2> SUFFICES ASSUME running /\ ~restoring /\ ~timer, NEW d \in conns'
               PROVE  saved[d] # None <=> HasTab(d)
    BY <1>2 DEF SavedIsCurrent, HasTab
  <2>1. CASE d \in conns
    BY <1>1, <2>1 DEF SavedIsCurrent
  <2>2. CASE d \in unused
    BY <1>1, <2>2 DEF Unknown
  <2> QED
    BY <1>3, <2>1, <2>2
<1>8. OwnSecrets' /\ LayoutsComeBack'
  BY <1>1, <1>2 DEF OwnSecrets, LayoutsComeBack
<1> QED
  BY <1>4, <1>5, <1>6, <1>7, <1>8 DEF WorkspaceIInv

LEMMA UserOpensKeeps ==
  ASSUME WorkspaceIInv, NEW c \in Conns, UserOpens(c)
  PROVE  WorkspaceIInv'
<1>1. /\ running /\ c \in conns /\ OpenConnectionById(c, reads, prompts)
      /\ overlap' = (overlap \/ Busy \/ restoring) /\ UNCHANGED <<store, timer, tabs, restore, orphaned>>
      /\ Kept
  BY DEF UserOpens
<1>2. WorkspaceTyped /\ Sound(reads, prompts, conns) /\ OneByOne
  BY DEF WorkspaceIInv
<1>3. /\ Sound(reads', prompts', conns) /\ pending' = None
      /\ Flight(reads', prompts') = Flight(reads, prompts) \union {c}
      /\ Number(reads', prompts') = Number(reads, prompts) + 1
  BY <1>1, <1>2, OpeningStarted
<1>4. InFlight \subseteq InFlight'
  BY <1>3, FlightNow
<1>5. OneByOne'
  <2> SUFFICES ASSUME ~overlap'
               PROVE  /\ Number(reads', prompts') <= 1
                      /\ ~restoring'
                      /\ due' \intersect conns' = {}
    BY <1>3 DEF OneByOne
  <2>1. ~overlap /\ ~Busy /\ ~restoring
    BY <1>1
  <2>2. Number(reads, prompts) \in Nat /\ ~(Number(reads, prompts) > 0)
    BY <1>2, <2>1, NoneOnItsWay DEF Busy, Number, Sound
  <2> QED
    BY <1>1, <1>2, <1>3, <2>1, <2>2 DEF OneByOne, restore, store
<1>6. overlap' \in BOOLEAN /\ (overlap => overlap') /\ pending' \in Owners
  BY <1>1, <1>3 DEF Owners
<1>7. conns' = conns /\ unused' = unused /\ orphaned' = orphaned /\ orphaned' \in BOOLEAN
  BY <1>1, <1>2 DEF store, WorkspaceTyped, WorkspaceTypeOK
<1> QED
  BY <1>1, <1>3, <1>4, <1>5, <1>6, <1>7, StillOpening

(* What the only connection on its way is asked next.                      *)
LEMMA AskedNext ==
  ASSUME WorkspaceIInv, NEW kind, NEW c \in Conns, Answer(kind, c), UNCHANGED <<timer, tabs, restore>>,
         Sound(reads', prompts', conns), InFlight' = InFlight,
         Number(reads', prompts') = Number(reads, prompts),
         pending' = pending \/ pending' = None \/ (pending' = c /\ Gateway[c] # "none")
  PROVE  WorkspaceIInv'
<1>1. /\ running /\ Kept /\ UNCHANGED <<store, seen>> /\ Sound(Tail(reads), prompts, conns)
      /\ InFlight = Flight(Tail(reads), prompts) \union {c}
      /\ Number(reads, prompts) = Number(Tail(reads), prompts) + 1
  BY AnswerTaken
<1>2. WorkspaceTyped /\ OneByOne
  BY DEF WorkspaceIInv
<1>3. pending' \in Owners /\ overlap \in BOOLEAN /\ orphaned \in BOOLEAN
  BY <1>2 DEF WorkspaceTyped, WorkspaceTypeOK, Owners
<1>4. ~overlap => InFlight = {c}
  <2>1. /\ Number(Tail(reads), prompts) \in Nat
        /\ Number(Tail(reads), prompts) = 0 => Flight(Tail(reads), prompts) = {}
    BY <1>1, NoneOnItsWay DEF Sound
  <2> QED
    BY <1>1, <1>2, <2>1 DEF OneByOne
<1>5. OneByOne'
  BY <1>1, <1>2, <1>4 DEF OneByOne, restore, store, seen
<1>6. conns' = conns /\ unused' = unused /\ overlap' = overlap /\ orphaned' = orphaned
  BY <1>1 DEF store, seen
<1> QED
  BY <1>1, <1>3, <1>5, <1>6, StillOpening

LEMMA GatewayAnsweredKeeps ==
  ASSUME WorkspaceIInv, NEW c \in Conns, GatewayAnswered(c)
  PROVE  WorkspaceIInv'
<1>1. /\ Answer("gateway", c) /\ ReadTargetSecret(c, Tail(reads), prompts)
      /\ pending' = c \/ pending' = None
      /\ UNCHANGED <<timer, tabs, restore>>
  BY DEF GatewayAnswered
<1>2. /\ c \in conns /\ Sound(Tail(reads), prompts, conns) /\ Gateway[c] # "none"
      /\ InFlight = Flight(Tail(reads), prompts) \union {c}
      /\ Number(reads, prompts) = Number(Tail(reads), prompts) + 1
  BY <1>1, AnswerTaken
<1>3. /\ Sound(reads', prompts', conns)
      /\ Flight(reads', prompts') = Flight(Tail(reads), prompts) \union {c}
      /\ Number(reads', prompts') = Number(Tail(reads), prompts) + 1
  BY <1>1, <1>2, SecretAskedFor
<1>4. InFlight' = InFlight
  BY <1>2, <1>3, FlightNow
<1>5. Number(reads', prompts') = Number(reads, prompts)
  BY <1>2, <1>3
<1> QED
  BY <1>1, <1>2, <1>3, <1>4, <1>5, AskedNext

LEMMA TargetAnsweredKeeps ==
  ASSUME WorkspaceIInv, NEW c \in Conns, TargetAnswered(c)
  PROVE  WorkspaceIInv'
<1>1. Answer("target", c) /\ FinishConnect(c, pending, Tail(reads), prompts)
  BY DEF TargetAnswered
<1> QED
  BY <1>1, AnswerTaken, FinishedWithPending

LEMMA TargetMissingKeeps ==
  ASSUME WorkspaceIInv, NEW c \in Conns, TargetMissing(c)
  PROVE  WorkspaceIInv'
<1>1. Answer("target", c)
  BY DEF TargetMissing
<1>2. /\ running /\ c \in conns /\ Kept /\ UNCHANGED <<store, seen>>
      /\ Sound(Tail(reads), prompts, conns)
      /\ InFlight = Flight(Tail(reads), prompts) \union {c}
      /\ Number(reads, prompts) = Number(Tail(reads), prompts) + 1
  BY <1>1, AnswerTaken
<1>3. CASE Auth[c] = "key"
  <2>1. FinishConnect(c, pending, Tail(reads), prompts)
    BY <1>3 DEF TargetMissing
  <2> QED
    BY <1>2, <2>1, FinishedWithPending
<1>4. CASE Auth[c] # "key"
  <2>1. /\ reads' = Tail(reads) /\ prompts' = Append(prompts, c)
        /\ UNCHANGED <<timer, tabs, restore, pending>>
    BY <1>4 DEF TargetMissing
  <2>2. /\ Sound(Tail(reads), Append(prompts, c), conns)
        /\ Flight(Tail(reads), Append(prompts, c)) = Flight(Tail(reads), prompts) \union {c}
        /\ Number(Tail(reads), Append(prompts, c)) = Number(Tail(reads), prompts) + 1
    BY <1>2, PromptAdded
  <2>3. /\ Sound(reads', prompts', conns) /\ Flight(reads', prompts') = InFlight
        /\ Number(reads', prompts') = Number(reads, prompts)
    BY <1>2, <2>1, <2>2
  <2>4. InFlight' = InFlight
    BY <2>3, FlightNow
  <2> QED
    BY <1>1, <2>1, <2>3, <2>4, AskedNext
<1> QED
  BY <1>3, <1>4

LEMMA ReadFailsKeeps ==
  ASSUME WorkspaceIInv, NEW c \in Conns, ReadFails(c)
  PROVE  WorkspaceIInv'
<1>1. GiveUp(c, Tail(reads), prompts) /\ (Answer("gateway", c) \/ Answer("target", c))
  BY DEF ReadFails
<1>2. /\ running /\ c \in conns /\ Kept /\ UNCHANGED <<store, seen>>
      /\ Sound(Tail(reads), prompts, conns)
      /\ InFlight = Flight(Tail(reads), prompts) \union {c}
      /\ Number(reads, prompts) = Number(Tail(reads), prompts) + 1
  BY <1>1, AnswerTaken
<1> QED
  BY <1>1, <1>2, GivenUp

LEMMA ReadOfDeletedKeeps ==
  ASSUME WorkspaceIInv, ReadOfDeleted
  PROVE  WorkspaceIInv'
<1>1. /\ reads # <<>> /\ reads' = Tail(reads) /\ orphaned' = TRUE
      /\ UNCHANGED <<store, timer, tabs, restore, prompts, pending, overlap>> /\ Kept
  BY DEF ReadOfDeleted
<1>2. WorkspaceTyped /\ Sound(reads, prompts, conns) /\ OneByOne
  BY DEF WorkspaceIInv
<1>3. /\ Sound(Tail(reads), prompts, conns)
      /\ Flight(reads, prompts) = Flight(Tail(reads), prompts) \union {Head(reads).conn}
      /\ Number(reads, prompts) = Number(Tail(reads), prompts) + 1
  BY <1>1, <1>2, ReadTaken
<1>4. running
  BY <1>2, <1>3, FlightNow, Running
<1>5. /\ Sound(reads', prompts', conns) /\ Flight(reads', prompts') = Flight(Tail(reads), prompts)
      /\ Number(reads', prompts') = Number(Tail(reads), prompts)
  BY <1>1, <1>3
<1>6. OneByOne'
  <2>1. /\ Number(Tail(reads), prompts) \in Nat
        /\ Number(Tail(reads), prompts) = 0 => Flight(Tail(reads), prompts) = {}
    BY <1>3, NoneOnItsWay DEF Sound
  <2>2. ~overlap => Number(reads', prompts') = 0 /\ InFlight' = {}
    BY <1>2, <1>3, <1>5, <2>1, FlightNow DEF OneByOne
  <2>3. ~overlap => \A d \in due \intersect conns : restoring /\ workspace[d] # None
    BY <1>2 DEF OneByOne
  <2>4. /\ overlap' = overlap /\ due' = due /\ conns' = conns /\ restoring' = restoring
        /\ workspace' = workspace
    BY <1>1 DEF restore, store
  <2> QED
    BY <2>2, <2>3, <2>4 DEF OneByOne
<1>7. /\ conns' = conns /\ unused' = unused /\ overlap' = overlap /\ overlap \in BOOLEAN
      /\ pending' \in Owners /\ orphaned' \in BOOLEAN
  BY <1>1, <1>2 DEF store, WorkspaceTyped, WorkspaceTypeOK
<1> QED
  BY <1>1, <1>4, <1>5, <1>6, <1>7, StillOpening

LEMMA PromptAnsweredKeeps ==
  ASSUME WorkspaceIInv, PromptAccepted \/ PromptCancelled
  PROVE  WorkspaceIInv'
<1>1. prompts # <<>> /\ UNCHANGED <<store, seen>> /\ Kept
  BY DEF PromptAccepted, PromptCancelled
<1>2. WorkspaceTyped /\ Sound(reads, prompts, conns)
  BY DEF WorkspaceIInv
<1>3. /\ Sound(reads, Front(prompts), conns) /\ Last(prompts) \in Conns \intersect conns
      /\ Flight(reads, prompts) = Flight(reads, Front(prompts)) \union {Last(prompts)}
      /\ Number(reads, prompts) = Number(reads, Front(prompts)) + 1
  BY <1>1, <1>2, PromptTaken
<1>4. InFlight = Flight(reads, Front(prompts)) \union {Last(prompts)}
  BY <1>3, FlightNow
<1>5. running
  BY <1>2, <1>4, Running
<1>6. CASE PromptAccepted
  <2>1. FinishConnect(Last(prompts), pending, reads, Front(prompts))
    BY <1>6 DEF PromptAccepted
  <2> QED
    BY <1>1, <1>3, <1>4, <1>5, <2>1, FinishedWithPending
<1>7. CASE PromptCancelled
  <2>1. GiveUp(Last(prompts), reads, Front(prompts))
    BY <1>7 DEF PromptCancelled
  <2> QED
    BY <1>1, <1>3, <1>4, <1>5, <2>1, GivenUp
<1> QED
  BY <1>6, <1>7

(* A connection that is created has the secrets of the dialog, or is       *)
(* opened like any other.                                                  *)
LEMMA CreateAndConnectKeeps ==
  ASSUME WorkspaceIInv, NEW c \in Conns, CreateAndConnect(c)
  PROVE  WorkspaceIInv'
<1>1. /\ running /\ c \in unused /\ conns' = conns \union {c} /\ unused' = unused \ {c}
      /\ ConnectAfterCreating(c)
      /\ overlap' = (overlap \/ Busy \/ restoring) /\ orphaned' = orphaned /\ Kept
  BY DEF CreateAndConnect
<1>2. WorkspaceTyped /\ Sound(reads, prompts, conns) /\ OneByOne /\ Unknown
  BY DEF WorkspaceIInv
<1>3. overlap' \in BOOLEAN /\ (overlap => overlap') /\ orphaned' \in BOOLEAN
  BY <1>1, <1>2 DEF WorkspaceTyped, WorkspaceTypeOK
<1>4. ASSUME NEW gateway \in IF Gateway[c] = "none" THEN {None} ELSE {None, c},
             FinishConnect(c, gateway, reads, prompts)
      PROVE  WorkspaceIInv'
  <2>1. MoveOn(reads, prompts, ~HasTab(c)) /\ due' = due \ {c} /\ c \notin due
    BY <1>1, <1>2, <1>4 DEF FinishConnect, Unknown
  <2>2. pending' = None /\ (restoring \/ Alone(reads, prompts, ~HasTab(c)))
    BY <1>2, <2>1, RestoreMovedOn DEF OnToNext, RestoreOver
  <2>3. OneByOne'
    <3> SUFFICES ASSUME ~overlap'
                 PROVE  /\ Number(reads', prompts') <= 1
                        /\ ~restoring'
                        /\ due' \intersect conns' = {}
      BY <2>2 DEF OneByOne
    <3>1. ~overlap /\ ~restoring
      BY <1>1
    <3>2. Number(reads, prompts) <= 1 /\ due \intersect conns = {}
      BY <1>2, <3>1 DEF OneByOne
    <3>3. reads' = reads /\ prompts' = prompts /\ restoring' = restoring
      BY <2>2, <3>1 DEF Alone
    <3> QED
      BY <1>1, <2>1, <3>1, <3>2, <3>3
  <2>4. gateway \in Owners /\ gateway \in IF Gateway[c] = "none" THEN {None} ELSE {c, None}
    BY DEF Owners
  <2>5. InFlight \subseteq Flight(reads, prompts) \union {c}
    BY FlightNow
  <2> QED
    BY <1>1, <1>2, <1>3, <1>4, <2>1, <2>3, <2>4, <2>5, Finished
<1>5. ASSUME OpenConnectionById(c, reads, prompts), UNCHANGED <<timer, tabs, restore>>
      PROVE  WorkspaceIInv'
  <2>1. Sound(reads, prompts, conns')
    BY <1>1, <1>2, MoreExist
  <2>2. /\ Sound(reads', prompts', conns') /\ pending' = None
        /\ Flight(reads', prompts') = Flight(reads, prompts) \union {c}
        /\ Number(reads', prompts') = Number(reads, prompts) + 1
    BY <1>1, <1>5, <2>1, OpeningStarted
  <2>3. InFlight \subseteq InFlight'
    BY <2>2, FlightNow
  <2>4. OneByOne'
    <3> SUFFICES ASSUME ~overlap'
                 PROVE  /\ Number(reads', prompts') <= 1
                        /\ ~restoring'
                        /\ due' \intersect conns' = {}
      BY <2>2 DEF OneByOne
    <3>1. ~overlap /\ ~Busy /\ ~restoring
      BY <1>1
    <3>2. Number(reads, prompts) \in Nat /\ ~(Number(reads, prompts) > 0)
      BY <1>2, <3>1, NoneOnItsWay DEF Busy, Number, Sound
    <3>3. due \intersect conns = {} /\ c \notin due /\ due' = due /\ restoring' = restoring
      BY <1>1, <1>2, <1>5, <3>1 DEF OneByOne, Unknown, restore
    <3> QED
      BY <1>1, <2>2, <3>1, <3>2, <3>3
  <2>5. OneIsCreated /\ pending' \in Owners
    BY <1>1, <2>2 DEF OneIsCreated, Owners
  <2> QED
    BY <1>1, <1>3, <1>5, <2>2, <2>3, <2>4, <2>5, StillOpening
<1> QED
  BY <1>1, <1>4, <1>5 DEF ConnectAfterCreating

-----------------------------------------------------------------------------
(* The steps of the tabs and the connections.                              *)
LEMMA TabChanged ==
  ASSUME WorkspaceIInv, NEW c \in Conns, HasTab(c), TabOnly, NEW tab \in Tab,
         tab.gateway = tabs[c].gateway, tab.restore # None => tab.state = "Connecting",
         tabs' \in [Conns -> Tab \union {NoTab}], tabs'[c] = tab,
         \A d \in Conns \ {c} : tabs'[d] = tabs[d]
  PROVE  WorkspaceIInv'
<1>1. /\ WorkspaceTyped /\ Sound(reads, prompts, conns) /\ Unknown /\ OneByOne
      /\ RestoreMovesOn /\ OwnSecrets /\ LayoutsComeBack /\ SavedIsCurrent
  BY DEF WorkspaceIInv
<1>2. /\ running' = running /\ launches' = launches /\ saved' = saved /\ timer' = timer
      /\ conns' = conns /\ unused' = unused /\ restoring' = restoring /\ workspace' = workspace
      /\ queue' = queue /\ due' = due /\ bare' = bare /\ reads' = reads /\ prompts' = prompts
      /\ pending' = pending /\ overlap' = overlap /\ orphaned' = orphaned
  BY DEF TabOnly, Kept, store, restore, opening, seen
<1>3. running /\ InFlight' = InFlight
  BY <1>1, <1>2, Running, FlightNow
<1>4. tab # NoTab /\ tab.state \in {"Connecting", "Connected", "Ended"} /\ tab.layout \in Layouts
  BY DEF Tab, NoTab, None
<1>5. \A d \in Conns : HasTab(d)' <=> HasTab(d)
  BY <1>4 DEF HasTab
<1>6. WorkspaceTyped'
  BY <1>1, <1>2, <1>3, <1>4, <1>5 DEF WorkspaceTyped, WorkspaceTypeOK, HasTab
<1>7. Unknown' /\ SavedIsCurrent'
  BY <1>1, <1>2, <1>5 DEF Unknown, SavedIsCurrent, WorkspaceTyped, WorkspaceTypeOK
<1>8. OwnSecrets' /\ LayoutsComeBack'
  BY <1>1, <1>2, <1>5 DEF OwnSecrets, LayoutsComeBack
<1>9. OneByOne' /\ RestoreMovesOn' /\ Sound(reads', prompts', conns')
  BY <1>1, <1>2, <1>3 DEF OneByOne, RestoreMovesOn
<1> QED
  BY <1>6, <1>7, <1>8, <1>9 DEF WorkspaceIInv

LEMMA TabStepsKeep ==
  ASSUME WorkspaceIInv, NEW c \in Conns,
         SessionConnected(c) \/ SessionEnds(c) \/ ReconnectTab(c) \/ ChangeLayout(c)
  PROVE  WorkspaceIInv'
<1>1. HasTab(c) /\ TabOnly
  BY DEF SessionConnected, SessionEnds, ReconnectTab, ChangeLayout, InState
<1>2. WorkspaceTyped
  BY DEF WorkspaceIInv
<1>3. /\ tabs \in [Conns -> Tab \union {NoTab}] /\ tabs[c] \in Tab
      /\ tabs[c].restore # None => tabs[c].state = "Connecting"
  BY <1>1, <1>2 DEF WorkspaceTyped, WorkspaceTypeOK, HasTab
<1>4. /\ tabs[c].gateway \in Owners /\ tabs[c].layout \in Layouts
      /\ tabs[c].restore \in Layouts \union {None}
  BY <1>3 DEF Tab
<1>5. CASE SessionConnected(c)
  <2> DEFINE layout == IF tabs[c].restore = None THEN tabs[c].layout ELSE tabs[c].restore
             tab == [state |-> "Connected", layout |-> layout, restore |-> None,
                     gateway |-> tabs[c].gateway]
  <2>1. tab \in Tab /\ tab.gateway = tabs[c].gateway /\ tab.restore = None
    BY <1>4 DEF Tab
  <2>2. tabs' = [tabs EXCEPT ![c].state = "Connected", ![c].restore = None, ![c].layout = layout]
    BY <1>5 DEF SessionConnected
  <2>3. /\ tabs' \in [Conns -> Tab \union {NoTab}] /\ tabs'[c] = tab
        /\ \A d \in Conns \ {c} : tabs'[d] = tabs[d]
    BY <1>3, <2>2 DEF Tab
  <2> HIDE DEF tab
  <2> QED
    BY <1>1, <2>1, <2>3, TabChanged
<1>6. CASE SessionEnds(c)
  <2> DEFINE tab == [state |-> "Ended", layout |-> "plain", restore |-> None,
                     gateway |-> tabs[c].gateway]
  <2>1. tab \in Tab /\ tab.gateway = tabs[c].gateway /\ tab.restore = None
    BY <1>4 DEF Tab, Layouts
  <2>2. tabs' = [tabs EXCEPT ![c].state = "Ended", ![c].restore = None, ![c].layout = "plain"]
    BY <1>6 DEF SessionEnds
  <2>3. /\ tabs' \in [Conns -> Tab \union {NoTab}] /\ tabs'[c] = tab
        /\ \A d \in Conns \ {c} : tabs'[d] = tabs[d]
    BY <1>3, <2>1, <2>2 DEF Tab, Layouts
  <2> HIDE DEF tab
  <2> QED
    BY <1>1, <2>1, <2>3, TabChanged
<1>7. CASE ReconnectTab(c)
  <2> DEFINE tab == [state |-> "Connecting", layout |-> "plain", restore |-> tabs[c].restore,
                     gateway |-> tabs[c].gateway]
  <2>1. tab \in Tab /\ tab.gateway = tabs[c].gateway /\ tab.state = "Connecting"
    BY <1>4 DEF Tab, Layouts
  <2>2. tabs' = [tabs EXCEPT ![c].state = "Connecting", ![c].layout = "plain"]
    BY <1>7 DEF ReconnectTab
  <2>3. /\ tabs' \in [Conns -> Tab \union {NoTab}] /\ tabs'[c] = tab
        /\ \A d \in Conns \ {c} : tabs'[d] = tabs[d]
    BY <1>3, <1>4, <2>1, <2>2 DEF Tab, Layouts
  <2> HIDE DEF tab
  <2> QED
    BY <1>1, <2>1, <2>3, TabChanged
<1>8. CASE ChangeLayout(c)
  <2>1. PICK layout \in Layouts : tabs' = [tabs EXCEPT ![c].layout = layout]
    BY <1>8 DEF ChangeLayout
  <2>2. tabs[c].state = "Connected"
    BY <1>8 DEF ChangeLayout, InState
  <2> DEFINE tab == [state |-> "Connected", layout |-> layout, restore |-> tabs[c].restore,
                     gateway |-> tabs[c].gateway]
  <2>3. tab \in Tab /\ tab.gateway = tabs[c].gateway /\ tab.restore = None
    BY <1>3, <1>4, <2>2 DEF Tab
  <2>4. /\ tabs' \in [Conns -> Tab \union {NoTab}] /\ tabs'[c] = tab
        /\ \A d \in Conns \ {c} : tabs'[d] = tabs[d]
    BY <1>3, <2>1, <2>2 DEF Tab
  <2> HIDE DEF tab
  <2> QED
    BY <1>1, <2>3, <2>4, TabChanged
<1> QED
  BY <1>5, <1>6, <1>7, <1>8

(* A tab is closed, alone or with its connection.                          *)
LEMMA ClosedKeeps ==
  ASSUME WorkspaceIInv, NEW c \in Conns, CloseTab(c) \/ DeleteConnection(c)
  PROVE  WorkspaceIInv'
<1>1. /\ WorkspaceTyped /\ Sound(reads, prompts, conns) /\ Unknown /\ OneByOne
      /\ RestoreMovesOn /\ OwnSecrets /\ LayoutsComeBack /\ SavedIsCurrent
  BY DEF WorkspaceIInv
<1>2. /\ running' = running /\ launches' = launches /\ saved' = saved
      /\ unused' = unused /\ restoring' = restoring /\ workspace' = workspace
      /\ queue' = queue /\ due' = due /\ bare' = bare /\ reads' = reads /\ prompts' = prompts
      /\ pending' = pending /\ overlap' = overlap /\ orphaned' = orphaned
      /\ HasTab(c) /\ conns' \subseteq conns /\ prompts = <<>>
      /\ tabs' = [tabs EXCEPT ![c] = NoTab] /\ timer' = (timer \/ ~restoring)
  BY DEF CloseTab, DeleteConnection, Closed, ScheduleWorkspaceSave, Kept, store, restore, opening, seen
<1>3. running /\ InFlight' = InFlight
  BY <1>1, <1>2, Running, FlightNow
<1>4. /\ tabs' \in [Conns -> Tab \union {NoTab}] /\ tabs'[c] = NoTab
      /\ \A d \in Conns \ {c} : tabs'[d] = tabs[d]
  BY <1>1, <1>2 DEF WorkspaceTyped
<1>5. WorkspaceTyped'
  <2>1. timer' \in BOOLEAN
    BY <1>2
  <2> QED
    BY <1>1, <1>2, <1>3, <1>4, <2>1 DEF WorkspaceTyped, WorkspaceTypeOK, HasTab
<1>6. Unknown' /\ SavedIsCurrent'
  BY <1>1, <1>2, <1>4 DEF Unknown, SavedIsCurrent, HasTab, WorkspaceTyped, WorkspaceTypeOK
<1>7. OwnSecrets' /\ LayoutsComeBack'
  BY <1>1, <1>2, <1>4 DEF OwnSecrets, LayoutsComeBack, NoTab
<1>8. OneByOne' /\ RestoreMovesOn'
  BY <1>1, <1>2, <1>3 DEF OneByOne, RestoreMovesOn
<1>9. Sound(reads', prompts', conns')
  BY <1>1, <1>2, MoreExist
<1> QED
  BY <1>5, <1>6, <1>7, <1>8, <1>9 DEF WorkspaceIInv

LEMMA DeleteFromListKeeps ==
  ASSUME WorkspaceIInv, NEW c \in Conns, DeleteFromList(c)
  PROVE  WorkspaceIInv'
<1>1. /\ WorkspaceTyped /\ Sound(reads, prompts, conns) /\ Unknown /\ OneByOne
      /\ RestoreMovesOn /\ OwnSecrets /\ LayoutsComeBack /\ SavedIsCurrent
  BY DEF WorkspaceIInv
<1>2. /\ running' = running /\ launches' = launches /\ saved' = saved /\ timer' = timer
      /\ unused' = unused /\ restoring' = restoring /\ workspace' = workspace
      /\ queue' = queue /\ due' = due /\ bare' = bare /\ reads' = reads /\ prompts' = prompts
      /\ pending' = pending /\ overlap' = overlap /\ orphaned' = orphaned /\ tabs' = tabs
      /\ conns' \subseteq conns /\ prompts = <<>> /\ running
  BY DEF DeleteFromList, Kept, restore, opening, seen
<1>3. InFlight' = InFlight
  BY <1>2, FlightNow
<1>4. WorkspaceTyped'
  BY <1>1, <1>2, <1>3 DEF WorkspaceTyped, WorkspaceTypeOK, HasTab
<1>5. /\ Unknown' /\ SavedIsCurrent' /\ OwnSecrets' /\ LayoutsComeBack'
      /\ OneByOne' /\ RestoreMovesOn'
  BY <1>1, <1>2, <1>3
     DEF Unknown, SavedIsCurrent, OwnSecrets, LayoutsComeBack, OneByOne, RestoreMovesOn, HasTab
<1>6. Sound(reads', prompts', conns')
  BY <1>1, <1>2, MoreExist
<1> QED
  BY <1>4, <1>5, <1>6 DEF WorkspaceIInv
-----------------------------------------------------------------------------
(* The steps of the workspace across launches.                             *)
LEMMA SaveTimerFiresKeeps ==
  ASSUME WorkspaceIInv, SaveTimerFires
  PROVE  WorkspaceIInv'
<1>1. /\ WorkspaceTyped /\ Sound(reads, prompts, conns) /\ Unknown /\ OneByOne
      /\ RestoreMovesOn /\ OwnSecrets /\ LayoutsComeBack
  BY DEF WorkspaceIInv
<1>2. /\ running' = running /\ launches' = launches /\ conns' = conns
      /\ unused' = unused /\ restoring' = restoring /\ workspace' = workspace
      /\ queue' = queue /\ due' = due /\ bare' = bare /\ reads' = reads /\ prompts' = prompts
      /\ pending' = pending /\ overlap' = overlap /\ orphaned' = orphaned /\ tabs' = tabs
      /\ timer /\ timer' = FALSE /\ saved' = Captured
  BY DEF SaveTimerFires, store, restore, opening, seen
<1>3. InFlight' = InFlight
  BY <1>2, FlightNow
<1>4. /\ Captured \in [Conns -> Layouts \union {None}]
      /\ \A c \in Conns : Captured[c] # None <=> HasTab(c)
  BY <1>1 DEF WorkspaceTyped, Captured, Tab, NoTab, None, Layouts, HasTab
<1>5. WorkspaceTyped'
  BY <1>1, <1>2, <1>3, <1>4 DEF WorkspaceTyped, WorkspaceTypeOK, HasTab
<1>6. SavedIsCurrent'
  <2>1. conns \subseteq Conns
    BY <1>1 DEF WorkspaceTyped, WorkspaceTypeOK
  <2> QED
    BY <1>2, <1>4, <2>1 DEF SavedIsCurrent, HasTab
<1>7. OwnSecrets' /\ LayoutsComeBack' /\ OneByOne' /\ RestoreMovesOn'
  BY <1>1, <1>2, <1>3 DEF OwnSecrets, LayoutsComeBack, OneByOne, RestoreMovesOn, HasTab
<1>8. Unknown'
  <2>1. unused \subseteq Conns
    BY <1>1 DEF WorkspaceTyped, WorkspaceTypeOK
  <2> QED
    BY <1>1, <1>2, <1>4, <2>1 DEF Unknown, HasTab
<1>9. Sound(reads', prompts', conns')
  BY <1>1, <1>2
<1> QED
  BY <1>5, <1>6, <1>7, <1>8, <1>9 DEF WorkspaceIInv

LEMMA StopKeeps ==
  ASSUME WorkspaceIInv, Quit \/ Crash
  PROVE  WorkspaceIInv'
<1>1. WorkspaceTyped
  BY DEF WorkspaceIInv
<1>2. Stop /\ (saved' = Captured \/ saved' = saved)
  BY DEF Quit, Crash
<1>3. /\ running' = FALSE /\ timer' = FALSE /\ tabs' = [c \in Conns |-> NoTab]
      /\ restoring' = FALSE /\ workspace' = NoWorkspace /\ queue' = {}
      /\ reads' = <<>> /\ prompts' = <<>> /\ pending' = None
      /\ due' = {} /\ bare' = FALSE /\ overlap' = FALSE /\ orphaned' = FALSE
      /\ launches' = launches /\ conns' = conns /\ unused' = unused
  BY <1>2 DEF Stop, store
<1>4. saved' \in [Conns -> Layouts \union {None}]
  BY <1>1, <1>2 DEF WorkspaceTyped, WorkspaceTypeOK, Captured, Tab, NoTab
<1>5. Sound(reads', prompts', conns') /\ InFlight' = {} /\ Number(reads', prompts') = 0
  BY <1>3, FlightNow, Nothing
<1>6. NoWorkspace \in [Conns -> Layouts \union {None}] /\ None \in Owners
  BY DEF NoWorkspace, Owners
<1>7. WorkspaceTyped'
  BY <1>1, <1>3, <1>4, <1>5, <1>6 DEF WorkspaceTyped, WorkspaceTypeOK, HasTab
<1>8. OneByOne' /\ Unknown'
  <2>1. unused \subseteq Conns /\ Unknown
    BY <1>1 DEF WorkspaceIInv, WorkspaceTyped, WorkspaceTypeOK
  <2>2. ASSUME NEW c \in unused
        PROVE  saved'[c] = None /\ tabs'[c] = NoTab
    <3>1. tabs[c] = NoTab /\ saved[c] = None /\ c \in Conns
      BY <2>1 DEF Unknown, HasTab
    <3>2. Captured[c] = None
      BY <3>1 DEF Captured, NoTab
    <3> QED
      BY <1>2, <1>3, <3>1, <3>2
  <2> QED
    BY <1>3, <1>5, <2>2 DEF OneByOne, Unknown, HasTab
<1>9. RestoreMovesOn' /\ SavedIsCurrent' /\ LayoutsComeBack'
  BY <1>3 DEF RestoreMovesOn, SavedIsCurrent, LayoutsComeBack
<1>10. OwnSecrets'
  BY <1>3 DEF OwnSecrets, NoTab
<1> QED
  BY <1>5, <1>7, <1>8, <1>9, <1>10 DEF WorkspaceIInv

LEMMA BeginKeeps ==
  ASSUME WorkspaceIInv, BeginWorkspaceRestore
  PROVE  WorkspaceIInv'
<1> DEFINE entries == {c \in conns : saved[c] # None}
<1>1. /\ WorkspaceTyped /\ Sound(reads, prompts, conns) /\ Unknown /\ OneByOne
      /\ RestoreMovesOn /\ OwnSecrets /\ LayoutsComeBack
  BY DEF WorkspaceIInv
<1>2. /\ ~running /\ launches < MaxLaunches /\ running' = TRUE /\ launches' = launches + 1
      /\ conns' = conns /\ unused' = unused /\ saved' = saved /\ timer' = timer /\ tabs' = tabs
      /\ overlap' = overlap /\ orphaned' = orphaned
  BY DEF BeginWorkspaceRestore, store, seen
<1>3. /\ conns \subseteq Conns /\ unused \subseteq Conns \ conns
      /\ saved \in [Conns -> Layouts \union {None}] /\ ~timer /\ ~restoring /\ ~orphaned
      /\ InFlight = {} /\ tabs = [c \in Conns |-> NoTab]
      /\ overlap \in BOOLEAN /\ orphaned \in BOOLEAN /\ timer \in BOOLEAN
  BY <1>1, <1>2 DEF WorkspaceTyped, WorkspaceTypeOK
<1>4. launches' \in 0 .. MaxLaunches
  BY <1>1, <1>2, BoundAssumption DEF WorkspaceTyped, WorkspaceTypeOK
<1>5. \A c \in Conns : ~HasTab(c) /\ ~HasTab(c)'
  BY <1>2, <1>3 DEF HasTab
<1>6. OwnSecrets'
  BY <1>2, <1>3 DEF OwnSecrets, NoTab
<1>7. CASE entries = {}
  <2>1. /\ restoring' = restoring /\ workspace' = workspace /\ queue' = queue
        /\ due' = due /\ bare' = bare /\ reads' = reads /\ prompts' = prompts /\ pending' = pending
    BY <1>7 DEF BeginWorkspaceRestore, restore, opening
  <2>2. InFlight' = InFlight
    BY <2>1, FlightNow
  <2>3. WorkspaceTyped'
    BY <1>1, <1>2, <1>3, <1>4, <1>5, <2>1, <2>2 DEF WorkspaceTyped, WorkspaceTypeOK
  <2>4. SavedIsCurrent'
    BY <1>2, <1>3, <1>5, <1>7 DEF SavedIsCurrent
  <2>5. Unknown' /\ LayoutsComeBack' /\ OneByOne' /\ RestoreMovesOn'
    BY <1>1, <1>2, <2>1, <2>2 DEF Unknown, LayoutsComeBack, OneByOne, RestoreMovesOn, HasTab
  <2>6. Sound(reads', prompts', conns')
    BY <1>1, <1>2, <2>1
  <2> QED
    BY <1>6, <2>3, <2>4, <2>5, <2>6 DEF WorkspaceIInv
<1>8. CASE entries # {}
  <2>1. /\ restoring' = TRUE /\ workspace' = saved /\ due' = entries /\ bare' = FALSE
        /\ \E c \in entries : queue' = entries \ {c} /\ OpenConnectionById(c, <<>>, <<>>)
    BY <1>8 DEF BeginWorkspaceRestore
  <2>2. PICK c \in entries : queue' = entries \ {c} /\ OpenConnectionById(c, <<>>, <<>>)
    BY <2>1
  <2>3. /\ Sound(reads', prompts', conns) /\ pending' = None
        /\ Flight(reads', prompts') = Flight(<<>>, <<>>) \union {c}
        /\ Number(reads', prompts') = Number(<<>>, <<>>) + 1
    BY <1>3, <2>2, Nothing, OpeningStarted
  <2>4. InFlight' = {c} /\ Number(reads', prompts') = 1
    BY <2>3, FlightNow, Nothing
  <2>5. entries \subseteq conns /\ \A d \in entries : saved[d] # None
    OBVIOUS
  <2> HIDE DEF entries
  <2>6. WorkspaceTyped'
    <3>1. pending' \in Owners
      BY <2>3 DEF Owners
    <3> QED
      BY <1>1, <1>2, <1>3, <1>4, <1>5, <2>1, <2>2, <2>5, <3>1 DEF WorkspaceTyped, WorkspaceTypeOK
  <2>7. LayoutsComeBack' /\ SavedIsCurrent' /\ Unknown'
    <3>1. Unknown'
      BY <1>1, <1>2, <1>3, <1>5, <2>1, <2>5 DEF Unknown
    <3>2. LayoutsComeBack' /\ SavedIsCurrent'
      BY <1>2, <2>1 DEF LayoutsComeBack, SavedIsCurrent
    <3> QED
      BY <3>1, <3>2
  <2>8. OneByOne'
    BY <1>2, <1>3, <2>1, <2>3, <2>4, <2>5 DEF OneByOne
  <2>9. RestoreMovesOn'
    BY <1>2, <1>3, <2>1, <2>2, <2>4 DEF RestoreMovesOn
  <2>10. Sound(reads', prompts', conns')
    BY <1>2, <2>3
  <2> QED
    BY <1>6, <2>6, <2>7, <2>8, <2>9, <2>10 DEF WorkspaceIInv
<1> QED
  BY <1>7, <1>8

-----------------------------------------------------------------------------
LEMMA Starts == ASSUME WorkspaceInit PROVE WorkspaceIInv
<1>1. /\ running = FALSE /\ launches = 0 /\ timer = FALSE /\ tabs = [c \in Conns |-> NoTab]
      /\ conns \in SUBSET Conns /\ unused = Conns \ conns
      /\ saved \in [Conns -> {None, "full"}] /\ \A c \in unused : saved[c] = None
      /\ restoring = FALSE /\ workspace = NoWorkspace /\ queue = {}
      /\ reads = <<>> /\ prompts = <<>> /\ pending = None
      /\ due = {} /\ bare = FALSE /\ overlap = FALSE /\ orphaned = FALSE
  BY DEF WorkspaceInit
<1>2. Sound(reads, prompts, conns) /\ InFlight = {} /\ Number(reads, prompts) = 0
  BY <1>1, FlightNow, Nothing
<1>3. /\ NoWorkspace \in [Conns -> Layouts \union {None}] /\ None \in Owners
      /\ saved \in [Conns -> Layouts \union {None}] /\ 0 \in 0 .. MaxLaunches
  BY <1>1, BoundAssumption DEF NoWorkspace, Owners, Layouts
<1>4. WorkspaceTyped
  BY <1>1, <1>2, <1>3 DEF WorkspaceTyped, WorkspaceTypeOK, HasTab
<1>5. OneByOne /\ Unknown /\ RestoreMovesOn /\ SavedIsCurrent /\ LayoutsComeBack
  BY <1>1, <1>2 DEF OneByOne, Unknown, RestoreMovesOn, SavedIsCurrent, LayoutsComeBack, HasTab
<1>6. OwnSecrets
  BY <1>1 DEF OwnSecrets, NoTab
<1> QED
  BY <1>2, <1>4, <1>5, <1>6 DEF WorkspaceIInv

LEMMA StepKeeps == ASSUME WorkspaceIInv, [WorkspaceNext]_workspaceVars PROVE WorkspaceIInv'
<1>1. CASE UNCHANGED workspaceVars
  <2>1. /\ running' = running /\ launches' = launches /\ conns' = conns /\ unused' = unused
        /\ saved' = saved /\ timer' = timer /\ tabs' = tabs /\ restoring' = restoring
        /\ workspace' = workspace /\ queue' = queue /\ due' = due /\ bare' = bare
        /\ reads' = reads /\ prompts' = prompts /\ pending' = pending
        /\ overlap' = overlap /\ orphaned' = orphaned
    BY <1>1 DEF workspaceVars, store, restore, opening, seen
  <2>2. InFlight' = InFlight
    BY <2>1, FlightNow
  <2>3. WorkspaceTyped'
    BY <2>1, <2>2 DEF WorkspaceIInv, WorkspaceTyped, WorkspaceTypeOK, HasTab
  <2>4. Unknown' /\ OneByOne' /\ Sound(reads', prompts', conns')
    BY <2>1, <2>2 DEF WorkspaceIInv, Unknown, OneByOne, HasTab
  <2>5. RestoreMovesOn' /\ OwnSecrets' /\ LayoutsComeBack' /\ SavedIsCurrent'
    BY <2>1, <2>2 DEF WorkspaceIInv, RestoreMovesOn, OwnSecrets, LayoutsComeBack, SavedIsCurrent, HasTab
  <2> QED
    BY <2>3, <2>4, <2>5 DEF WorkspaceIInv
<1>2. CASE BeginWorkspaceRestore
  BY <1>2, BeginKeeps
<1>3. CASE Quit \/ Crash
  BY <1>3, StopKeeps
<1>4. CASE SaveTimerFires
  BY <1>4, SaveTimerFiresKeeps
<1>5. CASE ReadOfDeleted
  BY <1>5, ReadOfDeletedKeeps
<1>6. CASE PromptAccepted \/ PromptCancelled
  BY <1>6, PromptAnsweredKeeps
<1>7. ASSUME NEW c \in Conns,
             \/ UserOpens(c) \/ CreateAndConnect(c)
             \/ GatewayAnswered(c) \/ TargetAnswered(c) \/ TargetMissing(c) \/ ReadFails(c)
      PROVE  WorkspaceIInv'
  BY <1>7, UserOpensKeeps, CreateAndConnectKeeps, GatewayAnsweredKeeps, TargetAnsweredKeeps,
     TargetMissingKeeps, ReadFailsKeeps
<1>8. ASSUME NEW c \in Conns,
             \/ SessionConnected(c) \/ SessionEnds(c) \/ ReconnectTab(c) \/ ChangeLayout(c)
             \/ CloseTab(c) \/ DeleteConnection(c) \/ DeleteFromList(c)
      PROVE  WorkspaceIInv'
  BY <1>8, TabStepsKeep, ClosedKeeps, DeleteFromListKeeps
<1> QED
  BY <1>1, <1>2, <1>3, <1>4, <1>5, <1>6, <1>7, <1>8 DEF WorkspaceNext

(* The inductive invariant holds.                                          *)
THEOREM WorkspaceInvariance == WorkspaceSpec => []WorkspaceIInv
BY Starts, StepKeeps, PTL DEF WorkspaceSpec

(* A restore never stops short: what is due and exists is queued or on its *)
(* way, unless an answer came for a connection deleted meanwhile (the read *)
(* of openConnectionById finds no connection and does not move on).        *)
THEOREM NothingDueIsPassedOver == WorkspaceSpec => []RestoreMovesOn
<1>1. WorkspaceIInv => RestoreMovesOn
  BY DEF WorkspaceIInv
<1> QED
  BY <1>1, WorkspaceInvariance, PTL

(* m_pendingCredentials never reaches another session than its own, unless *)
(* connections were opened on top of each other.                           *)
THEOREM SecretsStayWithTheirOwn == WorkspaceSpec => []OwnSecrets
<1>1. WorkspaceIInv => OwnSecrets
  BY DEF WorkspaceIInv
<1> QED
  BY <1>1, WorkspaceInvariance, PTL

(* takePendingRestoreEntry finds the layout of every session of the        *)
(* workspace, unless a connection was opened by hand during the restore.   *)
THEOREM NoneOpensBare == WorkspaceSpec => []LayoutsComeBack
<1>1. WorkspaceIInv => LayoutsComeBack
  BY DEF WorkspaceIInv
<1> QED
  BY <1>1, WorkspaceInvariance, PTL

(* scheduleWorkspaceSave is called wherever the tabs change: without a     *)
(* save pending or a restore going on the settings hold the open tabs.     *)
THEOREM SettingsHoldTheTabs == WorkspaceSpec => []SavedIsCurrent
<1>1. WorkspaceIInv => SavedIsCurrent
  BY DEF WorkspaceIInv
<1> QED
  BY <1>1, WorkspaceInvariance, PTL
=============================================================================
