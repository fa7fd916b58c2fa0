------------------------------ MODULE ExecPool ------------------------------
(***************************************************************************)
(* The remote-command pool of SshWorker: one-shot commands requested by    *)
(* the GUI thread (Session::execCommand), queued and run by the worker     *)
(* thread with at most kMaxConcurrentExec ExecIoHandlers in the I/O loop.  *)
(*                                                                         *)
(* The model starts when the worker has emitted `connected' and runs until *)
(* its thread has ended.  A step is one slot delivered on the worker       *)
(* thread, one ExecIoHandler::onIdle, one callback of libssh, one iteration*)
(* of the refill loop of onExecHandlerFinished, or one call on the GUI     *)
(* thread.  The texts of commands and their output are left out.           *)
(***************************************************************************)
EXTENDS Naturals, Sequences, FiniteSets

CONSTANTS Requests,        \* request ids; callers use a fresh QUuid for each
          MaxConcurrent,   \* kMaxConcurrentExec
          Stop             \* the posted disconnectSession slot

ASSUME MaxAssumption == MaxConcurrent \in Nat \ {0}
ASSUME StopAssumption == Stop \notin Requests

VARIABLES
  (* GUI thread *)
  asked,      \* the requests passed to Session::execCommand, in order
  wired,      \* the session still refers to the worker and hears its signals
  answers,    \* how often commandFinished reached the caller of a request
  (* worker thread *)
  inbox,      \* posted slots: execCommand(r), shown as r, and Stop
  completed,  \* requests whose onExecHandlerFinished lambda is posted
  pc,         \* "loop", or "refill" inside that lambda's while loop
  running,    \* m_running
  quit,       \* QThread::quit has been called
  alive,      \* the thread has not ended
  pending,    \* m_pendingExecCommands
  inFlight,   \* m_execInFlight
  handler,    \* state of the request's ExecIoHandler, "none" if not in the loop
  seen,       \* what its channel has reported: "eof", "close", "exit"
  (* environment *)
  connected   \* SshSession::isConnected

guiVars == <<asked, wired, answers>>
poolVars == <<pending, inFlight>>
ioVars == <<handler, seen>>
threadVars == <<running, quit, alive>>
vars == <<asked, wired, answers, inbox, completed, pc, running, quit, alive,
          pending, inFlight, handler, seen, connected>>

Elems(s) == {s[i] : i \in 1..Len(s)}

Live == {"Opening", "Executing", "Reading"}
HandlerState == Live \cup {"none", "Done"}
Signals == {"eof", "close", "exit"}

Working == {r \in Requests : handler[r] \in Live}
Registered == {r \in Requests : handler[r] # "none"}

Usable == running /\ connected

(* m_execInFlight once a completion slot has run.                          *)
SlotFreed == IF inFlight > 0 THEN inFlight - 1 ELSE 0

(* A new command finds every slot taken.                                   *)
AllBusyIgnoresFinished == Cardinality(Working) >= MaxConcurrent
AllBusyOffByOne == inFlight > MaxConcurrent
AllBusy == inFlight >= MaxConcurrent

(* What cleanup() answers: the queue, and the handlers it cancels.         *)
DroppedTwice == Elems(pending) \cup Registered
DroppedHandlers == Working
Dropped == Elems(pending) \cup Working

(* emit commandFinished for every request of S: the signal reaches the     *)
(* session only while it is connected to the worker.                       *)
Emit(S) == answers' = IF wired
                        THEN [r \in Requests |-> IF r \in S THEN answers[r] + 1
                                                            ELSE answers[r]]
                        ELSE answers

Init ==
    /\ asked = <<>>
    /\ wired = TRUE
    /\ answers = [r \in Requests |-> 0]
    /\ inbox = <<>>
    /\ completed = {}
    /\ pc = "loop"
    /\ running = TRUE
    /\ quit = FALSE
    /\ alive = TRUE
    /\ pending = <<>>
    /\ inFlight = 0
    /\ handler = [r \in Requests |-> "none"]
    /\ seen = [r \in Requests |-> {}]
    /\ connected = TRUE
-----------------------------------------------------------------------------
(* GUI thread *)

(* Session::execCommand: posts the request to the worker, or answers at    *)
(* once when the session has none.                                         *)
Request(r) ==
    /\ r \notin Elems(asked)
    /\ asked' = Append(asked, r)
    /\ IF wired
         THEN inbox' = Append(inbox, r) /\ UNCHANGED answers
         ELSE answers' = [answers EXCEPT ![r] = @ + 1] /\ UNCHANGED inbox
    /\ UNCHANGED <<wired, completed, pc, threadVars, poolVars, ioVars, connected>>

(* The session lets go of its worker: it stops listening, posts            *)
(* disconnectSession and quits the thread (releaseWorkerAsync,             *)
(* teardownWorker, onWorkerError).                                         *)
Release ==
    /\ wired
    /\ wired' = FALSE
    /\ quit' = TRUE
    /\ inbox' = Append(inbox, Stop)
    /\ UNCHANGED <<asked, answers, completed, pc, running, alive, poolVars,
                   ioVars, connected>>

(* Session::onWorkerDisconnected: the worker reported its own end, so      *)
(* nothing is posted to it.                                                *)
ReleaseDisconnected ==
    /\ wired /\ ~running
    /\ wired' = FALSE
    /\ quit' = TRUE
    /\ UNCHANGED <<asked, answers, inbox, completed, pc, running, alive,
                   poolVars, ioVars, connected>>
-----------------------------------------------------------------------------
(* Worker thread *)

(* A start that takes its slot before it knows that it succeeds.           *)
StartCountsFailure(r) ==
    /\ inFlight' = inFlight + 1
    /\ \/ handler' = [handler EXCEPT ![r] = "Opening"] /\ UNCHANGED <<answers, seen>>
       \/ Emit({r}) /\ UNCHANGED ioVars

(* SshWorker::startExecHandler: the handler joins the loop, or could not   *)
(* create its channel and the request fails.                               *)
StartExecHandler(r) ==
    \/ /\ handler' = [handler EXCEPT ![r] = "Opening"]
       /\ inFlight' = inFlight + 1
       /\ UNCHANGED <<answers, seen>>
    \/ /\ Emit({r})
       /\ UNCHANGED <<ioVars, inFlight>>

(* SshWorker::execCommand.  A command is refused when there is no session, *)
(* or when its text, which the model leaves out, is blank.                 *)
ExecCommand ==
    /\ alive /\ pc = "loop"
    /\ inbox # <<>> /\ Head(inbox) # Stop
    /\ inbox' = Tail(inbox)
    /\ LET r == Head(inbox) IN
         \/ /\ Emit({r})
            /\ UNCHANGED <<poolVars, ioVars>>
         \/ /\ Usable
            /\ AllBusy
            /\ pending' = Append(pending, r)
            /\ UNCHANGED <<answers, inFlight, ioVars>>
         \/ /\ Usable
            /\ ~AllBusy
            /\ StartExecHandler(r)
            /\ UNCHANGED pending
    /\ UNCHANGED <<asked, wired, completed, pc, threadVars, connected>>

(* The slot posted by onExecHandlerFinished, up to its while loop. *)
ExecHandlerFinished(r) ==
    /\ alive /\ pc = "loop"
    /\ r \in completed
    /\ completed' = completed \ {r}
    /\ handler' = [handler EXCEPT ![r] = "none"]
    /\ inFlight' = SlotFreed
    /\ pc' = "refill"
    /\ UNCHANGED <<guiVars, inbox, threadVars, pending, seen, connected>>

(* A slot that starts one command at most.                                 *)
RefillOnce ==
    /\ pc = "refill" /\ pc' = "loop"
    /\ \/ /\ AllBusy \/ pending = <<>>
          /\ UNCHANGED <<answers, poolVars, ioVars>>
       \/ /\ ~AllBusy /\ pending # <<>> /\ ~Usable
          /\ Emit(Elems(pending)) /\ pending' = <<>>
          /\ UNCHANGED <<inFlight, ioVars>>
       \/ /\ ~AllBusy /\ pending # <<>> /\ Usable
          /\ pending' = Tail(pending) /\ StartExecHandler(Head(pending))
    /\ UNCHANGED <<asked, wired, inbox, completed, threadVars, connected>>

(* One test of the while loop's condition and, when it holds, its body. *)
Refill ==
    /\ pc = "refill"
    /\ \/ /\ inFlight >= MaxConcurrent \/ pending = <<>>
          /\ pc' = "loop"
          /\ UNCHANGED <<answers, poolVars, ioVars>>
       \/ /\ inFlight < MaxConcurrent /\ pending # <<>>
          /\ ~Usable
          /\ Emit(Elems(pending))                 \* failPendingExecCommands
          /\ pending' = <<>>
          /\ pc' = "loop"
          /\ UNCHANGED <<inFlight, ioVars>>
       \/ /\ inFlight < MaxConcurrent /\ pending # <<>>
          /\ Usable
          /\ pending' = Tail(pending)
          /\ StartExecHandler(Head(pending))
          /\ UNCHANGED pc
    /\ UNCHANGED <<asked, wired, inbox, completed, threadVars, connected>>

(* SshWorker::disconnectSession: cleanup() fails the queued commands,      *)
(* forgets the count, and cancels every handler; a handler that had not    *)
(* finished reports a failure and posts its completion all the same.       *)
DisconnectSession ==
    /\ running' = FALSE
    /\ Emit(Dropped)
    /\ pending' = <<>>
    /\ inFlight' = 0
    /\ completed' = completed \cup Working
    /\ handler' = [r \in Requests |-> "none"]
    /\ seen' = [r \in Requests |-> {}]
    /\ UNCHANGED <<asked, wired, pc, quit, alive, connected>>

Disconnect ==
    /\ alive /\ pc = "loop"
    /\ inbox # <<>> /\ Head(inbox) = Stop
    /\ inbox' = Tail(inbox)
    /\ DisconnectSession

(* SshIoLoop::run leaves its loop: ssh_event_dopoll failed, or the session *)
(* is no longer connected after a round.  Both end in disconnectSession.   *)
LoopEnds ==
    /\ alive /\ pc = "loop" /\ running
    /\ DisconnectSession
    /\ UNCHANGED inbox

(* The thread was told to quit and connectToHost has returned; slots that  *)
(* are still posted are dropped with the event loop.                       *)
ThreadEnds ==
    /\ alive /\ quit /\ ~running /\ pc = "loop"
    /\ alive' = FALSE
    /\ UNCHANGED <<guiVars, inbox, completed, pc, running, quit, poolVars,
                   ioVars, connected>>
-----------------------------------------------------------------------------
(* ExecIoHandler, driven by the loop's onIdle and by libssh's callbacks *)

(* finishOk and finishFail: free the channel, answer once, then post the    *)
(* completion.                                                             *)
Finish(r) ==
    /\ handler' = [handler EXCEPT ![r] = "Done"]
    /\ seen' = [seen EXCEPT ![r] = {}]
    /\ completed' = completed \cup {r}
    /\ Emit({r})

Idle(r) == alive /\ pc = "loop" /\ running /\ handler[r] \in Live

(* advanceOpening, which goes on to advanceExecuting in the same call, and *)
(* advanceExecuting; SSH_AGAIN leaves the state as it is.                  *)
Advance(r) ==
    /\ Idle(r)
    /\ \E next \in {"Executing", "Reading"} :
         /\ <<handler[r], next>> \in {<<"Opening", "Executing">>,
                                      <<"Opening", "Reading">>,
                                      <<"Executing", "Reading">>}
         /\ handler' = [handler EXCEPT ![r] = next]
    /\ UNCHANGED <<guiVars, inbox, completed, pc, threadVars, poolVars, seen,
                   connected>>

(* The channel could not be opened, the exec request was refused, or the   *)
(* command has run for kTimeoutMs.                                         *)
Fail(r) ==
    /\ Idle(r)
    /\ Finish(r)
    /\ UNCHANGED <<asked, wired, inbox, pc, threadVars, poolVars, connected>>

(* tryFinish *)
TryFinish(r) ==
    /\ Idle(r) /\ handler[r] = "Reading"
    /\ "eof" \in seen[r]
    /\ seen[r] \cap {"exit", "close"} # {}
    /\ Finish(r)
    /\ UNCHANGED <<asked, wired, inbox, pc, threadVars, poolVars, connected>>

(* onEof, onClose and onExitStatus: the server speaks on an open channel. *)
ChannelReports(r) ==
    /\ Idle(r) /\ handler[r] # "Opening"
    /\ \E s \in {{"eof"}, {"eof", "close"}, {"exit"}} :
         seen' = [seen EXCEPT ![r] = @ \cup s]
    /\ UNCHANGED <<guiVars, inbox, completed, pc, threadVars, poolVars, handler,
                   connected>>

ConnectionLost ==
    /\ connected
    /\ connected' = FALSE
    /\ UNCHANGED <<guiVars, inbox, completed, pc, threadVars, poolVars, ioVars>>
-----------------------------------------------------------------------------
Gui == (\E r \in Requests : Request(r)) \/ Release \/ ReleaseDisconnected

Slots == ExecCommand \/ Disconnect \/ Refill
           \/ \E r \in Requests : ExecHandlerFinished(r)

Handlers == \E r \in Requests : Advance(r) \/ Fail(r) \/ TryFinish(r)

Next == \/ Gui
        \/ Slots
        \/ Handlers
        \/ LoopEnds
        \/ ThreadEnds
        \/ \E r \in Requests : ChannelReports(r)
        \/ ConnectionLost

(* The worker thread keeps running its loop: posted slots are delivered,   *)
(* and a handler is polled until its timer runs out.  Callers, the server  *)
(* and the network owe nothing.                                            *)
Fairness ==
    /\ WF_vars(ExecCommand) /\ WF_vars(Disconnect) /\ WF_vars(Refill)
    /\ \A r \in Requests : WF_vars(ExecHandlerFinished(r)) /\ WF_vars(Fail(r))

Spec == Init /\ [][Next]_vars
FairSpec == Spec /\ Fairness
-----------------------------------------------------------------------------
(* Every variable has its type. *)
TypeOK ==
    /\ asked \in Seq(Requests)
    /\ wired \in BOOLEAN
    /\ answers \in [Requests -> Nat]
    /\ inbox \in Seq(Requests \cup {Stop})
    /\ completed \subseteq Requests
    /\ pc \in {"loop", "refill"}
    /\ running \in BOOLEAN /\ quit \in BOOLEAN /\ alive \in BOOLEAN
    /\ pending \in Seq(Requests)
    /\ inFlight \in Nat
    /\ handler \in [Requests -> HandlerState]
    /\ seen \in [Requests -> SUBSET Signals]
    /\ connected \in BOOLEAN

(* Where a request can be on its way to its answer. *)
Waiting(r) == r \in Elems(inbox) \/ r \in Elems(pending)
Places(r) == {p \in {"inbox", "pending", "handler", "answered"} :
                 \/ p = "inbox" /\ r \in Elems(inbox)
                 \/ p = "pending" /\ r \in Elems(pending)
                 \/ p = "handler" /\ handler[r] \in Live
                 \/ p = "answered" /\ answers[r] > 0}

(* While the session listens, a command it was given is in exactly one     *)
(* place and is answered once: no interleaving of slots, polls, failed     *)
(* starts, lost connections and disconnects loses a request, answers it    *)
(* twice, or leaves it running after its answer.                           *)
EachRequestInOnePlace ==
    /\ \A r \in Requests : answers[r] <= 1
    /\ wired => \A r \in Elems(asked) : Cardinality(Places(r)) = 1

(* m_execInFlight counts the handlers registered with the loop, including  *)
(* those that finished and wait for their completion slot, also across a   *)
(* disconnect whose completion slots come late: a slot is never lost or    *)
(* freed twice, and never more than kMaxConcurrentExec are taken.          *)
SlotsAccounted ==
    /\ inFlight = Cardinality(Registered)
    /\ inFlight <= MaxConcurrent

(* Between two slots a command is queued only if every slot is taken, and  *)
(* then some handler will free one: the queue never waits for nothing.     *)
QueueHasAWaker ==
    pc = "loop" /\ pending # <<>> =>
        /\ inFlight = MaxConcurrent
        /\ Registered # {}

(* A command never overtakes one asked for earlier: while a request waits, *)
(* none asked after it has a handler.                                      *)
NoOvertaking ==
    \A i, j \in 1..Len(asked) :
        i < j /\ Waiting(asked[i]) => handler[asked[j]] = "none"

(* A command the session accepted is answered, unless the session lets go  *)
(* of the worker first.                                                    *)
EveryRequestAnswered ==
    \A r \in Requests : r \in Elems(asked) ~> answers[r] > 0 \/ ~wired
-----------------------------------------------------------------------------
(* The refinement mapping onto ExecService. *)
ServiceStatus(r) ==
    IF answers[r] > 0 THEN "answered"
    ELSE IF r \notin Elems(asked) THEN "new"
    ELSE IF ~wired THEN "abandoned"
    ELSE IF handler[r] \in Live THEN "active"
    ELSE "waiting"

Service == INSTANCE ExecService WITH status <- [r \in Requests |-> ServiceStatus(r)]

(* The pool implements the service it stands for. *)
ServiceSpec == Service!Spec
=============================================================================
