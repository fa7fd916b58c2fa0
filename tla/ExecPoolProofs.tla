--------------------------- MODULE ExecPoolProofs ---------------------------
(***************************************************************************)
(* Proofs about ExecPool, for every set of requests and every limit.       *)
(***************************************************************************)
EXTENDS ExecPool, FiniteSetTheorems, SequenceTheorems, TLAPS

Distinct(s) == \A i, j \in 1..Len(s) : s[i] = s[j] => i = j

(* What Append, Head and Tail do to the elements of a queue. *)
LEMMA ElemsOfAppend ==
    ASSUME NEW S, NEW s \in Seq(S), NEW x \in S
    PROVE  Elems(Append(s, x)) = Elems(s) \cup {x}
<1>1. Len(Append(s, x)) = Len(s) + 1 /\ Append(s, x)[Len(s) + 1] = x
  OBVIOUS
<1>2. \A i \in 1..Len(s) : Append(s, x)[i] = s[i]
  OBVIOUS
<1>3. Len(s) \in Nat
  OBVIOUS
<1> QED
  BY <1>1, <1>2, <1>3 DEF Elems

(* Taking the head of a queue without repetitions forgets that element only. *)
LEMMA ElemsOfTail ==
    ASSUME NEW S, NEW s \in Seq(S), s # <<>>
    PROVE  /\ Elems(s) = {Head(s)} \cup Elems(Tail(s))
           /\ Distinct(s) => Distinct(Tail(s)) /\ Head(s) \notin Elems(Tail(s))
<1>1. Len(s) \in Nat \ {0} /\ Len(Tail(s)) = Len(s) - 1 /\ Head(s) = s[1]
  OBVIOUS
<1>2. \A i \in 1..Len(Tail(s)) : Tail(s)[i] = s[i + 1]
  OBVIOUS
<1>3. \A i \in 2..Len(s) : i - 1 \in 1..Len(Tail(s)) /\ Tail(s)[i - 1] = s[i]
  BY <1>1, <1>2
<1> QED
  BY <1>1, <1>2, <1>3 DEF Elems, Distinct

(* A queue stays free of repetitions when a new element is appended.       *)
LEMMA DistinctAppend ==
    ASSUME NEW S, NEW s \in Seq(S), NEW x \in S, Distinct(s), x \notin Elems(s)
    PROVE  Distinct(Append(s, x))
<1>1. Len(Append(s, x)) = Len(s) + 1 /\ Append(s, x)[Len(s) + 1] = x
  OBVIOUS
<1>2. \A i \in 1..Len(s) : Append(s, x)[i] = s[i]
  OBVIOUS
<1> QED
  BY <1>1, <1>2 DEF Elems, Distinct

(* The empty queue.                                                        *)
LEMMA ElemsOfEmpty == Elems(<<>>) = {} /\ Distinct(<<>>)
  BY DEF Elems, Distinct

(* The elements of a queue are of its type.                                *)
LEMMA ElemsType ==
    ASSUME NEW S, NEW s \in Seq(S)
    PROVE  Elems(s) \subseteq S
  BY DEF Elems
-----------------------------------------------------------------------------
(* An answer is counted at most once more, and only for S.                 *)
LEMMA EmitType ==
    ASSUME TypeOK, NEW S, Emit(S)
    PROVE  answers' \in [Requests -> Nat]
  BY DEF TypeOK, Emit

(* startExecHandler keeps the types, whether the channel opens or not.     *)
LEMMA StartType ==
    ASSUME TypeOK, NEW r \in Requests, StartExecHandler(r)
    PROVE  /\ answers' \in [Requests -> Nat]
           /\ handler' \in [Requests -> HandlerState]
           /\ inFlight' \in Nat
           /\ seen' \in [Requests -> SUBSET Signals]
<1> USE DEF TypeOK
<1>1. CASE /\ handler' = [handler EXCEPT ![r] = "Opening"]
           /\ inFlight' = inFlight + 1
           /\ UNCHANGED <<answers, seen>>
  <2>1. handler' \in [Requests -> HandlerState]
    BY <1>1 DEF HandlerState, Live
  <2> QED
    BY <1>1, <2>1
<1>2. CASE Emit({r}) /\ UNCHANGED <<ioVars, inFlight>>
  <2>1. answers' \in [Requests -> Nat]
    BY <1>2 DEF Emit
  <2> QED
    BY <1>2, <2>1 DEF ioVars
<1> QED
  BY <1>1, <1>2 DEF StartExecHandler

(* disconnectSession keeps the types.                                      *)
LEMMA DisconnectType ==
    ASSUME TypeOK, DisconnectSession, inbox' \in Seq(Requests \cup {Stop})
    PROVE  TypeOK'
<1>1. answers' \in [Requests -> Nat]
  BY EmitType DEF DisconnectSession, Dropped
<1>2. completed' \subseteq Requests
  BY DEF TypeOK, DisconnectSession, Working, Dropped
<1>3. pending' \in Seq(Requests)
  BY DEF DisconnectSession, Dropped
<1>4. handler' \in [Requests -> HandlerState] /\ seen' \in [Requests -> SUBSET Signals]
  BY DEF DisconnectSession, HandlerState, Dropped
<1> QED
  BY <1>1, <1>2, <1>3, <1>4 DEF TypeOK, DisconnectSession, Dropped

(* The pool starts in its types.                                           *)
LEMMA TypeInit == Init => TypeOK
<1> SUFFICES ASSUME Init PROVE TypeOK
  OBVIOUS
<1>1. asked \in Seq(Requests) /\ pending \in Seq(Requests)
        /\ inbox \in Seq(Requests \cup {Stop})
  BY DEF Init
<1>2. seen \in [Requests -> SUBSET Signals] /\ answers \in [Requests -> Nat]
  BY DEF Init
<1>3. handler \in [Requests -> HandlerState]
  BY DEF Init, HandlerState
<1> QED
  BY <1>1, <1>2, <1>3 DEF Init, TypeOK

(* Every step of the pool keeps the types.                                 *)
LEMMA TypeNext == TypeOK /\ [Next]_vars => TypeOK'
<1> SUFFICES ASSUME TypeOK, [Next]_vars PROVE TypeOK'
  OBVIOUS
<1> USE DEF guiVars, poolVars, ioVars, threadVars
<1>1. ASSUME NEW r \in Requests, Request(r) PROVE TypeOK'
  <2>1. asked' \in Seq(Requests) /\ Append(inbox, r) \in Seq(Requests \cup {Stop})
    <3>1. asked \in Seq(Requests) /\ asked' = Append(asked, r)
      BY <1>1 DEF TypeOK, Request
    <3>2. inbox \in Seq(Requests \cup {Stop}) /\ r \in Requests \cup {Stop}
      BY DEF TypeOK
    <3> QED
      BY <3>1, <3>2, AppendProperties
  <2>2. answers' \in [Requests -> Nat]
    <3>1. CASE answers' = answers
      BY <3>1 DEF TypeOK
    <3>2. CASE answers' = [answers EXCEPT ![r] = @ + 1]
      BY <3>2 DEF TypeOK
    <3> QED
      BY <1>1, <3>1, <3>2 DEF Request
  <2> QED
    BY <1>1, <2>1, <2>2 DEF TypeOK, Request
<1>2. CASE Release
  <2>1. inbox' \in Seq(Requests \cup {Stop})
    BY <1>2 DEF TypeOK, Release
  <2> QED
    BY <1>2, <2>1 DEF TypeOK, Release
<1>3. CASE ReleaseDisconnected
  BY <1>3 DEF TypeOK, ReleaseDisconnected
<1>4. CASE ExecCommand
  <2>1. Head(inbox) \in Requests /\ inbox' \in Seq(Requests \cup {Stop})
    BY <1>4 DEF TypeOK, ExecCommand, AllBusy
  <2>2. CASE Emit({Head(inbox)}) /\ UNCHANGED <<poolVars, ioVars>>
    BY <1>4, <2>1, <2>2, EmitType DEF TypeOK, ExecCommand, AllBusy
  <2>3. CASE pending' = Append(pending, Head(inbox)) /\ UNCHANGED <<answers, inFlight, ioVars>>
    BY <1>4, <2>1, <2>3 DEF TypeOK, ExecCommand, AllBusy
  <2>4. CASE StartExecHandler(Head(inbox)) /\ UNCHANGED pending
    BY <1>4, <2>1, <2>4, StartType DEF TypeOK, ExecCommand, AllBusy
  <2> QED
    BY <1>4, <2>2, <2>3, <2>4 DEF ExecCommand, AllBusy
<1>5. CASE Disconnect
  BY <1>5, DisconnectType DEF TypeOK, Disconnect
<1>6. CASE LoopEnds
  BY <1>6, DisconnectType DEF TypeOK, LoopEnds
<1>7. CASE Refill
  <2>1. CASE UNCHANGED <<answers, poolVars, ioVars>>
    BY <1>7, <2>1 DEF TypeOK, Refill
  <2>2. CASE Emit(Elems(pending)) /\ pending' = <<>> /\ UNCHANGED <<inFlight, ioVars>>
    BY <1>7, <2>2, EmitType DEF TypeOK, Refill
  <2>3. CASE /\ pending # <<>> /\ pending' = Tail(pending)
             /\ StartExecHandler(Head(pending)) /\ UNCHANGED pc
    <3>1. Head(pending) \in Requests /\ pending' \in Seq(Requests)
      BY <2>3 DEF TypeOK
    <3> QED
      BY <1>7, <2>3, <3>1, StartType DEF TypeOK, Refill
  <2> QED
    BY <1>7, <2>1, <2>2, <2>3 DEF Refill
<1>8. ASSUME NEW r \in Requests, ExecHandlerFinished(r) PROVE TypeOK'
  BY <1>8 DEF TypeOK, ExecHandlerFinished, HandlerState, SlotFreed
<1>9. ASSUME NEW r \in Requests, Advance(r) PROVE TypeOK'
  BY <1>9 DEF TypeOK, Advance, HandlerState, Live
<1>10. ASSUME NEW r \in Requests, Fail(r) \/ TryFinish(r) PROVE TypeOK'
  BY <1>10, EmitType DEF TypeOK, Fail, TryFinish, Finish, HandlerState
<1>11. ASSUME NEW r \in Requests, ChannelReports(r) PROVE TypeOK'
  BY <1>11 DEF TypeOK, ChannelReports, Signals
<1>12. CASE ThreadEnds \/ ConnectionLost \/ UNCHANGED vars
  BY <1>12 DEF TypeOK, ThreadEnds, ConnectionLost, vars
<1> QED
  BY <1>1, <1>2, <1>3, <1>4, <1>5, <1>6, <1>7, <1>8, <1>9, <1>10, <1>11, <1>12
     DEF Next, Gui, Slots, Handlers

(* Every variable of the pool has its type, whatever the requests and the  *)
(* limit: no interleaving makes m_execInFlight negative.                   *)
THEOREM TypeCorrect == Spec => []TypeOK
  BY TypeInit, TypeNext, PTL DEF Spec
-----------------------------------------------------------------------------
(* Where the requests are: the strengthening of EachRequestInOnePlace.     *)
OneCarrier ==
    /\ Distinct(inbox) /\ Distinct(pending)
    /\ Elems(inbox) \cap Elems(pending) = {}
    /\ \A r \in Requests : r \in Elems(inbox) \/ r \in Elems(pending)
                             => handler[r] = "none" /\ answers[r] = 0

KnownRequests ==
    /\ Elems(inbox) \subseteq Elems(asked) \cup {Stop}
    /\ Elems(pending) \subseteq Elems(asked)
    /\ \A r \in Requests : handler[r] # "none" \/ answers[r] # 0 => r \in Elems(asked)

AnsweredOnce ==
    /\ \A r \in Requests : answers[r] <= 1
    /\ \A r \in Requests : handler[r] \in Live => answers[r] = 0

NothingLost ==
    wired => /\ Stop \notin Elems(inbox)
             /\ \A r \in Elems(asked) : \/ Waiting(r)
                                        \/ handler[r] \in Live
                                        \/ answers[r] # 0

Located == OneCarrier /\ KnownRequests /\ AnsweredOnce /\ NothingLost

(* What the counter m_execInFlight stands for.                             *)
Counted ==
    /\ IsFiniteSet(Registered)
    /\ inFlight = Cardinality(Registered)
    /\ inFlight <= MaxConcurrent
    /\ running => \A r \in completed : handler[r] = "Done"
    /\ ~running => pending = <<>> /\ Registered = {}
    /\ pc = "loop" /\ pending # <<>> => inFlight = MaxConcurrent

IInv == TypeOK /\ Located /\ Counted
-----------------------------------------------------------------------------
(* Before the first command there is none to lose.                         *)
LEMMA LocatedInit == Init => Located
<1> SUFFICES ASSUME Init PROVE Located
  OBVIOUS
<1>1. inbox = <<>> /\ pending = <<>> /\ asked = <<>>
  BY DEF Init
<1>2. \A r \in Requests : handler[r] = "none" /\ answers[r] = 0
  BY DEF Init
<1> QED
  BY <1>1, <1>2, ElemsOfEmpty
     DEF Located, OneCarrier, KnownRequests, AnsweredOnce, NothingLost, Live

(* Session::execCommand puts a request where none was. *)
LEMMA LocatedRequest ==
    ASSUME TypeOK, Located, NEW r \in Requests, Request(r)
    PROVE  Located'
<1> USE DEF poolVars, ioVars, threadVars
<1>1. Elems(asked') = Elems(asked) \cup {r} /\ r \notin Elems(asked)
  BY ElemsOfAppend DEF TypeOK, Request
<1>2. /\ handler' = handler /\ pending' = pending /\ wired' = wired
      /\ handler[r] = "none" /\ answers[r] = 0 /\ r \notin Elems(pending)
      /\ r \notin Elems(inbox)
  BY StopAssumption DEF Request, Located, KnownRequests
<1>3. CASE wired
  <2>1. inbox' = Append(inbox, r) /\ answers' = answers
    BY <1>3 DEF Request
  <2>2. Elems(inbox') = Elems(inbox) \cup {r} /\ Distinct(inbox')
    BY <1>2, <2>1, ElemsOfAppend, DistinctAppend DEF TypeOK, Located, OneCarrier
  <2>3. OneCarrier' /\ KnownRequests' /\ AnsweredOnce'
    BY <1>1, <1>2, <2>1, <2>2 DEF Located, OneCarrier, KnownRequests, AnsweredOnce
  <2>4. NothingLost'
    BY <1>1, <1>2, <2>1, <2>2, StopAssumption DEF Located, NothingLost, Waiting
  <2> QED
    BY <2>3, <2>4 DEF Located
<1>4. CASE ~wired
  <2>1. inbox' = inbox /\ answers' = [answers EXCEPT ![r] = @ + 1]
    BY <1>4 DEF Request
  <2>2. answers'[r] = 1 /\ \A q \in Requests \ {r} : answers'[q] = answers[q]
    BY <1>2, <2>1 DEF TypeOK
  <2>3. OneCarrier' /\ KnownRequests' /\ AnsweredOnce'
    BY <1>1, <1>2, <2>1, <2>2 DEF Located, OneCarrier, KnownRequests, AnsweredOnce, Live
  <2>4. NothingLost'
    BY <1>2, <1>4 DEF NothingLost
  <2> QED
    BY <2>3, <2>4 DEF Located
<1> QED
  BY <1>3, <1>4

(* Once the session has let go of its worker nothing is owed to it. *)
LEMMA LocatedRelease ==
    ASSUME TypeOK, Located, Release \/ ReleaseDisconnected
    PROVE  Located'
<1> USE DEF poolVars, ioVars
<1>1. UNCHANGED <<asked, answers, pending, handler>> /\ ~wired'
  BY DEF Release, ReleaseDisconnected
<1>2. NothingLost'
  BY <1>1 DEF NothingLost
<1>3. CASE Release
  <2>1. inbox' = Append(inbox, Stop) /\ Stop \notin Elems(inbox)
    BY <1>3 DEF Release, Located, NothingLost
  <2>2. Elems(inbox') = Elems(inbox) \cup {Stop} /\ Distinct(inbox')
    BY <2>1, ElemsOfAppend, DistinctAppend DEF TypeOK, Located, OneCarrier
  <2>3. Stop \notin Elems(pending)
    BY ElemsType, StopAssumption DEF TypeOK
  <2>4. OneCarrier' /\ KnownRequests' /\ AnsweredOnce'
    BY <1>1, <2>1, <2>2, <2>3, StopAssumption
       DEF Located, OneCarrier, KnownRequests, AnsweredOnce
  <2> QED
    BY <1>2, <2>4 DEF Located
<1>4. CASE ReleaseDisconnected
  <2>1. inbox' = inbox
    BY <1>4 DEF ReleaseDisconnected
  <2>2. OneCarrier' /\ KnownRequests' /\ AnsweredOnce'
    BY <1>1, <2>1 DEF Located, OneCarrier, KnownRequests, AnsweredOnce
  <2> QED
    BY <1>2, <2>2 DEF Located
<1> QED
  BY <1>3, <1>4

(* A request that leaves the queues gets its handler, or its answer. *)
LEMMA LocatedDeparture ==
    ASSUME TypeOK, Located, NEW r \in Requests,
           r \in Elems(inbox) \/ r \in Elems(pending),
           Elems(inbox') = Elems(inbox) \ {r},
           Elems(pending') = Elems(pending) \ {r},
           Distinct(inbox'), Distinct(pending'),
           UNCHANGED <<asked, wired>>,
           StartExecHandler(r) \/ (Emit({r}) /\ UNCHANGED handler)
    PROVE  Located'
<1>1. handler[r] = "none" /\ answers[r] = 0 /\ r \in Elems(asked) /\ r # Stop
  BY StopAssumption DEF Located, OneCarrier, KnownRequests
<1>2. CASE Emit({r}) /\ UNCHANGED handler
  <2>1. \A q \in Requests \ {r} : answers'[q] = answers[q]
    BY <1>2 DEF Emit
  <2>2. answers'[r] \in {0, 1} /\ (wired => answers'[r] = 1)
    BY <1>1, <1>2 DEF Emit, TypeOK
  <2>3. OneCarrier' /\ KnownRequests' /\ AnsweredOnce'
    BY <1>1, <1>2, <2>1, <2>2
       DEF Located, OneCarrier, KnownRequests, AnsweredOnce, Live
  <2>4. NothingLost'
    <3>1. wired' => Stop \notin Elems(inbox')
      BY <1>1, <1>2, <2>1, <2>2 DEF Located, NothingLost, Waiting
    <3>2. ASSUME wired', NEW q \in Elems(asked')
          PROVE  (Waiting(q) \/ handler[q] \in Live \/ answers[q] # 0)'
      <4> q \in Requests
        BY <3>2, ElemsType DEF TypeOK
      <4> QED
        BY <3>2, <1>1, <1>2, <2>1, <2>2 DEF Located, NothingLost, Waiting
    <3> QED
      BY <3>1, <3>2 DEF NothingLost
  <2> QED
    BY <2>3, <2>4 DEF Located
<1>3. CASE handler' = [handler EXCEPT ![r] = "Opening"] /\ UNCHANGED answers
  <2>1. handler'[r] = "Opening" /\ \A q \in Requests \ {r} : handler'[q] = handler[q]
    BY <1>3 DEF TypeOK
  <2>2. OneCarrier' /\ KnownRequests' /\ AnsweredOnce'
    BY <1>1, <1>3, <2>1 DEF Located, OneCarrier, KnownRequests, AnsweredOnce, Live
  <2>3. NothingLost'
    <3>1. wired' => Stop \notin Elems(inbox')
      BY <1>1, <1>3, <2>1 DEF Located, NothingLost, Waiting, Live
    <3>2. ASSUME wired', NEW q \in Elems(asked')
          PROVE  (Waiting(q) \/ handler[q] \in Live \/ answers[q] # 0)'
      <4> q \in Requests
        BY <3>2, ElemsType DEF TypeOK
      <4> QED
        BY <3>2, <1>1, <1>3, <2>1 DEF Located, NothingLost, Waiting, Live
    <3> QED
      BY <3>1, <3>2 DEF NothingLost
  <2> QED
    BY <2>2, <2>3 DEF Located
<1> QED
  BY <1>2, <1>3 DEF StartExecHandler, ioVars

(* The execCommand slot starts, queues or refuses the command it takes.    *)
LEMMA LocatedExecCommand ==
    ASSUME TypeOK, Located, ExecCommand
    PROVE  Located'
<1> DEFINE r == Head(inbox)
<1>1. inbox \in Seq(Requests \cup {Stop}) /\ inbox # <<>> /\ inbox' = Tail(inbox)
  BY DEF TypeOK, ExecCommand, AllBusy
<1>2. /\ Elems(inbox) = {r} \cup Elems(inbox') /\ r \notin Elems(inbox')
      /\ Distinct(inbox')
  BY <1>1, ElemsOfTail DEF Located, OneCarrier
<1>3. r \in Requests /\ r \in Elems(inbox) /\ r \notin Elems(pending)
  BY <1>1, <1>2, ElemsType DEF ExecCommand, Located, OneCarrier, AllBusy
<1>4. Distinct(pending) /\ UNCHANGED <<asked, wired>>
  BY DEF ExecCommand, Located, OneCarrier, AllBusy
<1>5. CASE pending' = pending /\ (StartExecHandler(r) \/ (Emit({r}) /\ UNCHANGED handler))
  <2>1. Elems(inbox') = Elems(inbox) \ {r} /\ Elems(pending') = Elems(pending) \ {r}
    BY <1>2, <1>3, <1>5
  <2> HIDE DEF r
  <2> QED
    BY <1>2, <1>3, <1>4, <1>5, <2>1, LocatedDeparture
<1>6. CASE pending' = Append(pending, r) /\ UNCHANGED <<answers, ioVars>>
  <2> HIDE DEF r
  <2>1. Elems(pending') = Elems(pending) \cup {r} /\ Distinct(pending')
    BY <1>3, <1>4, <1>6, ElemsOfAppend, DistinctAppend DEF TypeOK
  <2>2. OneCarrier' /\ KnownRequests' /\ AnsweredOnce'
    BY <1>2, <1>3, <1>4, <1>6, <2>1, StopAssumption
       DEF Located, OneCarrier, KnownRequests, AnsweredOnce, ioVars
  <2>3. NothingLost'
    BY <1>2, <1>3, <1>4, <1>6, <2>1 DEF Located, NothingLost, Waiting, ioVars
  <2> QED
    BY <2>2, <2>3 DEF Located
<1> QED
  BY <1>5, <1>6 DEF ExecCommand, poolVars, ioVars, AllBusy

(* The refill loop moves the head of the queue, or fails the whole queue.  *)
LEMMA LocatedRefill ==
    ASSUME TypeOK, Located, Refill
    PROVE  Located'
<1>1. UNCHANGED <<asked, wired, inbox>>
  BY DEF Refill
<1>2. CASE UNCHANGED <<answers, poolVars, ioVars>>
  BY <1>1, <1>2 DEF Located, OneCarrier, KnownRequests, AnsweredOnce, NothingLost,
                    Waiting, poolVars, ioVars
<1>3. CASE Emit(Elems(pending)) /\ pending' = <<>> /\ UNCHANGED handler
  <2>1. \A q \in Requests : /\ q \notin Elems(pending) => answers'[q] = answers[q]
                            /\ q \in Elems(pending) => answers'[q] \in {0, 1}
                            /\ q \in Elems(pending) /\ wired => answers'[q] = 1
    BY <1>3 DEF Emit, TypeOK, Located, OneCarrier
  <2>2. Elems(pending') = {} /\ Distinct(pending')
    BY <1>3, ElemsOfEmpty
  <2>3. OneCarrier' /\ KnownRequests' /\ AnsweredOnce'
    BY <1>1, <1>3, <2>1, <2>2
       DEF Located, OneCarrier, KnownRequests, AnsweredOnce, Live
  <2>4. NothingLost'
    <3>1. wired' => Stop \notin Elems(inbox')
      BY <1>1, <1>3, <2>1 DEF Located, NothingLost, Waiting
    <3>2. ASSUME wired', NEW q \in Elems(asked')
          PROVE  (Waiting(q) \/ handler[q] \in Live \/ answers[q] # 0)'
      <4> q \in Requests
        BY <1>1, <3>2, ElemsType DEF TypeOK
      <4> QED
        BY <3>2, <1>1, <1>3, <2>1 DEF Located, NothingLost, Waiting
    <3> QED
      BY <3>1, <3>2 DEF NothingLost
  <2> QED
    BY <2>3, <2>4 DEF Located
<1>4. CASE pending # <<>> /\ pending' = Tail(pending) /\ StartExecHandler(Head(pending))
  <2> DEFINE r == Head(pending)
  <2>1. /\ Elems(pending) = {r} \cup Elems(pending') /\ r \notin Elems(pending')
        /\ Distinct(pending')
    BY <1>4, ElemsOfTail DEF TypeOK, Located, OneCarrier
  <2>2. r \in Requests /\ r \in Elems(pending) /\ r \notin Elems(inbox)
    BY <2>1, ElemsType DEF TypeOK, Located, OneCarrier
  <2>3. Elems(inbox') = Elems(inbox) \ {r} /\ Elems(pending') = Elems(pending) \ {r}
    BY <1>1, <2>1, <2>2
  <2>4. Distinct(inbox')
    BY <1>1 DEF Located, OneCarrier
  <2>5. StartExecHandler(r)
    BY <1>4
  <2> HIDE DEF r
  <2> QED
    BY <1>1, <2>1, <2>2, <2>3, <2>4, <2>5, LocatedDeparture
<1> QED
  BY <1>2, <1>3, <1>4 DEF Refill, ioVars

(* cleanup answers the queued and the running requests, and no other. *)
LEMMA LocatedDisconnect ==
    ASSUME TypeOK, Located, DisconnectSession,
           Distinct(inbox'), Elems(inbox') \subseteq Elems(inbox),
           Elems(inbox) \subseteq Elems(inbox') \cup {Stop}
    PROVE  Located'
<1>1. /\ pending' = <<>> /\ UNCHANGED <<asked, wired>>
      /\ \A q \in Requests : handler'[q] = "none"
  BY DEF DisconnectSession, Dropped
<1>2. \A q \in Requests :
        /\ q \notin Elems(pending) /\ handler[q] \notin Live => answers'[q] = answers[q]
        /\ q \in Elems(pending) \/ handler[q] \in Live =>
             answers[q] = 0 /\ answers'[q] \in {0, 1} /\ (wired => answers'[q] = 1)
  BY DEF DisconnectSession, Emit, TypeOK, Working, Located, OneCarrier, AnsweredOnce, Dropped
<1>3. Elems(pending') = {} /\ Distinct(pending')
  BY <1>1, ElemsOfEmpty
<1>4. \A q \in Requests : q \in Elems(inbox') => q \notin Elems(pending) /\ handler[q] = "none"
  BY DEF Located, OneCarrier
<1>5. OneCarrier'
  BY <1>1, <1>2, <1>3, <1>4 DEF Located, OneCarrier, Live
<1>6. KnownRequests'
  BY <1>1, <1>2, <1>3 DEF Located, KnownRequests, Live
<1>7. AnsweredOnce'
  BY <1>1, <1>2 DEF Located, AnsweredOnce, Live
<1>8. NothingLost'
  <2>1. wired' => Stop \notin Elems(inbox')
    BY <1>1 DEF Located, NothingLost
  <2>2. ASSUME wired', NEW q \in Elems(asked')
        PROVE  (Waiting(q) \/ handler[q] \in Live \/ answers[q] # 0)'
    <3>1. q \in Requests /\ q # Stop
      BY <1>1, <2>2, ElemsType, StopAssumption DEF TypeOK
    <3> QED
      BY <1>1, <1>2, <2>2, <3>1 DEF Located, NothingLost, Waiting
  <2> QED
    BY <2>1, <2>2 DEF NothingLost
<1> QED
  BY <1>5, <1>6, <1>7, <1>8 DEF Located

(* A handler that reports its result is answered here and nowhere else. *)
LEMMA LocatedFinish ==
    ASSUME TypeOK, Located, NEW r \in Requests, handler[r] \in Live, Finish(r),
           UNCHANGED <<asked, wired, inbox, pending>>
    PROVE  Located'
<1>1. handler'[r] = "Done" /\ \A q \in Requests \ {r} : handler'[q] = handler[q]
  BY DEF Finish, TypeOK
<1>2. /\ answers[r] = 0 /\ answers'[r] \in {0, 1} /\ (wired => answers'[r] = 1)
      /\ \A q \in Requests \ {r} : answers'[q] = answers[q]
  BY DEF Finish, Emit, TypeOK, Located, AnsweredOnce
<1>3. r \notin Elems(inbox) /\ r \notin Elems(pending)
  BY DEF Located, OneCarrier, Live
<1>4. OneCarrier' /\ KnownRequests' /\ AnsweredOnce'
  BY <1>1, <1>2, <1>3 DEF Located, OneCarrier, KnownRequests, AnsweredOnce, Live
<1>5. ASSUME wired', NEW q \in Elems(asked')
      PROVE  (Waiting(q) \/ handler[q] \in Live \/ answers[q] # 0)'
  <2> q \in Requests
    BY <1>5, ElemsType DEF TypeOK
  <2> QED
    BY <1>1, <1>2, <1>5 DEF Located, NothingLost, Waiting
<1>6. NothingLost'
  BY <1>5 DEF Located, NothingLost
<1> QED
  BY <1>4, <1>6 DEF Located

(* No other step of a handler moves a request. *)
LEMMA LocatedHandlerStep ==
    ASSUME TypeOK, Located, handler' \in [Requests -> HandlerState],
           \A q \in Requests : /\ handler[q] \in Live <=> handler'[q] \in Live
                               /\ handler[q] = "none" => handler'[q] = "none",
           UNCHANGED <<asked, wired, answers, inbox, pending>>
    PROVE  Located'
<1>1. OneCarrier' /\ KnownRequests' /\ AnsweredOnce'
  BY DEF Located, OneCarrier, KnownRequests, AnsweredOnce
<1>2. ASSUME wired', NEW q \in Elems(asked')
      PROVE  (Waiting(q) \/ handler[q] \in Live \/ answers[q] # 0)'
  <2> q \in Requests
    BY <1>2, ElemsType DEF TypeOK
  <2> QED
    BY <1>2 DEF Located, NothingLost, Waiting
<1> QED
  BY <1>1, <1>2 DEF Located, NothingLost

(* No step of the pool loses or duplicates a request.                      *)
LEMMA LocatedNext ==
    ASSUME TypeOK, Located, Counted, [Next]_vars
    PROVE  Located'
<1> USE DEF guiVars, poolVars, ioVars, threadVars
<1>1. CASE \E r \in Requests : Request(r)
  BY <1>1, LocatedRequest
<1>2. CASE Release \/ ReleaseDisconnected
  BY <1>2, LocatedRelease
<1>3. CASE ExecCommand
  BY <1>3, LocatedExecCommand
<1>4. CASE Refill
  BY <1>4, LocatedRefill
<1>5. CASE Disconnect
  <2>1. inbox # <<>> /\ inbox' = Tail(inbox) /\ Head(inbox) = Stop
    BY <1>5 DEF Disconnect
  <2>2. Elems(inbox) = {Stop} \cup Elems(inbox') /\ Distinct(inbox')
    BY <2>1, ElemsOfTail DEF TypeOK, Located, OneCarrier
  <2> QED
    BY <1>5, <2>2, LocatedDisconnect DEF Disconnect
<1>6. CASE LoopEnds
  <2>1. Elems(inbox') = Elems(inbox) /\ Distinct(inbox')
    BY <1>6 DEF LoopEnds, Located, OneCarrier
  <2> QED
    BY <1>6, <2>1, LocatedDisconnect DEF LoopEnds
<1>7. ASSUME NEW r \in Requests, Fail(r) \/ TryFinish(r)
      PROVE  Located'
  BY <1>7, LocatedFinish DEF Fail, TryFinish, Idle
<1>8. ASSUME NEW r \in Requests, ExecHandlerFinished(r)
      PROVE  Located'
  <2>1. handler[r] \notin Live
    BY <1>8 DEF ExecHandlerFinished, Counted, Registered, Live, SlotFreed
  <2>2. handler'[r] = "none" /\ \A q \in Requests \ {r} : handler'[q] = handler[q]
    BY <1>8 DEF ExecHandlerFinished, TypeOK, SlotFreed
  <2>3. handler' \in [Requests -> HandlerState]
    BY <1>8 DEF ExecHandlerFinished, TypeOK, HandlerState, SlotFreed
  <2>4. UNCHANGED <<asked, wired, answers, inbox, pending>>
    BY <1>8 DEF ExecHandlerFinished, SlotFreed
  <2>5. \A q \in Requests : /\ handler[q] \in Live <=> handler'[q] \in Live
                            /\ handler[q] = "none" => handler'[q] = "none"
    BY <2>1, <2>2 DEF Live
  <2> QED
    BY <2>3, <2>4, <2>5, LocatedHandlerStep
<1>9. ASSUME NEW r \in Requests, Advance(r)
      PROVE  Located'
  <2>1. /\ handler[r] \in Live /\ handler'[r] \in Live
        /\ \A q \in Requests \ {r} : handler'[q] = handler[q]
    BY <1>9 DEF Advance, Idle, TypeOK, Live
  <2>2. handler' \in [Requests -> HandlerState]
    BY <1>9 DEF Advance, TypeOK, HandlerState, Live
  <2>3. UNCHANGED <<asked, wired, answers, inbox, pending>>
    BY <1>9 DEF Advance
  <2>4. \A q \in Requests : /\ handler[q] \in Live <=> handler'[q] \in Live
                            /\ handler[q] = "none" => handler'[q] = "none"
    BY <2>1 DEF Live
  <2> QED
    BY <2>2, <2>3, <2>4, LocatedHandlerStep
<1>10. CASE \/ \E r \in Requests : ChannelReports(r)
            \/ ThreadEnds \/ ConnectionLost \/ UNCHANGED vars
  <2>1. UNCHANGED <<asked, wired, answers, inbox, pending, handler>>
    BY <1>10 DEF ChannelReports, ThreadEnds, ConnectionLost, vars
  <2>2. handler' \in [Requests -> HandlerState]
    BY <2>1 DEF TypeOK
  <2> QED
    BY <2>1, <2>2, LocatedHandlerStep
<1> QED
  BY <1>1, <1>2, <1>3, <1>4, <1>5, <1>6, <1>7, <1>8, <1>9, <1>10
     DEF Next, Gui, Slots, Handlers
-----------------------------------------------------------------------------
(* At first no slot is taken.                                              *)
LEMMA CountedInit == Init => Counted
<1> SUFFICES ASSUME Init PROVE Counted
  OBVIOUS
<1>1. Registered = {}
  BY DEF Init, Registered
<1>2. IsFiniteSet(Registered) /\ Cardinality(Registered) = 0
  BY <1>1, FS_EmptySet
<1>3. inFlight = 0 /\ pending = <<>> /\ completed = {} /\ running
  BY DEF Init
<1> QED
  BY <1>1, <1>2, <1>3, MaxAssumption DEF Counted

(* Starting a handler in a free slot keeps the count. *)
LEMMA CountedStart ==
    ASSUME TypeOK, Counted, NEW r \in Requests, StartExecHandler(r),
           handler[r] = "none", inFlight < MaxConcurrent, running,
           UNCHANGED <<running, completed>>,
           pc' = "loop" => pending' = <<>>
    PROVE  Counted'
<1>1. CASE handler' = [handler EXCEPT ![r] = "Opening"] /\ inFlight' = inFlight + 1
  <2>1. Registered' = Registered \cup {r} /\ r \notin Registered
    BY <1>1 DEF TypeOK, Registered
  <2>2. /\ IsFiniteSet(Registered')
        /\ Cardinality(Registered') = Cardinality(Registered) + 1
    BY <2>1, FS_AddElement DEF Counted
  <2>3. \A q \in completed : handler'[q] = "Done"
    BY <1>1 DEF TypeOK, Counted
  <2> QED
    BY <1>1, <2>2, <2>3, MaxAssumption DEF TypeOK, Counted
<1>2. CASE UNCHANGED <<handler, inFlight>>
  <2>1. Registered' = Registered
    BY <1>2 DEF Registered
  <2> QED
    BY <1>2, <2>1 DEF Counted
<1> QED
  BY <1>1, <1>2 DEF StartExecHandler, ioVars

(* cleanup resets the count and removes the handlers together.             *)
LEMMA CountedDisconnect ==
    ASSUME TypeOK, Counted, DisconnectSession
    PROVE  Counted'
<1>1. Registered' = {} /\ pending' = <<>> /\ inFlight' = 0 /\ ~running'
  BY DEF DisconnectSession, Registered, Dropped
<1>2. IsFiniteSet(Registered') /\ Cardinality(Registered') = 0
  BY <1>1, FS_EmptySet
<1> QED
  BY <1>1, <1>2, MaxAssumption DEF Counted

(* The execCommand slot queues a command only when all slots are taken.    *)
LEMMA CountedExecCommand ==
    ASSUME TypeOK, Located, Counted, ExecCommand
    PROVE  Counted'
<1>1. UNCHANGED <<pc, running, completed>> /\ pc = "loop"
  BY DEF ExecCommand, threadVars, AllBusy
<1>2. CASE UNCHANGED <<poolVars, ioVars>>
  <2>1. Registered' = Registered
    BY <1>2 DEF Registered, ioVars
  <2> QED
    BY <1>1, <1>2, <2>1 DEF Counted, poolVars, ioVars
<1>3. CASE Usable /\ inFlight >= MaxConcurrent /\ UNCHANGED <<inFlight, ioVars>>
  <2>1. Registered' = Registered /\ inFlight = MaxConcurrent
    BY <1>3, MaxAssumption DEF Registered, ioVars, Counted, TypeOK
  <2> QED
    BY <1>1, <1>3, <2>1 DEF Counted, Usable, ioVars
<1>4. CASE /\ Usable /\ inFlight < MaxConcurrent
           /\ StartExecHandler(Head(inbox)) /\ UNCHANGED pending
  <2> DEFINE r == Head(inbox)
  <2>1. r \in Requests /\ r \in Elems(inbox)
    BY ElemsOfTail DEF TypeOK, ExecCommand, AllBusy
  <2>2. handler[r] = "none"
    BY <2>1 DEF Located, OneCarrier
  <2>3. pending' = <<>>
    BY <1>1, <1>4, MaxAssumption DEF Counted, TypeOK
  <2>4. StartExecHandler(r) /\ inFlight < MaxConcurrent /\ running
    BY <1>4 DEF Usable
  <2> HIDE DEF r
  <2> QED
    BY <1>1, <2>1, <2>2, <2>3, <2>4, CountedStart
<1> QED
  BY <1>2, <1>3, <1>4, MaxAssumption DEF ExecCommand, AllBusy, TypeOK

(* The refill loop stops only at the limit or with an empty queue.         *)
LEMMA CountedRefill ==
    ASSUME TypeOK, Located, Counted, Refill
    PROVE  Counted'
<1>1. UNCHANGED <<running, completed>> /\ pc = "refill"
  BY DEF Refill, threadVars
<1>2. CASE inFlight >= MaxConcurrent \/ pending = <<>>
  <2>1. UNCHANGED <<poolVars, ioVars>>
    BY <1>2, MaxAssumption DEF Refill, TypeOK
  <2>2. Registered' = Registered
    BY <2>1 DEF Registered, ioVars
  <2>3. pending # <<>> => inFlight = MaxConcurrent
    BY <1>2, MaxAssumption DEF Counted, TypeOK
  <2> QED
    BY <1>1, <2>1, <2>2, <2>3 DEF Counted, poolVars, ioVars
<1>3. CASE inFlight < MaxConcurrent /\ pending # <<>> /\ ~Usable
  <2>1. pending' = <<>> /\ UNCHANGED <<inFlight, ioVars>>
    BY <1>3, MaxAssumption DEF Refill, TypeOK
  <2>2. Registered' = Registered
    BY <2>1 DEF Registered, ioVars
  <2> QED
    BY <1>1, <2>1, <2>2 DEF Counted, ioVars
<1>4. CASE inFlight < MaxConcurrent /\ pending # <<>> /\ Usable
  <2> DEFINE r == Head(pending)
  <2>1. StartExecHandler(r) /\ pc' = "refill" /\ running
    BY <1>1, <1>4, MaxAssumption DEF Refill, TypeOK, Usable
  <2>2. r \in Requests /\ r \in Elems(pending)
    BY <1>4, ElemsOfTail DEF TypeOK
  <2>3. handler[r] = "none"
    BY <2>2 DEF Located, OneCarrier
  <2> HIDE DEF r
  <2> QED
    BY <1>1, <1>4, <2>1, <2>2, <2>3, CountedStart
<1> QED
  BY <1>2, <1>3, <1>4, MaxAssumption DEF TypeOK

(* The completion slot of a handler gives its slot back, once. *)
LEMMA CountedFinished ==
    ASSUME TypeOK, Counted, NEW r \in Requests, ExecHandlerFinished(r)
    PROVE  Counted'
<1>1. /\ pc' = "refill" /\ UNCHANGED <<running, pending>>
      /\ Registered' = Registered \ {r}
      /\ r \in completed /\ completed' = completed \ {r}
      /\ \A q \in Requests \ {r} : handler'[q] = handler[q]
  BY DEF ExecHandlerFinished, threadVars, Registered, TypeOK, SlotFreed
<1>2. /\ IsFiniteSet(Registered')
      /\ Cardinality(Registered') =
           IF r \in Registered THEN Cardinality(Registered) - 1 ELSE Cardinality(Registered)
  BY <1>1, FS_RemoveElement DEF Counted
<1>3. \A q \in completed' : running => handler'[q] = "Done"
  BY <1>1 DEF Counted, TypeOK
<1>4. CASE running
  <2>1. r \in Registered
    BY <1>1, <1>4 DEF Counted, Registered
  <2>2. inFlight > 0
    BY <2>1, FS_EmptySet DEF Counted, TypeOK
  <2>3. inFlight' = inFlight - 1
    BY <2>2 DEF ExecHandlerFinished, SlotFreed
  <2> QED
    BY <1>1, <1>2, <1>3, <1>4, <2>1, <2>3, MaxAssumption DEF Counted, TypeOK
<1>5. CASE ~running
  <2>1. Registered = {} /\ inFlight = 0
    BY <1>5, FS_EmptySet DEF Counted
  <2>2. inFlight' = 0
    BY <2>1 DEF ExecHandlerFinished, SlotFreed
  <2> QED
    BY <1>1, <1>2, <1>5, <2>1, <2>2, MaxAssumption DEF Counted
<1> QED
  BY <1>4, <1>5

(* A handler that finishes keeps its slot until its completion slot runs.  *)
LEMMA CountedFinish ==
    ASSUME TypeOK, Counted, NEW r \in Requests, handler[r] \in Live, Finish(r),
           UNCHANGED <<pc, threadVars, poolVars>>
    PROVE  Counted'
<1>1. handler'[r] = "Done" /\ \A q \in Requests \ {r} : handler'[q] = handler[q]
  BY DEF Finish, TypeOK
<1>2. Registered' = Registered
  BY <1>1 DEF Registered, Live
<1>3. running => \A q \in completed' : handler'[q] = "Done"
  BY <1>1 DEF Finish, Counted, TypeOK
<1> QED
  BY <1>2, <1>3 DEF Counted, threadVars, poolVars

(* Every step of the pool keeps the count.                                 *)
LEMMA CountedNext ==
    ASSUME TypeOK, Located, Counted, [Next]_vars
    PROVE  Counted'
<1> USE DEF guiVars, poolVars, ioVars, threadVars
<1>1. CASE ExecCommand
  BY <1>1, CountedExecCommand
<1>2. CASE Refill
  BY <1>2, CountedRefill
<1>3. CASE Disconnect \/ LoopEnds
  BY <1>3, CountedDisconnect DEF Disconnect, LoopEnds
<1>4. ASSUME NEW r \in Requests, ExecHandlerFinished(r) PROVE Counted'
  BY <1>4, CountedFinished
<1>5. ASSUME NEW r \in Requests, Fail(r) \/ TryFinish(r) PROVE Counted'
  BY <1>5, CountedFinish DEF Fail, TryFinish, Idle
<1>6. ASSUME NEW r \in Requests, Advance(r) PROVE Counted'
  <2>1. /\ handler[r] \in Live /\ handler'[r] \in Live
        /\ \A q \in Requests \ {r} : handler'[q] = handler[q]
        /\ UNCHANGED <<poolVars, threadVars, pc, completed>>
    BY <1>6 DEF Advance, Idle, TypeOK, Live
  <2>2. Registered' = Registered
    BY <2>1 DEF Registered, Live
  <2>3. running => \A q \in completed' : handler'[q] = "Done"
    BY <2>1 DEF Counted, Live, TypeOK
  <2> QED
    BY <2>1, <2>2, <2>3 DEF Counted
<1>7. CASE \/ \E r \in Requests : Request(r) \/ ChannelReports(r)
           \/ Release \/ ReleaseDisconnected
           \/ ThreadEnds \/ ConnectionLost \/ UNCHANGED vars
  <2>1. UNCHANGED <<handler, poolVars, pc, running, completed>>
    BY <1>7 DEF Request, ChannelReports, Release, ReleaseDisconnected, ThreadEnds,
                ConnectionLost, vars
  <2>2. Registered' = Registered
    BY <2>1 DEF Registered
  <2> QED
    BY <2>1, <2>2 DEF Counted
<1> QED
  BY <1>1, <1>2, <1>3, <1>4, <1>5, <1>6, <1>7 DEF Next, Gui, Slots, Handlers
-----------------------------------------------------------------------------
(* The inductive invariant of the pool: every reachable state satisfies it. *)
THEOREM Invariance == Spec => []IInv
<1>1. Init => IInv
  BY TypeInit, LocatedInit, CountedInit DEF IInv
<1>2. IInv /\ [Next]_vars => IInv'
  BY TypeNext, LocatedNext, CountedNext DEF IInv
<1> QED
  BY <1>1, <1>2, PTL DEF Spec

(* m_execInFlight always equals the number of handlers in the loop and     *)
(* never exceeds the limit, for every number of commands and every limit.  *)
THEOREM SlotsNeverLeak == Spec => []SlotsAccounted
<1>1. IInv => SlotsAccounted
  BY DEF IInv, Counted, SlotsAccounted
<1> QED
  BY <1>1, Invariance, PTL

(* Between two slots a command waits only while all slots are taken by     *)
(* handlers whose completion will look at the queue again.                 *)
THEOREM QueueNeverForgotten == Spec => []QueueHasAWaker
<1>1. IInv => QueueHasAWaker
  <2> SUFFICES ASSUME IInv, pc = "loop", pending # <<>>
               PROVE  inFlight = MaxConcurrent /\ Registered # {}
    BY DEF QueueHasAWaker
  <2>1. inFlight = MaxConcurrent /\ inFlight = Cardinality(Registered)
    BY DEF IInv, Counted
  <2>2. Registered # {}
    BY <2>1, FS_EmptySet, MaxAssumption
  <2> QED
    BY <2>1, <2>2
<1> QED
  BY <1>1, Invariance, PTL

(* A command has at most one answer, and while the session listens it is   *)
(* in exactly one place on the way to it.                                  *)
THEOREM NeverLostNorDuplicated == Spec => []EachRequestInOnePlace
<1>1. IInv => EachRequestInOnePlace
  <2> SUFFICES ASSUME IInv, wired, NEW r \in Elems(asked)
               PROVE  Cardinality(Places(r)) = 1
    BY DEF EachRequestInOnePlace, IInv, Located, AnsweredOnce
  <2>1. r \in Requests /\ r \in Elems(asked)
    BY ElemsType DEF IInv, TypeOK
  <2>2. answers[r] \in {0, 1}
    BY <2>1 DEF IInv, TypeOK, Located, AnsweredOnce
  <2>3. Waiting(r) \/ handler[r] \in Live \/ answers[r] # 0
    BY <2>1 DEF IInv, Located, NothingLost
  <2>4. CASE r \in Elems(inbox)
    <3>1. r \notin Elems(pending) /\ handler[r] \notin Live /\ ~(answers[r] > 0)
      BY <2>1, <2>4 DEF IInv, Located, OneCarrier, Live
    <3>2. Places(r) = {"inbox"}
      BY <2>4, <3>1 DEF Places
    <3> QED
      BY <3>2, FS_Singleton
  <2>5. CASE r \in Elems(pending)
    <3>1. r \notin Elems(inbox) /\ handler[r] \notin Live /\ ~(answers[r] > 0)
      BY <2>1, <2>5 DEF IInv, Located, OneCarrier, Live
    <3>2. Places(r) = {"pending"}
      BY <2>5, <3>1 DEF Places
    <3> QED
      BY <3>2, FS_Singleton
  <2>6. CASE handler[r] \in Live
    <3>1. r \notin Elems(inbox) /\ r \notin Elems(pending) /\ ~(answers[r] > 0)
      BY <2>1, <2>6 DEF IInv, Located, OneCarrier, AnsweredOnce, Live
    <3>2. Places(r) = {"handler"}
      BY <2>6, <3>1 DEF Places
    <3> QED
      BY <3>2, FS_Singleton
  <2>7. CASE answers[r] # 0
    <3>1. /\ r \notin Elems(inbox) /\ r \notin Elems(pending)
          /\ handler[r] \notin Live /\ answers[r] > 0
      BY <2>1, <2>2, <2>7 DEF IInv, Located, OneCarrier, AnsweredOnce, Live
    <3>2. Places(r) = {"answered"}
      BY <3>1 DEF Places
    <3> QED
      BY <3>2, FS_Singleton
  <2> QED
    BY <2>3, <2>4, <2>5, <2>6, <2>7 DEF Waiting
<1> QED
  BY <1>1, Invariance, PTL
-----------------------------------------------------------------------------
(* The refinement: every step of the pool is a step of the service or      *)
(* leaves what the callers can tell as it is.                              *)

serviceVar == [r \in Requests |-> ServiceStatus(r)]

(* The Cardinality that ExecService sees is the usual one.                 *)
LEMMA ServiceCardinality ==
    ASSUME NEW S
    PROVE  Service!Cardinality(S) = Cardinality(S)
  BY DEF Service!Cardinality, Cardinality

(* The pool starts where the service does.                                 *)
LEMMA ServiceInit == Init => Service!Init
<1> SUFFICES ASSUME Init PROVE Service!Init
  OBVIOUS
<1>1. \A r \in Requests : ServiceStatus(r) = "new"
  BY ElemsOfEmpty DEF Init, ServiceStatus
<1> QED
  BY <1>1 DEF Service!Init

(* After the release a status changes with an answer or a new request only. *)
LEMMA UnheardStep ==
    ASSUME ~wired, UNCHANGED <<asked, wired, answers>>
    PROVE  UNCHANGED serviceVar
  BY DEF serviceVar, ServiceStatus

(* The status of one request moves. *)
LEMMA ServiceMove ==
    ASSUME NEW r \in Requests, NEW to,
           ServiceStatus(r)' = to,
           \A q \in Requests \ {r} : ServiceStatus(q)' = ServiceStatus(q)
    PROVE  serviceVar' = [serviceVar EXCEPT ![r] = to]
<1>1. \A q \in Requests : serviceVar'[q] = IF q = r THEN to ELSE serviceVar[q]
  BY DEF serviceVar
<1> QED
  BY <1>1 DEF serviceVar

(* Session::execCommand is a submission, or a refusal at once.             *)
LEMMA ServiceRequest ==
    ASSUME IInv, NEW r \in Requests, Request(r)
    PROVE  Service!Next
<1>1. /\ Elems(asked') = Elems(asked) \cup {r} /\ r \notin Elems(asked)
      /\ UNCHANGED <<wired, handler>>
  BY ElemsOfAppend DEF IInv, TypeOK, Request, ioVars
<1>2. answers[r] = 0 /\ handler[r] = "none"
  BY <1>1 DEF IInv, Located, KnownRequests
<1>3. ServiceStatus(r) = "new"
  BY <1>1, <1>2 DEF ServiceStatus, IInv, TypeOK
<1>4. CASE wired
  <2>1. answers' = answers
    BY <1>4 DEF Request
  <2>2. ServiceStatus(r)' = "waiting"
    BY <1>1, <1>2, <1>4, <2>1 DEF ServiceStatus, Live
  <2>3. \A q \in Requests \ {r} : ServiceStatus(q)' = ServiceStatus(q)
    BY <1>1, <2>1 DEF ServiceStatus
  <2>4. serviceVar' = [serviceVar EXCEPT ![r] = "waiting"]
    BY <2>2, <2>3, ServiceMove
  <2> QED
    BY <1>3, <2>4 DEF Service!Next, Service!Submit, Service!Move, serviceVar
<1>5. CASE ~wired
  <2>1. answers' = [answers EXCEPT ![r] = @ + 1]
    BY <1>5 DEF Request
  <2>2. ServiceStatus(r)' = "answered"
    BY <1>2, <2>1 DEF ServiceStatus, IInv, TypeOK
  <2>3. \A q \in Requests \ {r} : ServiceStatus(q)' = ServiceStatus(q)
    BY <1>1, <2>1 DEF ServiceStatus, IInv, TypeOK
  <2>4. serviceVar' = [serviceVar EXCEPT ![r] = "answered"]
    BY <2>2, <2>3, ServiceMove
  <2> QED
    BY <1>3, <2>4 DEF Service!Next, Service!Answer, Service!Move, serviceVar
<1> QED
  BY <1>4, <1>5

(* Letting go of the worker abandons the open requests.                    *)
LEMMA ServiceRelease ==
    ASSUME IInv, Release \/ ReleaseDisconnected
    PROVE  Service!Next
<1>1. wired /\ ~wired' /\ UNCHANGED <<asked, answers>>
  BY DEF Release, ReleaseDisconnected
<1>2. \A q \in Requests :
        ServiceStatus(q)' = IF ServiceStatus(q) \in {"waiting", "active"}
                              THEN "abandoned" ELSE ServiceStatus(q)
  BY <1>1 DEF ServiceStatus
<1> QED
  BY <1>2 DEF Service!Next, Service!Abandon

(* A waiting request of a session that listens gets its handler or answer. *)
LEMMA ServiceDeparture ==
    ASSUME IInv, NEW r \in Requests, Waiting(r), UNCHANGED <<asked, wired>>,
           \/ StartExecHandler(r) /\ inFlight < MaxConcurrent
           \/ Emit({r}) /\ UNCHANGED handler
    PROVE  Service!Next \/ UNCHANGED serviceVar
<1>1. /\ handler[r] = "none" /\ answers[r] = 0 /\ r \in Elems(asked)
      /\ answers \in [Requests -> Nat] /\ handler \in [Requests -> HandlerState]
  BY StopAssumption DEF IInv, TypeOK, Located, OneCarrier, KnownRequests, Waiting
<1>2. CASE ~wired
  BY <1>2, UnheardStep DEF Emit, StartExecHandler
<1>3. CASE wired /\ Emit({r}) /\ UNCHANGED handler
  <2>1. answers'[r] = 1 /\ \A q \in Requests \ {r} : answers'[q] = answers[q]
    BY <1>1, <1>3 DEF Emit
  <2>2. ServiceStatus(r) = "waiting" /\ ServiceStatus(r)' = "answered"
    BY <1>1, <1>3, <2>1 DEF ServiceStatus, Live
  <2>3. \A q \in Requests \ {r} : ServiceStatus(q)' = ServiceStatus(q)
    BY <1>3, <2>1 DEF ServiceStatus
  <2>4. serviceVar' = [serviceVar EXCEPT ![r] = "answered"]
    BY <2>2, <2>3, ServiceMove
  <2> QED
    BY <2>2, <2>4 DEF Service!Next, Service!Answer, Service!Move, serviceVar
<1>4. CASE /\ wired /\ inFlight < MaxConcurrent
           /\ handler' = [handler EXCEPT ![r] = "Opening"] /\ UNCHANGED answers
  <2>1. handler'[r] = "Opening" /\ \A q \in Requests \ {r} : handler'[q] = handler[q]
    BY <1>1, <1>4
  <2>2. ServiceStatus(r) = "waiting" /\ ServiceStatus(r)' = "active"
    BY <1>1, <1>4, <2>1 DEF ServiceStatus, Live
  <2>3. \A q \in Requests \ {r} : ServiceStatus(q)' = ServiceStatus(q)
    BY <1>4, <2>1 DEF ServiceStatus
  <2>4. serviceVar' = [serviceVar EXCEPT ![r] = "active"]
    BY <2>2, <2>3, ServiceMove
  <2>5. {q \in Requests : serviceVar[q] = "active"} \subseteq Registered
    BY DEF serviceVar, ServiceStatus, Registered, Live
  <2>6. Cardinality({q \in Requests : serviceVar[q] = "active"}) <= inFlight
    BY <2>5, FS_Subset DEF IInv, Counted
  <2>7. Cardinality({q \in Requests : serviceVar[q] = "active"}) \in Nat
    BY <2>5, FS_Subset, FS_CardinalityType DEF IInv, Counted
  <2>8. Cardinality({q \in Requests : serviceVar[q] = "active"}) < MaxConcurrent
    BY <1>4, <2>6, <2>7, MaxAssumption DEF IInv, TypeOK
  <2>9. Service!Begin(r)
    <3>1. serviceVar[r] = "waiting"
      BY <2>2 DEF serviceVar
    <3> QED
      BY <2>4, <2>8, <3>1, ServiceCardinality DEF Service!Begin, Service!Running, Service!Move, serviceVar
  <2> QED
    BY <2>9 DEF Service!Next
<1> QED
  BY <1>2, <1>3, <1>4 DEF StartExecHandler, ioVars

(* Requests that fail together were waiting or active. *)
LEMMA ServiceFailures ==
    ASSUME IInv, NEW S \in SUBSET Requests, Emit(S), UNCHANGED <<asked, wired>>,
           \A r \in S : Waiting(r) \/ handler[r] \in Live,
           \A r \in Requests \ S : handler[r] \in Live <=> handler'[r] \in Live
    PROVE  Service!Next \/ UNCHANGED serviceVar
<1>1. CASE ~wired
  BY <1>1, UnheardStep DEF Emit
<1>2. CASE wired
  <2>1. \A r \in S : answers[r] = 0 /\ r \in Elems(asked)
    BY StopAssumption DEF IInv, Located, OneCarrier, KnownRequests, AnsweredOnce, Waiting, Live
  <2>2. \A r \in Requests : answers'[r] = IF r \in S THEN answers[r] + 1 ELSE answers[r]
    BY <1>2 DEF Emit
  <2>3. \A r \in S : ServiceStatus(r) \in {"waiting", "active"}
    BY <1>2, <2>1 DEF ServiceStatus
  <2>4. \A r \in S : ServiceStatus(r)' = "answered"
    BY <2>1, <2>2 DEF ServiceStatus
  <2>5. \A r \in Requests \ S : ServiceStatus(r)' = ServiceStatus(r)
    BY <1>2, <2>2 DEF ServiceStatus
  <2>6. S \in SUBSET {r \in Requests : serviceVar[r] \in {"waiting", "active"}}
    BY <2>3 DEF serviceVar
  <2>7. serviceVar' = [r \in Requests |-> IF r \in S THEN "answered" ELSE serviceVar[r]]
    BY <2>4, <2>5 DEF serviceVar
  <2> QED
    BY <2>6, <2>7 DEF Service!Next, Service!FailSome, serviceVar
<1> QED
  BY <1>1, <1>2 DEF IInv, TypeOK

(* No other step shows. *)
LEMMA HiddenStep ==
    ASSUME UNCHANGED <<asked, wired, answers>>,
           \A r \in Requests : handler[r] \in Live <=> handler'[r] \in Live
    PROVE  UNCHANGED serviceVar
  BY DEF serviceVar, ServiceStatus

(* Every step of the pool is a step of the service, or hidden from it.     *)
LEMMA ServiceStep == IInv /\ [Next]_vars => [Service!Next]_serviceVar
<1> SUFFICES ASSUME IInv, [Next]_vars PROVE Service!Next \/ UNCHANGED serviceVar
  OBVIOUS
<1> USE DEF guiVars, poolVars, ioVars, threadVars
<1>1. ASSUME NEW r \in Requests, Request(r) PROVE Service!Next
  BY <1>1, ServiceRequest
<1>2. CASE Release \/ ReleaseDisconnected
  BY <1>2, ServiceRelease
<1>3. CASE ExecCommand
  <2> DEFINE r == Head(inbox)
  <2>1. r \in Requests /\ Waiting(r) /\ UNCHANGED <<asked, wired>>
    BY <1>3, ElemsOfTail DEF ExecCommand, IInv, TypeOK, Waiting, AllBusy
  <2>2. \/ StartExecHandler(r) /\ inFlight < MaxConcurrent
        \/ Emit({r}) /\ UNCHANGED handler
        \/ UNCHANGED <<answers, handler>>
    BY <1>3, MaxAssumption DEF ExecCommand, AllBusy, IInv, TypeOK
  <2> HIDE DEF r
  <2> QED
    BY <2>1, <2>2, ServiceDeparture, HiddenStep
<1>4. CASE Refill
  <2>1. UNCHANGED <<asked, wired>>
    BY <1>4 DEF Refill
  <2>2. CASE UNCHANGED <<answers, handler>>
    BY <2>1, <2>2, HiddenStep
  <2>3. CASE Emit(Elems(pending)) /\ UNCHANGED handler
    <3>1. Elems(pending) \in SUBSET Requests
      BY ElemsType DEF IInv, TypeOK
    <3> QED
      BY <2>1, <2>3, <3>1, ServiceFailures DEF Waiting
  <2>4. CASE /\ pending # <<>> /\ inFlight < MaxConcurrent
             /\ StartExecHandler(Head(pending))
    <3> DEFINE r == Head(pending)
    <3>1. r \in Requests /\ Waiting(r) /\ StartExecHandler(r)
      BY <2>4, ElemsOfTail DEF IInv, TypeOK, Waiting
    <3> HIDE DEF r
    <3> QED
      BY <2>1, <2>4, <3>1, ServiceDeparture
  <2> QED
    BY <1>4, <2>2, <2>3, <2>4 DEF Refill
<1>5. CASE Disconnect \/ LoopEnds
  <2>1. DisconnectSession
    BY <1>5 DEF Disconnect, LoopEnds
  <2>2. Elems(pending) \cup Working \in SUBSET Requests
    BY ElemsType DEF IInv, TypeOK, Working
  <2>3. \A r \in Requests \ (Elems(pending) \cup Working) :
          handler[r] \in Live <=> handler'[r] \in Live
    BY <2>1 DEF DisconnectSession, Working, Live, Dropped
  <2>4. \A r \in Elems(pending) \cup Working : Waiting(r) \/ handler[r] \in Live
    BY DEF Waiting, Working
  <2>5. Emit(Elems(pending) \cup Working) /\ UNCHANGED <<asked, wired>>
    BY <2>1 DEF DisconnectSession, Dropped
  <2> QED
    BY <2>2, <2>3, <2>4, <2>5, ServiceFailures
<1>6. ASSUME NEW r \in Requests, Fail(r) \/ TryFinish(r)
      PROVE  Service!Next \/ UNCHANGED serviceVar
  <2>1. Finish(r) /\ handler[r] \in Live /\ UNCHANGED <<asked, wired>>
    BY <1>6 DEF Fail, TryFinish, Idle
  <2>2. Emit({r}) /\ {r} \in SUBSET Requests
    BY <2>1 DEF Finish
  <2>3. \A q \in Requests \ {r} : handler[q] \in Live <=> handler'[q] \in Live
    BY <2>1 DEF Finish, IInv, TypeOK
  <2>4. \A q \in {r} : Waiting(q) \/ handler[q] \in Live
    BY <2>1
  <2> QED
    BY <2>1, <2>2, <2>3, <2>4, ServiceFailures
<1>7. ASSUME NEW r \in Requests, ExecHandlerFinished(r)
      PROVE  UNCHANGED serviceVar
  <2>1. handler[r] \notin Live
    BY <1>7 DEF ExecHandlerFinished, IInv, Counted, Registered, Live, SlotFreed
  <2>2. \A q \in Requests : handler[q] \in Live <=> handler'[q] \in Live
    BY <1>7, <2>1 DEF ExecHandlerFinished, IInv, TypeOK, Live, SlotFreed
  <2> QED
    BY <1>7, <2>2, HiddenStep DEF ExecHandlerFinished, SlotFreed
<1>8. ASSUME NEW r \in Requests, Advance(r)
      PROVE  UNCHANGED serviceVar
  <2>1. /\ handler[r] \in Live /\ handler'[r] \in Live
        /\ \A q \in Requests \ {r} : handler'[q] = handler[q]
    BY <1>8 DEF Advance, Idle, IInv, TypeOK, Live
  <2> QED
    BY <1>8, <2>1, HiddenStep DEF Advance
<1>9. CASE \/ \E r \in Requests : ChannelReports(r)
           \/ ThreadEnds \/ ConnectionLost \/ UNCHANGED vars
  <2>1. UNCHANGED <<asked, wired, answers, handler>>
    BY <1>9 DEF ChannelReports, ThreadEnds, ConnectionLost, vars
  <2> QED
    BY <2>1, HiddenStep
<1> QED
  BY <1>1, <1>2, <1>3, <1>4, <1>5, <1>6, <1>7, <1>8, <1>9
     DEF Next, Gui, Slots, Handlers

(* The pool keeps the promise of Session::execCommand: its queue, slots,   *)
(* handlers and late completions are an implementation of ExecService.     *)
THEOREM PoolImplementsService == Spec => ServiceSpec
<1>1. Init => Service!Init
  BY ServiceInit
<1>2. IInv /\ [Next]_vars => [Service!Next]_serviceVar
  BY ServiceStep
<1> QED
  BY <1>1, <1>2, Invariance, PTL DEF Spec, ServiceSpec, Service!Spec, serviceVar
-----------------------------------------------------------------------------
(* The order of the commands: the strengthening of NoOvertaking.           *)
Before(q, r) == \E i, j \in 1..Len(asked) : i < j /\ asked[i] = q /\ asked[j] = r

(* A queue holds its commands in the order they were asked for.            *)
Sorted(s) == \A i, j \in 1..Len(s) :
                 i < j /\ s[i] # Stop /\ s[j] # Stop => Before(s[i], s[j])

Ordered ==
    /\ Distinct(asked)
    /\ Sorted(inbox) /\ Sorted(pending)
    /\ \A p \in Elems(pending), x \in Elems(inbox) \ {Stop} : Before(p, x)
    /\ \A r, q \in Requests : handler[r] # "none" /\ Waiting(q) => Before(r, q)

(* What a sorted queue keeps when its head is taken, or one is appended.   *)
LEMMA SortedTail ==
    ASSUME NEW S, NEW s \in Seq(S), s # <<>>, Sorted(s)
    PROVE  /\ Sorted(Tail(s))
           /\ Head(s) # Stop => \A x \in Elems(Tail(s)) \ {Stop} : Before(Head(s), x)
<1>1. Len(s) \in Nat \ {0} /\ Len(Tail(s)) = Len(s) - 1 /\ Head(s) = s[1]
  OBVIOUS
<1>2. \A i \in 1..Len(Tail(s)) : Tail(s)[i] = s[i + 1] /\ i + 1 \in 1..Len(s)
  BY <1>1
<1>3. Sorted(Tail(s))
  BY <1>1, <1>2 DEF Sorted
<1>4. ASSUME Head(s) # Stop, NEW x \in Elems(Tail(s)) \ {Stop}
      PROVE  Before(Head(s), x)
  <2>1. PICK i \in 1..Len(Tail(s)) : x = s[i + 1]
    BY <1>2 DEF Elems
  <2>2. 1 \in 1..Len(s) /\ i + 1 \in 1..Len(s) /\ 1 < i + 1
    BY <1>1, <1>2
  <2> QED
    BY <1>1, <1>4, <2>1, <2>2 DEF Sorted
<1> QED
  BY <1>3, <1>4

(* An item that comes after the whole queue may go to its end.            *)
LEMMA SortedAppend ==
    ASSUME NEW S, NEW s \in Seq(S), NEW x \in S, Sorted(s),
           x # Stop => \A y \in Elems(s) \ {Stop} : Before(y, x)
    PROVE  Sorted(Append(s, x))
<1>1. /\ Len(s) \in Nat /\ Len(Append(s, x)) = Len(s) + 1
      /\ Append(s, x)[Len(s) + 1] = x
      /\ \A i \in 1..Len(s) : Append(s, x)[i] = s[i]
  OBVIOUS
<1>2. \A i \in 1..Len(s) : s[i] \in Elems(s)
  BY DEF Elems
<1> SUFFICES ASSUME NEW i \in 1..Len(s) + 1, NEW j \in 1..Len(s) + 1, i < j,
                    Append(s, x)[i] # Stop, Append(s, x)[j] # Stop
             PROVE  Before(Append(s, x)[i], Append(s, x)[j])
  BY <1>1 DEF Sorted
<1>3. CASE j \in 1..Len(s)
  <2>1. i \in 1..Len(s)
    BY <1>1, <1>3
  <2> QED
    BY <1>1, <1>3, <2>1 DEF Sorted
<1>4. CASE j = Len(s) + 1
  <2>1. i \in 1..Len(s)
    BY <1>1, <1>4
  <2> QED
    BY <1>1, <1>2, <1>4, <2>1
<1> QED
  BY <1>1, <1>3, <1>4

(* Of two commands that were asked for once, one came first.               *)
LEMMA BeforeIsAntisymmetric ==
    ASSUME TypeOK, Distinct(asked), NEW i \in 1..Len(asked), NEW j \in 1..Len(asked),
           Before(asked[j], asked[i])
    PROVE  j < i
<1>1. PICK k, l \in 1..Len(asked) : k < l /\ asked[k] = asked[j] /\ asked[l] = asked[i]
  BY DEF Before
<1>2. k = j /\ l = i
  BY <1>1 DEF Distinct
<1> QED
  BY <1>1, <1>2

(* Sorted queues and no overtaker inside the pool mean no overtaking.      *)
LEMMA OrderedSuffices == TypeOK /\ Ordered => NoOvertaking
<1> SUFFICES ASSUME TypeOK, Ordered,
                    NEW i \in 1..Len(asked), NEW j \in 1..Len(asked),
                    i < j, Waiting(asked[i]), handler[asked[j]] # "none"
             PROVE  FALSE
  BY DEF NoOvertaking
<1>1. asked[i] \in Requests /\ asked[j] \in Requests
  BY DEF TypeOK
<1>2. Before(asked[j], asked[i])
  BY <1>1 DEF Ordered
<1>3. j < i
  BY <1>2, BeforeIsAntisymmetric DEF Ordered
<1> QED
  BY <1>3 DEF TypeOK

(* A step that asks for nothing and starts nothing, and takes from the     *)
(* queues or posts the disconnect, changes no order.                       *)
LEMMA OrderedQuiet ==
    ASSUME TypeOK, Ordered, asked' = asked,
           \/ inbox' = inbox
           \/ inbox # <<>> /\ inbox' = Tail(inbox)
           \/ inbox' = Append(inbox, Stop),
           pending' \in {pending, <<>>},
           \A r \in Requests : handler'[r] # "none" => handler[r] # "none"
    PROVE  Ordered'
<1>1. \A q, r : Before(q, r) <=> Before(q, r)'
  BY DEF Before
<1>2. inbox \in Seq(Requests \cup {Stop}) /\ Stop \in Requests \cup {Stop}
  BY DEF TypeOK
<1>3. /\ \A i, j \in 1..Len(inbox') : i < j /\ inbox'[i] # Stop /\ inbox'[j] # Stop
                                        => Before(inbox'[i], inbox'[j])
      /\ Elems(inbox') \ {Stop} \subseteq Elems(inbox) \ {Stop}
  <2>1. CASE inbox' = inbox
    BY <2>1 DEF Ordered, Sorted
  <2>2. CASE inbox # <<>> /\ inbox' = Tail(inbox)
    <3>1. Sorted(Tail(inbox)) /\ Elems(Tail(inbox)) \subseteq Elems(inbox)
      BY <1>2, <2>2, SortedTail, ElemsOfTail DEF Ordered
    <3> QED
      BY <2>2, <3>1 DEF Sorted
  <2>3. CASE inbox' = Append(inbox, Stop)
    <3>1. /\ Sorted(Append(inbox, Stop))
          /\ Elems(Append(inbox, Stop)) = Elems(inbox) \cup {Stop}
      BY <1>2, SortedAppend, ElemsOfAppend DEF Ordered
    <3> QED
      BY <2>3, <3>1 DEF Sorted
  <2> QED
    BY <2>1, <2>2, <2>3
<1>4. /\ \A i, j \in 1..Len(pending') : i < j /\ pending'[i] # Stop /\ pending'[j] # Stop
                                          => Before(pending'[i], pending'[j])
      /\ Elems(pending') \subseteq Elems(pending)
  <2>1. CASE pending' = pending
    BY <2>1 DEF Ordered, Sorted
  <2>2. CASE pending' = <<>>
    BY <2>2, ElemsOfEmpty
  <2> QED
    BY <2>1, <2>2
<1>5. \A q \in Requests : Waiting(q)' => Waiting(q)
  BY <1>3, <1>4, StopAssumption DEF Waiting
<1>6. Sorted(inbox)' /\ Sorted(pending)'
  BY <1>1, <1>3, <1>4 DEF Sorted
<1>7. /\ \A p \in Elems(pending'), x \in Elems(inbox') \ {Stop} : Before(p, x)
      /\ \A r, q \in Requests : handler'[r] # "none" /\ Waiting(q)' => Before(r, q)
  BY <1>3, <1>4, <1>5 DEF Ordered
<1>8. Distinct(asked)'
  BY DEF Ordered
<1> QED
  BY <1>1, <1>6, <1>7, <1>8 DEF Ordered

(* A command that is asked for comes after all others.                     *)
LEMMA OrderedRequest ==
    ASSUME TypeOK, Located, Ordered, NEW r \in Requests, Request(r)
    PROVE  Ordered'
<1>1. asked' = Append(asked, r) /\ r \notin Elems(asked)
  BY DEF Request
<1>2. /\ Len(asked) \in Nat /\ Len(asked') = Len(asked) + 1
      /\ asked'[Len(asked) + 1] = r
      /\ \A i \in 1..Len(asked) : asked'[i] = asked[i]
  BY <1>1 DEF TypeOK
<1>3. \A p, q : Before(p, q) => Before(p, q)'
  <2> SUFFICES ASSUME NEW p, NEW q, Before(p, q) PROVE Before(p, q)'
    OBVIOUS
  <2>1. PICK i, j \in 1..Len(asked) : i < j /\ asked[i] = p /\ asked[j] = q
    BY DEF Before
  <2>2. i \in 1..Len(asked') /\ j \in 1..Len(asked')
    BY <1>2
  <2> QED
    BY <1>2, <2>1, <2>2 DEF Before
<1>4. \A p \in Elems(asked) : Before(p, r)'
  <2> SUFFICES ASSUME NEW p \in Elems(asked) PROVE Before(p, r)'
    OBVIOUS
  <2>1. PICK i \in 1..Len(asked) : asked[i] = p
    BY DEF Elems
  <2>2. i \in 1..Len(asked') /\ Len(asked) + 1 \in 1..Len(asked') /\ i < Len(asked) + 1
    BY <1>2
  <2> QED
    BY <1>2, <2>1, <2>2 DEF Before
<1>5. Distinct(asked)'
  <2>1. Distinct(Append(asked, r))
    BY <1>1, DistinctAppend DEF TypeOK, Ordered
  <2> QED
    BY <1>1, <2>1 DEF Distinct
<1>6. handler' = handler /\ pending' = pending /\ handler[r] = "none"
  BY <1>1 DEF Request, ioVars, poolVars, Located, KnownRequests
<1>7. Sorted(pending)'
  BY <1>3, <1>6 DEF Ordered, Sorted
<1>8. CASE ~wired
  <2>1. inbox' = inbox
    BY <1>8 DEF Request
  <2> QED
    BY <1>3, <1>5, <1>6, <1>7, <2>1 DEF Ordered, Sorted, Waiting
<1>9. CASE wired
  <2>1. inbox' = Append(inbox, r)
    BY <1>9 DEF Request
  <2>2. /\ Len(inbox) \in Nat /\ Len(inbox') = Len(inbox) + 1
        /\ inbox'[Len(inbox) + 1] = r
        /\ \A i \in 1..Len(inbox) : inbox'[i] = inbox[i]
    BY <2>1 DEF TypeOK
  <2>3. Elems(inbox') = Elems(inbox) \cup {r}
    <3>1. inbox \in Seq(Requests \cup {Stop}) /\ r \in Requests \cup {Stop}
      BY DEF TypeOK
    <3> QED
      BY <2>1, <3>1, ElemsOfAppend
  <2>4. \A i \in 1..Len(inbox) : inbox[i] # Stop => inbox[i] \in Elems(asked)
    BY DEF Located, KnownRequests, Elems
  <2>5. Sorted(inbox)'
    <3> SUFFICES ASSUME NEW i \in 1..Len(inbox'), NEW j \in 1..Len(inbox'), i < j,
                        inbox'[i] # Stop, inbox'[j] # Stop
                 PROVE  Before(inbox[i], inbox[j])'
      BY DEF Sorted
    <3>1. i \in 1..Len(inbox)
      BY <2>2
    <3>2. CASE j \in 1..Len(inbox)
      BY <1>3, <2>2, <3>1, <3>2 DEF Ordered, Sorted
    <3>3. CASE j = Len(inbox) + 1
      BY <1>4, <2>2, <2>4, <3>1, <3>3
    <3> QED
      BY <2>2, <3>2, <3>3
  <2>6. \A p \in Elems(pending'), x \in Elems(inbox') \ {Stop} : Before(p, x)'
    BY <1>3, <1>4, <1>6, <2>3 DEF Ordered, Located, KnownRequests
  <2>7. \A p, q \in Requests : handler'[p] # "none" /\ Waiting(q)' => Before(p, q)'
    BY <1>3, <1>4, <1>6, <2>3 DEF Ordered, Located, KnownRequests, Waiting
  <2> QED
    BY <1>5, <1>7, <2>5, <2>6, <2>7 DEF Ordered
<1> QED
  BY <1>8, <1>9

(* A command that waited longest may be started, or fail to.               *)
LEMMA OrderedStart ==
    ASSUME TypeOK, Ordered, asked' = asked, NEW r \in Requests, StartExecHandler(r),
           Sorted(inbox'), Sorted(pending'),
           Elems(inbox') \subseteq Elems(inbox), Elems(pending') \subseteq Elems(pending),
           \A q \in Requests : Waiting(q)' => Before(r, q)
    PROVE  Ordered'
<1>1. \A p, q : Before(p, q) <=> Before(p, q)'
  BY DEF Before
<1>2. \A q \in Requests \ {r} : handler'[q] = handler[q]
  BY DEF StartExecHandler, TypeOK, ioVars
<1>3. \A q \in Requests : Waiting(q)' => Waiting(q)
  BY DEF Waiting
<1>4. \A p, q \in Requests : handler'[p] # "none" /\ Waiting(q)' => Before(p, q)
  BY <1>2, <1>3 DEF Ordered
<1>5. Distinct(asked)' /\ Sorted(inbox)' /\ Sorted(pending)'
  BY <1>1 DEF Ordered, Sorted, Distinct
<1> QED
  BY <1>1, <1>4, <1>5 DEF Ordered

(* A command that waits goes to the end of the queue.                      *)
LEMMA OrderedQueued ==
    ASSUME TypeOK, Ordered, UNCHANGED <<asked, handler>>,
           inbox # <<>>, Head(inbox) # Stop,
           inbox' = Tail(inbox), pending' = Append(pending, Head(inbox))
    PROVE  Ordered'
<1> DEFINE r == Head(inbox)
<1>1. r \in Requests /\ r \in Elems(inbox) \ {Stop}
  BY ElemsOfTail DEF TypeOK
<1>2. \A p, q : Before(p, q) <=> Before(p, q)'
  BY DEF Before
<1>3. /\ Elems(inbox) = {r} \cup Elems(inbox') /\ Sorted(inbox')
      /\ \A x \in Elems(inbox') \ {Stop} : Before(r, x)
  BY ElemsOfTail, SortedTail DEF TypeOK, Ordered
<1>4. Sorted(pending') /\ Elems(pending') = Elems(pending) \cup {r}
  <2>1. \A p \in Elems(pending) : Before(p, r)
    BY <1>1 DEF Ordered
  <2> QED
    BY <1>1, <2>1, SortedAppend, ElemsOfAppend DEF TypeOK, Ordered
<1> HIDE DEF r
<1>5. \A q \in Requests : Waiting(q)' => Waiting(q)
  BY <1>3, <1>4 DEF Waiting
<1>6. Distinct(asked)' /\ Sorted(inbox)' /\ Sorted(pending)'
  BY <1>2, <1>3, <1>4 DEF Ordered, Sorted, Distinct
<1>7. \A p \in Elems(pending'), x \in Elems(inbox') \ {Stop} : Before(p, x)
  BY <1>3, <1>4 DEF Ordered
<1>8. \A p, q \in Requests : handler'[p] # "none" /\ Waiting(q)' => Before(p, q)
  BY <1>5 DEF Ordered
<1> QED
  BY <1>2, <1>6, <1>7, <1>8 DEF Ordered

(* Every step keeps the order.                                             *)
LEMMA OrderedStep == IInv /\ Ordered /\ [Next]_vars => Ordered'
<1> SUFFICES ASSUME IInv, Ordered, [Next]_vars PROVE Ordered'
  OBVIOUS
<1> USE DEF IInv, guiVars, poolVars, ioVars, threadVars
<1>1. ASSUME NEW r \in Requests, Request(r) PROVE Ordered'
  BY <1>1, OrderedRequest
<1>2. CASE Release
  BY <1>2, OrderedQuiet DEF Release
<1>3. CASE ReleaseDisconnected
  BY <1>3, OrderedQuiet DEF ReleaseDisconnected
<1>4. CASE ExecCommand
  <2> DEFINE r == Head(inbox)
  <2>1. inbox # <<>> /\ r # Stop /\ inbox' = Tail(inbox) /\ asked' = asked /\ pc = "loop"
    BY <1>4 DEF ExecCommand
  <2>2. CASE UNCHANGED <<poolVars, ioVars>>
    BY <2>1, <2>2, OrderedQuiet
  <2>3. CASE pending' = Append(pending, r) /\ UNCHANGED ioVars
    BY <2>1, <2>3, OrderedQueued
  <2>4. CASE ~AllBusy /\ StartExecHandler(r) /\ UNCHANGED pending
    <3>1. r \in Requests /\ r \in Elems(inbox)
      BY <2>1, ElemsOfTail DEF TypeOK
    <3>2. pending = <<>>
      BY <2>1, <2>4, MaxAssumption DEF AllBusy, Counted
    <3>3. /\ Sorted(inbox') /\ Elems(inbox') \subseteq Elems(inbox)
          /\ \A x \in Elems(inbox') \ {Stop} : Before(r, x)
      BY <2>1, SortedTail, ElemsOfTail DEF TypeOK, Ordered
    <3>4. Sorted(pending') /\ Elems(pending') = {}
      BY <2>4, <3>2, ElemsOfEmpty DEF Ordered
    <3> HIDE DEF r
    <3>5. \A q \in Requests : Waiting(q)' => Before(r, q)
      BY <3>3, <3>4, StopAssumption DEF Waiting
    <3> QED
      BY <2>1, <2>4, <3>1, <3>3, <3>4, <3>5, OrderedStart
  <2> QED
    BY <1>4, <2>2, <2>3, <2>4 DEF ExecCommand
<1>5. CASE Disconnect \/ LoopEnds
  BY <1>5, OrderedQuiet DEF Disconnect, LoopEnds, DisconnectSession
<1>6. CASE Refill
  <2>1. asked' = asked /\ inbox' = inbox
    BY <1>6 DEF Refill
  <2>2. CASE UNCHANGED <<poolVars, ioVars>>
    BY <2>1, <2>2, OrderedQuiet
  <2>3. CASE pending' = <<>> /\ UNCHANGED ioVars
    BY <2>1, <2>3, OrderedQuiet
  <2>4. CASE pending # <<>> /\ pending' = Tail(pending) /\ StartExecHandler(Head(pending))
    <3> DEFINE r == Head(pending)
    <3>1. r \in Requests /\ r \in Elems(pending) /\ r # Stop
      BY <2>4, ElemsOfTail, StopAssumption DEF TypeOK
    <3>2. /\ Sorted(pending') /\ Elems(pending') \subseteq Elems(pending)
          /\ \A x \in Elems(pending') \ {Stop} : Before(r, x)
      BY <2>4, <3>1, SortedTail, ElemsOfTail DEF TypeOK, Ordered
    <3>3. \A x \in Elems(inbox') \ {Stop} : Before(r, x)
      BY <2>1, <3>1 DEF Ordered
    <3>4. Sorted(inbox') /\ StartExecHandler(r)
      BY <2>1, <2>4 DEF Ordered
    <3> HIDE DEF r
    <3>5. \A q \in Requests : Waiting(q)' => Before(r, q)
      BY <3>2, <3>3, StopAssumption DEF Waiting
    <3> QED
      BY <2>1, <3>1, <3>2, <3>4, <3>5, OrderedStart
  <2> QED
    BY <1>6, <2>2, <2>3, <2>4 DEF Refill
<1>7. ASSUME NEW r \in Requests, ExecHandlerFinished(r) PROVE Ordered'
  BY <1>7, OrderedQuiet DEF ExecHandlerFinished, TypeOK
<1>8. ASSUME NEW r \in Requests, Advance(r) PROVE Ordered'
  BY <1>8, OrderedQuiet DEF Advance, Idle, TypeOK, Live
<1>9. ASSUME NEW r \in Requests, Fail(r) \/ TryFinish(r) PROVE Ordered'
  BY <1>9, OrderedQuiet DEF Fail, TryFinish, Finish, Idle, TypeOK, Live
<1>10. ASSUME NEW r \in Requests, ChannelReports(r) PROVE Ordered'
  BY <1>10, OrderedQuiet DEF ChannelReports
<1>11. CASE ThreadEnds \/ ConnectionLost \/ UNCHANGED vars
  BY <1>11, OrderedQuiet DEF ThreadEnds, ConnectionLost, vars
<1> QED
  BY <1>1, <1>2, <1>3, <1>4, <1>5, <1>6, <1>7, <1>8, <1>9, <1>10, <1>11
     DEF Next, Gui, Slots, Handlers

(* A command never overtakes one asked for earlier, however many there are *)
(* and however many run: an execCommand slot that is delivered between the *)
(* end of a handler and its completion slot goes to the end of the queue.  *)
THEOREM FirstComeFirstServed == Spec => []NoOvertaking
<1>1. Init => Ordered
  BY ElemsOfEmpty DEF Init, Ordered, Sorted, Distinct
<1>2. IInv /\ Ordered => NoOvertaking
  BY OrderedSuffices DEF IInv
<1> QED
  BY <1>1, <1>2, OrderedStep, Invariance, PTL DEF Spec
=============================================================================
