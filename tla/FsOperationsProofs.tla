------------------------- MODULE FsOperationsProofs -------------------------
(***************************************************************************)
(* Proofs about FsOperations, for any operations, any calls of the         *)
(* interface and any files on the server: the queue of the file system     *)
(* never stalls, and the worker gives every operation the answer the       *)
(* interface counts on, in its turn.                                       *)
(***************************************************************************)
EXTENDS FsOperations, SequenceTheorems, TLAPS

-----------------------------------------------------------------------------
(* A sequence without the one entry c that it may hold.                    *)

Once(s, c) == \A i, j \in DOMAIN s : s[i] = c /\ s[j] = c => i = j

LEMMA RemovesNothing ==
  ASSUME NEW s, NEW c, \A i \in 1 .. Len(s) : s[i] # c
  PROVE  RemoveFirst(s, c) = s
BY DEF RemoveFirst

LEMMA RemovesIt ==
  ASSUME NEW S, NEW s \in Seq(S), NEW c, Once(s, c), NEW k \in DOMAIN s, s[k] = c
  PROVE  RemoveFirst(s, c) = RemoveAt(s, k)
<1>1. k \in 1 .. Len(s) /\ DOMAIN s = 1 .. Len(s)
  OBVIOUS
<1>2. {i \in 1 .. Len(s) : s[i] = c} = {k}
  BY <1>1 DEF Once
<1>3. Min({k}) = k
  BY <1>1 DEF Min
<1>4. SelectInSeq(s, LAMBDA v : v = c) = k
  BY <1>2, <1>3 DEF SelectInSeq
<1> QED
  BY <1>1, <1>4 DEF RemoveFirst

LEMMA RemoveAtProperties ==
  ASSUME NEW S, NEW s \in Seq(S), NEW k \in 1 .. Len(s)
  PROVE  /\ RemoveAt(s, k) \in Seq(S)
         /\ Len(RemoveAt(s, k)) = Len(s) - 1
         /\ \A i \in 1 .. Len(s) - 1 : RemoveAt(s, k)[i] = IF i < k THEN s[i] ELSE s[i + 1]
<1> DEFINE a == SubSeq(s, 1, k - 1)
           b == SubSeq(s, k + 1, Len(s))
<1>1. Len(s) \in Nat /\ k \in Nat /\ k >= 1 /\ k <= Len(s)
  OBVIOUS
<1>2. a \in Seq(S) /\ Len(a) = k - 1 /\ \A i \in 1 .. k - 1 : a[i] = s[i]
  BY <1>1, SubSeqProperties
<1>3. b \in Seq(S) /\ Len(b) = Len(s) - k /\ \A i \in 1 .. Len(s) - k : b[i] = s[k + i]
  BY <1>1, SubSeqProperties
<1> HIDE DEF a, b
<1>4. /\ a \o b \in Seq(S) /\ Len(a \o b) = Len(a) + Len(b)
      /\ \A i \in 1 .. Len(a) + Len(b) : (a \o b)[i] = IF i <= Len(a) THEN a[i] ELSE b[i - Len(a)]
  BY <1>2, <1>3, ConcatProperties
<1>5. RemoveAt(s, k) = a \o b
  BY DEF RemoveAt, a, b
<1>6. ASSUME NEW i \in 1 .. Len(s) - 1
      PROVE  (a \o b)[i] = IF i < k THEN s[i] ELSE s[i + 1]
  <2>0. i \in Nat /\ i >= 1 /\ i <= Len(s) - 1
    BY <1>1
  <2>1. CASE i < k
    <3>1. i \in 1 .. k - 1 /\ i \in 1 .. Len(a) + Len(b) /\ i <= Len(a)
      BY <1>1, <1>2, <1>3, <2>0, <2>1
    <3> QED
      BY <1>2, <1>4, <2>1, <3>1
  <2>2. CASE ~(i < k)
    <3>1. i - (k - 1) \in 1 .. Len(s) - k
      BY <1>1, <2>0, <2>2
    <3>2. b[i - (k - 1)] = s[k + (i - (k - 1))]
      BY <1>3, <3>1
    <3>3. k + (i - (k - 1)) = i + 1
      BY <1>1, <2>0
    <3>4. i \in 1 .. Len(a) + Len(b) /\ ~(i <= Len(a)) /\ i - Len(a) = i - (k - 1)
      BY <1>1, <1>2, <1>3, <2>0, <2>2
    <3> QED
      BY <1>4, <2>2, <3>2, <3>3, <3>4
  <2> QED
    BY <2>1, <2>2
<1>7. Len(a \o b) = Len(s) - 1
  BY <1>1, <1>2, <1>3, <1>4
<1> QED
  BY <1>4, <1>5, <1>6, <1>7

(* A call that is posted comes after the others.                           *)
LEMMA RemoveAppend ==
  ASSUME NEW S, NEW s \in Seq(S), NEW c, Once(s, c), NEW x \in S, x # c
  PROVE  RemoveFirst(Append(s, x), c) = Append(RemoveFirst(s, c), x)
<1> DEFINE t == Append(s, x)
<1>1. t \in Seq(S) /\ Len(t) = Len(s) + 1 /\ t[Len(t)] = x
      /\ \A i \in 1 .. Len(s) : t[i] = s[i]
  BY AppendProperties
<1>2. CASE \A i \in 1 .. Len(s) : s[i] # c
  <2>1. \A i \in 1 .. Len(t) : t[i] # c
    BY <1>1, <1>2
  <2> QED
    BY <1>2, <2>1, RemovesNothing
<1>3. CASE \E i \in 1 .. Len(s) : s[i] = c
  <2>1. PICK k \in 1 .. Len(s) : s[k] = c
    BY <1>3
  <2>2. Once(t, c) /\ k \in DOMAIN t /\ t[k] = c /\ k \in 1 .. Len(t)
    BY <1>1, <2>1 DEF Once
  <2>3. RemoveFirst(t, c) = RemoveAt(t, k) /\ RemoveFirst(s, c) = RemoveAt(s, k)
    <3>1. k \in DOMAIN s /\ s \in Seq(S)
      OBVIOUS
    <3> HIDE DEF t
    <3> QED
      BY <1>1, <2>1, <2>2, <3>1, RemovesIt
  <2> DEFINE a == RemoveAt(t, k)
             b == RemoveAt(s, k)
  <2> HIDE DEF t
  <2>4. /\ a \in Seq(S) /\ Len(a) = Len(t) - 1
        /\ \A i \in 1 .. Len(t) - 1 : a[i] = IF i < k THEN t[i] ELSE t[i + 1]
    BY <1>1, <2>2, RemoveAtProperties
  <2>5. /\ b \in Seq(S) /\ Len(b) = Len(s) - 1
        /\ \A i \in 1 .. Len(s) - 1 : b[i] = IF i < k THEN s[i] ELSE s[i + 1]
    BY <2>1, RemoveAtProperties
  <2> HIDE DEF a, b
  <2>6. /\ Append(b, x) \in Seq(S) /\ Len(Append(b, x)) = Len(b) + 1
        /\ Append(b, x)[Len(b) + 1] = x
        /\ \A i \in 1 .. Len(b) : Append(b, x)[i] = b[i]
    BY <2>5, AppendProperties
  <2>7. a = Append(b, x)
    <3>1. Len(a) = Len(Append(b, x)) /\ Len(a) = Len(s)
      BY <1>1, <2>4, <2>5, <2>6
    <3>2. ASSUME NEW i \in 1 .. Len(a) PROVE a[i] = Append(b, x)[i]
      <4>1. i \in 1 .. Len(s)
        BY <3>1
      <4>2. CASE i # Len(s)
        <5>1. i < Len(s)
          BY <4>1, <4>2
        <5> QED
          BY <1>1, <2>1, <2>4, <2>5, <2>6, <3>1, <4>1, <5>1
      <4>3. CASE i = Len(s)
        BY <1>1, <2>1, <2>4, <2>5, <2>6, <3>1, <4>3
      <4> QED
        BY <4>2, <4>3
    <3> QED
      BY <2>4, <2>6, <3>1, <3>2, SeqEqual
  <2> QED
    BY <2>3, <2>7 DEF t, a, b
<1> QED
  BY <1>2, <1>3

(* The one entry that is not a call is posted behind them.                 *)
LEMMA RemoveAppended ==
  ASSUME NEW S, NEW s \in Seq(S), NEW c \in S, \A i \in 1 .. Len(s) : s[i] # c
  PROVE  RemoveFirst(Append(s, c), c) = s
<1> DEFINE t == Append(s, c)
<1>1. t \in Seq(S) /\ Len(t) = Len(s) + 1 /\ t[Len(t)] = c
      /\ \A i \in 1 .. Len(s) : t[i] = s[i]
  BY AppendProperties
<1>2. Once(t, c) /\ Len(t) \in DOMAIN t /\ Len(t) \in 1 .. Len(t)
  BY <1>1 DEF Once
<1> HIDE DEF t
<1>3. RemoveFirst(t, c) = RemoveAt(t, Len(t))
  BY <1>1, <1>2, RemovesIt
<1> DEFINE a == RemoveAt(t, Len(t))
<1>4. /\ a \in Seq(S) /\ Len(a) = Len(t) - 1
      /\ \A i \in 1 .. Len(t) - 1 : a[i] = IF i < Len(t) THEN t[i] ELSE t[i + 1]
  BY <1>1, <1>2, RemoveAtProperties
<1> HIDE DEF a
<1>5. a = s
  BY <1>1, <1>4, SeqEqual
<1> QED
  BY <1>3, <1>5 DEF t, a

(* It is at the head and is taken.                                         *)
LEMMA RemoveHead ==
  ASSUME NEW S, NEW s \in Seq(S), NEW c, Once(s, c), s # <<>>, Head(s) = c
  PROVE  /\ RemoveFirst(s, c) = Tail(s)
         /\ RemoveFirst(Tail(s), c) = Tail(s)
         /\ \A i \in 1 .. Len(Tail(s)) : Tail(s)[i] # c
<1>1. Len(s) > 0 /\ s[1] = c /\ 1 \in DOMAIN s /\ 1 \in 1 .. Len(s)
  OBVIOUS
<1>2. /\ Tail(s) \in Seq(S) /\ Len(Tail(s)) = Len(s) - 1
      /\ \A i \in 1 .. Len(Tail(s)) : Tail(s)[i] = s[i + 1]
  BY HeadTailProperties
<1>3. RemoveFirst(s, c) = RemoveAt(s, 1)
  BY <1>1, RemovesIt
<1> DEFINE a == RemoveAt(s, 1)
<1>4. /\ a \in Seq(S) /\ Len(a) = Len(s) - 1
      /\ \A i \in 1 .. Len(s) - 1 : a[i] = IF i < 1 THEN s[i] ELSE s[i + 1]
  BY <1>1, RemoveAtProperties
<1> HIDE DEF a
<1>5. a = Tail(s)
  BY <1>2, <1>4, SeqEqual
<1>6. \A i \in 1 .. Len(Tail(s)) : Tail(s)[i] # c
  BY <1>1, <1>2 DEF Once
<1>7. RemoveFirst(Tail(s), c) = Tail(s)
  BY <1>6, RemovesNothing
<1> QED
  BY <1>3, <1>5, <1>6, <1>7 DEF a

(* A call is at the head and is taken.                                     *)
LEMMA RemoveTail ==
  ASSUME NEW S, NEW s \in Seq(S), NEW c, Once(s, c), s # <<>>, Head(s) # c
  PROVE  /\ RemoveFirst(s, c) = <<Head(s)>> \o RemoveFirst(Tail(s), c)
         /\ RemoveFirst(Tail(s), c) \in Seq(S)
<1> DEFINE t == Tail(s)
<1>1. /\ t \in Seq(S) /\ Len(t) = Len(s) - 1 /\ Len(s) \in Nat /\ Len(s) > 0
      /\ \A i \in 1 .. Len(t) : t[i] = s[i + 1]
      /\ s[1] = Head(s) /\ Head(s) \in S
  BY HeadTailProperties
<1>2. s = <<Head(s)>> \o t
  OBVIOUS
<1> HIDE DEF t
<1>3. CASE \A i \in 1 .. Len(s) : s[i] # c
  <2>1. \A i \in 1 .. Len(t) : t[i] # c
    BY <1>1, <1>3
  <2>2. RemoveFirst(s, c) = s
    BY <1>3, RemovesNothing
  <2>3. RemoveFirst(t, c) = t
    BY <2>1, RemovesNothing
  <2> QED
    BY <1>1, <1>2, <2>2, <2>3 DEF t
<1>4. CASE \E i \in 1 .. Len(s) : s[i] = c
  <2>1. PICK k \in 1 .. Len(s) : s[k] = c
    BY <1>4
  <2>2. k \in 2 .. Len(s) /\ k - 1 \in 1 .. Len(t) /\ t[k - 1] = c
    BY <1>1, <2>1
  <2>3. Once(t, c)
    <3>1. ASSUME NEW i \in 1 .. Len(t), NEW j \in 1 .. Len(t), t[i] = c, t[j] = c PROVE i = j
      <4>1. i + 1 \in DOMAIN s /\ j + 1 \in DOMAIN s /\ s[i + 1] = c /\ s[j + 1] = c
        BY <1>1, <3>1
      <4>2. i + 1 = j + 1
        BY <4>1 DEF Once
      <4> QED
        BY <1>1, <4>2
    <3> QED
      BY <1>1, <3>1, LenProperties DEF Once
  <2>4. RemoveFirst(s, c) = RemoveAt(s, k) /\ RemoveFirst(t, c) = RemoveAt(t, k - 1)
    BY <1>1, <2>1, <2>2, <2>3, RemovesIt
  <2> DEFINE a == RemoveAt(s, k)
             b == RemoveAt(t, k - 1)
  <2>5. /\ a \in Seq(S) /\ Len(a) = Len(s) - 1
        /\ \A i \in 1 .. Len(s) - 1 : a[i] = IF i < k THEN s[i] ELSE s[i + 1]
    BY <2>1, RemoveAtProperties
  <2>6. /\ b \in Seq(S) /\ Len(b) = Len(t) - 1
        /\ \A i \in 1 .. Len(t) - 1 : b[i] = IF i < k - 1 THEN t[i] ELSE t[i + 1]
    BY <1>1, <2>2, RemoveAtProperties
  <2> HIDE DEF a, b
  <2> DEFINE d == <<Head(s)>> \o b
  <2>7. /\ d \in Seq(S) /\ Len(d) = 1 + Len(b) /\ d[1] = Head(s)
        /\ \A i \in 2 .. 1 + Len(b) : d[i] = b[i - 1]
    BY <1>1, <2>6
  <2> HIDE DEF d
  <2>8. a = d
    <3>1. ASSUME NEW i \in 1 .. Len(a) PROVE a[i] = d[i]
      <4>0. i \in 1 .. Len(s) - 1 /\ i \in Nat /\ k \in Nat /\ k >= 2
        BY <1>1, <2>2, <2>5
      <4>1. CASE i = 1
        BY <1>1, <2>5, <2>7, <4>0, <4>1
      <4>2. CASE i > 1
        <5>1. i - 1 \in 1 .. Len(t) - 1 /\ i - 1 \in 1 .. Len(t) /\ i \in 1 .. Len(t)
              /\ i \in 2 .. 1 + Len(b)
          BY <1>1, <2>6, <4>0, <4>2
        <5>2. d[i] = IF i - 1 < k - 1 THEN t[i - 1] ELSE t[i]
          BY <2>6, <2>7, <5>1, <4>0
        <5>3. t[i - 1] = s[i] /\ t[i] = s[i + 1] /\ (i - 1 < k - 1 <=> i < k)
          BY <1>1, <5>1, <4>0
        <5> QED
          BY <2>5, <4>0, <5>2, <5>3
      <4> QED
        BY <4>0, <4>1, <4>2
    <3>2. Len(a) = Len(d)
      BY <1>1, <2>5, <2>6, <2>7
    <3> QED
      BY <2>5, <2>7, <3>1, <3>2, SeqEqual
  <2> QED
    BY <2>4, <2>6, <2>8 DEF a, b, d, t
<1> QED
  BY <1>3, <1>4
-----------------------------------------------------------------------------
(* The invariant.                                                          *)

IsRecord(h) ==
  h = [op |-> h.op, at |-> h.at, exec |-> h.exec, reply |-> h.reply,
       resolving |-> h.resolving, todo |-> h.todo, entries |-> h.entries, sure |-> h.sure]
IsHandler(h) ==
  /\ IsRecord(h)
  /\ h.op \in Ops \union {NoOp} /\ h.resolving \in BOOLEAN
  /\ h.op = NoOp => h = NoHandler
  /\ h.exec # "Idle" => h.at # "done"

Typed ==
  /\ events \in Seq(Ops \union {"completed"}) /\ pending \in Seq(Ops)
  /\ fsBusy \in BOOLEAN /\ open \in BOOLEAN
  /\ IsHandler(handler)

(* A handler takes the steps of what it carries out, and only what may wait *)
(* is queued.                                                              *)
Listing == {"listing", "ListProbeFullTime", "ListMain", "AnnotateSymlink"}
Queueable == {"list", "resolve", "canonical", "change", "transfer"}
OnItsWay(h) ==
  h.op # NoOp =>
    /\ KindOf[h.op] \in Queueable
    /\ h.at = "Plan" => ~h.resolving
    /\ h.at = "ShortOk" => KindOf[h.op] = "change"
    /\ h.at \in {"CanonicalPrimary", "CanonicalFallback"} => KindOf[h.op] = "canonical"
    /\ h.at = "begun" => KindOf[h.op] = "transfer"
    /\ h.at \in {"ResolveTestDir", "ResolveListFile"} => KindOf[h.op] = "resolve"
    /\ h.at \in Listing => KindOf[h.op] = IF h.resolving THEN "resolve" ELSE "list"
RightKinds ==
  /\ OnItsWay(handler)
  /\ \A i \in 1 .. Len(pending) : KindOf[pending[i]] \in Queueable

(* Of a handler that has finished a completion is under way, and of no     *)
(* other but one that the end of the connection has cancelled.             *)
HasCompleted == \E i \in DOMAIN events : events[i] = "completed"
OneAtATime ==
  /\ Once(events, "completed")
  /\ handler.at # "done" => ~HasCompleted
  /\ handler.op # NoOp /\ handler.at = "done" => HasCompleted
  /\ fsBusy <=> handler.op # NoOp \/ HasCompleted
  /\ open /\ pending # <<>> => fsBusy
  /\ ~open => handler.op = NoOp

IInv == Typed /\ RightKinds /\ OneAtATime

-----------------------------------------------------------------------------
(* What a tick comes to, whatever command it is about.                     *)

(* The handler goes on.                                                    *)
Moves ==
  /\ handler.at # "done" /\ handler'.at # "done" /\ handler'.op = handler.op
  /\ UNCHANGED <<events, answers>>

(* It answers, and its completion is posted.                               *)
Finishes ==
  /\ handler.at # "done" /\ handler'.at = "done" /\ handler'.op = handler.op
  /\ \E a \in Service!AnswersTo(KindOf[handler.op]) : Answer(handler.op, a)
  /\ events' = Append(events, "completed")

(* It is left where it was.                                                *)
Stays ==
  /\ handler'.at = handler.at /\ handler'.op = handler.op
  /\ UNCHANGED <<events, answers>>

HandlerStep ==
  /\ Moves \/ Finishes \/ Stays
  /\ IsHandler(handler') /\ OnItsWay(handler')
  /\ UNCHANGED <<pending, fsBusy, open>>

LEMMA NoHandlerIsHandler ==
  /\ IsHandler(NoHandler) /\ OnItsWay(NoHandler)
  /\ NoHandler.op = NoOp /\ NoHandler.at = "done"
BY DEF IsHandler, IsRecord, OnItsWay, NoHandler

(* The steps that are FinishWith and Goes.                                 *)
LEMMA FinishStep ==
  ASSUME IInv, NEW a \in Service!AnswersTo(KindOf[handler.op]), NEW entries,
         FinishWith(a, entries), handler.at # "done", UNCHANGED <<pending, fsBusy, open>>
  PROVE  HandlerStep
<1>1. IsHandler(handler) /\ OnItsWay(handler) /\ handler.op # NoOp
  BY NoHandlerIsHandler DEF IInv, Typed, RightKinds, IsHandler
<1>2. handler' = [handler EXCEPT !.at = "done", !.exec = "Idle", !.reply = "none",
                                 !.entries = entries, !.todo = {}]
  BY DEF FinishWith
<1>3. IsRecord(handler)
  BY <1>1 DEF IsHandler
<1>4. /\ handler'.op = handler.op /\ handler'.at = "done" /\ handler'.exec = "Idle"
      /\ handler'.resolving = handler.resolving
  BY <1>2, <1>3 DEF IsRecord
<1>6. IsRecord(handler')
  BY <1>2, <1>3 DEF IsRecord
<1>7. IsHandler(handler')
  BY <1>1, <1>4, <1>6 DEF IsHandler
<1>5. OnItsWay(handler')
  BY <1>1, <1>4 DEF OnItsWay, Listing
<1> QED
  BY <1>4, <1>5, <1>7 DEF HandlerStep, Finishes, FinishWith

LEMMA GoesStep ==
  ASSUME IInv, NEW h, Goes(h), handler.at # "done", UNCHANGED <<pending, fsBusy, open>>,
         IsHandler(h), OnItsWay(h), h.op = handler.op, h.at # "done"
  PROVE  HandlerStep
BY DEF HandlerStep, Moves, Goes
-----------------------------------------------------------------------------
(* The ticks, one by one.                                                  *)

LEMMA AtWorkFacts ==
  ASSUME IInv, handler.at # "done"
  PROVE  /\ IsHandler(handler) /\ OnItsWay(handler) /\ handler.op # NoOp
         /\ KindOf[handler.op] \in Queueable
         /\ "error" \in Service!AnswersTo(KindOf[handler.op])
<1>1. IsHandler(handler) /\ OnItsWay(handler) /\ handler.op # NoOp
  BY NoHandlerIsHandler DEF IInv, Typed, RightKinds, IsHandler
<1> QED
  BY <1>1 DEF OnItsWay, Queueable, Service!AnswersTo

LEMMA ErrorStep ==
  ASSUME IInv, handler.at # "done", Finish("error"), Calm
  PROVE  HandlerStep
BY AtWorkFacts, FinishStep DEF Finish, Calm

(* A command that is given a channel, or fails for want of one.            *)
LEMMA CommandStep ==
  ASSUME IInv, handler.at # "done", NEW h, StartNextCmd(h), Calm,
         h.op = handler.op, h.at # "done", OnItsWay(h), h.resolving \in BOOLEAN, IsRecord(h)
  PROVE  HandlerStep
<1>1. CASE Finish("error")
  BY <1>1, ErrorStep
<1>2. CASE Goes([h EXCEPT !.exec = "Opening", !.reply = "none"])
  <2> DEFINE g == [h EXCEPT !.exec = "Opening", !.reply = "none"]
  <2>0. ASSUME NEW r, r = g PROVE IsRecord(r)
    BY <2>0 DEF IsRecord
  <2>1. IsRecord(g)
    BY <2>0
  <2>2. g.op = h.op /\ g.at = h.at /\ g.exec = "Opening" /\ g.resolving = h.resolving
    BY DEF IsRecord
  <2>3. Goes(g)
    BY <1>2
  <2> HIDE DEF g
  <2>4. IsHandler(g)
    BY <2>1, <2>2, AtWorkFacts DEF IsHandler
  <2>5. OnItsWay(g)
    BY <2>2 DEF OnItsWay
  <2> QED
    BY <2>2, <2>3, <2>4, <2>5, GoesStep DEF Calm
<1> QED
  BY <1>1, <1>2 DEF StartNextCmd

LEMMA ShortOpStep ==
  ASSUME IInv, RunShortOp
  PROVE  HandlerStep
<1>1. handler.at # "done" /\ UNCHANGED <<pending, fsBusy, open>>
  BY DEF RunShortOp, At, Calm
<1>2. PICK a : a \in Service!AnswersTo(KindOf[handler.op]) /\ Finish(a)
  BY DEF RunShortOp, HandlerKind, Service!AnswersTo
<1> QED
  BY <1>1, <1>2, FinishStep DEF Finish

LEMMA OpenListStep ==
  ASSUME IInv, OpenList
  PROVE  HandlerStep
<1>1. handler.at = "Plan" /\ Calm /\ UNCHANGED <<pending, fsBusy, open>>
  BY DEF OpenList, At, Calm, Tick
<1>2. HandlerKind \in {"list", "resolve"}
  BY DEF OpenList
<1> DEFINE h == [handler EXCEPT !.resolving = (HandlerKind = "resolve"), !.at = "listing"]
<1>3. CASE \E names : Goes([h EXCEPT !.todo = names])
  <2>1. PICK names : Goes([h EXCEPT !.todo = names])
    BY <1>3
  <2> DEFINE g == [h EXCEPT !.todo = names]
  <2>2. IsRecord(handler)
    BY <1>1, AtWorkFacts DEF IsHandler
  <2>3. Goes(g)
    BY <2>1
  <2>4. g.op = handler.op /\ g.at = "listing" /\ g.resolving = (HandlerKind = "resolve")
    BY <2>2 DEF IsRecord
  <2>0. ASSUME NEW r, r = g PROVE IsRecord(r)
    BY <2>0, <2>2 DEF IsRecord
  <2>5. g.exec = handler.exec /\ IsRecord(g)
    BY <2>0, <2>2 DEF IsRecord
  <2> HIDE DEF g
  <2>6. IsHandler(g)
    BY <1>1, <2>2, <2>4, <2>5, AtWorkFacts DEF IsHandler
  <2>7. OnItsWay(g)
    <3>1. KindOf[handler.op] = IF g.resolving THEN "resolve" ELSE "list"
      BY <1>2, <2>4 DEF HandlerKind
    <3> QED
      BY <1>1, <2>4, <3>1, AtWorkFacts DEF OnItsWay, Listing
  <2> QED
    BY <1>1, <2>3, <2>4, <2>6, <2>7, GoesStep
<1>4. CASE Finish(IF HandlerKind = "resolve" THEN "unresolved" ELSE "error")
  <2>1. (IF HandlerKind = "resolve" THEN "unresolved" ELSE "error")
          \in Service!AnswersTo(KindOf[handler.op])
    BY <1>2 DEF HandlerKind, Service!AnswersTo
  <2> QED
    BY <1>1, <1>4, <2>1, FinishStep DEF Finish
<1> QED
  BY <1>3, <1>4 DEF OpenList

(* What a listing says in the end suits what it was asked for.             *)
LEMMA ListAnswers ==
  ASSUME IInv, handler.at \in Listing
  PROVE  /\ Listed \in Service!AnswersTo(KindOf[handler.op])
         /\ (IF handler.resolving THEN "unresolved" ELSE "error")
               \in Service!AnswersTo(KindOf[handler.op])
<1>1. handler.at # "done"
  BY DEF Listing
<1> QED
  BY <1>1, AtWorkFacts DEF OnItsWay, Listed, Service!AnswersTo

LEMMA TickListStep ==
  ASSUME IInv, TickList
  PROVE  HandlerStep
<1>1. handler.at = "listing" /\ UNCHANGED <<pending, fsBusy, open>>
  BY DEF TickList, At, Calm, Tick
<1>2. handler.at \in Listing /\ handler.at # "done"
  BY <1>1 DEF Listing
<1>3. CASE Finish(Listed) \/ ListFailed
  BY <1>1, <1>2, <1>3, ListAnswers, FinishStep DEF ListFailed, Finish
<1>4. CASE \E todo, entries : Goes([handler EXCEPT !.todo = todo, !.entries = entries])
  <2>1. PICK todo, entries : Goes([handler EXCEPT !.todo = todo, !.entries = entries])
    BY <1>4
  <2> DEFINE g == [handler EXCEPT !.todo = todo, !.entries = entries]
  <2>2. IsRecord(handler)
    BY <1>2, AtWorkFacts DEF IsHandler
  <2>3. Goes(g)
    BY <2>1
  <2>4. g.op = handler.op /\ g.at = handler.at /\ g.resolving = handler.resolving
        /\ g.exec = handler.exec
    BY <2>2 DEF IsRecord
  <2>0. ASSUME NEW r, r = g PROVE IsRecord(r)
    BY <2>0, <2>2 DEF IsRecord
  <2>6. IsRecord(g)
    BY <2>0
  <2> HIDE DEF g
  <2>5. IsHandler(g) /\ OnItsWay(g)
    BY <1>2, <2>6, <2>4, AtWorkFacts DEF IsHandler, OnItsWay
  <2> QED
    BY <1>1, <1>2, <2>3, <2>4, <2>5, GoesStep
<1>5. \/ Finish(Listed) \/ ListFailed
      \/ \E todo, entries : Goes([handler EXCEPT !.todo = todo, !.entries = entries])
  BY DEF TickList
<1> QED
  BY <1>3, <1>4, <1>5

LEMMA TransferStep ==
  ASSUME IInv, TransferOnIdle
  PROVE  HandlerStep
<1>1. handler.at \in {"Plan", "begun"} /\ UNCHANGED <<pending, fsBusy, open>>
  BY DEF TransferOnIdle, At, Calm, Tick
<1>2. KindOf[handler.op] = "transfer"
  <2>1. CASE handler.at = "begun"
    BY <2>1, AtWorkFacts DEF OnItsWay
  <2> QED
    BY <1>1, <2>1 DEF TransferOnIdle, At, HandlerKind
<1>3. CASE \E a \in {"finished", "canceled", "interrupted", "error"} : Finish(a)
  BY <1>1, <1>2, <1>3, FinishStep DEF Finish, Service!AnswersTo
<1>4. CASE Goes([handler EXCEPT !.at = "begun"])
  <2> DEFINE g == [handler EXCEPT !.at = "begun"]
  <2>1. IsRecord(handler)
    BY <1>1, AtWorkFacts DEF IsHandler
  <2>2. Goes(g)
    BY <1>4
  <2>3. g.op = handler.op /\ g.at = "begun" /\ g.resolving = handler.resolving
        /\ g.exec = handler.exec /\ IsRecord(g)
    BY <2>1 DEF IsRecord
  <2> HIDE DEF g
  <2>4. IsHandler(g) /\ OnItsWay(g)
    BY <1>1, <1>2, <2>1, <2>3, AtWorkFacts DEF IsHandler, OnItsWay, Listing
  <2> QED
    BY <1>1, <2>2, <2>3, <2>4, GoesStep
<1> QED
  BY <1>3, <1>4 DEF TransferOnIdle
(* A handler over SCP that stays with its command.                         *)
LEMMA SameCommandStep ==
  ASSUME IInv, handler.at # "done", NEW g, Goes(g), Calm,
         IsRecord(g), g.op = handler.op, g.at = handler.at, g.resolving = handler.resolving
  PROVE  HandlerStep
<1>1. IsHandler(g) /\ OnItsWay(g)
  BY AtWorkFacts DEF IsHandler, OnItsWay
<1> QED
  BY <1>1, GoesStep DEF Calm

(* It goes on to a command for what it carries out.                        *)
LEMMA NextCommandStep ==
  ASSUME IInv, handler.at # "done", NEW h, StartNextCmd(h), Calm, IsRecord(h),
         h.op = handler.op, h.at # "done", h.resolving \in BOOLEAN,
         h.at = "ShortOk" => KindOf[h.op] = "change",
         h.at \in {"CanonicalPrimary", "CanonicalFallback"} => KindOf[h.op] = "canonical",
         h.at \notin {"Plan", "begun"},
         h.at \in {"ResolveTestDir", "ResolveListFile"} => KindOf[h.op] = "resolve",
         h.at \in Listing => KindOf[h.op] = IF h.resolving THEN "resolve" ELSE "list"
  PROVE  HandlerStep
<1>1. OnItsWay(h)
  BY AtWorkFacts DEF OnItsWay
<1> QED
  BY <1>1, CommandStep

LEMMA PlanStep ==
  ASSUME IInv, PlanSteps
  PROVE  HandlerStep
<1> DEFINE at == CASE HandlerKind = "change"    -> "ShortOk"
                   [] HandlerKind = "canonical" -> "CanonicalPrimary"
                   [] HandlerKind = "resolve"   -> "ResolveTestDir"
                   [] OTHER                     -> ListCommand
           h == [handler EXCEPT !.at = at]
<1>1. handler.at = "Plan" /\ Calm /\ StartNextCmd(h) /\ HandlerKind # "transfer"
  BY DEF PlanSteps, At, Tick
<1>2. IsRecord(handler) /\ handler.resolving \in BOOLEAN /\ HandlerKind \in Queueable
  BY <1>1, AtWorkFacts DEF IsHandler, HandlerKind
<1>3. h.op = handler.op /\ h.at = at /\ h.resolving = handler.resolving
  BY <1>2 DEF IsRecord
<1>4. ASSUME NEW r, r = h PROVE IsRecord(r)
  BY <1>2, <1>4 DEF IsRecord
<1>5. IsRecord(h)
  BY <1>4
<1>6. \/ HandlerKind = "change" /\ at = "ShortOk"
      \/ HandlerKind = "canonical" /\ at = "CanonicalPrimary"
      \/ HandlerKind = "resolve" /\ at = "ResolveTestDir"
      \/ HandlerKind = "list" /\ at \in {"ListMain", "ListProbeFullTime"}
  BY <1>1, <1>2 DEF Queueable, ListCommand
<1> HIDE DEF at
<1>7. ~handler.resolving
  BY <1>1, AtWorkFacts DEF OnItsWay
<1> QED
  BY <1>1, <1>2, <1>3, <1>5, <1>6, <1>7, NextCommandStep DEF HandlerKind, Listing
LEMMA ChannelStep ==
  ASSUME IInv, AdvanceOpening \/ AdvanceExecuting \/ TimedOut
  PROVE  HandlerStep
<1>1. handler.exec # "Idle" /\ Calm
  BY DEF AdvanceOpening, AdvanceExecuting, TimedOut, Tick
<1>2. handler.at # "done" /\ IsRecord(handler)
  BY <1>1 DEF IInv, Typed, IsHandler
<1>3. CASE Finish("error")
  BY <1>1, <1>2, <1>3, ErrorStep
<1>4. CASE \E exec : Goes([handler EXCEPT !.exec = exec])
  <2>1. PICK exec : Goes([handler EXCEPT !.exec = exec])
    BY <1>4
  <2> DEFINE g == [handler EXCEPT !.exec = exec]
  <2>2. g.op = handler.op /\ g.at = handler.at /\ g.resolving = handler.resolving
    BY <1>2 DEF IsRecord
  <2>3. ASSUME NEW r, r = g PROVE IsRecord(r)
    BY <1>2, <2>3 DEF IsRecord
  <2>4. IsRecord(g)
    BY <2>3
  <2> QED
    BY <1>1, <1>2, <2>1, <2>2, <2>4, SameCommandStep
<1>5. Finish("error") \/ \E exec : Goes([handler EXCEPT !.exec = exec])
  BY DEF AdvanceOpening, AdvanceExecuting, TimedOut, Fails
<1> QED
  BY <1>3, <1>4, <1>5

LEMMA RepliedStep ==
  ASSUME IInv, Replied
  PROVE  HandlerStep
<1>1. handler.at # "done" /\ IsRecord(handler) /\ Calm
  BY DEF Replied, IInv, Typed, IsHandler
<1>2. PICK reply, sure : Goes([handler EXCEPT !.reply = reply, !.sure = sure])
  BY DEF Replied
<1> DEFINE g == [handler EXCEPT !.reply = reply, !.sure = sure]
<1>3. g.op = handler.op /\ g.at = handler.at /\ g.resolving = handler.resolving
  BY <1>1 DEF IsRecord
<1>4. ASSUME NEW r, r = g PROVE IsRecord(r)
  BY <1>1, <1>4 DEF IsRecord
<1>5. IsRecord(g)
  BY <1>4
<1> QED
  BY <1>1, <1>2, <1>3, <1>5, SameCommandStep

(* The end of a command.                                                   *)
LEMMA EndedFacts ==
  ASSUME IInv, NEW commands, Ended(commands)
  PROVE  /\ handler.at # "done" /\ handler.at \in commands
         /\ IsRecord(handler) /\ handler.resolving \in BOOLEAN
BY DEF Ended, IInv, Typed, IsHandler

LEMMA RunStep ==
  ASSUME IInv, handler.at # "done", Calm, NEW command, Run(command), command \in Commands,
         command = "ShortOk" => KindOf[handler.op] = "change",
         command \in {"CanonicalPrimary", "CanonicalFallback"} => KindOf[handler.op] = "canonical",
         command \in {"ResolveTestDir", "ResolveListFile"} => KindOf[handler.op] = "resolve",
         command \in Listing => KindOf[handler.op] = IF handler.resolving THEN "resolve" ELSE "list"
  PROVE  HandlerStep
<1> DEFINE g == [handler EXCEPT !.at = command]
<1>1. IsRecord(handler) /\ handler.resolving \in BOOLEAN
  BY AtWorkFacts DEF IsHandler
<1>2. g.op = handler.op /\ g.at = command /\ g.resolving = handler.resolving
  BY <1>1 DEF IsRecord
<1>3. ASSUME NEW r, r = g PROVE IsRecord(r)
  BY <1>1, <1>3 DEF IsRecord
<1>4. IsRecord(g) /\ StartNextCmd(g)
  BY <1>3 DEF Run
<1> HIDE DEF g
<1>5. command \notin {"done", "Plan", "begun"}
  BY DEF Commands
<1> QED
  BY <1>1, <1>2, <1>4, <1>5, NextCommandStep

LEMMA ShortFinishedStep ==
  ASSUME IInv, ShortFinished
  PROVE  HandlerStep
<1>1. handler.at = "ShortOk" /\ Calm
  BY EndedFacts DEF ShortFinished, Tick
<1>2. KindOf[handler.op] = "change"
  BY <1>1, AtWorkFacts DEF OnItsWay
<1>3. (IF Ok THEN "finished" ELSE "error") \in Service!AnswersTo(KindOf[handler.op])
  BY <1>2 DEF Service!AnswersTo
<1> QED
  BY <1>1, <1>3, FinishStep DEF ShortFinished, Finish, Calm

LEMMA CanonicalFinishedStep ==
  ASSUME IInv, CanonicalFinished
  PROVE  HandlerStep
<1>1. handler.at \in {"CanonicalPrimary", "CanonicalFallback"} /\ Calm
  BY EndedFacts DEF CanonicalFinished, Tick
<1>2. KindOf[handler.op] = "canonical" /\ handler.at # "done"
  BY <1>1, AtWorkFacts DEF OnItsWay
<1>3. CASE Finish("canonicalized") \/ Finish("error")
  BY <1>1, <1>2, <1>3, FinishStep DEF Finish, Calm, Service!AnswersTo
<1>4. CASE Run("CanonicalFallback")
  BY <1>1, <1>2, <1>4, RunStep DEF Commands, Listing
<1> QED
  BY <1>3, <1>4 DEF CanonicalFinished

LEMMA ListFinishedStep ==
  ASSUME IInv, ListFinished
  PROVE  HandlerStep
<1>1. handler.at \in {"ListProbeFullTime", "ListMain"} /\ Calm /\ IsRecord(handler)
      /\ handler.resolving \in BOOLEAN
  BY EndedFacts DEF ListFinished, Tick
<1>2. KindOf[handler.op] = (IF handler.resolving THEN "resolve" ELSE "list")
      /\ handler.at # "done" /\ handler.at \in Listing
  BY <1>1, AtWorkFacts DEF OnItsWay, Listing
<1>3. CASE ListFailed \/ \E entries : FinishWith(Listed, entries)
  BY <1>1, <1>2, <1>3, ListAnswers, FinishStep DEF ListFailed, Finish, Calm
<1>4. CASE Run("ListMain")
  BY <1>1, <1>2, <1>4, RunStep DEF Commands, Listing
<1>5. CASE \E todo, entries :
             StartNextCmd([handler EXCEPT !.at = "AnnotateSymlink", !.todo = todo,
                                          !.entries = entries])
  <2>1. PICK todo, entries :
             StartNextCmd([handler EXCEPT !.at = "AnnotateSymlink", !.todo = todo,
                                          !.entries = entries])
    BY <1>5
  <2> DEFINE g == [handler EXCEPT !.at = "AnnotateSymlink", !.todo = todo, !.entries = entries]
  <2>2. g.op = handler.op /\ g.at = "AnnotateSymlink" /\ g.resolving = handler.resolving
    BY <1>1 DEF IsRecord
  <2>3. ASSUME NEW r, r = g PROVE IsRecord(r)
    BY <1>1, <2>3 DEF IsRecord
  <2>4. IsRecord(g) /\ StartNextCmd(g)
    BY <2>1, <2>3
  <2> HIDE DEF g
  <2> QED
    BY <1>1, <1>2, <2>2, <2>4, NextCommandStep DEF Listing
<1>6. \/ ListFailed \/ Run("ListMain") \/ Entries
  BY DEF ListFinished
<1>7. Entries => \/ \E entries : FinishWith(Listed, entries)
                 \/ \E todo, entries :
                      StartNextCmd([handler EXCEPT !.at = "AnnotateSymlink", !.todo = todo,
                                                   !.entries = entries])
  BY DEF Entries
<1> QED
  BY <1>3, <1>4, <1>5, <1>6, <1>7

LEMMA AnnotateFinishedStep ==
  ASSUME IInv, AnnotateFinished
  PROVE  HandlerStep
<1>1. handler.at = "AnnotateSymlink" /\ Calm /\ IsRecord(handler)
      /\ handler.resolving \in BOOLEAN
  BY EndedFacts DEF AnnotateFinished, Tick
<1>2. KindOf[handler.op] = (IF handler.resolving THEN "resolve" ELSE "list")
      /\ handler.at # "done" /\ handler.at \in Listing
  BY <1>1, AtWorkFacts DEF OnItsWay, Listing
<1>3. CASE \E entries : FinishWith(Listed, entries)
  BY <1>1, <1>2, <1>3, ListAnswers, FinishStep DEF Calm
<1>4. CASE \E todo, entries : StartNextCmd([handler EXCEPT !.todo = todo, !.entries = entries])
  <2>1. PICK todo, entries : StartNextCmd([handler EXCEPT !.todo = todo, !.entries = entries])
    BY <1>4
  <2> DEFINE g == [handler EXCEPT !.todo = todo, !.entries = entries]
  <2>2. g.op = handler.op /\ g.at = handler.at /\ g.resolving = handler.resolving
    BY <1>1 DEF IsRecord
  <2>3. ASSUME NEW r, r = g PROVE IsRecord(r)
    BY <1>1, <2>3 DEF IsRecord
  <2>4. IsRecord(g) /\ StartNextCmd(g)
    BY <2>1, <2>3
  <2> HIDE DEF g
  <2> QED
    BY <1>1, <1>2, <2>2, <2>4, NextCommandStep DEF Listing
<1>5. \/ \E entries : FinishWith(Listed, entries)
      \/ \E todo, entries : StartNextCmd([handler EXCEPT !.todo = todo, !.entries = entries])
  BY DEF AnnotateFinished
<1> QED
  BY <1>3, <1>4, <1>5

LEMMA ResolveFinishedStep ==
  ASSUME IInv, ResolveFinished
  PROVE  HandlerStep
<1>1. handler.at \in {"ResolveTestDir", "ResolveListFile"} /\ Calm /\ IsRecord(handler)
  BY EndedFacts DEF ResolveFinished, Tick
<1>2. KindOf[handler.op] = "resolve" /\ handler.at # "done"
  BY <1>1, AtWorkFacts DEF OnItsWay
<1>3. CASE Finish("resolvedFile") \/ Finish("unresolved")
  BY <1>1, <1>2, <1>3, FinishStep DEF Finish, Calm, Service!AnswersTo
<1>4. CASE Run("ResolveListFile")
  BY <1>1, <1>2, <1>4, RunStep DEF Commands, Listing
<1>5. CASE StartNextCmd([handler EXCEPT !.resolving = TRUE, !.at = ListCommand])
  <2> DEFINE g == [handler EXCEPT !.resolving = TRUE, !.at = ListCommand]
  <2>1. g.op = handler.op /\ g.at = ListCommand /\ g.resolving = TRUE
    BY <1>1 DEF IsRecord
  <2>2. ASSUME NEW r, r = g PROVE IsRecord(r)
    BY <1>1, <2>2 DEF IsRecord
  <2>3. IsRecord(g) /\ StartNextCmd(g)
    BY <1>5, <2>2
  <2>4. ListCommand \in {"ListMain", "ListProbeFullTime"}
    BY DEF ListCommand
  <2> HIDE DEF g
  <2> QED
    BY <1>1, <1>2, <2>1, <2>3, <2>4, NextCommandStep DEF Listing
<1> QED
  BY <1>3, <1>4, <1>5 DEF ResolveFinished

(* A command that was given up runs: nothing is said of it.                *)
LEMMA LateStep ==
  ASSUME IInv, NEW o, LateRun(o)
  PROVE  HandlerStep
<1>1. IsHandler(handler) /\ OnItsWay(handler) /\ IsRecord(handler)
  BY DEF IInv, Typed, RightKinds, IsHandler
<1>2. PICK sure \in BOOLEAN : /\ handler' = [handler EXCEPT !.sure = sure]
                             /\ sure = (handler = NoHandler)
  BY DEF LateRun
<1>3. /\ handler'.op = handler.op /\ handler'.at = handler.at /\ handler'.exec = handler.exec
      /\ handler'.resolving = handler.resolving
  BY <1>1, <1>2 DEF IsRecord
<1>4. IsRecord(handler')
  BY <1>1, <1>2 DEF IsRecord
<1>5. ASSUME handler.op = NoOp PROVE handler' = NoHandler
  <2>1. handler = NoHandler
    BY <1>1, <1>5 DEF IsHandler
  <2>2. handler' = [NoHandler EXCEPT !.sure = TRUE]
    BY <1>2, <2>1
  <2> QED
    BY <2>2 DEF NoHandler
<1>6. IsHandler(handler') /\ OnItsWay(handler')
  BY <1>1, <1>3, <1>4, <1>5 DEF IsHandler, OnItsWay
<1> QED
  BY <1>3, <1>6 DEF HandlerStep, Stays, LateRun, queue

LEMMA TickStep ==
  ASSUME IInv, OnIdle \/ Replied \/ \E o \in late : LateRun(o)
  PROVE  HandlerStep
BY ShortOpStep, OpenListStep, TickListStep, TransferStep, PlanStep, ChannelStep, RepliedStep,
   ShortFinishedStep, CanonicalFinishedStep, ListFinishedStep, AnnotateFinishedStep,
   ResolveFinishedStep, LateStep DEF OnIdle
-----------------------------------------------------------------------------
(* The invariant is kept.                                                  *)

LEMMA Starts == Init => IInv
<1> SUFFICES ASSUME Init PROVE IInv
  OBVIOUS
<1>1. Typed
  <2>1. open \in BOOLEAN
    BY DEF Init
  <2>2. events = <<>> /\ pending = <<>> /\ fsBusy = FALSE /\ handler = NoHandler
    BY DEF Init
  <2> QED
    BY <2>1, <2>2, NoHandlerIsHandler, EmptySeq DEF Typed
<1>2. RightKinds /\ OneAtATime
  BY NoHandlerIsHandler DEF Init, RightKinds, OneAtATime, HasCompleted, Once
<1> QED
  BY <1>1, <1>2 DEF IInv

(* An entry is put behind the others.                                      *)
LEMMA AppendFacts ==
  ASSUME Typed, NEW e \in Ops \union {"completed"}, events' = Append(events, e)
  PROVE  /\ events' \in Seq(Ops \union {"completed"})
         /\ e = "completed" => HasCompleted'
         /\ e # "completed" => (HasCompleted' <=> HasCompleted)
         /\ e # "completed" /\ Once(events, "completed") => Once(events', "completed")
         /\ ~HasCompleted => Once(events', "completed")
<1>1. /\ events \in Seq(Ops \union {"completed"})
      /\ events' \in Seq(Ops \union {"completed"}) /\ Len(events') = Len(events) + 1
      /\ events'[Len(events) + 1] = e
      /\ \A i \in 1 .. Len(events) : events'[i] = events[i]
  BY AppendProperties DEF Typed
<1>2. DOMAIN events = 1 .. Len(events) /\ DOMAIN events' = 1 .. Len(events) + 1
      /\ Len(events) \in Nat
  BY <1>1
<1>3. e = "completed" => HasCompleted'
  BY <1>1, <1>2 DEF HasCompleted
<1>4. e # "completed" => (HasCompleted' <=> HasCompleted)
  BY <1>1, <1>2 DEF HasCompleted
<1>5. ASSUME e # "completed", Once(events, "completed"),
             NEW i \in DOMAIN events', NEW j \in DOMAIN events',
             events'[i] = "completed", events'[j] = "completed"
      PROVE  i = j
  <2>1. i \in DOMAIN events /\ j \in DOMAIN events
    BY <1>1, <1>2, <1>5
  <2> QED
    BY <1>1, <1>2, <1>5, <2>1 DEF Once
<1>6. ASSUME ~HasCompleted, NEW i \in DOMAIN events', NEW j \in DOMAIN events',
             events'[i] = "completed", events'[j] = "completed"
      PROVE  i = j
  <2>1. i \notin 1 .. Len(events) /\ j \notin 1 .. Len(events)
    BY <1>1, <1>2, <1>6 DEF HasCompleted
  <2> QED
    BY <1>2, <2>1
<1> QED
  BY <1>1, <1>3, <1>4, <1>5, <1>6 DEF Once

(* The first entry is taken.                                               *)
LEMMA TailFacts ==
  ASSUME Typed, Once(events, "completed"), events # <<>>, events' = Tail(events)
  PROVE  /\ events' \in Seq(Ops \union {"completed"})
         /\ Once(events', "completed")
         /\ Head(events) = "completed" => HasCompleted /\ ~HasCompleted'
         /\ Head(events) # "completed" => (HasCompleted' <=> HasCompleted)
<1>1. /\ events \in Seq(Ops \union {"completed"}) /\ Len(events) \in Nat \ {0}
      /\ events' \in Seq(Ops \union {"completed"}) /\ Len(events') = Len(events) - 1
      /\ Head(events) = events[1]
      /\ \A i \in 1 .. Len(events') : events'[i] = events[i + 1]
  BY HeadTailProperties DEF Typed
<1>2. DOMAIN events = 1 .. Len(events) /\ DOMAIN events' = 1 .. Len(events) - 1
  BY <1>1
<1>3. ASSUME NEW i \in DOMAIN events'
      PROVE  i + 1 \in DOMAIN events /\ i + 1 # 1 /\ events'[i] = events[i + 1] /\ i \in Nat
  BY <1>1, <1>2
<1>4. Once(events', "completed")
  <2>1. ASSUME NEW i \in DOMAIN events', NEW j \in DOMAIN events',
               events'[i] = "completed", events'[j] = "completed"
        PROVE  i = j
    <3>1. i + 1 = j + 1
      BY <1>3, <2>1 DEF Once
    <3> QED
      BY <1>3, <3>1
  <2> QED
    BY <2>1 DEF Once
<1>5. ASSUME Head(events) = "completed" PROVE HasCompleted /\ ~HasCompleted'
  <2>1. 1 \in DOMAIN events /\ events[1] = "completed"
    BY <1>1, <1>2, <1>5
  <2>2. ~HasCompleted'
    BY <1>3, <2>1 DEF HasCompleted, Once
  <2> QED
    BY <2>1, <2>2 DEF HasCompleted
<1>6. ASSUME Head(events) # "completed" PROVE HasCompleted' <=> HasCompleted
  <2>1. ASSUME NEW i \in DOMAIN events, events[i] = "completed"
        PROVE  i - 1 \in DOMAIN events' /\ events'[i - 1] = "completed"
    BY <1>1, <1>2, <1>6, <2>1
  <2> QED
    BY <1>3, <2>1 DEF HasCompleted
<1> QED
  BY <1>1, <1>4, <1>5, <1>6

LEMMA CallStep ==
  ASSUME IInv, NEW o \in Ops, Call(o)
  PROVE  IInv'
<1>1. o # "completed"
  BY NamesAssumption
<1>2. UNCHANGED <<fsBusy, pending, handler, open>> /\ events' = Append(events, o)
  BY DEF Call
<1> QED
  BY <1>1, <1>2, AppendFacts DEF IInv, Typed, RightKinds, OneAtATime

(* A handler is started for an operation that had to wait for its turn, or *)
(* not at all.                                                             *)
LEMMA StartedFacts ==
  ASSUME NEW o \in Ops, KindOf[o] \in Queueable, open \in BOOLEAN, StartHandler(o)
  PROVE  /\ IsHandler(handler') /\ OnItsWay(handler')
         /\ open => handler'.op = o /\ handler'.at = "Plan" /\ fsBusy' = TRUE
         /\ ~open => handler'.op = NoOp /\ handler'.at = "done" /\ fsBusy' = FALSE
<1>1. CASE open
  <2>1. handler' = [NoHandler EXCEPT !.op = o, !.at = "Plan"] /\ fsBusy' = TRUE
    BY <1>1 DEF StartHandler
  <2>2. handler' = [op |-> o, at |-> "Plan", exec |-> "Idle", reply |-> "none",
                    resolving |-> FALSE, todo |-> {}, entries |-> <<>>, sure |-> TRUE]
    BY <2>1 DEF NoHandler
  <2>3. o # NoOp
    BY NamesAssumption
  <2>4. IsRecord(handler')
    BY <2>2 DEF IsRecord
  <2>5. IsHandler(handler') /\ OnItsWay(handler')
    BY <2>2, <2>3, <2>4 DEF IsHandler, OnItsWay, Listing
  <2> QED
    BY <1>1, <2>1, <2>2, <2>5
<1>2. CASE ~open
  BY <1>2, NoHandlerIsHandler DEF StartHandler
<1> QED
  BY <1>1, <1>2

LEMMA RequestFacts ==
  ASSUME IInv, NEW kinds, NEW refusal, Slot(kinds), RequestOr(refusal), kinds \subseteq Queueable
  PROVE  /\ Head(events) \in Ops /\ KindOf[Head(events)] \in Queueable
         /\ Head(events) # "completed" /\ events # <<>> /\ events' = Tail(events)
         /\ UNCHANGED open
         /\ \/ open /\ fsBusy /\ pending' = Append(pending, Head(events))
               /\ UNCHANGED <<fsBusy, handler, answers>>
            \/ open /\ ~fsBusy /\ StartHandler(Head(events)) /\ UNCHANGED pending
            \/ ~open /\ Answer(Head(events), refusal) /\ UNCHANGED <<fsBusy, pending, handler>>
<1>1. /\ Head(events) \in Ops /\ KindOf[Head(events)] \in kinds
      /\ events # <<>> /\ events' = Tail(events) /\ UNCHANGED open
  BY DEF Slot
<1>2. Head(events) # "completed"
  BY <1>1, NamesAssumption
<1>3. open \in BOOLEAN /\ fsBusy \in BOOLEAN
  BY DEF IInv, Typed
<1>4. CASE open
  <2>1. EnqueueFsOp(Head(events))
    BY <1>4 DEF RequestOr
  <2>2. CASE fsBusy
    <3>1. pending' = Append(pending, Head(events)) /\ UNCHANGED <<fsBusy, handler, answers>>
      BY <2>1, <2>2, Zenon DEF EnqueueFsOp
    <3> QED
      BY <1>1, <1>2, <1>4, <2>2, <3>1, Zenon
  <2>3. CASE ~fsBusy
    <3>1. StartHandler(Head(events)) /\ UNCHANGED pending
      BY <2>1, <2>3, Zenon DEF EnqueueFsOp
    <3> QED
      BY <1>1, <1>2, <1>4, <2>3, <3>1, Zenon
  <2> QED
    BY <2>2, <2>3
<1>5. CASE ~open
  BY <1>1, <1>2, <1>5 DEF RequestOr
<1> QED
  BY <1>4, <1>5

LEMMA RequestStep ==
  ASSUME IInv, NEW kinds, NEW refusal, Slot(kinds), RequestOr(refusal), kinds \subseteq Queueable
  PROVE  IInv'
<1> DEFINE o == Head(events)
<1>1. /\ o \in Ops /\ KindOf[o] \in Queueable /\ o # "completed" /\ events # <<>>
      /\ events' = Tail(events) /\ UNCHANGED open
  BY RequestFacts
<1>2. /\ events' \in Seq(Ops \union {"completed"}) /\ Once(events', "completed")
      /\ HasCompleted' <=> HasCompleted
  BY <1>1, TailFacts DEF IInv, OneAtATime
<1> HIDE DEF o
<1>3. CASE open /\ fsBusy /\ pending' = Append(pending, o) /\ UNCHANGED <<fsBusy, handler, answers>>
  <2>1. /\ pending' \in Seq(Ops) /\ Len(pending') = Len(pending) + 1
        /\ pending'[Len(pending) + 1] = o
        /\ \A i \in 1 .. Len(pending) : pending'[i] = pending[i]
    BY <1>1, <1>3, AppendProperties DEF IInv, Typed
  <2>2. \A i \in 1 .. Len(pending') : KindOf[pending'[i]] \in Queueable
    BY <1>1, <2>1 DEF IInv, RightKinds, Typed
  <2> QED
    BY <1>1, <1>2, <1>3, <2>1, <2>2 DEF IInv, Typed, RightKinds, OneAtATime
<1>4. CASE open /\ ~fsBusy /\ StartHandler(o) /\ UNCHANGED pending
  <2>1. /\ IsHandler(handler') /\ OnItsWay(handler') /\ handler'.op = o
        /\ handler'.at = "Plan" /\ fsBusy' = TRUE
    BY <1>1, <1>4, StartedFacts
  <2>2. o # NoOp /\ ~HasCompleted
    BY <1>1, <1>4, NamesAssumption DEF IInv, OneAtATime
  <2> QED
    BY <1>1, <1>2, <1>4, <2>1, <2>2 DEF IInv, Typed, RightKinds, OneAtATime
<1>5. CASE ~open /\ UNCHANGED <<fsBusy, pending, handler>>
  BY <1>1, <1>2, <1>5 DEF IInv, Typed, RightKinds, OneAtATime
<1> QED
  BY <1>3, <1>4, <1>5, RequestFacts DEF o

LEMMA DiscardStep ==
  ASSUME IInv, Discard
  PROVE  IInv'
<1>1. Head(events) # "completed" /\ events # <<>> /\ events' = Tail(events)
      /\ UNCHANGED <<fsBusy, pending, handler, open>>
  BY NamesAssumption DEF Discard, Slot
<1>2. /\ events' \in Seq(Ops \union {"completed"}) /\ Once(events', "completed")
      /\ HasCompleted' <=> HasCompleted
  BY <1>1, TailFacts DEF IInv, OneAtATime
<1> QED
  BY <1>1, <1>2 DEF IInv, Typed, RightKinds, OneAtATime

LEMMA PendingFacts ==
  ASSUME IInv, pending # <<>>
  PROVE  /\ Head(pending) \in Ops /\ KindOf[Head(pending)] \in Queueable
         /\ Tail(pending) \in Seq(Ops)
         /\ \A i \in 1 .. Len(Tail(pending)) : KindOf[Tail(pending)[i]] \in Queueable
<1>1. /\ pending \in Seq(Ops) /\ Len(pending) \in Nat \ {0}
      /\ Tail(pending) \in Seq(Ops) /\ Len(Tail(pending)) = Len(pending) - 1
      /\ Head(pending) = pending[1] /\ Head(pending) \in Ops
      /\ \A i \in 1 .. Len(Tail(pending)) : Tail(pending)[i] = pending[i + 1]
  BY HeadTailProperties DEF IInv, Typed
<1>2. 1 \in 1 .. Len(pending)
      /\ \A i \in 1 .. Len(Tail(pending)) : i + 1 \in 1 .. Len(pending)
  BY <1>1
<1> QED
  BY <1>1, <1>2 DEF IInv, RightKinds

LEMMA CompletedStep ==
  ASSUME IInv, Completed
  PROVE  IInv'
<1>1. Head(events) = "completed" /\ events # <<>> /\ events' = Tail(events) /\ UNCHANGED open
  BY DEF Completed
<1>2. /\ events' \in Seq(Ops \union {"completed"}) /\ Once(events', "completed")
      /\ HasCompleted /\ ~HasCompleted'
  BY <1>1, TailFacts DEF IInv, OneAtATime
<1>3. CASE pending = <<>>
  <2>1. fsBusy' = FALSE /\ handler' = NoHandler /\ pending' = pending
    BY <1>3 DEF Completed
  <2> QED
    BY <1>1, <1>2, <1>3, <2>1, NoHandlerIsHandler DEF IInv, Typed, RightKinds, OneAtATime
<1>4. CASE pending # <<>>
  <2>1. pending' = Tail(pending) /\ StartHandler(Head(pending))
    BY <1>4 DEF Completed
  <2>2. open \in BOOLEAN
    BY DEF IInv, Typed
  <2>3. /\ IsHandler(handler') /\ OnItsWay(handler')
        /\ open => handler'.op = Head(pending) /\ handler'.at = "Plan" /\ fsBusy' = TRUE
        /\ ~open => handler'.op = NoOp /\ handler'.at = "done" /\ fsBusy' = FALSE
    BY <1>4, <2>1, <2>2, PendingFacts, StartedFacts
  <2>4. Head(pending) # NoOp
    BY <1>4, PendingFacts, NamesAssumption
  <2>5. Typed' /\ RightKinds'
    BY <1>1, <1>2, <1>4, <2>1, <2>2, <2>3, PendingFacts DEF Typed, RightKinds
  <2>6. OneAtATime'
    BY <1>1, <1>2, <2>2, <2>3, <2>4 DEF OneAtATime
  <2> QED
    BY <2>5, <2>6 DEF IInv
<1> QED
  BY <1>3, <1>4

LEMMA CleanupStep ==
  ASSUME IInv, Cleanup
  PROVE  IInv'
<1>1. open /\ open' = FALSE /\ handler' = NoHandler /\ UNCHANGED <<fsBusy, pending>>
  BY DEF Cleanup
<1>2. CASE handler.at = "done"
  <2>1. events' = events
    BY <1>2 DEF Cleanup
  <2> QED
    BY <1>1, <1>2, <2>1, NoHandlerIsHandler DEF IInv, Typed, RightKinds, OneAtATime, HasCompleted
<1>3. CASE handler.at # "done"
  <2>1. events' = Append(events, "completed")
    BY <1>3 DEF Cleanup
  <2>2. ~HasCompleted /\ handler.op # NoOp
    BY <1>3, AtWorkFacts DEF IInv, OneAtATime
  <2>3. events' \in Seq(Ops \union {"completed"}) /\ HasCompleted' /\ Once(events', "completed")
    BY <2>1, <2>2, AppendFacts DEF IInv
  <2> QED
    BY <1>1, <1>3, <2>2, <2>3, NoHandlerIsHandler DEF IInv, Typed, RightKinds, OneAtATime
<1> QED
  BY <1>2, <1>3

LEMMA HandlerKeeps ==
  ASSUME IInv, HandlerStep
  PROVE  IInv'
<1>1. IsHandler(handler') /\ OnItsWay(handler') /\ UNCHANGED <<pending, fsBusy, open>>
  BY DEF HandlerStep
<1>2. CASE Moves \/ Stays
  BY <1>1, <1>2 DEF Moves, Stays, IInv, Typed, RightKinds, OneAtATime, HasCompleted
<1>3. CASE Finishes
  <2>1. handler.at # "done" /\ handler'.at = "done" /\ handler'.op = handler.op
        /\ events' = Append(events, "completed")
    BY <1>3 DEF Finishes
  <2>2. ~HasCompleted /\ handler.op # NoOp
    BY <2>1, AtWorkFacts DEF IInv, OneAtATime
  <2>3. events' \in Seq(Ops \union {"completed"}) /\ HasCompleted' /\ Once(events', "completed")
    BY <2>1, <2>2, AppendFacts DEF IInv
  <2> QED
    BY <1>1, <2>1, <2>2, <2>3 DEF IInv, Typed, RightKinds, OneAtATime
<1> QED
  BY <1>2, <1>3 DEF HandlerStep

LEMMA DeliverKeeps == IInv /\ (Deliver \/ UNCHANGED vars) => IInv'
BY DEF Deliver, vars, queue, IInv, Typed, RightKinds, OneAtATime, HasCompleted

LEMMA EveryStep == IInv /\ [Next]_vars => IInv'
<1> SUFFICES ASSUME IInv, [Next]_vars PROVE IInv'
  OBVIOUS
<1>1. CASE \E o \in Ops : Call(o)
  BY <1>1, CallStep
<1>2. CASE Deliver \/ UNCHANGED vars
  BY <1>2, DeliverKeeps
<1>3. CASE RequestMeta \/ RequestEntry \/ RequestTransfer
  <2>1. PICK kinds, refusal : Slot(kinds) /\ RequestOr(refusal) /\ kinds \subseteq Queueable
    BY <1>3 DEF RequestMeta, RequestEntry, RequestTransfer, Queueable
  <2> QED
    BY <2>1, RequestStep
<1>4. CASE Discard
  BY <1>4, DiscardStep
<1>5. CASE Completed
  BY <1>5, CompletedStep
<1>6. CASE Cleanup
  BY <1>6, CleanupStep
<1>7. CASE OnIdle \/ Replied \/ \E o \in late : LateRun(o)
  BY <1>7, TickStep, HandlerKeeps
<1> QED
  BY <1>1, <1>2, <1>3, <1>4, <1>5, <1>6, <1>7 DEF Next, Events

LEMMA Always == Spec => []IInv
BY Starts, EveryStep, PTL DEF Spec

(* An operation that waits is never forgotten: m_fsBusy is set while a     *)
(* handler is on the loop or its completion under way, which comes once,   *)
(* and while the connection is open nothing waits unless it is set         *)
(* (SshWorker::enqueueFsOp, onFsHandlerFinished and cleanup).              *)
THEOREM NothingWaitsInVain == Spec => []SomebodyStartsTheNext
<1>1. IInv => SomebodyStartsTheNext
  <2> SUFFICES ASSUME IInv PROVE SomebodyStartsTheNext
    OBVIOUS
  <2>1. handler = NoHandler <=> handler.op = NoOp
    BY NoHandlerIsHandler DEF IInv, Typed, IsHandler
  <2>2. HasCompleted <=> Completions # {}
    BY DEF HasCompleted, Completions
  <2>3. \A i, j \in Completions : i = j
    BY DEF IInv, OneAtATime, Once, Completions
  <2> QED
    BY <2>1, <2>2, <2>3 DEF IInv, OneAtATime, SomebodyStartsTheNext
<1> QED
  BY <1>1, Always, PTL
-----------------------------------------------------------------------------
(* The worker implements the service.                                      *)

LEMMA RemoveType ==
  ASSUME NEW S, NEW s \in Seq(S), NEW c, Once(s, c)
  PROVE  RemoveFirst(s, c) \in Seq(S)
<1>1. CASE \A i \in 1 .. Len(s) : s[i] # c
  BY <1>1, RemovesNothing
<1>2. CASE \E i \in 1 .. Len(s) : s[i] = c
  <2>1. PICK k \in 1 .. Len(s) : s[k] = c
    BY <1>2
  <2> QED
    BY <2>1, RemovesIt, RemoveAtProperties
<1> QED
  BY <1>1, <1>2

(* The entry between two parts of a sequence is taken out.                 *)
LEMMA TakeOut ==
  ASSUME NEW S, NEW a \in Seq(S), NEW x \in S, NEW b \in Seq(S)
  PROVE  /\ Len(a) + 1 \in DOMAIN (a \o (<<x>> \o b))
         /\ (a \o (<<x>> \o b))[Len(a) + 1] = x
         /\ RemoveAt(a \o (<<x>> \o b), Len(a) + 1) = a \o b
<1> DEFINE d == <<x>> \o b
           e == a \o b
           c == a \o (<<x>> \o b)
           k == Len(a) + 1
<1>1. /\ d \in Seq(S) /\ Len(d) = 1 + Len(b) /\ d[1] = x
      /\ \A i \in 1 .. Len(b) : d[1 + i] = b[i]
  OBVIOUS
<1>2. c = a \o d /\ k = Len(a) + 1
  OBVIOUS
<1> HIDE DEF d, c, k
<1>3. /\ c \in Seq(S) /\ Len(c) = Len(a) + Len(d)
      /\ \A i \in 1 .. Len(a) + Len(d) : c[i] = IF i <= Len(a) THEN a[i] ELSE d[i - Len(a)]
  <2>1. /\ a \o d \in Seq(S) /\ Len(a \o d) = Len(a) + Len(d)
        /\ \A i \in 1 .. Len(a) + Len(d) :
             (a \o d)[i] = IF i <= Len(a) THEN a[i] ELSE d[i - Len(a)]
    <3>1. a \in Seq(S) /\ d \in Seq(S)
      BY <1>1
    <3> QED
      BY <3>1, ConcatProperties
  <2> QED
    BY <1>2, <2>1
<1>4. /\ e \in Seq(S) /\ Len(e) = Len(a) + Len(b)
      /\ \A i \in 1 .. Len(a) + Len(b) : e[i] = IF i <= Len(a) THEN a[i] ELSE b[i - Len(a)]
  BY ConcatProperties
<1> HIDE DEF e
<1>5. Len(a) \in Nat /\ Len(b) \in Nat /\ k \in 1 .. Len(c) /\ k = Len(a) + 1
  BY <1>1, <1>2, <1>3
<1>6. c[k] = x
  BY <1>1, <1>3, <1>5
<1> DEFINE r == RemoveAt(c, k)
<1>7. /\ r \in Seq(S) /\ Len(r) = Len(c) - 1
      /\ \A i \in 1 .. Len(c) - 1 : r[i] = IF i < k THEN c[i] ELSE c[i + 1]
  BY <1>3, <1>5, RemoveAtProperties
<1> HIDE DEF r
<1>8. Len(r) = Len(e)
  BY <1>1, <1>3, <1>4, <1>5, <1>7
<1>9. ASSUME NEW i \in 1 .. Len(r) PROVE r[i] = e[i]
  <2>1. i \in Nat /\ i >= 1 /\ i <= Len(a) + Len(b) /\ i \in 1 .. Len(c) - 1
        /\ i \in 1 .. Len(a) + Len(b)
    BY <1>1, <1>3, <1>5, <1>7
  <2>2. CASE i <= Len(a)
    <3>1. i < k /\ i \in 1 .. Len(a) + Len(d)
      BY <1>1, <1>5, <2>1, <2>2
    <3>2. r[i] = c[i] /\ c[i] = a[i] /\ e[i] = a[i]
      BY <1>3, <1>4, <1>7, <2>1, <2>2, <3>1
    <3> QED
      BY <3>2
  <2>3. CASE ~(i <= Len(a))
    <3>1. ~(i < k) /\ i + 1 \in 1 .. Len(a) + Len(d) /\ ~(i + 1 <= Len(a))
          /\ i - Len(a) \in 1 .. Len(b) /\ (i + 1) - Len(a) = 1 + (i - Len(a))
      BY <1>1, <1>5, <2>1, <2>3
    <3>2. r[i] = c[i + 1] /\ c[i + 1] = d[1 + (i - Len(a))] /\ e[i] = b[i - Len(a)]
      BY <1>3, <1>4, <1>7, <2>1, <2>3, <3>1
    <3>3. d[1 + (i - Len(a))] = b[i - Len(a)]
      BY <1>1, <3>1
    <3> QED
      BY <3>2, <3>3
  <2> QED
    BY <2>2, <2>3
<1>10. r = e
  BY <1>4, <1>7, <1>8, <1>9, SeqEqual
<1>11. k \in DOMAIN c
  BY <1>3, <1>5
<1> QED
  BY <1>3, <1>6, <1>10, <1>11 DEF r, e, c, k

Entry == Ops \union {"completed"}
Mapped == Unanswered \o pending \o Posted

LEMMA MappedTypes ==
  ASSUME IInv
  PROVE  /\ Unanswered \in Seq(Entry) /\ pending \in Seq(Entry) /\ Posted \in Seq(Entry)
         /\ handler.op = NoOp => Unanswered = <<>>
         /\ handler.at = "done" => Unanswered = <<>>
         /\ handler.at # "done" => Unanswered = <<handler.op>> /\ handler.op \in Ops
<1>1. handler.op = NoOp => handler.at = "done"
  BY NoHandlerIsHandler DEF IInv, Typed, IsHandler
<1>2. handler.op \in Ops \union {NoOp}
  BY DEF IInv, Typed, IsHandler
<1>3. pending \in Seq(Entry)
  BY DEF IInv, Typed, Entry
<1>4. Posted \in Seq(Entry)
  BY RemoveType DEF IInv, Typed, OneAtATime, Posted, Entry
<1>5. handler.at # "done" => handler.op \in Ops
  BY <1>1, <1>2
<1>6. Unanswered \in Seq(Entry)
  <2>1. CASE handler.at = "done"
    <3>1. Unanswered = <<>>
      BY <2>1 DEF Unanswered
    <3> QED
      BY <3>1, EmptySeq
  <2>2. CASE handler.at # "done"
    <3>1. Unanswered = <<handler.op>> /\ handler.op \in Entry
      BY <1>5, <2>2 DEF Unanswered, Entry
    <3> DEFINE o == handler.op
    <3>2. Unanswered = <<o>> /\ o \in Entry
      BY <3>1
    <3> HIDE DEF o
    <3> QED
      BY <3>2
  <2> QED
    BY <2>1, <2>2
<1> QED
  BY <1>1, <1>3, <1>4, <1>5, <1>6 DEF Unanswered

(* What the interface posts is submitted to the service.                   *)
LEMMA CallMaps ==
  ASSUME IInv, NEW o \in Ops, Call(o)
  PROVE  Service!Submit(o)
<1>1. UNCHANGED <<pending, handler, answers, open>> /\ events' = Append(events, o)
  BY DEF Call
<1>2. o # "completed" /\ o \in Entry /\ events \in Seq(Entry) /\ Once(events, "completed")
  BY NamesAssumption DEF Entry, IInv, Typed, OneAtATime
<1>3. Posted' = Append(Posted, o)
  BY <1>1, <1>2, RemoveAppend DEF Posted
<1>4. Unanswered' = Unanswered
  BY <1>1 DEF Unanswered
<1> DEFINE a == Unanswered \o pending
<1>5. a \in Seq(Entry) /\ Posted \in Seq(Entry)
  BY MappedTypes
<1>6. a' = a
  BY <1>1, <1>4
<1> HIDE DEF a
<1>7. a \o Append(Posted, o) = Append(a \o Posted, o)
  <2>1. Append(Posted, o) = Posted \o <<o>> /\ Append(a \o Posted, o) = (a \o Posted) \o <<o>>
    BY <1>2, <1>5, AppendIsConcat, ConcatProperties
  <2>2. <<o>> \in Seq(Entry)
    BY <1>2
  <2> QED
    BY <1>5, <2>1, <2>2, ConcatAssociative
<1> QED
  BY <1>1, <1>3, <1>6, <1>7 DEF Service!Submit, a

(* What the queue does with a call that is not carried out yet.            *)
LEMMA PostedTail ==
  ASSUME IInv, events # <<>>, events' = Tail(events)
  PROVE  /\ Posted' \in Seq(Entry)
         /\ Head(events) = "completed" => Posted' = Posted
         /\ Head(events) # "completed" => /\ Posted = <<Head(events)>> \o Posted'
                                          /\ Head(events) \in Entry
<1>1. events \in Seq(Entry) /\ Once(events, "completed") /\ Tail(events) \in Seq(Entry)
      /\ Head(events) \in Entry
  BY HeadTailProperties DEF IInv, Typed, OneAtATime, Entry
<1>2. CASE Head(events) = "completed"
  BY <1>1, <1>2, RemoveHead DEF Posted
<1>3. CASE Head(events) # "completed"
  BY <1>1, <1>3, RemoveTail DEF Posted
<1> QED
  BY <1>1, <1>2, <1>3

LEMMA SameRemoval == \A s, k : Service!RemoveAt(s, k) = RemoveAt(s, k)
BY DEF RemoveAt, Service!RemoveAt

(* A call that is refused or answered at once.                             *)
LEMMA AnswersOut ==
  ASSUME NEW a \in Seq(Entry), NEW o \in Entry, NEW b \in Seq(Entry),
         Mapped = a \o (<<o>> \o b), Mapped' = a \o b
  PROVE  /\ Len(a) + 1 \in DOMAIN Mapped /\ Mapped[Len(a) + 1] = o
         /\ Mapped' = RemoveAt(Mapped, Len(a) + 1)
<1>1. /\ Len(a) + 1 \in DOMAIN (a \o (<<o>> \o b))
      /\ (a \o (<<o>> \o b))[Len(a) + 1] = o
      /\ RemoveAt(a \o (<<o>> \o b), Len(a) + 1) = a \o b
  BY TakeOut
<1> QED
  BY <1>1

LEMMA DiscardMaps ==
  ASSUME IInv, Discard
  PROVE  Service!Next
<1> DEFINE o == Head(events)
           a == Unanswered \o pending
           k == Len(a) + 1
<1>1. /\ o \in Ops /\ KindOf[o] = "discard" /\ events # <<>> /\ events' = Tail(events)
      /\ UNCHANGED <<pending, handler, open>>
      /\ \E r \in {"finished", "error"} : Answer(o, r)
  BY DEF Discard, Slot
<1>2. o # "completed"
  BY <1>1, NamesAssumption
<1>3. Posted = <<o>> \o Posted' /\ Posted' \in Seq(Entry) /\ o \in Entry
  BY <1>1, <1>2, PostedTail
<1>4. Unanswered' = Unanswered
  BY <1>1 DEF Unanswered
<1>5. a \in Seq(Entry) /\ a' = a
  BY <1>1, <1>4, MappedTypes
<1>6. Mapped = a \o Posted /\ Mapped' = a' \o Posted'
  BY DEF Mapped
<1>7. k \in DOMAIN Mapped /\ Mapped[k] = o /\ Mapped' = RemoveAt(Mapped, k)
  <2> HIDE DEF a, o
  <2>1. Mapped = a \o (<<o>> \o Posted') /\ Mapped' = a \o Posted'
    BY <1>3, <1>5, <1>6
  <2> QED
    BY <1>3, <1>5, <2>1, AnswersOut
<1> HIDE DEF a, o, k
<1>8. Service!Reply(k)
  <2>1. PICK r \in {"finished", "error"} : Answer(o, r)
    BY <1>1
  <2>2. KindOf[Mapped[k]] = "discard" /\ r \in Service!AnswersTo(KindOf[Mapped[k]])
    BY <1>1, <1>7 DEF Service!AnswersTo
  <2>3. Service!Answer(Mapped[k], r)
    BY <1>7, <2>1 DEF Answer, Service!Answer
  <2> QED
    BY <1>1, <1>7, <2>2, <2>3, SameRemoval, Zenon DEF Service!Reply, Service!Turn, Mapped
<1> QED
  BY <1>7, <1>8 DEF Service!Next, Service!Serve, Mapped

(* A request waits, is started or is refused.                              *)
LEMMA RequestMaps ==
  ASSUME IInv, NEW kinds, NEW refusal, Slot(kinds), RequestOr(refusal), kinds \subseteq Queueable,
         \A kind \in kinds : refusal \in {"error", "unresolved"} \intersect Service!AnswersTo(kind)
  PROVE  [Service!Next]_(Service!svars)
<1> DEFINE o == Head(events)
<1>1. /\ o \in Ops /\ KindOf[o] \in Queueable /\ o # "completed" /\ events # <<>>
      /\ events' = Tail(events) /\ UNCHANGED open
  BY RequestFacts
<1>2. Posted = <<o>> \o Posted' /\ Posted' \in Seq(Entry) /\ o \in Entry
  BY <1>1, PostedTail
<1>3. KindOf[o] \in kinds
  BY DEF Slot
<1> HIDE DEF o
<1>4. CASE open /\ fsBusy /\ pending' = Append(pending, o) /\ UNCHANGED <<fsBusy, handler, answers>>
  <2>1. Unanswered' = Unanswered
    BY <1>4 DEF Unanswered
  <2>2. Append(pending, o) = pending \o <<o>> /\ <<o>> \in Seq(Entry)
    BY <1>2, MappedTypes, AppendIsConcat
  <2>3. (Unanswered \o (pending \o <<o>>)) \o Posted' = (Unanswered \o pending) \o (<<o>> \o Posted')
    <3> DEFINE a == Unanswered \o pending
    <3>1. a \in Seq(Entry) /\ Unanswered \o (pending \o <<o>>) = a \o <<o>>
      BY <2>2, MappedTypes, ConcatAssociative
    <3> HIDE DEF a
    <3>2. (a \o <<o>>) \o Posted' = a \o (<<o>> \o Posted')
      BY <1>2, <2>2, <3>1, ConcatAssociative
    <3> QED
      BY <3>1, <3>2 DEF a
  <2>4. Mapped' = Mapped
    BY <1>2, <1>4, <2>1, <2>2, <2>3 DEF Mapped
  <2> QED
    BY <1>1, <1>4, <2>4 DEF Service!svars, Mapped
<1>5. CASE open /\ ~fsBusy /\ StartHandler(o) /\ UNCHANGED pending
  <2>1. pending = <<>> /\ handler.op = NoOp
    BY <1>5 DEF IInv, OneAtATime
  <2>2. handler'.op = o /\ handler'.at = "Plan" /\ UNCHANGED answers
    BY <1>1, <1>5, StartedFacts DEF StartHandler
  <2>3. Unanswered = <<>> /\ Unanswered' = <<o>>
    BY <2>1, <2>2, MappedTypes DEF Unanswered
  <2>4. <<o>> \in Seq(Entry) /\ <<o>> \o <<>> = <<o>> /\ <<>> \o Posted = Posted
        /\ (<<>> \o <<>>) = <<>>
    BY <1>2, MappedTypes
  <2>5. Mapped' = Mapped
    BY <1>2, <1>5, <2>1, <2>3, <2>4 DEF Mapped
  <2> QED
    BY <1>1, <2>2, <2>5 DEF Service!svars, Mapped
<1>6. CASE ~open /\ Answer(o, refusal) /\ UNCHANGED <<fsBusy, pending, handler>>
  <2>1. Unanswered = <<>> /\ Unanswered' = <<>>
    BY <1>6, MappedTypes DEF IInv, OneAtATime, Unanswered
  <2>2. pending \in Seq(Entry) /\ <<>> \o pending = pending
    BY MappedTypes
  <2>3. Mapped = pending \o (<<o>> \o Posted') /\ Mapped' = pending \o Posted'
    BY <1>2, <1>6, <2>1, <2>2 DEF Mapped
  <2> DEFINE k == Len(pending) + 1
  <2>4. k \in DOMAIN Mapped /\ Mapped[k] = o /\ Mapped' = RemoveAt(Mapped, k)
    BY <1>2, <2>2, <2>3, AnswersOut
  <2> HIDE DEF k
  <2>5. Service!Refuse(k)
    <3>1. refusal \in {"error", "unresolved"} \intersect Service!AnswersTo(KindOf[Mapped[k]])
      BY <1>3, <2>4, Zenon
    <3>2. Service!Answer(Mapped[k], refusal)
      BY <1>6, <2>4 DEF Answer, Service!Answer
    <3> QED
      BY <1>1, <1>6, <2>4, <3>1, <3>2, SameRemoval, Zenon DEF Service!Refuse, Mapped
  <2> QED
    BY <2>4, <2>5 DEF Service!Next, Service!Serve, Mapped
<1> QED
  BY <1>4, <1>5, <1>6, RequestFacts DEF o

(* An operation that was refused: it has been called and is answered.      *)
LEMMA FirstRefused ==
  ASSUME ~open, UNCHANGED open, NEW o, NEW r,
         r \in {"error", "unresolved"} \intersect Service!AnswersTo(KindOf[o]), Answer(o, r),
         NEW k \in DOMAIN Mapped, Mapped[k] = o, Mapped' = RemoveAt(Mapped, k)
  PROVE  Service!Next
<1>1. Service!Answer(Mapped[k], r)
  BY DEF Answer, Service!Answer
<1>2. r \in {"error", "unresolved"} \intersect Service!AnswersTo(KindOf[Mapped[k]])
  OBVIOUS
<1>3. Service!Refuse(k)
  BY <1>1, <1>2, SameRemoval, Zenon DEF Service!Refuse, Mapped
<1> QED
  BY <1>3 DEF Service!Next, Service!Serve, Mapped

(* The next in the queue is started, or refused when there is no connection. *)
LEMMA CompletedMaps ==
  ASSUME IInv, Completed
  PROVE  [Service!Next]_(Service!svars)
<1>1. Head(events) = "completed" /\ events # <<>> /\ events' = Tail(events) /\ UNCHANGED open
  BY DEF Completed
<1>2. Posted' = Posted /\ Posted \in Seq(Entry) /\ pending \in Seq(Entry)
  BY <1>1, PostedTail, MappedTypes
<1>3. handler.at = "done" /\ Unanswered = <<>>
  <2>1. HasCompleted
    BY <1>1, TailFacts DEF IInv, OneAtATime
  <2> QED
    BY <2>1, MappedTypes DEF IInv, OneAtATime
<1>4. CASE pending = <<>>
  <2>1. handler' = NoHandler /\ UNCHANGED <<pending, answers>>
    BY <1>4 DEF Completed
  <2>2. Unanswered' = <<>>
    BY <2>1, NoHandlerIsHandler DEF Unanswered
  <2>3. Mapped' = Mapped
    BY <1>2, <1>3, <2>1, <2>2 DEF Mapped
  <2> QED
    BY <1>1, <2>1, <2>3 DEF Service!svars, Mapped
<1>5. CASE pending # <<>>
  <2> DEFINE o == Head(pending)
             t == Tail(pending)
  <2>1. pending' = t /\ StartHandler(o)
    BY <1>5 DEF Completed
  <2>2. o \in Ops /\ o \in Entry /\ KindOf[o] \in Queueable /\ t \in Seq(Entry) /\ pending = <<o>> \o t
    BY <1>2, <1>5, PendingFacts DEF Entry
  <2>3. open \in BOOLEAN
    BY DEF IInv, Typed
  <2> HIDE DEF o, t
  <2>4. Mapped = (<<o>> \o t) \o Posted
    BY <1>2, <1>3, <2>2 DEF Mapped
  <2>5. CASE open
    <3>0. UNCHANGED answers
      BY <2>1, <2>5, Zenon DEF StartHandler
    <3>1. handler'.op = o /\ handler'.at = "Plan" /\ UNCHANGED answers
      BY <2>1, <2>2, <2>5, <3>0, StartedFacts
    <3>2. Unanswered' = <<o>>
      BY <3>1 DEF Unanswered
    <3>3. Mapped' = Mapped
      BY <1>2, <2>1, <2>4, <3>2 DEF Mapped
    <3> QED
      BY <1>1, <3>1, <3>3 DEF Service!svars, Mapped
  <2>6. CASE ~open
    <3>0. Answer(o, "error")
      BY <2>1, <2>6, Zenon DEF StartHandler
    <3>1. handler'.at = "done" /\ Answer(o, "error")
      BY <2>1, <2>2, <2>3, <2>6, <3>0, StartedFacts
    <3>2. Unanswered' = <<>>
      BY <3>1 DEF Unanswered
    <3>3. <<>> \in Seq(Entry) /\ <<o>> \in Seq(Entry) /\ (<<o>> \o t) \o Posted = <<o>> \o (t \o Posted)
      BY <1>2, <2>2, ConcatAssociative
    <3>4. t \o Posted \in Seq(Entry)
      BY <1>2, <2>2, ConcatProperties
    <3>5. Mapped' = <<>> \o (t \o Posted)
      <4>1. <<>> \o t = t
        BY <2>2
      <4>2. <<>> \o (t \o Posted) = t \o Posted
        BY <3>4
      <4> QED
        BY <1>2, <2>1, <3>2, <4>1, <4>2 DEF Mapped
    <3> DEFINE b == t \o Posted
    <3>6. Mapped = <<>> \o (<<o>> \o b)
      <4>1. b \in Seq(Entry) /\ Mapped = <<o>> \o b
        BY <2>4, <3>3, <3>4
      <4> HIDE DEF b
      <4>2. <<o>> \o b \in Seq(Entry)
        BY <2>2, <3>3, <4>1, ConcatProperties
      <4>3. <<>> \o (<<o>> \o b) = <<o>> \o b
        BY <4>2, ConcatEmptySeq
      <4> QED
        BY <4>1, <4>3
    <3>7. b \in Seq(Entry) /\ Mapped' = <<>> \o b
      BY <3>4, <3>5
    <3> HIDE DEF b
    <3>8. 1 \in DOMAIN Mapped /\ Mapped[1] = o /\ Mapped' = RemoveAt(Mapped, 1)
      <4>1. Len(<<>>) + 1 = 1
        OBVIOUS
      <4> DEFINE e == <<>>
      <4>2. e \in Seq(Entry) /\ Len(e) + 1 = 1 /\ Mapped = e \o (<<o>> \o b) /\ Mapped' = e \o b
        BY <3>3, <3>6, <3>7
      <4> HIDE DEF e
      <4>3. /\ Len(e) + 1 \in DOMAIN Mapped /\ Mapped[Len(e) + 1] = o
            /\ Mapped' = RemoveAt(Mapped, Len(e) + 1)
        BY <2>2, <3>7, <4>2, AnswersOut
      <4> QED
        BY <4>2, <4>3
    <3>9. "error" \in {"error", "unresolved"} \intersect Service!AnswersTo(KindOf[o])
      BY <2>2 DEF Queueable, Service!AnswersTo
    <3> QED
      BY <1>1, <2>6, <3>1, <3>8, <3>9, FirstRefused
  <2> QED
    BY <2>3, <2>5, <2>6
<1> QED
  BY <1>4, <1>5

(* The first of the operations that are carried out is taken from the rest. *)
LEMMA WorkTaken ==
  ASSUME IInv, handler.at # "done", handler'.at = "done", UNCHANGED pending, Posted' = Posted
  PROVE  /\ 1 \in DOMAIN Mapped /\ Mapped[1] = handler.op
         /\ Mapped' = RemoveAt(Mapped, 1)
<1> DEFINE o == handler.op
           b == pending \o Posted
           e == <<>>
<1>1. o \in Entry /\ Unanswered = <<o>> /\ pending \in Seq(Entry) /\ Posted \in Seq(Entry)
  BY MappedTypes DEF Entry
<1>2. Unanswered' = <<>>
  BY DEF Unanswered
<1> HIDE DEF o
<1>3. b \in Seq(Entry) /\ e \in Seq(Entry) /\ Len(e) + 1 = 1 /\ <<o>> \in Seq(Entry)
  BY <1>1, ConcatProperties
<1>4. Mapped' = e \o b
  <2>1. <<>> \o pending = pending /\ <<>> \o b = b
    BY <1>1, <1>3, ConcatEmptySeq
  <2> QED
    BY <1>2, <2>1 DEF Mapped
<1>5. Mapped = e \o (<<o>> \o b)
  <2>1. (<<o>> \o pending) \o Posted = <<o>> \o b
    BY <1>1, <1>3, ConcatAssociative
  <2> HIDE DEF b
  <2>2. <<>> \o (<<o>> \o b) = <<o>> \o b
    BY <1>3, ConcatProperties, ConcatEmptySeq
  <2> QED
    BY <1>1, <2>1, <2>2 DEF Mapped
<1> HIDE DEF b, e
<1>6. /\ Len(e) + 1 \in DOMAIN Mapped /\ Mapped[Len(e) + 1] = o
      /\ Mapped' = RemoveAt(Mapped, Len(e) + 1)
  BY <1>1, <1>3, <1>4, <1>5, AnswersOut
<1> QED
  BY <1>3, <1>6 DEF o

(* While a handler is at work no completion is under way.                  *)
LEMMA CompletionPosted ==
  ASSUME IInv, handler.at # "done", events' = Append(events, "completed")
  PROVE  Posted' = Posted
<1>1. events \in Seq(Entry) /\ "completed" \in Entry /\ \A i \in 1 .. Len(events) : events[i] # "completed"
  BY DEF IInv, Typed, OneAtATime, HasCompleted, Entry
<1>2. RemoveFirst(events, "completed") = events
  BY <1>1, RemovesNothing
<1>3. RemoveFirst(Append(events, "completed"), "completed") = events
  BY <1>1, RemoveAppended
<1> QED
  BY <1>2, <1>3 DEF Posted

(* The connection ends, and the operation at work is given up with it.     *)
LEMMA CleanupMaps ==
  ASSUME IInv, Cleanup
  PROVE  Service!Close
<1>1. open /\ open' = FALSE /\ handler' = NoHandler /\ UNCHANGED <<pending, answers>>
  BY DEF Cleanup
<1>2. handler'.at = "done" /\ Unanswered' = <<>>
  BY <1>1, NoHandlerIsHandler DEF Unanswered
<1>3. CASE handler.at = "done"
  <2>1. events' = events /\ Unanswered = <<>>
    BY <1>3 DEF Cleanup, Unanswered
  <2>2. Mapped' = Mapped
    BY <1>1, <1>2, <2>1 DEF Mapped, Posted
  <2> QED
    BY <1>1, <2>2, SameRemoval DEF Service!Close, Mapped
<1>4. CASE handler.at # "done"
  <2>1. events' = Append(events, "completed")
    BY <1>4 DEF Cleanup
  <2>2. 1 \in DOMAIN Mapped /\ Mapped' = RemoveAt(Mapped, 1)
    BY <1>1, <1>2, <1>4, <2>1, CompletionPosted, WorkTaken
  <2> QED
    BY <1>1, <2>2, SameRemoval DEF Service!Close, Mapped
<1> QED
  BY <1>3, <1>4

(* A handler's step is none of the service's, until it answers.            *)
LEMMA HandlerMaps ==
  ASSUME IInv, HandlerStep
  PROVE  [Service!Next]_(Service!svars)
<1>1. UNCHANGED <<pending, open>>
  BY DEF HandlerStep
<1>2. CASE Moves \/ Stays
  <2>1. UNCHANGED <<events, answers>> /\ Unanswered' = Unanswered
    BY <1>2 DEF Moves, Stays, Unanswered
  <2>2. Mapped' = Mapped
    BY <1>1, <2>1 DEF Mapped, Posted
  <2> QED
    BY <1>1, <2>1, <2>2 DEF Service!svars, Mapped
<1>3. CASE Finishes
  <2>1. handler.at # "done" /\ handler'.at = "done" /\ events' = Append(events, "completed")
    BY <1>3 DEF Finishes
  <2>2. 1 \in DOMAIN Mapped /\ Mapped[1] = handler.op /\ Mapped' = RemoveAt(Mapped, 1)
    BY <1>1, <2>1, CompletionPosted, WorkTaken
  <2>3. PICK a \in Service!AnswersTo(KindOf[handler.op]) : Answer(handler.op, a)
    BY <1>3 DEF Finishes
  <2>4. a \in Service!AnswersTo(KindOf[Mapped[1]]) /\ Service!Answer(Mapped[1], a)
    BY <2>2, <2>3 DEF Service!Answer, Answer
  <2>5. open
    <3>1. handler.op # NoOp /\ open \in BOOLEAN
      BY <2>1, AtWorkFacts DEF IInv, Typed
    <3> QED
      BY <3>1 DEF IInv, OneAtATime
  <2>6. \A j \in 1 .. 1 - 1 : FALSE
    OBVIOUS
  <2>7. Service!Turn(1)
    BY <2>6 DEF Service!Turn
  <2>8. Service!Reply(1)
    BY <1>1, <2>2, <2>4, <2>5, <2>7, SameRemoval, Zenon DEF Service!Reply, Mapped
  <2> QED
    BY <2>2, <2>8 DEF Service!Next, Service!Serve, Mapped
<1> QED
  BY <1>2, <1>3 DEF HandlerStep

LEMMA StepMaps == IInv /\ [Next]_vars => [Service!Next]_(Service!svars)
<1> SUFFICES ASSUME IInv, [Next]_vars PROVE [Service!Next]_(Service!svars)
  OBVIOUS
<1>1. CASE \E o \in Ops : Call(o)
  BY <1>1, CallMaps DEF Service!Next
<1>2. CASE Deliver
  <2>1. UNCHANGED <<events, pending, handler, open>> /\ answers # <<>> /\ answers' = Tail(answers)
    BY <1>2 DEF Deliver, queue
  <2>2. Mapped' = Mapped
    BY <2>1 DEF Mapped, Posted, Unanswered
  <2> QED
    BY <2>1, <2>2 DEF Service!Next, Service!Deliver, Mapped
<1>3. CASE UNCHANGED vars
  <2>1. UNCHANGED <<events, pending, handler, open, answers>>
    BY <1>3 DEF vars, queue
  <2>2. Mapped' = Mapped
    BY <2>1 DEF Mapped, Posted, Unanswered
  <2> QED
    BY <2>1, <2>2 DEF Service!svars, Mapped
<1>4. CASE RequestMeta \/ RequestEntry \/ RequestTransfer
  <2>1. PICK kinds, refusal :
          /\ Slot(kinds) /\ RequestOr(refusal) /\ kinds \subseteq Queueable
          /\ \A kind \in kinds : refusal \in {"error", "unresolved"} \intersect Service!AnswersTo(kind)
    <3>1. \A kind \in Queueable : "error" \in {"error", "unresolved"} \intersect Service!AnswersTo(kind)
      BY DEF Queueable, Service!AnswersTo
    <3>2. \A kind \in {"resolve"} : "unresolved" \in {"error", "unresolved"} \intersect Service!AnswersTo(kind)
      BY DEF Service!AnswersTo
    <3>3. {"list", "change", "canonical"} \subseteq Queueable /\ {"resolve"} \subseteq Queueable
          /\ {"transfer"} \subseteq Queueable
      BY DEF Queueable
    <3>4. CASE RequestMeta
      BY <3>1, <3>3, <3>4 DEF RequestMeta
    <3>5. CASE RequestEntry
      BY <3>2, <3>3, <3>5 DEF RequestEntry
    <3>6. CASE RequestTransfer
      BY <3>1, <3>3, <3>6 DEF RequestTransfer
    <3> QED
      BY <1>4, <3>4, <3>5, <3>6
  <2> QED
    BY <2>1, RequestMaps
<1>5. CASE Discard
  BY <1>5, DiscardMaps
<1>6. CASE Completed
  BY <1>6, CompletedMaps
<1>7. CASE Cleanup
  BY <1>7, CleanupMaps DEF Service!Next
<1>8. CASE OnIdle \/ Replied \/ \E o \in late : LateRun(o)
  BY <1>8, TickStep, HandlerMaps
<1> QED
  BY <1>1, <1>2, <1>3, <1>4, <1>5, <1>6, <1>7, <1>8 DEF Next, Events

(* The worker is the service that the interface counts on, the order of    *)
(* its answers and their kinds included: one operation at a time, in the   *)
(* order of the calls, each with one answer or none once the connection    *)
(* has ended (SshWorker's slots and its queue, the SFTP and SCP handlers). *)
THEOREM ServesInTurn == Spec => Service!SafeSpec
<1>1. Init => Service!Init
  <2> SUFFICES ASSUME Init PROVE Service!Init
    OBVIOUS
  <2>1. Unanswered = <<>> /\ Posted = <<>> /\ pending = <<>> /\ answers = <<>>
    <3>1. events = <<>> /\ pending = <<>> /\ answers = <<>> /\ handler = NoHandler
      BY DEF Init
    <3>2. RemoveFirst(<<>>, "completed") = <<>>
      BY RemovesNothing
    <3> QED
      BY <3>1, <3>2, NoHandlerIsHandler DEF Unanswered, Posted
  <2>2. open \in BOOLEAN
    BY Starts DEF IInv, Typed
  <2> QED
    BY <2>1, <2>2 DEF Service!Init
<1> QED
  BY <1>1, StepMaps, Always, PTL DEF Spec, Service!SafeSpec
=============================================================================
