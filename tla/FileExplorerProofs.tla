------------------------- MODULE FileExplorerProofs -------------------------
(***************************************************************************)
(* Proofs about FileExplorer, for any directories, any links to them and   *)
(* any number of calls, items and changes of tab.                          *)
(***************************************************************************)
EXTENDS FileExplorer, SequenceTheorems, TLAPS

Members ==
  [busy : BOOLEAN, awaiting : BOOLEAN, rootAsked : BOOLEAN, root : Path,
   nav : Path, prev : Path, resolving : Links \union {None}, deletes : 0 .. MaxItems,
   opens : 0 .. MaxItems, openActive : BOOLEAN, refresh : Path, checking : Path,
   unlisted : BOOLEAN]

(* Everything an operation may be answered with.                           *)
Signals == {"listed", "resolvedDir", "resolvedFile", "unresolved", "canonicalized",
            "finished", "canceled", "interrupted", "error"}

Typed ==
  /\ ex \in Members /\ bound \in BOOLEAN /\ deferred \in BOOLEAN
  /\ dialogs \in Seq(Prompts \X Dirs)
  /\ calls \in Seq(Ops) /\ answers \in Seq(Ops \X Signals)
  /\ bound => open

(* Every answer under way is one to its operation.                         *)
Fits(x) == x[2] \in Svc!AnswersTo(KindOf[x[1]])
Answering == \A x \in ToSet(answers) : Fits(x)

(* Owed, for calls cs and answers sent.                                    *)
Answers(x, o) == x[1] = o
OwedIn(o, cs, sent) == o \in ToSet(cs) \/ \E x \in ToSet(sent) : Answers(x, o)

(* The operations whose end the explorer waits for with a flag.            *)
OwnOps == {Op(n) : n \in {"change", "delete", "upload", "download", "resume", "open"}}
Confirming(ds) == ds # <<>> /\ Last(ds)[1] = "confirm"

(* What keeps the explorer busy, and what is going to end each: members e, *)
(* timer t, dialogs ds, calls cs and answers sent.                         *)
Excused(e, t, ds, cs, sent) ==
  e.busy =>
    \/ t \/ Confirming(ds) \/ e.resolving # None \/ e.checking # None
    \/ e.rootAsked /\ e.awaiting /\ OwedIn(Op("canonical"), cs, sent)
    \/ (e.awaiting \/ e.openActive) /\ \E o \in OwnOps : OwedIn(o, cs, sent)
Awaited(e, cs, sent) == e.checking # None => OwedIn(List(e.checking), cs, sent)

IInv ==
  /\ Typed /\ Answering
  /\ bound => Excused(ex, deferred, dialogs, calls, answers) /\ Awaited(ex, calls, answers)

-----------------------------------------------------------------------------
(* Calls, answers and what is owed.                                        *)

(* The first of a queue is taken, or something is put behind it.           *)
LEMMA Taken ==
  ASSUME NEW S, NEW s \in Seq(S), s # <<>>
  PROVE  /\ Tail(s) \in Seq(S) /\ Head(s) \in S
         /\ ToSet(s) = {Head(s)} \union ToSet(Tail(s))
<1>1. Len(s) \in Nat \ {0}
  BY EmptySeq
<1>2. Tail(s) \in Seq(S) /\ Len(Tail(s)) = Len(s) - 1 /\ Head(s) \in S /\ Head(s) = s[1]
  BY HeadTailProperties
<1>3. \A i \in 1 .. Len(s) - 1 : Tail(s)[i] = s[i + 1]
  BY HeadTailProperties
<1>4. DOMAIN s = 1 .. Len(s) /\ DOMAIN Tail(s) = 1 .. Len(s) - 1
  BY <1>2, LenProperties
<1>5. ASSUME NEW i \in DOMAIN s, i # 1
      PROVE  s[i] \in ToSet(Tail(s))
  <2>1. i - 1 \in 1 .. Len(s) - 1 /\ (i - 1) + 1 = i
    BY <1>1, <1>4, <1>5
  <2>2. Tail(s)[i - 1] = s[(i - 1) + 1]
    BY <1>3, <2>1
  <2> QED
    BY <1>4, <2>1, <2>2 DEF ToSet
<1>6. ASSUME NEW i \in DOMAIN Tail(s)
      PROVE  i + 1 \in DOMAIN s /\ Tail(s)[i] = s[i + 1]
  BY <1>1, <1>3, <1>4
<1>7. 1 \in DOMAIN s
  BY <1>1, <1>4
<1>8. ToSet(s) \subseteq {Head(s)} \union ToSet(Tail(s))
  BY <1>2, <1>5 DEF ToSet
<1>9. ToSet(Tail(s)) \subseteq ToSet(s) /\ Head(s) \in ToSet(s)
  BY <1>2, <1>6, <1>7 DEF ToSet
<1> QED
  BY <1>2, <1>8, <1>9

LEMMA PutBehind ==
  ASSUME NEW S, NEW s \in Seq(S), NEW x \in S
  PROVE  Append(s, x) \in Seq(S) /\ ToSet(Append(s, x)) = ToSet(s) \union {x}
<1>1. /\ Append(s, x) \in Seq(S) /\ Len(s) \in Nat
      /\ DOMAIN s = 1 .. Len(s) /\ DOMAIN Append(s, x) = 1 .. Len(s) + 1
      /\ \A i \in 1 .. Len(s) : Append(s, x)[i] = s[i]
      /\ Append(s, x)[Len(s) + 1] = x
  BY AppendProperties, LenProperties
<1>2. \A i : i \in 1 .. Len(s) + 1 <=> i \in 1 .. Len(s) \/ i = Len(s) + 1
  BY <1>1
<1>3. ToSet(Append(s, x)) \subseteq ToSet(s) \union {x}
  BY <1>1, <1>2 DEF ToSet
<1>4. ToSet(s) \subseteq ToSet(Append(s, x)) /\ x \in ToSet(Append(s, x))
  BY <1>1, <1>2 DEF ToSet
<1> QED
  BY <1>1, <1>3, <1>4

(* One sequence after another holds what each of them does.                *)
LEMMA Joined ==
  ASSUME NEW S, NEW s \in Seq(S), NEW t \in Seq(S)
  PROVE  s \o t \in Seq(S) /\ ToSet(s \o t) = ToSet(s) \union ToSet(t)
<1>1. /\ Len(s) \in Nat /\ Len(t) \in Nat /\ DOMAIN s = 1 .. Len(s) /\ DOMAIN t = 1 .. Len(t)
  BY LenProperties
<1>2. /\ s \o t \in Seq(S) /\ Len(s \o t) = Len(s) + Len(t)
      /\ \A i \in 1 .. Len(s) + Len(t) :
           (s \o t)[i] = IF i <= Len(s) THEN s[i] ELSE t[i - Len(s)]
  BY ConcatProperties
<1>3. DOMAIN (s \o t) = 1 .. Len(s) + Len(t)
  BY <1>2, LenProperties
<1>4. ASSUME NEW i \in DOMAIN s
      PROVE  i \in DOMAIN (s \o t) /\ (s \o t)[i] = s[i]
  BY <1>1, <1>2, <1>3
<1>5. ASSUME NEW i \in DOMAIN t
      PROVE  Len(s) + i \in DOMAIN (s \o t) /\ (s \o t)[Len(s) + i] = t[i]
  <2>1. /\ Len(s) + i \in 1 .. Len(s) + Len(t) /\ ~(Len(s) + i <= Len(s))
        /\ (Len(s) + i) - Len(s) = i
    BY <1>1
  <2> QED
    BY <1>2, <1>3, <2>1
<1>6. ASSUME NEW i \in DOMAIN (s \o t)
      PROVE  (s \o t)[i] \in ToSet(s) \union ToSet(t)
  <2>1. CASE i <= Len(s)
    <3>1. i \in DOMAIN s /\ (s \o t)[i] = s[i]
      BY <1>1, <1>2, <1>3, <2>1
    <3> QED
      BY <3>1 DEF ToSet
  <2>2. CASE ~(i <= Len(s))
    <3>1. i - Len(s) \in DOMAIN t /\ (s \o t)[i] = t[i - Len(s)]
      BY <1>1, <1>2, <1>3, <2>2
    <3> QED
      BY <3>1 DEF ToSet
  <2> QED
    BY <2>1, <2>2
<1>7. ToSet(s \o t) \subseteq ToSet(s) \union ToSet(t)
  BY <1>6 DEF ToSet
<1>8. ToSet(s) \subseteq ToSet(s \o t)
  BY <1>4 DEF ToSet
<1>9. ToSet(t) \subseteq ToSet(s \o t)
  BY <1>5 DEF ToSet
<1> QED
  BY <1>2, <1>7, <1>8, <1>9

(* Of a sequence with one element removed, every other one is left.        *)
LEMMA Removed ==
  ASSUME NEW S, NEW s \in Seq(S), NEW i \in DOMAIN s
  PROVE  /\ RemoveAt(s, i) \in Seq(S) /\ s[i] \in S
         /\ ToSet(s) \subseteq ToSet(RemoveAt(s, i)) \union {s[i]}
<1> DEFINE front == SubSeq(s, 1, i - 1)
           back == SubSeq(s, i + 1, Len(s))
<1>1. /\ DOMAIN s = 1 .. Len(s) /\ Len(s) \in Nat /\ i \in 1 .. Len(s)
      /\ \A j \in 1 .. Len(s) : s[j] \in S
  BY LenProperties, ElementOfSeq
<1>2. /\ front \in Seq(S) /\ Len(front) = i - 1
      /\ \A j \in 1 .. i - 1 : front[j] = s[j]
  <2>1. 1 \in Int /\ i - 1 \in Int /\ \A j \in 1 .. i - 1 : s[j] \in S
    BY <1>1
  <2> QED
    BY <1>1, <2>1, SubSeqProperties
<1>3. /\ back \in Seq(S) /\ Len(back) = Len(s) - i
      /\ \A j \in 1 .. Len(s) - i : back[j] = s[i + j]
  <2>1. i + 1 \in Int /\ Len(s) \in Int /\ \A j \in i + 1 .. Len(s) : s[j] \in S
    BY <1>1
  <2> QED
    BY <1>1, <2>1, SubSeqProperties
<1>4. RemoveAt(s, i) = front \o back
  BY DEF RemoveAt
<1> HIDE DEF front, back
<1>5. DOMAIN front = 1 .. i - 1 /\ DOMAIN back = 1 .. Len(s) - i
  BY <1>2, <1>3, LenProperties
<1>6. ASSUME NEW j \in DOMAIN s, j # i
      PROVE  s[j] \in ToSet(front) \union ToSet(back)
  <2>1. CASE j < i
    <3>1. j \in DOMAIN front /\ front[j] = s[j]
      BY <1>1, <1>2, <1>5, <2>1
    <3> QED
      BY <3>1 DEF ToSet
  <2>2. CASE j > i
    <3>1. j - i \in DOMAIN back /\ i + (j - i) = j
      BY <1>1, <1>5, <2>2
    <3>2. back[j - i] = s[i + (j - i)]
      BY <1>3, <1>5, <3>1
    <3> QED
      BY <3>1, <3>2 DEF ToSet
  <2> QED
    BY <1>1, <1>6, <2>1, <2>2
<1>7. front \o back \in Seq(S) /\ ToSet(front \o back) = ToSet(front) \union ToSet(back)
  BY <1>2, <1>3, Joined
<1>8. ToSet(s) \subseteq ToSet(front \o back) \union {s[i]}
  BY <1>6, <1>7 DEF ToSet
<1> QED
  BY <1>1, <1>4, <1>7, <1>8

(* One element, two elements, and none.                                    *)
LEMMA Few ==
  ASSUME NEW S, NEW x \in S, NEW y \in S
  PROVE  /\ <<>> \in Seq(S) /\ ToSet(<<>>) = {}
         /\ <<x>> \in Seq(S) /\ ToSet(<<x>>) = {x}
         /\ <<x>> \o <<y>> \in Seq(S) /\ ToSet(<<x>> \o <<y>>) = {x, y}
<1>1. <<>> \in Seq(S) /\ ToSet(<<>>) = {}
  BY DEF ToSet
<1>2. ASSUME NEW z \in S
      PROVE  <<z>> \in Seq(S) /\ ToSet(<<z>>) = {z}
  BY DEF ToSet
<1>3. /\ <<x>> \in Seq(S) /\ ToSet(<<x>>) = {x}
      /\ <<y>> \in Seq(S) /\ ToSet(<<y>>) = {y}
  BY <1>2
<1> DEFINE one == <<x>>
           other == <<y>>
<1> HIDE DEF one, other
<1>4. one \o other \in Seq(S) /\ ToSet(one \o other) = {x, y}
  <2>1. one \in Seq(S) /\ other \in Seq(S) /\ ToSet(one) = {x} /\ ToSet(other) = {y}
    BY <1>3 DEF one, other
  <2> QED
    BY <2>1, Joined
<1> QED
  BY <1>1, <1>3, <1>4 DEF one, other

(* An answer that is taken is owed no more; the others still are.          *)
LEMMA AnswerTaken ==
  ASSUME NEW cs, NEW sent \in Seq(Ops \X Signals), sent # <<>>
  PROVE  /\ Tail(sent) \in Seq(Ops \X Signals) /\ Head(sent) \in Ops \X Signals
         /\ ToSet(sent) = {Head(sent)} \union ToSet(Tail(sent))
         /\ \A o : o # Head(sent)[1] /\ OwedIn(o, cs, sent) => OwedIn(o, cs, Tail(sent))
<1>1. /\ Tail(sent) \in Seq(Ops \X Signals) /\ Head(sent) \in Ops \X Signals
      /\ ToSet(sent) = {Head(sent)} \union ToSet(Tail(sent))
  BY Taken
<1> QED
  BY <1>1 DEF OwedIn, Answers

(* More calls are made.                                                    *)
LEMMA MoreCalls ==
  ASSUME NEW cs \in Seq(Ops), NEW os \in Seq(Ops), NEW sent
  PROVE  /\ cs \o os \in Seq(Ops)
         /\ \A o : OwedIn(o, cs, sent) => OwedIn(o, cs \o os, sent)
         /\ \A o \in ToSet(os) : OwedIn(o, cs \o os, sent)
<1>1. cs \o os \in Seq(Ops) /\ ToSet(cs \o os) = ToSet(cs) \union ToSet(os)
  BY Joined
<1> QED
  BY <1>1 DEF OwedIn

(* What an answer says tells the kind of operation it belongs to.          *)
LEMMA AnswersTell ==
  ASSUME NEW o \in Ops, NEW a \in Svc!AnswersTo(KindOf[o])
  PROVE  /\ a \in Signals
         /\ a = "canonicalized" => o = Op("canonical")
         /\ a = "listed" => o \in {"list"} \X Dirs
         /\ o[1] = "resolve" =>
              /\ o \in {"resolve"} \X Links
              /\ a \in {"resolvedDir", "resolvedFile", "unresolved", "error"}
         /\ a \in {"finished", "canceled", "interrupted"} =>
              o \notin {"list"} \X Dirs /\ o \notin {"resolve"} \X Links
<1>1. Ops = ({"list"} \X Dirs) \union ({"resolve"} \X Links) \union
            {Op(n) : n \in {"canonical", "change", "delete", "discard"} \union Transfers}
  BY DEF Ops, KindOf
<1>2. KindOf[o] = CASE o[1] \in Transfers -> "transfer"
                    [] o[1] = "delete" -> "change"
                    [] OTHER -> o[1]
  BY <1>1 DEF KindOf
<1>3. CASE o \in {"list"} \X Dirs
  <2>1. o[1] = "list"
    BY <1>3
  <2>2. KindOf[o] = "list"
    BY <1>2, <2>1 DEF Transfers
  <2>3. a \in {"listed", "error"}
    BY <2>2 DEF Svc!AnswersTo
  <2> QED
    BY <1>3, <2>1, <2>3 DEF Signals
<1>4. CASE o \in {"resolve"} \X Links
  <2>1. o[1] = "resolve"
    BY <1>4
  <2>2. KindOf[o] = "resolve"
    BY <1>2, <2>1 DEF Transfers
  <2>3. a \in {"resolvedDir", "resolvedFile", "unresolved", "error"}
    BY <2>2 DEF Svc!AnswersTo
  <2> QED
    BY <1>4, <2>1, <2>3 DEF Signals
<1>5. CASE o = Op("canonical")
  <2>1. o[1] = "canonical"
    BY <1>5 DEF Op
  <2>2. KindOf[o] = "canonical"
    BY <1>2, <2>1 DEF Transfers
  <2>3. a \in {"canonicalized", "error"}
    BY <2>2 DEF Svc!AnswersTo
  <2> QED
    BY <1>5, <2>1, <2>3 DEF Signals
<1>6. CASE o \in {Op(n) : n \in {"change", "delete", "discard"} \union Transfers}
  <2>1. o[1] \in {"change", "delete", "discard"} \union Transfers
    BY <1>6 DEF Op
  <2>2. KindOf[o] \in {"change", "discard", "transfer"}
    BY <1>2, <2>1 DEF Transfers
  <2>3. a \in {"finished", "canceled", "interrupted", "error"}
    BY <2>2 DEF Svc!AnswersTo
  <2>4. o[1] # "list" /\ o[1] # "resolve"
    BY <2>1 DEF Transfers
  <2>5. o \notin {"list"} \X Dirs /\ o \notin {"resolve"} \X Links
    BY <2>4
  <2> QED
    BY <2>3, <2>4, <2>5 DEF Signals
<1> QED
  BY <1>1, <1>3, <1>4, <1>5, <1>6

(* The operations the explorer calls are known ones, and tell apart.       *)
LEMMA Known ==
  /\ \A d \in Dirs : List(d) \in Ops /\ List(d) \in {"list"} \X Dirs
  /\ \A d \in Links : Resolve(d) \in Ops
  /\ \A n \in {"canonical", "change", "delete", "discard"} \union Transfers : Op(n) \in Ops
  /\ Op("canonical") \in Ops /\ Op("change") \in Ops /\ Op("delete") \in Ops
  /\ Op("discard") \in Ops /\ Op("upload") \in Ops /\ Op("download") \in Ops
  /\ Op("resume") \in Ops /\ Op("open") \in Ops /\ Op("sync") \in Ops
  /\ \A o \in {"list"} \X Dirs : o = List(o[2]) /\ o[2] \in Dirs
  /\ \A d, c \in Dirs : List(d) = List(c) => d = c
  /\ \A o \in OwnOps \union {Op("canonical")} :
       o \notin {"list"} \X Dirs /\ o \notin {"resolve"} \X Links
  /\ Op("canonical") \notin OwnOps /\ Op("canonical") \notin {"list"} \X Dirs
<1>1. Ops = ({"list"} \X Dirs) \union ({"resolve"} \X Links) \union
            {Op(n) : n \in {"canonical", "change", "delete", "discard"} \union Transfers}
  BY DEF Ops, KindOf
<1>2. \A n \in {"canonical", "change", "delete", "discard"} \union Transfers : Op(n) \in Ops
  BY <1>1
<1>3. /\ Op("canonical") \in Ops /\ Op("change") \in Ops /\ Op("delete") \in Ops
      /\ Op("discard") \in Ops /\ Op("upload") \in Ops /\ Op("download") \in Ops
      /\ Op("resume") \in Ops /\ Op("open") \in Ops /\ Op("sync") \in Ops
  BY <1>2 DEF Transfers
<1>4. /\ \A d \in Dirs : List(d) \in Ops /\ List(d) \in {"list"} \X Dirs
      /\ \A d \in Links : Resolve(d) \in Ops
  BY <1>1 DEF List, Resolve
<1>5. /\ \A o \in {"list"} \X Dirs : o = List(o[2]) /\ o[2] \in Dirs
      /\ \A d, c \in Dirs : List(d) = List(c) => d = c
  BY DEF List
<1>6. \A o \in OwnOps \union {Op("canonical")} : o[1] # "list" /\ o[1] # "resolve"
  BY DEF OwnOps, Op
<1>7. \A o \in OwnOps \union {Op("canonical")} :
        o \notin {"list"} \X Dirs /\ o \notin {"resolve"} \X Links
  BY <1>6
<1>8. Op("canonical") \notin OwnOps
  BY DEF OwnOps, Op
<1> QED
  BY <1>2, <1>3, <1>4, <1>5, <1>7, <1>8

-----------------------------------------------------------------------------
(* What the helpers do to the members.                                     *)

Same(f, e) == /\ f.busy = e.busy /\ f.resolving = e.resolving /\ f.checking = e.checking
              /\ f.rootAsked = e.rootAsked /\ f.awaiting = e.awaiting
              /\ f.openActive = e.openActive

LEMMA Navigated ==
  ASSUME NEW e \in Members, NEW d \in Dirs
  PROVE  /\ NavigateTo(e, d) \in Members /\ ~NavigateTo(e, d).busy
         /\ NavigateTo(e, d).checking = e.checking
<1> DEFINE r == SetRootPath(e, d)
           nav == IF d = e.root THEN r.nav ELSE d
           prev == IF d = e.root THEN r.prev ELSE e.root
<1>1. r \in Members /\ r.checking = e.checking
  BY DEF SetRootPath, Members, Path
<1>2. e.root \in Path /\ r.nav \in Path /\ r.prev \in Path /\ d \in Path
  BY <1>1 DEF Members, Path
<1>3. nav \in Path /\ prev \in Path
  BY <1>2
<1>4. NavigateTo(e, d) = [r EXCEPT !.busy = FALSE, !.nav = nav, !.prev = prev]
  BY DEF NavigateTo
<1> HIDE DEF r, nav, prev
<1>5. NavigateTo(e, d) \in Members
  BY <1>1, <1>3, <1>4 DEF Members
<1>6. ~NavigateTo(e, d).busy /\ NavigateTo(e, d).checking = e.checking
  BY <1>1, <1>4 DEF Members
<1> QED
  BY <1>5, <1>6

LEMMA RefreshedSame ==
  ASSUME NEW e \in Members, NEW d
  PROVE  /\ Refreshed(e) \in Members /\ Same(Refreshed(e), e)
         /\ ListFailed(e) \in Members /\ Same(ListFailed(e), e)
         /\ RefreshPath(e, d) \in Members /\ Same(RefreshPath(e, d), e)
         /\ ApplyListing(e, d) \in Members /\ Same(ApplyListing(e, d), e)
BY DEF Refreshed, ListFailed, RefreshPath, ApplyListing, Members, Same

LEMMA Begun ==
  ASSUME NEW e \in Members, NEW d \in Path, NEW n \in 1 .. MaxItems
  PROVE  /\ Begin(e, d) \in Members /\ Begin(e, d).awaiting /\ Begin(e, d).checking = e.checking
         /\ BeginUpload(e, d) \in Members /\ BeginUpload(e, d).awaiting
         /\ BeginUpload(e, d).checking = None
         /\ OpenWith(e, n) \in Members /\ OpenWith(e, n).awaiting
         /\ OpenWith(e, n).checking = e.checking
<1>1. 0 \in 0 .. MaxItems /\ n \in 0 .. MaxItems
  BY BoundAssumption
<1>2. Begin(e, d) \in Members /\ Begin(e, d).awaiting /\ Begin(e, d).checking = e.checking
  BY DEF Begin, Members
<1>3. /\ BeginUpload(e, d) \in Members /\ BeginUpload(e, d).awaiting
      /\ BeginUpload(e, d).checking = None
  <2>1. BeginUpload(e, d) = [Begin(e, d) EXCEPT !.checking = None] /\ None \in Path
    BY DEF BeginUpload, Path
  <2> QED
    BY <1>2, <2>1 DEF Members
<1>4. /\ OpenWith(e, n) \in Members /\ OpenWith(e, n).awaiting
      /\ OpenWith(e, n).checking = e.checking
  BY <1>1 DEF OpenWith, Members, Path
<1> QED
  BY <1>2, <1>3, <1>4

LEMMA StoppedFree ==
  ASSUME NEW e \in Members
  PROVE  Stopped(e) \in Members /\ ~Stopped(e).busy /\ Stopped(e).checking = e.checking
<1>1. 0 \in 0 .. MaxItems /\ None \in Path
  BY BoundAssumption DEF Path
<1> HIDE DEF Path
<1>2. Stopped(e).busy = FALSE /\ Stopped(e).checking = e.checking
  BY DEF Stopped, Members
<1>3. Stopped(e) \in Members
  BY <1>1 DEF Stopped, Members
<1> QED
  BY <1>2, <1>3

LEMMA FreshFree ==
  Fresh \in Members /\ ~Fresh.busy /\ Fresh.checking = None
BY BoundAssumption DEF Fresh, Members, Path

-----------------------------------------------------------------------------
(* The parts of the invariant after a step.                                *)

(* Nothing that is waited for is lost: so neither is the excuse.           *)
LEMMA StillExcused ==
  ASSUME NEW e, NEW f, NEW t, NEW ds, NEW cs, NEW sent, NEW cs1, NEW sent1,
         Excused(e, t, ds, cs, sent), Same(f, e),
         \A o \in OwnOps \union {Op("canonical")} : OwedIn(o, cs, sent) => OwedIn(o, cs1, sent1)
  PROVE  Excused(f, t, ds, cs1, sent1)
BY DEF Excused, Same

LEMMA StillAwaited ==
  ASSUME NEW e, NEW f, NEW cs, NEW sent, NEW cs1, NEW sent1, Awaited(e, cs, sent),
         f.checking = None \/ f.checking = e.checking,
         f.checking # None =>
           (OwedIn(List(e.checking), cs, sent) => OwedIn(List(e.checking), cs1, sent1))
  PROVE  Awaited(f, cs1, sent1)
BY DEF Awaited

(* An awaited operation has just been called.                              *)
LEMMA JustCalled ==
  ASSUME NEW f, NEW t, NEW ds, NEW cs1, NEW sent1, NEW o \in OwnOps,
         f.awaiting \/ f.openActive, OwedIn(o, cs1, sent1)
  PROVE  Excused(f, t, ds, cs1, sent1)
BY DEF Excused

(* Calls os are made: what was owed is, and so is what they ask for.       *)
LEMMA AfterCalls ==
  ASSUME Typed, NEW os \in Seq(Ops), Call(os), UNCHANGED answers
  PROVE  /\ calls' \in Seq(Ops)
         /\ \A o : OwedIn(o, calls, answers) => OwedIn(o, calls', answers')
         /\ \A o \in ToSet(os) : OwedIn(o, calls', answers')
BY MoreCalls DEF Typed, Call

LEMMA AfterOne ==
  ASSUME Typed, NEW o \in Ops, Call(<<o>>), UNCHANGED answers
  PROVE  /\ calls' \in Seq(Ops) /\ OwedIn(o, calls', answers')
         /\ \A x : OwedIn(x, calls, answers) => OwedIn(x, calls', answers')
<1> DEFINE os == <<o>>
<1>1. os \in Seq(Ops) /\ ToSet(os) = {o}
  BY Few
<1> HIDE DEF os
<1> QED
  BY <1>1, AfterCalls DEF os

LEMMA AfterRestart ==
  ASSUME Typed, NEW o \in Ops, Restart(o), UNCHANGED answers
  PROVE  /\ calls' \in Seq(Ops) /\ OwedIn(o, calls', answers')
         /\ \A x : OwedIn(x, calls, answers) => OwedIn(x, calls', answers')
<1> DEFINE two == <<Op("discard")>> \o <<o>>
           one == <<>> \o <<o>>
<1>1. two \in Seq(Ops) /\ ToSet(two) = {Op("discard"), o}
  BY Known, Few
<1>2. one = <<o>>
  OBVIOUS
<1>3. Call(<<o>>) \/ Call(two)
  BY <1>2 DEF Restart
<1> HIDE DEF two
<1>4. CASE Call(two)
  BY <1>1, <1>4, AfterCalls
<1>5. CASE Call(<<o>>)
  BY <1>5, AfterOne
<1> QED
  BY <1>3, <1>4, <1>5

(* Dialogs come and go.                                                    *)
LEMMA Asked ==
  ASSUME Typed, NEW p \in Prompts, NEW d \in Dirs
  PROVE  /\ Append(dialogs, <<p, d>>) \in Seq(Prompts \X Dirs)
         /\ p = "confirm" => Confirming(Append(dialogs, <<p, d>>))
<1> DEFINE x == <<p, d>>
<1>1. x \in Prompts \X Dirs /\ x[1] = p
  OBVIOUS
<1> HIDE DEF x
<1>2. /\ Append(dialogs, x) \in Seq(Prompts \X Dirs) /\ Append(dialogs, x) # <<>>
      /\ Last(Append(dialogs, x)) = x
  <2>1. /\ Append(dialogs, x) \in Seq(Prompts \X Dirs)
        /\ Len(Append(dialogs, x)) = Len(dialogs) + 1 /\ Len(dialogs) \in Nat
        /\ Append(dialogs, x)[Len(dialogs) + 1] = x
    BY <1>1, AppendProperties, LenProperties DEF Typed
  <2>2. Append(dialogs, x) # <<>>
    BY <2>1, EmptySeq
  <2> QED
    BY <2>1, <2>2 DEF Last
<1> QED
  BY <1>1, <1>2 DEF Confirming, x

LEMMA Answered ==
  ASSUME Typed, dialogs # <<>>
  PROVE  /\ Front(dialogs) \in Seq(Prompts \X Dirs)
         /\ Last(dialogs)[1] \in Prompts /\ Last(dialogs)[2] \in Dirs
<1>1. dialogs \in Seq(Prompts \X Dirs) /\ Len(dialogs) \in Nat \ {0}
  BY EmptySeq DEF Typed
<1>2. Last(dialogs) \in Prompts \X Dirs
  BY <1>1, LenProperties, ElementOfSeq DEF Last
<1>3. \A i \in 1 .. Len(dialogs) - 1 : dialogs[i] \in Prompts \X Dirs
  BY <1>1, LenProperties, ElementOfSeq
<1>4. SubSeq(dialogs, 1, Len(dialogs) - 1) \in Seq(Prompts \X Dirs)
  <2>1. 1 \in Int /\ Len(dialogs) - 1 \in Int
    BY <1>1
  <2> QED
    BY <1>3, <2>1, SubSeqProperties
<1> QED
  BY <1>2, <1>4 DEF Front

-----------------------------------------------------------------------------
(* The user's steps.                                                       *)

LEMMA UserStep ==
  ASSUME IInv, NEW e \in Members, User(e), dialogs' \in Seq(Prompts \X Dirs),
         calls' \in Seq(Ops),
         bound => Excused(e, deferred, dialogs', calls', answers') /\ Awaited(e, calls', answers')
  PROVE  IInv'
BY DEF IInv, Typed, Answering, User

LEMMA NotBusy ==
  ASSUME NEW f, NEW t, NEW ds, NEW cs, NEW sent, ~f.busy
  PROVE  Excused(f, t, ds, cs, sent)
BY DEF Excused

LEMMA AtRoot ==
  ASSUME Typed, ex.root # None
  PROVE  ex.root \in Dirs
BY DEF Typed, Members, Path

LEMMA LooksKeep ==
  ASSUME IInv, bound, UNCHANGED answers,
         \/ \E d \in Dirs : ActivateDirectory(d)
         \/ \E d \in Links : ActivateLink(d)
         \/ RefreshCurrent \/ FetchMore
  PROVE  IInv'
<1>1. Typed /\ Excused(ex, deferred, dialogs, calls, answers) /\ Awaited(ex, calls, answers)
  BY DEF IInv
<1>2. ex \in Members /\ dialogs \in Seq(Prompts \X Dirs)
  BY <1>1 DEF Typed
<1>3. ASSUME NEW d \in Dirs, ActivateDirectory(d)
      PROVE  IInv'
  <2>1. /\ User(NavigateTo(ex, d)) /\ Call(<<List(d)>>) /\ UNCHANGED <<dialogs, answers>>
    BY <1>3 DEF ActivateDirectory, RequestList, User
  <2>2. /\ calls' \in Seq(Ops)
        /\ \A x : OwedIn(x, calls, answers) => OwedIn(x, calls', answers')
    BY <1>1, <2>1, Known, AfterOne
  <2>3. /\ NavigateTo(ex, d) \in Members /\ ~NavigateTo(ex, d).busy
        /\ NavigateTo(ex, d).checking = ex.checking
    BY <1>2, Navigated
  <2>4. Excused(NavigateTo(ex, d), deferred, dialogs', calls', answers')
    BY <2>3, NotBusy
  <2>5. Awaited(NavigateTo(ex, d), calls', answers')
    BY <1>1, <2>2, <2>3, StillAwaited
  <2> QED
    BY <1>2, <2>1, <2>2, <2>3, <2>4, <2>5, UserStep
<1>4. ASSUME NEW d \in Links, ActivateLink(d)
      PROVE  IInv'
  <2> DEFINE e == [ex EXCEPT !.resolving = d, !.busy = TRUE]
  <2>1. User(e) /\ Call(<<Resolve(d)>>) /\ UNCHANGED <<dialogs, answers>>
    BY <1>4 DEF ActivateLink, User
  <2>2. /\ calls' \in Seq(Ops)
        /\ \A x : OwedIn(x, calls, answers) => OwedIn(x, calls', answers')
    BY <1>1, <2>1, Known, AfterOne
  <2>3. e \in Members /\ e.resolving = d /\ d # None /\ e.checking = ex.checking
    BY <1>2, SentinelAssumption DEF Members
  <2> HIDE DEF e
  <2>4. Excused(e, deferred, dialogs', calls', answers')
    BY <2>3 DEF Excused
  <2>5. Awaited(e, calls', answers')
    BY <1>1, <2>2, <2>3, StillAwaited
  <2> QED
    BY <1>2, <2>1, <2>2, <2>3, <2>4, <2>5, UserStep
<1>5. ASSUME RefreshCurrent \/ FetchMore
      PROVE  IInv'
  <2>1. /\ User(Refreshed(ex)) /\ Call(<<List(ex.root)>>) /\ ex.root # None
        /\ UNCHANGED <<dialogs, answers>>
    BY <1>5 DEF RefreshCurrent, FetchMore, Browsing, RequestList, User
  <2>2. /\ calls' \in Seq(Ops)
        /\ \A x : OwedIn(x, calls, answers) => OwedIn(x, calls', answers')
    BY <1>1, <2>1, AtRoot, Known, AfterOne
  <2>3. Refreshed(ex) \in Members /\ Same(Refreshed(ex), ex)
    BY <1>2, RefreshedSame
  <2>4. Excused(Refreshed(ex), deferred, dialogs, calls', answers')
    BY <1>1, <2>2, <2>3, StillExcused
  <2>5. Awaited(Refreshed(ex), calls', answers')
    BY <1>1, <2>2, <2>3, StillAwaited DEF Same
  <2>6. dialogs' = dialogs
    BY <2>1
  <2> QED
    BY <1>2, <2>1, <2>2, <2>3, <2>4, <2>5, <2>6, UserStep
<1> QED
  BY <1>3, <1>4, <1>5

(* A dialog is put up while the explorer is not busy.                      *)
LEMMA PromptKeeps ==
  ASSUME IInv, NEW p \in Prompts, NEW d \in Dirs, ~ex.busy, User(ex),
         dialogs' = Append(dialogs, <<p, d>>), UNCHANGED calls
  PROVE  IInv'
<1>1. Typed /\ ex \in Members /\ calls \in Seq(Ops) /\ UNCHANGED answers
  BY DEF IInv, Typed, User
<1>2. dialogs' \in Seq(Prompts \X Dirs)
  BY <1>1, Asked
<1>3. Excused(ex, deferred, dialogs', calls', answers')
  BY NotBusy
<1>4. bound => Awaited(ex, calls', answers')
  BY <1>1 DEF IInv
<1> QED
  BY <1>1, <1>2, <1>3, <1>4, UserStep

(* An operation is called and awaited.                                     *)
LEMMA BeginKeeps ==
  ASSUME IInv, bound, NEW e \in Members, NEW o \in OwnOps, User(e),
         e.awaiting, e.checking = None \/ e.checking = ex.checking,
         Call(<<o>>) \/ Restart(o), o \in Ops, dialogs' \in Seq(Prompts \X Dirs)
  PROVE  IInv'
<1>1. Typed /\ Awaited(ex, calls, answers) /\ UNCHANGED answers
  BY DEF IInv, User
<1>2. /\ calls' \in Seq(Ops) /\ OwedIn(o, calls', answers')
      /\ \A x : OwedIn(x, calls, answers) => OwedIn(x, calls', answers')
  BY <1>1, AfterOne, AfterRestart
<1>3. Excused(e, deferred, dialogs', calls', answers')
  BY <1>2, JustCalled
<1>4. Awaited(e, calls', answers')
  BY <1>1, <1>2, StillAwaited
<1> QED
  BY <1>2, <1>3, <1>4, UserStep

LEMMA WorkKeeps ==
  ASSUME IInv, bound, UNCHANGED answers,
         \/ \E d \in Dirs : StartUpload(d)
         \/ \E n \in 1 .. MaxItems : Open(n)
         \/ \E p \in Prompts \ {"confirm"} : Prompt(p)
         \/ ResumeInterrupted \/ DiscardInterrupted
  PROVE  IInv'
<1>1. /\ Typed /\ Awaited(ex, calls, answers)
      /\ ex \in Members /\ dialogs \in Seq(Prompts \X Dirs)
  BY DEF IInv, Typed
<1>2. ASSUME NEW d \in Dirs, StartUpload(d)
      PROVE  IInv'
  <2>1. CASE CheckDirectory(d)
    <3> DEFINE e == [ex EXCEPT !.checking = d, !.busy = TRUE]
    <3>1. User(e) /\ Call(<<List(d)>>) /\ UNCHANGED dialogs
      BY <2>1 DEF CheckDirectory
    <3>2. calls' \in Seq(Ops) /\ OwedIn(List(d), calls', answers')
      BY <1>1, <3>1, Known, AfterOne
    <3>3. e \in Members /\ e.checking = d /\ d # None
      BY <1>1, SentinelAssumption DEF Members, Path
    <3> HIDE DEF e
    <3>4. Excused(e, deferred, dialogs', calls', answers') /\ Awaited(e, calls', answers')
      BY <3>2, <3>3 DEF Excused, Awaited
    <3> QED
      BY <1>1, <3>1, <3>2, <3>3, <3>4, UserStep
  <2>2. CASE ConfirmUpload(d)
    BY <1>2, <2>2, PromptKeeps DEF StartUpload, Idle, ConfirmUpload, Prompts
  <2>3. CASE UploadAtOnce(d)
    <3>1. User(BeginUpload(ex, d)) /\ Call(<<Op("upload")>>) /\ dialogs' = dialogs
      BY <2>3 DEF UploadAtOnce
    <3>2. /\ BeginUpload(ex, d) \in Members /\ BeginUpload(ex, d).awaiting
          /\ BeginUpload(ex, d).checking = None
      BY <1>1, BoundAssumption, Begun DEF Path
    <3>3. Op("upload") \in OwnOps /\ Op("upload") \in Ops
      BY Known DEF OwnOps
    <3> QED
      BY <1>1, <3>1, <3>2, <3>3, BeginKeeps
  <2> QED
    BY <1>2, <2>1, <2>2, <2>3 DEF StartUpload
<1>3. ASSUME NEW n \in 1 .. MaxItems, Open(n)
      PROVE  IInv'
  <2>1. User(OpenWith(ex, n)) /\ Call(<<Op("open")>>) /\ dialogs' = dialogs
    BY <1>3 DEF Open
  <2>2. /\ OpenWith(ex, n) \in Members /\ OpenWith(ex, n).awaiting
        /\ OpenWith(ex, n).checking = ex.checking
    BY <1>1, <1>3, Begun DEF Path
  <2>3. Op("open") \in OwnOps /\ Op("open") \in Ops
    BY Known DEF OwnOps
  <2> QED
    BY <1>1, <2>1, <2>2, <2>3, BeginKeeps
<1>4. ASSUME NEW p \in Prompts \ {"confirm"}, Prompt(p)
      PROVE  IInv'
  BY <1>1, <1>4, AtRoot, PromptKeeps DEF Prompt, Idle, Browsing
<1>5. ASSUME ResumeInterrupted
      PROVE  IInv'
  <2> DEFINE e == [ex EXCEPT !.busy = TRUE, !.awaiting = TRUE]
  <2>1. User(e) /\ Call(<<Op("resume")>>) /\ dialogs' = dialogs
    BY <1>5 DEF ResumeInterrupted
  <2>2. e \in Members /\ e.awaiting /\ e.checking = ex.checking
    BY <1>1 DEF Members
  <2>3. Op("resume") \in OwnOps /\ Op("resume") \in Ops
    BY Known DEF OwnOps
  <2> HIDE DEF e
  <2> QED
    BY <1>1, <2>1, <2>2, <2>3, BeginKeeps
<1>6. ASSUME DiscardInterrupted
      PROVE  IInv'
  <2>1. User(ex) /\ ~ex.busy /\ Call(<<Op("discard")>>) /\ dialogs' = dialogs
    BY <1>6 DEF DiscardInterrupted, Idle
  <2>2. /\ calls' \in Seq(Ops)
        /\ \A x : OwedIn(x, calls, answers) => OwedIn(x, calls', answers')
    BY <1>1, <2>1, Known, AfterOne
  <2>3. Excused(ex, deferred, dialogs', calls', answers') /\ Awaited(ex, calls', answers')
    BY <1>1, <2>1, <2>2, NotBusy, StillAwaited
  <2> QED
    BY <1>1, <2>1, <2>2, <2>3, UserStep
<1> QED
  BY <1>2, <1>3, <1>4, <1>5, <1>6

LEMMA CancelKeeps ==
  ASSUME IInv, CancelDialog
  PROVE  IInv'
<1> DEFINE e == IF Last(dialogs)[1] = "confirm"
                THEN [ex EXCEPT !.checking = None, !.busy = FALSE] ELSE ex
<1>1. Typed /\ ex \in Members /\ calls \in Seq(Ops) /\ dialogs # <<>>
  BY DEF IInv, Typed, CancelDialog
<1>2. User(e) /\ dialogs' = Front(dialogs) /\ UNCHANGED <<calls, answers>>
  BY DEF CancelDialog, User
<1>3. Front(dialogs) \in Seq(Prompts \X Dirs)
  BY <1>1, Answered
<1>4. CASE Last(dialogs)[1] = "confirm"
  <2>1. e \in Members /\ ~e.busy /\ e.checking = None
    BY <1>1, <1>4 DEF Members, Path
  <2> HIDE DEF e
  <2>2. Excused(e, deferred, dialogs', calls', answers') /\ Awaited(e, calls', answers')
    BY <2>1 DEF Excused, Awaited
  <2> QED
    BY <1>1, <1>2, <1>3, <2>1, <2>2, UserStep
<1>5. CASE Last(dialogs)[1] # "confirm"
  <2>1. e = ex
    BY <1>5
  <2> HIDE DEF e
  <2>2. ~Confirming(dialogs)
    BY <1>5 DEF Confirming
  <2>3. ASSUME bound
        PROVE  Excused(ex, deferred, dialogs', calls', answers') /\ Awaited(ex, calls', answers')
    BY <1>2, <2>2, <2>3 DEF IInv, Excused, Awaited
  <2> QED
    BY <1>1, <1>2, <1>3, <2>1, <2>3, UserStep
<1> QED
  BY <1>4, <1>5

LEMMA AcceptKeeps ==
  ASSUME IInv, NEW n \in 1 .. MaxItems, AcceptDialog(n)
  PROVE  IInv'
<1> DEFINE dir == Last(dialogs)[2]
<1>1. /\ Typed /\ ex \in Members /\ dialogs # <<>> /\ bound
      /\ dialogs' = Front(dialogs)
  BY DEF IInv, Typed, AcceptDialog
<1>2. dialogs' \in Seq(Prompts \X Dirs) /\ dir \in Path
  BY <1>1, Answered DEF Path
<1>3. None \in Path
  BY DEF Path
<1>4. /\ \A o \in {Op("change"), Op("delete"), Op("upload"), Op("download"), Op("resume")} :
           o \in OwnOps /\ o \in Ops
  BY Known DEF OwnOps
<1>5. \/ User(Begin(ex, dir)) /\ Call(<<Op("change")>>)
      \/ User([Begin(ex, dir) EXCEPT !.deletes = n]) /\ Call(<<Op("delete")>>)
      \/ User(Begin(ex, None)) /\ Restart(Op("download"))
      \/ User([Begin(ex, None) EXCEPT !.refresh = ex.refresh]) /\ Call(<<Op("resume")>>)
      \/ User(BeginUpload(ex, dir)) /\ Restart(Op("upload"))
      \/ User(BeginUpload(ex, dir)) /\ Call(<<Op("resume")>>)
  BY DEF AcceptDialog, Download, Resume
<1> HIDE DEF dir
<1>6. /\ Begin(ex, dir) \in Members /\ Begin(ex, dir).awaiting
      /\ Begin(ex, dir).checking = ex.checking
      /\ BeginUpload(ex, dir) \in Members /\ BeginUpload(ex, dir).awaiting
      /\ BeginUpload(ex, dir).checking = None
      /\ Begin(ex, None) \in Members /\ Begin(ex, None).awaiting
      /\ Begin(ex, None).checking = ex.checking
  BY <1>1, <1>2, <1>3, Begun
<1>7. CASE User(Begin(ex, dir)) /\ Call(<<Op("change")>>)
  BY <1>1, <1>2, <1>4, <1>6, <1>7, BeginKeeps
<1>8. CASE User([Begin(ex, dir) EXCEPT !.deletes = n]) /\ Call(<<Op("delete")>>)
  <2> DEFINE e == [Begin(ex, dir) EXCEPT !.deletes = n]
  <2>1. e \in Members /\ e.awaiting /\ e.checking = ex.checking
    BY <1>6, BoundAssumption DEF Members
  <2> HIDE DEF e
  <2>2. User(e) /\ Call(<<Op("delete")>>)
    BY <1>8 DEF e
  <2> QED
    BY <1>1, <1>2, <1>4, <2>1, <2>2, BeginKeeps
<1>9. CASE User(Begin(ex, None)) /\ Restart(Op("download"))
  BY <1>1, <1>2, <1>4, <1>6, <1>9, BeginKeeps
<1>10. CASE User([Begin(ex, None) EXCEPT !.refresh = ex.refresh]) /\ Call(<<Op("resume")>>)
  <2> DEFINE e == [Begin(ex, None) EXCEPT !.refresh = ex.refresh]
  <2>1. e \in Members /\ e.awaiting /\ e.checking = ex.checking
    BY <1>1, <1>6 DEF Members
  <2> HIDE DEF e
  <2>2. User(e) /\ Call(<<Op("resume")>>)
    BY <1>10 DEF e
  <2> QED
    BY <1>1, <1>2, <1>4, <2>1, <2>2, BeginKeeps
<1>11. CASE User(BeginUpload(ex, dir)) /\ Restart(Op("upload"))
  BY <1>1, <1>2, <1>4, <1>6, <1>11, BeginKeeps
<1>12. CASE User(BeginUpload(ex, dir)) /\ Call(<<Op("resume")>>)
  BY <1>1, <1>2, <1>4, <1>6, <1>12, BeginKeeps
<1> QED
  BY <1>5, <1>7, <1>8, <1>9, <1>10, <1>11, <1>12

-----------------------------------------------------------------------------
(* Answers are taken.                                                      *)

(* Where an answer o is taken: the other owed ones still are.              *)
Taking(o) ==
  /\ IInv /\ bound /\ o \in Ops
  /\ answers' \in Seq(Ops \X Signals) /\ ToSet(answers') \subseteq ToSet(answers)
  /\ \A x : x # o /\ OwedIn(x, calls, answers) => OwedIn(x, calls, answers')
  /\ UNCHANGED <<bound, deferred, open>>

LEMMA Noted ==
  ASSUME NEW o, Taking(o), NEW e \in Members, NEW os \in Seq(Ops), Becomes(e, os),
         dialogs' \in Seq(Prompts \X Dirs),
         Excused(e, deferred, dialogs', calls', answers'), Awaited(e, calls', answers')
  PROVE  IInv'
<1>1. calls' \in Seq(Ops)
  BY MoreCalls DEF Taking, IInv, Typed, Becomes, Call
<1> QED
  BY <1>1 DEF Taking, IInv, Typed, Answering, Becomes

LEMMA StillOwed ==
  ASSUME NEW o, Taking(o), NEW os \in Seq(Ops), Call(os)
  PROVE  /\ \A x : x # o /\ OwedIn(x, calls, answers) => OwedIn(x, calls', answers')
         /\ \A x \in ToSet(os) : OwedIn(x, calls', answers')
BY MoreCalls DEF Taking, IInv, Typed, Call

(* The explorer is free again, and awaits no listing it did not before.    *)
LEMMA FreeNow ==
  ASSUME NEW o, Taking(o), NEW e \in Members, NEW os \in Seq(Ops), Becomes(e, os),
         ~e.busy, e.checking = None \/ (e.checking = ex.checking /\ o \notin {"list"} \X Dirs),
         dialogs' = dialogs
  PROVE  IInv'
<1>1. /\ dialogs \in Seq(Prompts \X Dirs) /\ Awaited(ex, calls, answers)
      /\ ex.checking \in Dirs \union {None}
  BY DEF Taking, IInv, Typed, Members, Path
<1>2. Excused(e, deferred, dialogs', calls', answers')
  BY NotBusy
<1>3. \A x : x # o /\ OwedIn(x, calls, answers) => OwedIn(x, calls', answers')
  BY StillOwed DEF Becomes
<1>4. ASSUME e.checking # None
      PROVE  List(e.checking) # o
  BY <1>1, <1>4, Known
<1>5. Awaited(e, calls', answers')
  BY <1>1, <1>3, <1>4, StillAwaited
<1> QED
  BY <1>1, <1>2, <1>5, Noted

(* Nothing the explorer waits for changes, and the answer was not it.      *)
LEMMA NotMine ==
  ASSUME NEW o, Taking(o), NEW e \in Members, Becomes(e, <<>>), Same(e, ex),
         o \notin OwnOps \/ (~ex.awaiting /\ ~ex.openActive),
         o # Op("canonical") \/ ~ex.rootAsked \/ ~ex.awaiting,
         ex.checking # None => o # List(ex.checking),
         dialogs' = dialogs
  PROVE  IInv'
<1>1. /\ dialogs \in Seq(Prompts \X Dirs) /\ Awaited(ex, calls, answers)
      /\ Excused(ex, deferred, dialogs, calls, answers)
  BY DEF Taking, IInv, Typed
<1>2. <<>> \in Seq(Ops)
  BY Few DEF Taking
<1>3. \A x : x # o /\ OwedIn(x, calls, answers) => OwedIn(x, calls', answers')
  BY <1>2, StillOwed DEF Becomes
<1>4. Excused(e, deferred, dialogs, calls', answers')
  BY <1>1, <1>3 DEF Excused, Same
<1>5. Awaited(e, calls', answers')
  BY <1>1, <1>3, StillAwaited DEF Same
<1> QED
  BY <1>1, <1>2, <1>4, <1>5, Noted

(* The next operation is called, and awaited.                              *)
LEMMA NextCalled ==
  ASSUME NEW o, Taking(o), NEW e \in Members, NEW x \in OwnOps, x \in Ops,
         Becomes(e, <<x>>), e.awaiting \/ e.openActive,
         e.checking = None \/ (e.checking = ex.checking /\ o \notin {"list"} \X Dirs),
         dialogs' = dialogs
  PROVE  IInv'
<1> DEFINE os == <<x>>
<1>1. /\ dialogs \in Seq(Prompts \X Dirs) /\ Awaited(ex, calls, answers)
      /\ ex.checking \in Dirs \union {None}
  BY DEF Taking, IInv, Typed, Members, Path
<1>2. os \in Seq(Ops) /\ ToSet(os) = {x} /\ Becomes(e, os)
  BY Few
<1> HIDE DEF os
<1>3. /\ \A y : y # o /\ OwedIn(y, calls, answers) => OwedIn(y, calls', answers')
      /\ OwedIn(x, calls', answers')
  BY <1>2, StillOwed DEF Becomes
<1>4. Excused(e, deferred, dialogs', calls', answers')
  BY <1>3, JustCalled
<1>5. ASSUME e.checking # None
      PROVE  List(e.checking) # o
  BY <1>1, <1>5, Known
<1>6. Awaited(e, calls', answers')
  BY <1>1, <1>3, <1>5, StillAwaited
<1> QED
  BY <1>1, <1>2, <1>4, <1>6, Noted

LEMMA CanonicalizedKeeps ==
  ASSUME Taking(Op("canonical")), OnPathCanonicalized, UNCHANGED dialogs
  PROVE  IInv'
<1>1. ex \in Members /\ <<>> \in Seq(Ops)
  BY Known, Few DEF Taking, IInv, Typed
<1>2. CASE ~ex.rootAsked
  <2>1. Becomes(ex, <<>>) /\ Same(ex, ex)
    BY <1>2 DEF OnPathCanonicalized, Same
  <2>2. /\ Op("canonical") \notin OwnOps
        /\ ex.checking # None => Op("canonical") # List(ex.checking)
    BY <1>1, Known DEF Members, Path
  <2> QED
    BY <1>1, <1>2, <2>1, <2>2, NotMine
<1>3. CASE ex.rootAsked
  <2> DEFINE e == [ex EXCEPT !.rootAsked = FALSE, !.awaiting = FALSE]
  <2>1. PICK d \in Dirs : Becomes(NavigateTo(e, d), RequestList(d))
    BY <1>3 DEF OnPathCanonicalized
  <2>2. e \in Members /\ e.checking = ex.checking
    BY <1>1 DEF Members
  <2> HIDE DEF e
  <2>3. /\ NavigateTo(e, d) \in Members /\ ~NavigateTo(e, d).busy
        /\ NavigateTo(e, d).checking = ex.checking
    BY <2>2, Navigated
  <2>4. RequestList(d) \in Seq(Ops)
    BY Known, Few DEF RequestList
  <2> QED
    BY <2>1, <2>3, <2>4, Known, FreeNow
<1> QED
  BY <1>2, <1>3

LEMMA ListedKeeps ==
  ASSUME NEW d \in Dirs, Taking(List(d)), OnDirectoryListed(d)
  PROVE  IInv'
<1> DEFINE a == ApplyListing(ex, d)
           e == IF d = ex.nav THEN [a EXCEPT !.nav = None, !.prev = None] ELSE a
<1>1. Typed /\ ex \in Members /\ dialogs \in Seq(Prompts \X Dirs)
  BY DEF Taking, IInv, Typed
<1>2. e \in Members /\ Same(e, ex)
  <2>1. a \in Members /\ Same(a, ex)
    BY <1>1, RefreshedSame
  <2> HIDE DEF a
  <2> DEFINE f == [a EXCEPT !.nav = None, !.prev = None]
  <2>2. None \in Path
    BY DEF Path
  <2>3. f \in Members
    BY <2>1, <2>2 DEF Members
  <2>4. Same(f, ex)
    BY <2>1 DEF Members, Same
  <2> QED
    BY <2>1, <2>3, <2>4
<1>3. \/ d # ex.checking /\ Becomes(e, <<>>) /\ UNCHANGED dialogs
      \/ /\ d = ex.checking /\ Becomes(BeginUpload(e, d), <<Op("upload")>>)
         /\ UNCHANGED dialogs
      \/ /\ d = ex.checking /\ Becomes([e EXCEPT !.checking = None], <<>>)
         /\ dialogs' = Append(dialogs, <<"confirm", d>>)
  BY DEF OnDirectoryListed
<1> HIDE DEF e
<1>4. List(d) \notin OwnOps /\ List(d) # Op("canonical")
  BY Known
<1>5. CASE d # ex.checking /\ Becomes(e, <<>>) /\ UNCHANGED dialogs
  <2>1. ex.checking # None => List(d) # List(ex.checking)
    BY <1>1, <1>5, Known DEF Members, Path
  <2> QED
    BY <1>2, <1>4, <1>5, <2>1, NotMine
<1>6. CASE Becomes(BeginUpload(e, d), <<Op("upload")>>) /\ UNCHANGED dialogs
  <2>1. /\ BeginUpload(e, d) \in Members /\ BeginUpload(e, d).awaiting
        /\ BeginUpload(e, d).checking = None
    BY <1>2, BoundAssumption, Begun DEF Path
  <2>2. Op("upload") \in OwnOps /\ Op("upload") \in Ops
    BY Known DEF OwnOps
  <2>3. \E x \in OwnOps : x \in Ops /\ Becomes(BeginUpload(e, d), <<x>>)
    BY <1>6, <2>2
  <2> QED
    BY <1>6, <2>1, <2>3, NextCalled
<1>7. CASE /\ Becomes([e EXCEPT !.checking = None], <<>>)
           /\ dialogs' = Append(dialogs, <<"confirm", d>>)
  <2> DEFINE f == [e EXCEPT !.checking = None]
  <2>1. f \in Members /\ f.checking = None /\ Becomes(f, <<>>)
    BY <1>2, <1>7 DEF Members, Path
  <2> HIDE DEF f
  <2>2. "confirm" \in Prompts
    BY DEF Prompts
  <2>3. dialogs' \in Seq(Prompts \X Dirs) /\ Confirming(dialogs')
    BY <1>1, <1>7, <2>2, Asked
  <2>4. Excused(f, deferred, dialogs', calls', answers') /\ Awaited(f, calls', answers')
    BY <2>1, <2>3 DEF Excused, Awaited
  <2>5. <<>> \in Seq(Ops)
    BY Few DEF Taking
  <2> QED
    BY <2>1, <2>3, <2>4, <2>5, Noted
<1> QED
  BY <1>3, <1>5, <1>6, <1>7

LEMMA ResolvedKeeps ==
  ASSUME NEW o \in {"resolve"} \X Links, NEW a, Taking(o), OnEntryResolved(o[2], a),
         UNCHANGED dialogs
  PROVE  IInv'
<1> DEFINE d == o[2]
           e == [ex EXCEPT !.resolving = None, !.busy = FALSE]
<1>1. ex \in Members /\ <<>> \in Seq(Ops) /\ d \in Dirs
  BY SentinelAssumption, Few DEF Taking, IInv, Typed
<1>2. /\ o \notin OwnOps /\ o # Op("canonical") /\ o \notin {"list"} \X Dirs
      /\ ex.checking # None => o # List(ex.checking)
  BY <1>1, Known DEF Members, Path
<1>3. e \in Members /\ ~e.busy /\ e.checking = ex.checking
  BY <1>1 DEF Members
<1>4. \/ Becomes(ex, <<>>)
      \/ Becomes(e, <<>>)
      \/ Becomes(NavigateTo(e, d), RequestList(d))
      \/ Becomes(OpenWith(e, 1), <<Op("open")>>)
  BY DEF OnEntryResolved
<1> HIDE DEF e, d
<1>5. CASE Becomes(ex, <<>>)
  BY <1>1, <1>2, <1>5, NotMine DEF Same
<1>6. CASE Becomes(e, <<>>)
  BY <1>1, <1>2, <1>3, <1>6, FreeNow
<1>7. CASE Becomes(NavigateTo(e, d), RequestList(d))
  <2>1. /\ NavigateTo(e, d) \in Members /\ ~NavigateTo(e, d).busy
        /\ NavigateTo(e, d).checking = ex.checking
    BY <1>1, <1>3, Navigated
  <2>2. RequestList(d) \in Seq(Ops)
    BY <1>1, Known, Few DEF RequestList
  <2> QED
    BY <1>2, <1>7, <2>1, <2>2, FreeNow
<1>8. CASE Becomes(OpenWith(e, 1), <<Op("open")>>)
  <2>1. 1 \in 1 .. MaxItems
    BY BoundAssumption
  <2>2. /\ OpenWith(e, 1) \in Members /\ OpenWith(e, 1).awaiting
        /\ OpenWith(e, 1).checking = ex.checking
    BY <1>3, <2>1, Begun DEF Path
  <2>3. Op("open") \in OwnOps /\ Op("open") \in Ops
    BY Known DEF OwnOps
  <2> QED
    BY <1>2, <1>8, <2>2, <2>3, NextCalled
<1> QED
  BY <1>4, <1>5, <1>6, <1>7, <1>8

LEMMA FinishedKeeps ==
  ASSUME NEW o, Taking(o), o \notin {"list"} \X Dirs, OnSftpFinished(o), UNCHANGED dialogs
  PROVE  IInv'
<1>1. /\ ex \in Members /\ <<>> \in Seq(Ops)
      /\ ex.checking # None => o # List(ex.checking)
  BY Known, Few DEF Taking, IInv, Typed, Members, Path
<1>2. 0 \in 0 .. MaxItems /\ None \in Path
  BY BoundAssumption DEF Path
<1>3. \A x \in {Op("open"), Op("delete")} : x \in OwnOps /\ x \in Ops
  BY Known DEF OwnOps
<1>4. CASE ex.openActive /\ ex.opens > 1
  <2> DEFINE e == [ex EXCEPT !.opens = @ - 1, !.refresh = None]
  <2>1. Becomes(e, <<Op("open")>>)
    BY <1>4 DEF OnSftpFinished, CompleteOpenWithItem
  <2>2. e \in Members /\ e.openActive /\ e.checking = ex.checking
    <3>1. ex.opens - 1 \in 0 .. MaxItems /\ None \in Path
      BY <1>1, <1>4, BoundAssumption DEF Members, Path
    <3> QED
      BY <1>1, <1>4, <3>1 DEF Members
  <2> HIDE DEF e
  <2> QED
    BY <1>3, <2>1, <2>2, NextCalled
<1>5. CASE ex.openActive /\ ~(ex.opens > 1)
  <2> DEFINE e == [ex EXCEPT !.opens = 0, !.openActive = FALSE, !.awaiting = FALSE, !.busy = FALSE]
  <2>1. Becomes(e, <<>>)
    BY <1>5 DEF OnSftpFinished, CompleteOpenWithItem
  <2>2. e \in Members /\ ~e.busy /\ e.checking = ex.checking
    BY <1>1, <1>2 DEF Members
  <2> HIDE DEF e
  <2> QED
    BY <1>1, <2>1, <2>2, FreeNow
<1>6. CASE ~ex.openActive /\ ~ex.awaiting
  <2>1. Becomes(ex, <<>>)
    BY <1>6 DEF OnSftpFinished
  <2> QED
    BY <1>1, <1>6, <2>1, NotMine DEF Same
<1>7. CASE ~ex.openActive /\ ex.awaiting /\ ex.deletes > 1
  <2> DEFINE e == [ex EXCEPT !.deletes = @ - 1]
  <2>1. Becomes(e, <<Op("delete")>>)
    BY <1>7 DEF OnSftpFinished, DeleteNextPending
  <2>2. e \in Members /\ e.awaiting /\ e.checking = ex.checking
    BY <1>1, <1>7, BoundAssumption DEF Members
  <2> HIDE DEF e
  <2> QED
    BY <1>3, <2>1, <2>2, NextCalled
<1>8. CASE ~ex.openActive /\ ex.awaiting /\ ~(ex.deletes > 1)
  <2> DEFINE done == [ex EXCEPT !.deletes = 0, !.awaiting = FALSE, !.busy = FALSE, !.refresh = None]
  <2>1. /\ \/ Becomes(done, <<>>)
           \/ ex.refresh # None /\ Becomes(RefreshPath(done, ex.refresh), RequestList(ex.refresh))
    BY <1>8 DEF OnSftpFinished, Over
  <2>2. done \in Members /\ ~done.busy /\ done.checking = ex.checking
    BY <1>1, <1>2 DEF Members
  <2> HIDE DEF done
  <2>3. CASE Becomes(done, <<>>)
    BY <1>1, <2>2, <2>3, FreeNow
  <2>4. CASE ex.refresh # None /\ Becomes(RefreshPath(done, ex.refresh), RequestList(ex.refresh))
    <3>1. RequestList(ex.refresh) \in Seq(Ops)
      BY <1>1, <2>4, Known, Few DEF RequestList, Members, Path
    <3>2. /\ RefreshPath(done, ex.refresh) \in Members /\ ~RefreshPath(done, ex.refresh).busy
          /\ RefreshPath(done, ex.refresh).checking = ex.checking
      BY <2>2, RefreshedSame DEF Same
    <3> QED
      BY <2>4, <3>1, <3>2, FreeNow
  <2> QED
    BY <2>1, <2>3, <2>4
<1> QED
  BY <1>4, <1>5, <1>6, <1>7, <1>8

LEMMA ErrorKeeps ==
  ASSUME NEW o, Taking(o), OnSftpError, UNCHANGED dialogs
  PROVE  IInv'
<1>1. ex \in Members /\ <<>> \in Seq(Ops) /\ None \in Path
  BY Few DEF Taking, IInv, Typed, Path
<1>2. CASE ex.checking # None
  <2> DEFINE e == [ex EXCEPT !.checking = None, !.busy = FALSE]
  <2>1. Becomes(e, <<>>)
    BY <1>2 DEF OnSftpError
  <2>2. e \in Members /\ ~e.busy /\ e.checking = None
    BY <1>1 DEF Members
  <2> HIDE DEF e
  <2> QED
    BY <1>1, <2>1, <2>2, FreeNow
<1>3. CASE ex.checking = None /\ ex.nav # None
  <2> DEFINE a == [ex EXCEPT !.nav = None, !.prev = None, !.resolving = None, !.busy = FALSE]
             e == ListFailed(a)
  <2>1. \/ ex.prev # None /\ Becomes(SetRootPath(e, ex.prev), RequestList(ex.prev))
        \/ Becomes(e, <<>>)
    BY <1>3 DEF OnSftpError
  <2>2. e \in Members /\ ~e.busy /\ e.checking = None
    <3>1. a \in Members /\ ~a.busy /\ a.checking = None
      BY <1>1, <1>3 DEF Members
    <3> HIDE DEF a
    <3> QED
      BY <3>1, RefreshedSame DEF Same
  <2> HIDE DEF e
  <2>3. CASE ex.prev # None /\ Becomes(SetRootPath(e, ex.prev), RequestList(ex.prev))
    <3>1. ex.prev \in Dirs /\ ex.prev \in Path
      BY <1>1, <2>3 DEF Members, Path
    <3>2. RequestList(ex.prev) \in Seq(Ops)
      BY <3>1, Known, Few DEF RequestList
    <3>3. /\ SetRootPath(e, ex.prev) \in Members /\ ~SetRootPath(e, ex.prev).busy
          /\ SetRootPath(e, ex.prev).checking = None
      BY <2>2, <3>1 DEF SetRootPath, Members
    <3> QED
      BY <2>3, <3>2, <3>3, FreeNow
  <2>4. CASE Becomes(e, <<>>)
    BY <1>1, <2>2, <2>4, FreeNow
  <2> QED
    BY <2>1, <2>3, <2>4
<1>4. CASE ex.checking = None /\ ex.nav = None /\ (ex.awaiting \/ ex.openActive)
  <2>1. Becomes(Stopped(ex), <<>>)
    BY <1>4 DEF OnSftpError
  <2>2. Stopped(ex) \in Members /\ ~Stopped(ex).busy /\ Stopped(ex).checking = None
    BY <1>1, <1>4, StoppedFree
  <2> QED
    BY <1>1, <2>1, <2>2, FreeNow
<1>5. CASE ex.checking = None /\ ex.nav = None /\ ~(ex.awaiting \/ ex.openActive)
  <2>1. Becomes(ex, <<>>)
    BY <1>5 DEF OnSftpError
  <2> QED
    BY <1>1, <1>5, <2>1, NotMine DEF Same
<1> QED
  BY <1>2, <1>3, <1>4, <1>5

LEMMA StoppedKeeps ==
  ASSUME NEW o, NEW a, Taking(o), o \notin {"list"} \X Dirs, OnSftpStopped(a), UNCHANGED dialogs
  PROVE  IInv'
<1> DEFINE e == [Stopped(ex) EXCEPT !.refresh = IF a = "canceled" THEN None ELSE ex.refresh]
<1>1. ex \in Members /\ <<>> \in Seq(Ops)
  BY Few DEF Taking, IInv, Typed
<1>2. Stopped(ex) \in Members /\ ~Stopped(ex).busy /\ Stopped(ex).checking = ex.checking
  BY <1>1, StoppedFree
<1>3. e \in Members /\ ~e.busy /\ e.checking = ex.checking
  BY <1>1, <1>2 DEF Members, Path
<1>4. Becomes(e, <<>>)
  BY DEF OnSftpStopped
<1> HIDE DEF e
<1> QED
  BY <1>1, <1>3, <1>4, FreeNow

LEMMA DeliverKeeps ==
  ASSUME IInv, Deliver
  PROVE  IInv'
<1> DEFINE o == Head(answers)[1]
           a == Head(answers)[2]
<1>1. /\ Typed /\ answers # <<>> /\ answers' = Tail(answers)
      /\ UNCHANGED <<bound, deferred, open>>
  BY DEF IInv, Deliver
<1>2. /\ answers' \in Seq(Ops \X Signals) /\ Head(answers) \in Ops \X Signals
      /\ ToSet(answers) = {Head(answers)} \union ToSet(answers')
      /\ \A x : x # o /\ OwedIn(x, calls, answers) => OwedIn(x, calls, answers')
  BY <1>1, AnswerTaken DEF Typed
<1>3. o \in Ops /\ a \in Svc!AnswersTo(KindOf[o])
  <2>1. Fits(Head(answers))
    BY <1>2 DEF IInv, Answering
  <2> QED
    BY <1>2, <2>1 DEF Fits
<1>4. CASE ~bound
  <2>1. UNCHANGED <<ex, calls, dialogs>>
    BY <1>4 DEF Deliver
  <2> QED
    BY <1>1, <1>2, <1>4, <2>1 DEF IInv, Typed, Answering
<1>5. CASE bound
  <2>1. Handled(o, a)
    BY <1>5 DEF Deliver
  <2> HIDE DEF o, a
  <2>2. Taking(o)
    BY <1>1, <1>2, <1>3, <1>5 DEF Taking
  <2>3. /\ a = "canonicalized" => o = Op("canonical")
        /\ a = "listed" => o \in {"list"} \X Dirs
        /\ o[1] = "resolve" => o \in {"resolve"} \X Links
        /\ a \in {"finished", "canceled", "interrupted"} => o \notin {"list"} \X Dirs
    BY <1>3, AnswersTell
  <2>4. CASE a = "canonicalized" /\ OnPathCanonicalized /\ UNCHANGED dialogs
    BY <2>2, <2>3, <2>4, CanonicalizedKeeps
  <2>5. CASE a = "listed" /\ OnDirectoryListed(o[2])
    <3>1. o = List(o[2]) /\ o[2] \in Dirs
      BY <2>3, <2>5, Known
    <3> QED
      BY <2>2, <2>5, <3>1, ListedKeeps
  <2>6. CASE o[1] = "resolve" /\ OnEntryResolved(o[2], a) /\ UNCHANGED dialogs
    BY <2>2, <2>3, <2>6, ResolvedKeeps
  <2>7. CASE a = "finished" /\ OnSftpFinished(o) /\ UNCHANGED dialogs
    BY <2>2, <2>3, <2>7, FinishedKeeps
  <2>8. CASE a = "error" /\ OnSftpError /\ UNCHANGED dialogs
    BY <2>2, <2>8, ErrorKeeps
  <2>9. CASE a \in {"canceled", "interrupted"} /\ OnSftpStopped(a) /\ UNCHANGED dialogs
    BY <2>2, <2>3, <2>9, StoppedKeeps
  <2> QED
    BY <2>1, <2>4, <2>5, <2>6, <2>7, <2>8, <2>9 DEF Handled
<1> QED
  BY <1>4, <1>5

-----------------------------------------------------------------------------
(* Tabs, the connection and the session's side.                            *)

LEMMA TabsKeep ==
  ASSUME IInv, SwitchTab \/ Disconnect \/ Reconnect \/ AcceptUnbound \/ Save
  PROVE  IInv'
<1>1. /\ Fresh \in Members /\ <<>> \in Seq(Ops) /\ <<Op("resume")>> \in Seq(Ops)
      /\ <<>> \in Seq(Ops \X Signals) /\ <<>> \in Seq(Prompts \X Dirs) /\ ToSet(<<>>) = {}
  BY FreshFree, Known, Few DEF ToSet
<1>2. CASE SwitchTab
  BY <1>1, <1>2 DEF IInv, Typed, Answering, SwitchTab, Leave, service
<1>3. CASE Disconnect
  BY <1>1, <1>3 DEF IInv, Typed, Answering, Disconnect, Leave
<1>4. CASE Reconnect
  BY <1>1, <1>4 DEF IInv, Typed, Answering, Reconnect
<1>5. CASE AcceptUnbound
  BY <1>1, <1>5 DEF IInv, Typed, Answering, AcceptUnbound
<1>6. CASE Save
  BY <1>6 DEF IInv, Typed, Answering, Save, service
<1> QED
  BY <1>2, <1>3, <1>4, <1>5, <1>6

LEMMA BindKeeps ==
  ASSUME IInv, Bind
  PROVE  IInv'
<1>1. PICK b \in BOOLEAN : ex' = [Fresh EXCEPT !.busy = b]
  BY DEF Bind
<1>2. ex' \in Members /\ ex'.checking = None
  BY <1>1, FreshFree DEF Members, Fresh
<1>3. /\ open' /\ bound' = TRUE /\ deferred' = TRUE
      /\ UNCHANGED <<dialogs, calls, answers, open>>
  BY DEF Bind, service
<1>4. Excused(ex', deferred', dialogs', calls', answers') /\ Awaited(ex', calls', answers')
  BY <1>2, <1>3 DEF Excused, Awaited
<1> QED
  BY <1>2, <1>3, <1>4 DEF IInv, Typed, Answering

LEMMA TimersKeep ==
  ASSUME IInv, LoadRoot \/ FlushPendingUploads
  PROVE  IInv'
<1>1. Typed /\ ex \in Members
  BY DEF IInv, Typed
<1>2. CASE LoadRoot /\ ~bound
  BY <1>2 DEF IInv, Typed, Answering, LoadRoot
<1>3. CASE LoadRoot /\ bound
  <2>1. /\ ex' = [ex EXCEPT !.rootAsked = TRUE, !.awaiting = TRUE, !.busy = TRUE]
        /\ Call(<<Op("canonical")>>) /\ deferred' = FALSE
        /\ UNCHANGED <<bound, dialogs, answers, open>>
    BY <1>3 DEF LoadRoot
  <2>2. /\ ex' \in Members /\ ex'.rootAsked /\ ex'.awaiting /\ ex'.checking = ex.checking
    BY <1>1, <2>1 DEF Members
  <2>3. /\ calls' \in Seq(Ops) /\ OwedIn(Op("canonical"), calls', answers')
        /\ \A x : OwedIn(x, calls, answers) => OwedIn(x, calls', answers')
    BY <1>1, <2>1, Known, AfterOne
  <2>4. Excused(ex', deferred', dialogs', calls', answers')
    BY <2>2, <2>3 DEF Excused
  <2>5. Awaited(ex', calls', answers')
    BY <1>3, <2>2, <2>3, StillAwaited DEF IInv
  <2> QED
    BY <2>1, <2>2, <2>3, <2>4, <2>5 DEF IInv, Typed, Answering
<1>4. CASE FlushPendingUploads
  <2>1. /\ Call(<<Op("sync")>>)
        /\ UNCHANGED <<bound, deferred, ex, dialogs, answers, open>>
    BY <1>4 DEF FlushPendingUploads
  <2>2. /\ calls' \in Seq(Ops)
        /\ \A x : OwedIn(x, calls, answers) => OwedIn(x, calls', answers')
    BY <1>1, <2>1, Known, AfterOne
  <2>3. ASSUME bound
        PROVE  Excused(ex, deferred, dialogs, calls', answers') /\ Awaited(ex, calls', answers')
    BY <2>2, <2>3, StillExcused, StillAwaited DEF IInv, Same
  <2> QED
    BY <2>1, <2>2, <2>3 DEF IInv, Typed, Answering
<1> QED
  BY <1>2, <1>3, <1>4

LEMMA ServeKeeps ==
  ASSUME IInv, Serve
  PROVE  IInv'
<1>1. /\ Typed /\ UNCHANGED <<bound, deferred, ex, dialogs>>
  BY DEF IInv, Serve, explorer
<1>2. PICK i \in DOMAIN calls : Svc!Reply(i) \/ Svc!Refuse(i)
  BY DEF Serve, Svc!Serve
<1>3. PICK a \in Svc!AnswersTo(KindOf[calls[i]]) :
        /\ answers' = Append(answers, <<calls[i], a>>)
        /\ calls' = RemoveAt(calls, i) /\ open' = open
  <2>0. Svc!RemoveAt(calls, i) = RemoveAt(calls, i)
    BY DEF RemoveAt, Svc!RemoveAt
  <2>1. CASE Svc!Reply(i)
    BY <2>0, <2>1, Zenon DEF Svc!Reply, Svc!Answer
  <2>2. CASE Svc!Refuse(i)
    <3>1. PICK a \in {"error", "unresolved"} \intersect Svc!AnswersTo(KindOf[calls[i]]) :
            Svc!Answer(calls[i], a)
      BY <2>2, Zenon DEF Svc!Refuse
    <3>2. calls' = RemoveAt(calls, i) /\ open' = open
      BY <2>0, <2>2, Zenon DEF Svc!Refuse
    <3> QED
      BY <3>1, <3>2, Zenon DEF Svc!Answer
  <2> QED
    BY <1>2, <2>1, <2>2
<1>4. calls[i] \in Ops
  BY <1>1, Removed DEF Typed
<1>5. a \in Signals
  BY <1>3, <1>4, AnswersTell
<1> DEFINE x == <<calls[i], a>>
<1>6. /\ calls' \in Seq(Ops) /\ answers' \in Seq(Ops \X Signals)
      /\ ToSet(answers') = ToSet(answers) \union {x}
      /\ \A o : OwedIn(o, calls, answers) => OwedIn(o, calls', answers')
  <2>1. calls \in Seq(Ops) /\ answers \in Seq(Ops \X Signals)
    BY <1>1 DEF Typed
  <2>2. answers' = Append(answers, x) /\ calls' = RemoveAt(calls, i) /\ x = <<calls[i], a>>
    BY <1>3
  <2> HIDE DEF x
  <2>3. /\ RemoveAt(calls, i) \in Seq(Ops)
        /\ ToSet(calls) \subseteq ToSet(RemoveAt(calls, i)) \union {calls[i]}
    BY <2>1, Removed
  <2>4. x \in Ops \X Signals /\ Answers(x, calls[i])
    BY <1>4, <1>5, <2>2 DEF Answers
  <2>5. /\ Append(answers, x) \in Seq(Ops \X Signals)
        /\ ToSet(Append(answers, x)) = ToSet(answers) \union {x}
    BY <2>1, <2>4, PutBehind
  <2>6. \A o : OwedIn(o, calls, answers) => OwedIn(o, RemoveAt(calls, i), Append(answers, x))
    BY <2>3, <2>4, <2>5 DEF OwedIn
  <2> QED
    BY <2>2, <2>3, <2>5, <2>6
<1>7. Fits(x)
  BY <1>3 DEF Fits
<1> HIDE DEF x
<1>8. Typed' /\ Answering'
  BY <1>1, <1>3, <1>6, <1>7 DEF IInv, Typed, Answering
<1>9. ASSUME bound
      PROVE  Excused(ex, deferred, dialogs, calls', answers') /\ Awaited(ex, calls', answers')
  BY <1>6, <1>9, StillExcused, StillAwaited DEF IInv, Same
<1> QED
  BY <1>1, <1>8, <1>9 DEF IInv

-----------------------------------------------------------------------------
(* The inductive invariant holds: what keeps the explorer busy, or what it *)
(* awaits before an upload, is still going to be answered: the handlers of *)
(* FileExplorerWidget cannot tell whose answer they take.                  *)
THEOREM Invariance == Spec => []IInv
<1>1. Init => IInv
  <2> SUFFICES ASSUME Init PROVE IInv
    OBVIOUS
  <2>1. /\ bound = FALSE /\ deferred = FALSE /\ ex = Fresh /\ dialogs = <<>>
        /\ calls = <<>> /\ answers = <<>> /\ open \in BOOLEAN
    BY DEF Init, Svc!Init
  <2>2. /\ <<>> \in Seq(Ops) /\ <<>> \in Seq(Ops \X Signals)
        /\ <<>> \in Seq(Prompts \X Dirs) /\ ToSet(<<>>) = {}
    BY DEF ToSet
  <2> QED
    BY <2>1, <2>2, FreshFree DEF IInv, Typed, Answering
<1>2. IInv /\ [Next]_vars => IInv'
  <2> SUFFICES ASSUME IInv, [Next]_vars PROVE IInv'
    OBVIOUS
  <2>1. ASSUME UserActs, bound
        PROVE  IInv'
    <3>1. CASE \E d \in Dirs : ActivateDirectory(d) \/ StartUpload(d)
      BY <2>1, <3>1, LooksKeep, WorkKeeps DEF ActivateDirectory, StartUpload, CheckDirectory,
        ConfirmUpload, UploadAtOnce, User
    <3>2. CASE \E d \in Links : ActivateLink(d)
      BY <2>1, <3>2, LooksKeep DEF ActivateLink, User
    <3>3. CASE \E n \in 1 .. MaxItems : Open(n) \/ AcceptDialog(n)
      BY <2>1, <3>3, WorkKeeps, AcceptKeeps DEF Open, User
    <3>4. CASE \E p \in Prompts \ {"confirm"} : Prompt(p)
      BY <2>1, <3>4, WorkKeeps DEF Prompt, User
    <3>5. CASE RefreshCurrent \/ FetchMore
      BY <2>1, <3>5, LooksKeep DEF RefreshCurrent, FetchMore, User
    <3>6. CASE ResumeInterrupted \/ DiscardInterrupted
      BY <2>1, <3>6, WorkKeeps DEF ResumeInterrupted, DiscardInterrupted, User
    <3>7. CASE CancelDialog
      BY <3>7, CancelKeeps
    <3>8. CASE AcceptUnbound \/ Save
      BY <3>8, TabsKeep
    <3> QED
      BY <2>1, <3>1, <3>2, <3>3, <3>4, <3>5, <3>6, <3>7, <3>8 DEF UserActs
  <2>2. ASSUME UserActs, ~bound
        PROVE  IInv'
    <3>1. CancelDialog \/ AcceptUnbound \/ Save
      BY <2>2 DEF UserActs, ActivateDirectory, StartUpload, ActivateLink, Open, AcceptDialog,
        Prompt, RefreshCurrent, FetchMore, ResumeInterrupted, DiscardInterrupted, Idle, Browsing
    <3> QED
      BY <3>1, CancelKeeps, TabsKeep
  <2>3. bound \in BOOLEAN
    BY DEF IInv, Typed
  <2>4. CASE Bind
    BY <2>4, BindKeeps
  <2>5. CASE SwitchTab \/ Disconnect \/ Reconnect
    BY <2>5, TabsKeep
  <2>6. CASE Serve
    BY <2>6, ServeKeeps
  <2>7. CASE Deliver
    BY <2>7, DeliverKeeps
  <2>8. CASE LoadRoot \/ FlushPendingUploads
    BY <2>8, TimersKeep
  <2>9. CASE UNCHANGED vars
    BY <2>9 DEF vars, explorer, service, IInv, Typed, Answering
  <2> QED
    BY <2>1, <2>2, <2>3, <2>4, <2>5, <2>6, <2>7, <2>8, <2>9 DEF Next
<1> QED
  BY <1>1, <1>2, PTL DEF Spec

(* While the explorer blocks the user, or waits for the listing before an  *)
(* upload, an answer that is going to end this is owed to it.              *)
THEOREM AnAnswerIsOwed == Spec => []OwedAnAnswer
<1>1. IInv => OwedAnAnswer
  <2> SUFFICES ASSUME IInv, bound PROVE OwedAnAnswer
    BY DEF OwedAnAnswer
  <2>1. /\ Typed /\ Excused(ex, deferred, dialogs, calls, answers)
        /\ Awaited(ex, calls, answers)
    BY DEF IInv
  <2>2. ASSUME NEW o, OwedIn(o, calls, answers)
        PROVE  Owed(o)
    <3>1. DOMAIN calls = 1 .. Len(calls)
      BY <2>1, LenProperties DEF Typed
    <3>2. o \in ToSet(calls) => Contains(calls, o)
      BY <3>1 DEF ToSet, Contains
    <3>3. (\E x \in ToSet(answers) : Answers(x, o)) => \E i \in DOMAIN answers : answers[i][1] = o
      BY DEF ToSet, Answers
    <3> QED
      BY <2>2, <3>2, <3>3 DEF OwedIn, Owed
  <2>3. \A o \in OwnOps \union {Op("canonical")} : o \in UserOps
    <3>1. \A o \in OwnOps \union {Op("canonical")} : o \in Ops
      BY Known DEF OwnOps
    <3>2. \A o \in OwnOps \union {Op("canonical")} : o[1] \notin {"list", "sync", "discard"}
      BY DEF OwnOps, Op
    <3> QED
      BY <3>1, <3>2 DEF UserOps
  <2>4. \A d \in Links : Resolve(d) \in UserOps
    <3>1. \A d \in Links : Resolve(d)[1] \notin {"list", "sync", "discard"}
      BY DEF Resolve
    <3> QED
      BY <3>1, Known DEF UserOps
  <2>5. ex.resolving # None => StuckResolve \/ \E o \in UserOps : Owed(o)
    BY <2>1, <2>4 DEF StuckResolve, Typed, Members
  <2>6. ASSUME ex.busy
        PROVE  \/ deferred \/ dialogs # <<>> \/ StuckResolve \/ ex.checking # None
               \/ \E o \in UserOps : Owed(o)
    BY <2>1, <2>2, <2>3, <2>5, <2>6 DEF Excused, Confirming
  <2>7. ex.checking # None => Owed(List(ex.checking))
    BY <2>1, <2>2 DEF Awaited
  <2> QED
    BY <2>6, <2>7 DEF OwedAnAnswer
<1> QED
  BY <1>1, Invariance, PTL
=============================================================================
