-------------------------- MODULE TerminalsProofs --------------------------
(***************************************************************************)
(* Proofs about Terminals, for any number of terminals, of signals and     *)
(* slots on their way, and of chunks of output: once the two threads have  *)
(* heard of each other they agree, every shell has its dock, and none is   *)
(* taken away before its output is shown.                                  *)
(***************************************************************************)
EXTENDS Terminals, FiniteSetTheorems, SequenceTheorems, TLAPS

(* A workspace with explorers has a terminal: what becomes of the first    *)
(* terminal of the session otherwise is the subject of no theorem.         *)
ToolsNeedTerminals == \A entry \in Entries : entry.tools => entry.count > 0

TermRec == [id : Ids, aux : BOOLEAN, state : {"Opening", "Open", "Failed", "Closed"}]
GuiRec == [terms : Seq(TermRec), active : Ids \union {None}, panes : SUBSET Ids,
           pinned : SUBSET Ids, closing : SUBSET Ids, restore : Entries \union {Nothing}]
CallRec == [op : {"connect", "open", "close", "retire"}, id : Ids]
AboutTerminal == {"opened", "openFailed", "closed", "failed"}
SignalRec ==
  [type : AboutTerminal \union {"connected"}, id : Ids]
    \union [type : {"disconnected", "error"}, id : {None}]
    \union [type : {"data"}, id : Ids, chunks : SUBSET Chunks]
Phases == {"none", "open", "eof", "broken", "failing", "finished"}

Typed ==
  /\ session \in {"Disconnected", "Connecting", "Connected", "Failed"}
  /\ up \in BOOLEAN /\ gui \in GuiRec /\ logs \in Ids \union {None}
  /\ created \in 0 .. MaxIds /\ asked \subseteq Ids
  /\ calls \in Seq(CallRec) /\ signals \in Seq(SignalRec)
  /\ phase \in [Ids -> Phases]
  /\ out \in [Ids -> SUBSET Chunks] /\ unseen \in [Ids -> SUBSET Chunks]

Called(op, id) == \E i \in DOMAIN calls : calls[i].op = op /\ calls[i].id = id
Signalled(type, id) == \E i \in DOMAIN signals : signals[i].type = type /\ signals[i].id = id
Opens == {"connect", "open"}

(* The list and the page. *)
PageFits ==
  /\ gui.panes = Visible(gui.terms)
  /\ gui.closing \subseteq ListedIds(gui.terms)
  /\ gui.restore # Nothing => session = "Connecting" /\ gui.restore.count <= created
  /\ session # "Connected" => gui.pinned = {} /\ gui.closing = {}
  /\ session = "Connecting" =>
       /\ ListedIds(gui.terms) = {gui.active} /\ Visible(gui.terms) = {gui.active}
       /\ gui.restore # Nothing => gui.active = 1

(* The session and the worker. *)
WorkerFits ==
  /\ session \in {"Disconnected", "Failed"} =>
       /\ calls = <<>> /\ ~up
       /\ \A i \in DOMAIN signals : signals[i].type \notin Outcomes
  /\ \A id \in Ids : phase[id] # "none" => up
  /\ \A id \in Ids : phase[id] \in {"none", "failing", "finished"} => out[id] = {}
  /\ \A i \in DOMAIN signals : signals[i].type = "connected" =>
       session = "Connecting" /\ signals[i].id = gui.active
  /\ \A i, j \in DOMAIN signals : signals[i].type = "connected" /\ signals[j].type = "connected" => i = j
  /\ \A i \in DOMAIN calls : calls[i].op = "connect" =>
       /\ session = "Connecting" /\ ~up
       /\ \A j \in DOMAIN signals : signals[j].type \notin Outcomes
  /\ session = "Connecting" =>
       /\ \A i \in DOMAIN calls : calls[i].op # "open"
       /\ up => Signalled("connected", gui.active)
       /\ \A i \in DOMAIN signals : signals[i].id = gui.active /\ signals[i].type # "connected" =>
            \E j \in 1 .. i - 1 : signals[j].type = "connected"

(* A terminal that is not created yet, or is to be restored. *)
Unborn(id) == \/ id > created
              \/ gui.restore # Nothing /\ id \in 1 .. gui.restore.count /\ id # gui.active
UnbornFits ==
  \A id \in Ids : Unborn(id) =>
    /\ id \notin ListedIds(gui.terms) /\ phase[id] = "none" /\ unseen[id] = {}
    /\ \A i \in DOMAIN calls : calls[i].id # id
    /\ \A i \in DOMAIN signals : signals[i].id # id

(* A terminal whose shell is to be opened. *)
OpensFit ==
  \A i \in DOMAIN calls : calls[i].op \in Opens =>
    LET id == calls[i].id
    IN  /\ id \in ListedIds(gui.terms) /\ phase[id] = "none" /\ unseen[id] = {}
        /\ \A j \in DOMAIN signals : signals[j].id # id
        /\ \A j \in DOMAIN calls : calls[j].id = id => i <= j /\ calls[j].op # "retire"

(* A terminal that is over. *)
EndsFit ==
  /\ \A i \in DOMAIN calls : calls[i].op = "close" => calls[i].id \in asked
  /\ \A i \in DOMAIN calls : calls[i].op = "retire" => phase[calls[i].id] \in {"finished", "none"}
  /\ \A i \in DOMAIN signals : signals[i].type \in {"closed", "openFailed"} => phase[signals[i].id] = "none"
  /\ \A i \in DOMAIN signals : signals[i].type = "failed" =>
       \/ phase[signals[i].id] \in {"failing", "none"}
       \/ Called("retire", signals[i].id)
  /\ \A i, j \in DOMAIN signals :
       signals[i].type = "closed" /\ i < j /\ signals[j].type = "data" => signals[j].id # signals[i].id

(* What a pane has not been given is kept by the handler or is on its way. *)
OutputFits ==
  \A id \in gui.panes :
    phase[id] # "none" \/ (Signalled("closed", id) /\ id \notin asked) =>
      \A chunk \in unseen[id] :
        \/ chunk \in out[id]
        \/ \E i \in DOMAIN signals : /\ signals[i].type = "data" /\ signals[i].id = id
                                     /\ chunk \in signals[i].chunks

(* The two threads agree, but for what is on its way. *)
Ledger ==
  up =>
    /\ \A id \in ListedIds(gui.terms) :
         phase[id] # "none" \/ Called("open", id) \/ Signalled("openFailed", id) \/ Signalled("closed", id)
    /\ \A id \in Ids :
         phase[id] # "none" => id \in ListedIds(gui.terms) \/ phase[id] = "failing" \/ Called("retire", id)
    /\ \A i \in DOMAIN gui.terms :
         LET id == gui.terms[i].id
         IN  gui.terms[i].state # "Open" =>
               Called("open", id) \/ \E type \in {"connected", "opened", "openFailed", "closed"} : Signalled(type, id)
    /\ \A id \in gui.closing : Called("close", id) \/ Signalled("closed", id) \/ Signalled("openFailed", id)

Docked == session = "Connected" => Visible(gui.terms) \subseteq gui.pinned

IInv == Typed /\ PageFits /\ WorkerFits /\ UnbornFits /\ OpensFit /\ EndsFit /\ OutputFits /\ Ledger /\ Docked
-----------------------------------------------------------------------------
(* The entries at some positions, in their order, are as many as these:    *)
(* the positions below each one number them.                               *)

LEMMA Ranks ==
  ASSUME NEW at, IsFiniteSet(at), at \subseteq Nat,
         NEW n \in 1 .. Cardinality(at)
  PROVE  \E i \in at : Cardinality({j \in at : j <= i}) = n
<1> DEFINE R(i) == {j \in at : j <= i}
           N == Cardinality(at)
           f == [i \in at |-> Cardinality(R(i))]
<1>1. N \in Nat
  BY FS_CardinalityType
<1>2. ASSUME NEW i \in at
      PROVE  IsFiniteSet(R(i)) /\ Cardinality(R(i)) \in 1 .. N
  <2>1. R(i) \in SUBSET at
    OBVIOUS
  <2>2. IsFiniteSet(R(i)) /\ Cardinality(R(i)) <= N
    BY <2>1, FS_Subset
  <2>3. i \in R(i)
    OBVIOUS
  <2>4. Cardinality(R(i)) \in Nat /\ Cardinality(R(i)) # 0
    BY <2>2, <2>3, FS_CardinalityType, FS_EmptySet
  <2> HIDE DEF R, N
  <2> QED
    BY <1>1, <2>2, <2>4
<1>3. ASSUME NEW i \in at, NEW k \in at, f[i] = f[k], i <= k
      PROVE  i = k
  <2>0. i \in Nat /\ k \in Nat /\ i <= k
    BY <1>3
  <2>1. R(i) \in SUBSET R(k) /\ IsFiniteSet(R(k)) /\ k \in R(k)
    <3>1. \A j \in at : j <= i => j <= k
      BY <2>0
    <3> HIDE DEF f
    <3> QED
      <4>1. R(i) \in SUBSET R(k)
        BY <3>1
      <4>2. k \in R(k)
        BY <2>0
      <4> QED
        BY <1>2, <4>1, <4>2, Zenon
  <2>2. R(k) = R(i)
    BY <1>3, <2>1, FS_Subset
  <2>3. k <= i
    BY <2>1, <2>2
  <2> QED
    BY <1>3, <2>3
<1>4. f \in [at -> 1 .. N]
  BY <1>2
<1>5. \A i, k \in at : f[i] = f[k] => i = k
  <2> HIDE DEF f
  <2> SUFFICES ASSUME NEW i \in at, NEW k \in at, f[i] = f[k] PROVE i = k
    OBVIOUS
  <2>1. i <= k \/ k <= i
    OBVIOUS
  <2> QED
    BY <1>3, <2>1
<1> HIDE DEF f
<1>6. f \in Injection(at, 1 .. N)
  <2> DEFINE T == 1 .. N
  <2>1. f \in [at -> T] /\ \A i, k \in at : f[i] = f[k] => i = k
    BY <1>4, <1>5
  <2> HIDE DEF T
  <2>2. f \in Injection(at, T)
    BY <2>1 DEF Injection, IsInjective
  <2> QED
    BY <2>2 DEF T
<1>7. IsFiniteSet(1 .. N) /\ Cardinality(1 .. N) = N
  BY <1>1, FS_Interval
<1>8. f \in Surjection(at, 1 .. N)
  BY <1>6, <1>7, FS_Injection
<1>9. PICK i \in at : f[i] = n
  BY <1>8 DEF Surjection
<1> QED
  BY <1>9 DEF f

LEMMA PickFacts ==
  ASSUME NEW S, NEW s \in Seq(S), NEW at, at \subseteq DOMAIN s
  PROVE  /\ Pick(s, at) \in Seq(S)
         /\ DOMAIN Pick(s, at) = 1 .. Len(Pick(s, at))
         /\ Len(Pick(s, at)) \in Nat
         /\ \A n \in DOMAIN Pick(s, at) : \E i \in at : Pick(s, at)[n] = s[i]
         /\ \A i \in at : \E n \in DOMAIN Pick(s, at) : Pick(s, at)[n] = s[i]
         /\ \A n, m \in DOMAIN Pick(s, at) :
              n < m => \E i, k \in at : i < k /\ Pick(s, at)[n] = s[i] /\ Pick(s, at)[m] = s[k]
<1> DEFINE R(i) == {j \in at : j <= i}
           N == Cardinality(at)
           C(n) == CHOOSE i \in at : Cardinality(R(i)) = n
           p == [n \in 1 .. N |-> s[C(n)]]
<1>1. Len(s) \in Nat /\ DOMAIN s = 1 .. Len(s)
  OBVIOUS
<1>2. IsFiniteSet(at) /\ at \subseteq Nat
  <2>1. IsFiniteSet(1 .. Len(s))
    BY <1>1, FS_Interval
  <2>2. at \in SUBSET (1 .. Len(s))
    BY <1>1
  <2> QED
    BY <1>1, <2>1, <2>2, FS_Subset
<1>3. N \in Nat
  BY <1>2, FS_CardinalityType
<1>4. ASSUME NEW n \in 1 .. N
      PROVE  C(n) \in at /\ Cardinality(R(C(n))) = n
  <2>1. \E i \in at : Cardinality(R(i)) = n
    BY <1>2, Ranks
  <2> QED
    BY <2>1
<1>5. ASSUME NEW i \in at
      PROVE  Cardinality(R(i)) \in 1 .. N
  <2>1. R(i) \in SUBSET at
    OBVIOUS
  <2>2. IsFiniteSet(R(i)) /\ Cardinality(R(i)) <= N
    BY <1>2, <2>1, FS_Subset
  <2>3. i \in R(i)
    BY <1>2
  <2>4. Cardinality(R(i)) \in Nat /\ Cardinality(R(i)) # 0
    BY <2>2, <2>3, FS_CardinalityType, FS_EmptySet
  <2> HIDE DEF R, N
  <2> QED
    BY <1>3, <2>2, <2>4
<1>6. ASSUME NEW i \in at
      PROVE  C(Cardinality(R(i))) = i
  <2> DEFINE k == C(Cardinality(R(i)))
  <2>1. k \in at /\ Cardinality(R(k)) = Cardinality(R(i))
    BY <1>4, <1>5
  <2> HIDE DEF k
  <2>2. ASSUME NEW a \in at, NEW b \in at, a <= b, Cardinality(R(a)) = Cardinality(R(b))
        PROVE  a = b
    <3>1. R(a) \in SUBSET R(b) /\ R(b) \in SUBSET at /\ b \in R(b)
      BY <1>2, <2>2
    <3>2. IsFiniteSet(R(b))
      BY <1>2, <3>1, FS_Subset
    <3>3. R(b) = R(a)
      BY <2>2, <3>1, <3>2, FS_Subset
    <3>4. b <= a
      BY <3>1, <3>3
    <3> QED
      BY <1>2, <2>2, <3>4
  <2>3. k <= i \/ i <= k
    BY <1>2, <2>1
  <2>4. k = i
    BY <2>1, <2>2, <2>3
  <2> QED
    BY <2>4 DEF k
<1>7. p = Pick(s, at)
  BY DEF Pick
<1> HIDE DEF C, R, N
<1>8. p \in Seq(S) /\ Len(p) = N /\ DOMAIN p = 1 .. N /\ \A n \in 1 .. N : p[n] = s[C(n)]
  <2>1. p \in [1 .. N -> S]
    BY <1>1, <1>4
  <2> QED
    BY <1>3, <2>1
<1> HIDE DEF p
<1>9. \A n \in DOMAIN p : \E i \in at : p[n] = s[i]
  BY <1>4, <1>8
<1>10. \A i \in at : \E n \in DOMAIN p : p[n] = s[i]
  <2> SUFFICES ASSUME NEW i \in at PROVE \E n \in DOMAIN p : p[n] = s[i]
    OBVIOUS
  <2>1. Cardinality(R(i)) \in DOMAIN p /\ p[Cardinality(R(i))] = s[i]
    BY <1>5, <1>6, <1>8
  <2> QED
    BY <2>1
<1>11. \A n, m \in DOMAIN p :
         n < m => \E i, k \in at : i < k /\ p[n] = s[i] /\ p[m] = s[k]
  <2> SUFFICES ASSUME NEW n \in 1 .. N, NEW m \in 1 .. N, n < m
               PROVE  \E i, k \in at : i < k /\ p[n] = s[i] /\ p[m] = s[k]
    BY <1>8
  <2>1. C(n) \in at /\ C(m) \in at /\ Cardinality(R(C(n))) = n /\ Cardinality(R(C(m))) = m
    BY <1>4
  <2>2. ASSUME C(m) <= C(n) PROVE FALSE
    <3>1. R(C(m)) \in SUBSET R(C(n)) /\ R(C(n)) \in SUBSET at
      BY <1>2, <2>1, <2>2 DEF R
    <3>2. IsFiniteSet(R(C(n)))
      BY <1>2, <3>1, FS_Subset
    <3>3. Cardinality(R(C(m))) <= Cardinality(R(C(n)))
      BY <3>1, <3>2, FS_Subset
    <3> QED
      BY <2>1, <3>3
  <2>3. C(n) < C(m)
    BY <1>2, <2>1, <2>2
  <2> QED
    BY <1>8, <2>1, <2>3
<1> QED
  BY <1>3, <1>7, <1>8, <1>9, <1>10, <1>11

-----------------------------------------------------------------------------
(* A queue, with something put at its end or taken from its head.          *)

LEMMA AtTheEnd ==
  ASSUME NEW S, NEW q \in Seq(S), NEW x \in S
  PROVE  /\ Append(q, x) \in Seq(S) /\ Len(Append(q, x)) \in DOMAIN Append(q, x)
         /\ Append(q, x)[Len(Append(q, x))] = x /\ Len(Append(q, x)) \in Nat
         /\ \A i \in DOMAIN q : /\ i \in DOMAIN Append(q, x) /\ Append(q, x)[i] = q[i]
                                /\ i \in Nat /\ i >= 1 /\ i < Len(Append(q, x))
         /\ \A i \in DOMAIN Append(q, x) :
              i \in DOMAIN q \/ i = Len(Append(q, x))
<1> DEFINE r == Append(q, x)
<1>1. /\ r \in Seq(S) /\ Len(r) = Len(q) + 1 /\ r[Len(q) + 1] = x
      /\ \A i \in 1 .. Len(q) : r[i] = q[i]
  BY AppendProperties
<1>2. Len(q) \in Nat /\ DOMAIN q = 1 .. Len(q)
  OBVIOUS
<1> HIDE DEF r
<1>3. DOMAIN r = 1 .. Len(q) + 1
  BY <1>1
<1>4. /\ Len(r) \in DOMAIN r /\ r[Len(r)] = x /\ Len(r) \in Nat
      /\ \A i \in DOMAIN q : i \in DOMAIN r /\ r[i] = q[i] /\ i \in Nat /\ i >= 1 /\ i < Len(r)
      /\ \A i \in DOMAIN r : i \in DOMAIN q \/ i = Len(r)
  BY <1>1, <1>2, <1>3
<1> QED
  BY <1>1, <1>4 DEF r

LEMMA FromTheHead ==
  ASSUME NEW S, NEW q \in Seq(S), q # <<>>
  PROVE  /\ Tail(q) \in Seq(S) /\ Head(q) = q[1] /\ 1 \in DOMAIN q /\ q[1] \in S
         /\ \A i \in DOMAIN Tail(q) : /\ i \in Nat /\ i >= 1 /\ i + 1 \in DOMAIN q
                                      /\ Tail(q)[i] = q[i + 1]
         /\ \A i \in DOMAIN q : /\ i \in Nat /\ i >= 1
                                /\ i # 1 => i - 1 \in DOMAIN Tail(q) /\ Tail(q)[i - 1] = q[i]
<1> DEFINE r == Tail(q)
<1>1. r \in Seq(S) /\ Len(r) = Len(q) - 1 /\ \A i \in 1 .. Len(r) : r[i] = q[i + 1]
  BY HeadTailProperties
<1>2. Len(q) \in Nat /\ Len(q) > 0 /\ DOMAIN q = 1 .. Len(q) /\ Head(q) = q[1]
  OBVIOUS
<1> HIDE DEF r
<1>3. DOMAIN r = 1 .. Len(q) - 1
  BY <1>1, <1>2
<1>4. \A i \in DOMAIN r : i \in Nat /\ i >= 1 /\ i + 1 \in DOMAIN q /\ r[i] = q[i + 1]
  BY <1>1, <1>2, <1>3
<1>5. ASSUME NEW i \in DOMAIN q, i # 1
      PROVE  i - 1 \in DOMAIN r /\ r[i - 1] = q[i]
  <2>1. i - 1 \in DOMAIN r /\ (i - 1) + 1 = i
    BY <1>2, <1>3, <1>5
  <2> QED
    BY <1>4, <2>1
<1>6. 1 \in DOMAIN q /\ q[1] \in S /\ \A i \in DOMAIN q : i \in Nat /\ i >= 1
  BY <1>2
<1> QED
  BY <1>1, <1>2, <1>4, <1>5, <1>6 DEF r

-----------------------------------------------------------------------------
(* The page: what its slots make of the list.                              *)

LEMMA TermIds ==
  ASSUME NEW s \in Seq(TermRec)
  PROVE  /\ ListedIds(s) \subseteq Ids /\ Visible(s) \subseteq ListedIds(s)
         /\ \A i \in DOMAIN s : s[i] \in TermRec
<1>0. \A i \in DOMAIN s : s[i] \in TermRec
  OBVIOUS
<1>1. \A i \in DOMAIN s : s[i] \in TermRec /\ s[i].id \in Ids
  BY <1>0 DEF TermRec
<1> QED
  BY <1>1 DEF ListedIds, Visible

LEMMA SyncFacts ==
  ASSUME NEW g \in GuiRec
  PROVE  LET r == SyncPanes(g)
         IN  /\ r \in GuiRec /\ r.terms = g.terms /\ r.active = g.active /\ r.restore = g.restore
             /\ r.panes = Visible(g.terms) /\ r.pinned \subseteq g.pinned
             /\ \A id \in Ids : id \in r.closing <=> id \in g.closing /\ id \in ListedIds(g.terms)
             /\ \A id \in ListedIds(g.terms) : id \in g.pinned => id \in r.pinned
<1> DEFINE removed == (g.panes \union g.closing) \ ListedIds(g.terms)
           u == [g EXCEPT !.pinned = @ \ removed]
           r == [u EXCEPT !.panes = Visible(g.terms), !.closing = @ \ removed]
<1>1. SyncPanes(g) = r
  BY DEF SyncPanes, Unpinned
<1>2. Visible(g.terms) \in SUBSET Ids
  <2>1. g.terms \in Seq(TermRec)
    BY DEF GuiRec
  <2> QED
    BY <2>1, TermIds
<1>3. u \in GuiRec /\ u.terms = g.terms /\ u.active = g.active /\ u.restore = g.restore
      /\ u.closing = g.closing /\ u.pinned = g.pinned \ removed
  BY DEF GuiRec
<1> HIDE DEF u, removed
<1>4. r \in GuiRec /\ r.terms = u.terms /\ r.active = u.active /\ r.restore = u.restore
      /\ r.closing = u.closing \ removed /\ r.pinned = u.pinned /\ r.panes = Visible(g.terms)
  BY <1>2, <1>3 DEF GuiRec
<1> HIDE DEF r
<1>5. g.closing \subseteq Ids /\ g.pinned \subseteq Ids
  BY DEF GuiRec
<1> QED
  BY <1>1, <1>3, <1>4, <1>5 DEF removed

LEMMA PinFacts ==
  ASSUME NEW g \in GuiRec, NEW ids \in SUBSET Ids
  PROVE  LET r == Pinned(g, ids)
         IN  /\ r \in GuiRec /\ r.terms = g.terms /\ r.active = g.active /\ r.restore = g.restore
             /\ r.panes = g.panes /\ r.closing = g.closing /\ r.pinned = g.pinned \union ids
BY DEF GuiRec, Pinned

LEMMA ShowFacts ==
  ASSUME NEW g \in GuiRec
  PROVE  LET r == ShowActive(g)
         IN  /\ r \in GuiRec /\ r.terms = g.terms /\ r.active = g.active /\ r.restore = g.restore
             /\ r.panes = g.panes /\ r.closing = g.closing /\ g.pinned \subseteq r.pinned
             /\ session # "Connected" => r = g
             /\ session = "Connected" /\ g.active \in g.panes \ g.closing => g.active \in r.pinned
<1>1. CASE session = "Connected" /\ g.active \in g.panes \ g.closing
  <2>1. ShowActive(g) = Pinned(g, {g.active}) /\ {g.active} \in SUBSET Ids
    BY <1>1 DEF ShowActive, PinTerminal, GuiRec
  <2> QED
    BY <1>1, <2>1, PinFacts
<1>2. CASE ~(session = "Connected" /\ g.active \in g.panes \ g.closing)
  <2>1. ShowActive(g) = g
    BY <1>2 DEF ShowActive, PinTerminal
  <2> QED
    BY <1>2, <2>1
<1> QED
  BY <1>1, <1>2

LEMMA SetActiveFacts ==
  ASSUME NEW g \in GuiRec, NEW id
  PROVE  LET r == SetActive(g, id)
         IN  /\ r \in GuiRec /\ r.terms = g.terms /\ r.restore = g.restore
             /\ r.panes = g.panes /\ r.closing = g.closing /\ r.pinned = g.pinned
             /\ r.active = IF id \in Visible(g.terms) THEN id ELSE g.active
<1>1. Visible(g.terms) \subseteq Ids
  <2>1. g.terms \in Seq(TermRec)
    BY DEF GuiRec
  <2> QED
    BY <2>1, TermIds
<1> QED
  BY <1>1 DEF SetActive, GuiRec

LEMMA ChangedFacts ==
  ASSUME NEW g \in GuiRec
  PROVE  LET r == OnTerminalsChanged(g)
         IN  /\ r \in GuiRec /\ r.terms = g.terms /\ r.restore = g.restore
             /\ r.panes = Visible(g.terms)
             /\ \A id \in Ids : id \in r.closing <=> id \in g.closing /\ id \in ListedIds(g.terms)
             /\ \A id \in ListedIds(g.terms) : id \in g.pinned => id \in r.pinned
             /\ session # "Connected" => r.pinned \subseteq g.pinned /\ r.active = g.active
             /\ \A n \in Ids :
                  /\ session = "Connected" /\ g.restore = Nothing /\ n \notin g.closing
                  /\ \E i \in DOMAIN g.terms : ~g.terms[i].aux /\ g.terms[i].id \notin g.panes
                  /\ \A i \in DOMAIN g.terms :
                       ~g.terms[i].aux /\ g.terms[i].id \notin g.panes => g.terms[i].id = n
                  => n \in r.pinned
<1> DEFINE at == {i \in DOMAIN g.terms : ~g.terms[i].aux /\ g.terms[i].id \notin g.panes}
           born == Pick(g.terms, at)
           p == SyncPanes(g)
           a == SetActive(p, Last(born).id)
           r == OnTerminalsChanged(g)
<1>1. /\ p \in GuiRec /\ p.terms = g.terms /\ p.active = g.active /\ p.restore = g.restore
      /\ p.panes = Visible(g.terms) /\ p.pinned \subseteq g.pinned
      /\ \A id \in Ids : id \in p.closing <=> id \in g.closing /\ id \in ListedIds(g.terms)
      /\ \A id \in ListedIds(g.terms) : id \in g.pinned => id \in p.pinned
  BY SyncFacts
<1>2. \/ r = p /\ ~(session = "Connected" /\ g.restore = Nothing /\ born # <<>>)
      \/ r = ShowActive(p) /\ ~(g.restore = Nothing /\ session = "Connected" /\ born # <<>>)
      \/ r = ShowActive(a) /\ session = "Connected" /\ g.restore = Nothing /\ born # <<>>
  BY DEF OnTerminalsChanged
<1>3. /\ g.terms \in Seq(TermRec) /\ at \subseteq DOMAIN g.terms
      /\ \A i \in at : ~g.terms[i].aux /\ g.terms[i].id \notin g.panes
  BY DEF GuiRec
<1>4. /\ born \in Seq(TermRec) /\ DOMAIN born = 1 .. Len(born) /\ Len(born) \in Nat
      /\ \A n \in DOMAIN born : \E i \in at : born[n] = g.terms[i]
      /\ \A i \in at : \E n \in DOMAIN born : born[n] = g.terms[i]
  <2> HIDE DEF at
  <2> QED
    BY <1>3, PickFacts
<1>5. a \in GuiRec /\ a.terms = p.terms /\ a.restore = p.restore /\ a.panes = p.panes
      /\ a.closing = p.closing /\ a.pinned = p.pinned
      /\ a.active = IF Last(born).id \in Visible(p.terms) THEN Last(born).id ELSE p.active
  <2> HIDE DEF p
  <2> QED
    BY <1>1, SetActiveFacts
<1>6. ASSUME NEW n \in Ids, session = "Connected", g.restore = Nothing, n \notin g.closing,
             \E i \in DOMAIN g.terms : ~g.terms[i].aux /\ g.terms[i].id \notin g.panes,
             \A i \in DOMAIN g.terms :
               ~g.terms[i].aux /\ g.terms[i].id \notin g.panes => g.terms[i].id = n
      PROVE  n \in r.pinned
  <2>1. at # {}
    BY <1>6
  <2>2. \A i \in at : g.terms[i].id = n
    BY <1>3, <1>6
  <2> HIDE DEF at, born
  <2>3. PICK k \in at : TRUE
    BY <2>1
  <2>4. born # <<>> /\ Len(born) \in DOMAIN born
    BY <1>4, <2>3
  <2>5. Last(born).id = n
    BY <1>4, <2>2, <2>4 DEF Last
  <2>6. n \in Visible(g.terms)
    BY <1>3, <2>2, <2>3 DEF Visible
  <2> HIDE DEF a, p, r
  <2>7. a.active = n /\ n \in a.panes \ a.closing
    BY <1>1, <1>5, <1>6, <2>5, <2>6
  <2>8. r = ShowActive(a)
    BY <1>2, <1>6, <2>4
  <2> QED
    BY <1>5, <1>6, <2>7, <2>8, ShowFacts
<1> HIDE DEF a, p, r, born
<1>7. CASE r = p
  BY <1>1, <1>6, <1>7 DEF r
<1>8. CASE r = ShowActive(p)
  BY <1>1, <1>6, <1>8, ShowFacts DEF r
<1>9. CASE r = ShowActive(a) /\ session = "Connected"
  BY <1>1, <1>5, <1>6, <1>9, ShowFacts DEF r
<1> QED
  BY <1>2, <1>7, <1>8, <1>9

\* A session that does not grow: the states of its terminals change.
LEMMA WithStateFacts ==
  ASSUME NEW g \in GuiRec, NEW id, NEW state \in {"Opening", "Open", "Failed", "Closed"},
         g.panes = Visible(g.terms)
  PROVE  LET r == WithState(g, id, state)
         IN  /\ r \in GuiRec /\ r.restore = g.restore
             /\ DOMAIN r.terms = DOMAIN g.terms /\ Len(r.terms) = Len(g.terms)
             /\ \A i \in DOMAIN g.terms :
                  /\ r.terms[i].id = g.terms[i].id /\ r.terms[i].aux = g.terms[i].aux
                  /\ r.terms[i].state = IF g.terms[i].id = id THEN state ELSE g.terms[i].state
             /\ ListedIds(r.terms) = ListedIds(g.terms) /\ Visible(r.terms) = Visible(g.terms)
             /\ r.panes = Visible(r.terms)
             /\ \A x \in Ids : x \in r.closing <=> x \in g.closing /\ x \in ListedIds(g.terms)
             /\ \A x \in ListedIds(g.terms) : x \in g.pinned => x \in r.pinned
             /\ session # "Connected" => r.pinned \subseteq g.pinned /\ r.active = g.active
<1> DEFINE terms == [i \in DOMAIN g.terms |->
                       IF g.terms[i].id = id THEN [g.terms[i] EXCEPT !.state = state] ELSE g.terms[i]]
           u == [g EXCEPT !.terms = terms]
           r == OnTerminalsChanged(u)
<1>1. g.terms \in Seq(TermRec) /\ \A i \in DOMAIN g.terms : g.terms[i] \in TermRec
  <2>1. g.terms \in Seq(TermRec)
    BY DEF GuiRec
  <2> QED
    BY <2>1, TermIds
<1>2. \A i \in DOMAIN g.terms :
        /\ terms[i] \in TermRec
        /\ terms[i].id = g.terms[i].id /\ terms[i].aux = g.terms[i].aux
        /\ terms[i].state = IF g.terms[i].id = id THEN state ELSE g.terms[i].state
  BY <1>1 DEF TermRec
<1>3. DOMAIN terms = DOMAIN g.terms
  OBVIOUS
<1>4. terms \in Seq(TermRec) /\ Len(terms) = Len(g.terms)
  <2>1. DOMAIN g.terms = 1 .. Len(g.terms) /\ Len(g.terms) \in Nat
    BY <1>1
  <2>2. terms \in [1 .. Len(g.terms) -> TermRec]
    BY <1>2, <2>1
  <2> HIDE DEF terms
  <2> QED
    BY <2>1, <2>2
<1> HIDE DEF terms
<1>5. ListedIds(terms) = ListedIds(g.terms) /\ Visible(terms) = Visible(g.terms)
  BY <1>2, <1>3 DEF ListedIds, Visible
<1>6. u \in GuiRec /\ u.terms = terms /\ u.restore = g.restore /\ u.closing = g.closing
      /\ u.pinned = g.pinned /\ u.active = g.active
  BY <1>4 DEF GuiRec
<1>7. WithState(g, id, state) = r
  BY DEF WithState, terms
<1> HIDE DEF u
<1>8. /\ r \in GuiRec /\ r.terms = u.terms /\ r.restore = u.restore
      /\ r.panes = Visible(u.terms)
      /\ \A x \in Ids : x \in r.closing <=> x \in u.closing /\ x \in ListedIds(u.terms)
      /\ \A x \in ListedIds(u.terms) : x \in u.pinned => x \in r.pinned
      /\ session # "Connected" => r.pinned \subseteq u.pinned /\ r.active = u.active
  BY <1>6, ChangedFacts
<1> HIDE DEF r
<1> QED
  BY <1>2, <1>3, <1>4, <1>5, <1>6, <1>7, <1>8

\* The list without one terminal.
LEMMA RemovedFacts ==
  ASSUME NEW g \in GuiRec, NEW id, g.panes = Visible(g.terms)
  PROVE  LET r == Removed(g, id)
         IN  /\ r \in GuiRec /\ r.restore = g.restore
             /\ \A n \in DOMAIN r.terms : \E i \in DOMAIN g.terms : r.terms[n] = g.terms[i]
             /\ ListedIds(r.terms) = ListedIds(g.terms) \ {id}
             /\ Visible(r.terms) = Visible(g.terms) \ {id}
             /\ r.panes = Visible(r.terms)
             /\ \A x \in Ids : x \in r.closing <=> x \in g.closing /\ x \in ListedIds(r.terms)
             /\ \A x \in ListedIds(r.terms) : x \in g.pinned => x \in r.pinned
             /\ session # "Connected" =>
                  r.pinned \subseteq g.pinned /\ (id # g.active => r.active = g.active)
<1> DEFINE at == {i \in DOMAIN g.terms : g.terms[i].id # id}
           left == Pick(g.terms, at)
           shown == Pick(left, {i \in DOMAIN left : ~left[i].aux})
           open == Pick(shown, {i \in DOMAIN shown : shown[i].state = "Open"})
           next == IF open # <<>> THEN open[1].id ELSE IF shown # <<>> THEN shown[1].id ELSE None
           act == IF id = g.active THEN next ELSE g.active
           u == [g EXCEPT !.terms = left, !.active = act]
           h == OnTerminalsChanged(u)
           r == IF id = g.active THEN ShowActive(h) ELSE h
<1>1. g.terms \in Seq(TermRec) /\ at \subseteq DOMAIN g.terms
  BY DEF GuiRec
<1>2. /\ left \in Seq(TermRec)
      /\ \A n \in DOMAIN left : \E i \in at : left[n] = g.terms[i]
      /\ \A i \in at : \E n \in DOMAIN left : left[n] = g.terms[i]
  <2> HIDE DEF at, left
  <2>1. left = Pick(g.terms, at)
    BY DEF left
  <2> DEFINE T == g.terms
  <2>2. T \in Seq(TermRec) /\ at \subseteq DOMAIN T /\ left = Pick(T, at)
    BY <1>1, <2>1
  <2> HIDE DEF T
  <2>3. /\ left \in Seq(TermRec)
        /\ \A n \in DOMAIN left : \E i \in at : left[n] = T[i]
        /\ \A i \in at : \E n \in DOMAIN left : left[n] = T[i]
    BY <2>2, PickFacts
  <2> QED
    BY <2>3 DEF T
<1>3. ListedIds(left) = ListedIds(g.terms) \ {id} /\ Visible(left) = Visible(g.terms) \ {id}
  <2> HIDE DEF left
  <2>1. ListedIds(left) = ListedIds(g.terms) \ {id}
    BY <1>2 DEF ListedIds
  <2>2. Visible(left) = Visible(g.terms) \ {id}
    BY <1>2 DEF Visible
  <2> QED
    BY <2>1, <2>2
<1>4. next \in Ids \union {None}
  <2> HIDE DEF left, at
  <2>1. shown \in Seq(TermRec)
    <3> DEFINE some == {i \in DOMAIN left : ~left[i].aux}
    <3>1. some \subseteq DOMAIN left
      OBVIOUS
    <3> HIDE DEF some
    <3> QED
      BY <1>2, <3>1, PickFacts DEF some
  <2> HIDE DEF shown
  <2>2. open \in Seq(TermRec)
    <3> DEFINE some == {i \in DOMAIN shown : shown[i].state = "Open"}
    <3>1. some \subseteq DOMAIN shown
      OBVIOUS
    <3> HIDE DEF some
    <3> QED
      BY <2>1, <3>1, PickFacts DEF some
  <2> HIDE DEF open
  <2>3. ASSUME NEW s \in Seq(TermRec), s # <<>> PROVE s[1].id \in Ids
    <3>1. 1 \in DOMAIN s
      BY <2>3
    <3>2. s[1] \in TermRec
      BY <3>1, TermIds
    <3> QED
      BY <3>2 DEF TermRec
  <2> QED
    BY <2>1, <2>2, <2>3
<1> HIDE DEF at, left, next
<1>5. act \in Ids \union {None} /\ (id # g.active => act = g.active)
  BY <1>4 DEF GuiRec
<1> HIDE DEF act
<1>6. u \in GuiRec /\ u.terms = left /\ u.restore = g.restore /\ u.closing = g.closing
      /\ u.pinned = g.pinned /\ u.active = act /\ u.panes = g.panes
  BY <1>2, <1>5 DEF GuiRec
<1>7. Removed(g, id) = r
  BY DEF Removed, at, left, next, act
<1> HIDE DEF u
<1>8. /\ h \in GuiRec /\ h.terms = u.terms /\ h.restore = u.restore
      /\ h.panes = Visible(u.terms)
      /\ \A x \in Ids : x \in h.closing <=> x \in u.closing /\ x \in ListedIds(u.terms)
      /\ \A x \in ListedIds(u.terms) : x \in u.pinned => x \in h.pinned
      /\ session # "Connected" => h.pinned \subseteq u.pinned /\ h.active = u.active
  BY <1>6, ChangedFacts
<1> HIDE DEF h
<1>9. /\ r \in GuiRec /\ r.terms = u.terms /\ r.restore = u.restore
      /\ r.panes = Visible(u.terms)
      /\ \A x \in Ids : x \in r.closing <=> x \in u.closing /\ x \in ListedIds(u.terms)
      /\ \A x \in ListedIds(u.terms) : x \in u.pinned => x \in r.pinned
      /\ session # "Connected" => r.pinned \subseteq u.pinned /\ r.active = u.active
  <2>1. CASE id = g.active
    BY <1>8, <2>1, ShowFacts
  <2>2. CASE id # g.active
    BY <1>8, <2>2
  <2> QED
    BY <2>1, <2>2
<1> HIDE DEF r
<1>10. \A n \in DOMAIN left : \E i \in DOMAIN g.terms : left[n] = g.terms[i]
  BY <1>1, <1>2
<1> QED
  BY <1>3, <1>5, <1>6, <1>7, <1>9, <1>10

\* The list of a session that is over.
LEMMA ClearedFacts ==
  ASSUME NEW g \in GuiRec, g.panes = Visible(g.terms)
  PROVE  LET r == Cleared(g)
         IN  /\ r \in GuiRec /\ r.restore = Nothing /\ r.active = None
             /\ r.pinned = {} /\ r.closing = {} /\ r.panes = Visible(r.terms)
             /\ ListedIds(r.terms) = ListedIds(g.terms) /\ Visible(r.terms) = Visible(g.terms)
<1> DEFINE terms == [i \in DOMAIN g.terms |-> [g.terms[i] EXCEPT !.state = "Closed"]]
           v == [g EXCEPT !.pinned = @ \ g.pinned]
           r == [v EXCEPT !.terms = terms, !.active = None, !.closing = {}, !.restore = Nothing]
<1>1. g.terms \in Seq(TermRec) /\ \A i \in DOMAIN g.terms : g.terms[i] \in TermRec
  <2>1. g.terms \in Seq(TermRec)
    BY DEF GuiRec
  <2> QED
    BY <2>1, TermIds
<1>2. \A i \in DOMAIN g.terms :
        terms[i] \in TermRec /\ terms[i].id = g.terms[i].id /\ terms[i].aux = g.terms[i].aux
  BY <1>1 DEF TermRec
<1>3. DOMAIN terms = DOMAIN g.terms
  OBVIOUS
<1>4. terms \in Seq(TermRec)
  <2>1. DOMAIN g.terms = 1 .. Len(g.terms) /\ Len(g.terms) \in Nat
    BY <1>1
  <2>2. terms \in [1 .. Len(g.terms) -> TermRec]
    BY <1>2, <2>1
  <2> HIDE DEF terms
  <2> QED
    BY <2>1, <2>2
<1>5. v \in GuiRec /\ v.terms = g.terms /\ v.pinned = {} /\ v.panes = g.panes
  BY DEF GuiRec
<1>6. Cleared(g) = [v EXCEPT !.terms = [i \in DOMAIN @ |-> [@[i] EXCEPT !.state = "Closed"]],
                             !.active = None, !.closing = {}, !.restore = Nothing]
  BY DEF Cleared, ClearLayout, Unpinned
<1> HIDE DEF v
<1>7. Cleared(g) = r
  BY <1>5, <1>6
<1> HIDE DEF terms
<1>8. ListedIds(terms) = ListedIds(g.terms) /\ Visible(terms) = Visible(g.terms)
  BY <1>2, <1>3 DEF ListedIds, Visible
<1>9. r \in GuiRec /\ r.terms = terms /\ r.active = None /\ r.closing = {} /\ r.restore = Nothing
      /\ r.pinned = v.pinned /\ r.panes = v.panes
  BY <1>4, <1>5 DEF GuiRec
<1> HIDE DEF r
<1> QED
  BY <1>5, <1>7, <1>8, <1>9

\* What is joined to a sequence comes after it.
LEMMA Joined ==
  ASSUME NEW S, NEW a \in Seq(S), NEW b \in Seq(S), NEW c, c = a \o b
  PROVE  /\ c \in Seq(S) /\ Len(a) \in Nat /\ Len(b) \in Nat /\ Len(c) = Len(a) + Len(b)
         /\ \A i \in DOMAIN a : /\ i \in DOMAIN c /\ c[i] = a[i]
                                /\ i \in Nat /\ i >= 1 /\ i <= Len(a)
         /\ \A n \in DOMAIN b : /\ n \in Nat /\ n >= 1 /\ n <= Len(b)
                                /\ Len(a) + n \in DOMAIN c /\ c[Len(a) + n] = b[n]
         /\ \A i \in DOMAIN c : i \in DOMAIN a \/ \E n \in DOMAIN b : i = Len(a) + n
<1>1. c \in Seq(S) /\ Len(c) = Len(a) + Len(b) /\ Len(a) \in Nat /\ Len(b) \in Nat
      /\ DOMAIN a = 1 .. Len(a) /\ DOMAIN b = 1 .. Len(b)
  OBVIOUS
<1>2. \A i \in 1 .. Len(a) + Len(b) : c[i] = IF i <= Len(a) THEN a[i] ELSE b[i - Len(a)]
  OBVIOUS
<1>3. DOMAIN c = 1 .. Len(a) + Len(b)
  BY <1>1
<1>4. ASSUME NEW i \in DOMAIN c, i \notin DOMAIN a
      PROVE  \E n \in DOMAIN b : i = Len(a) + n
  <2>1. i - Len(a) \in DOMAIN b /\ i = Len(a) + (i - Len(a))
    BY <1>1, <1>3, <1>4
  <2> QED
    BY <2>1
<1>5. \A i \in DOMAIN a : i \in DOMAIN c /\ c[i] = a[i] /\ i \in Nat /\ i >= 1 /\ i <= Len(a)
  BY <1>1, <1>2, <1>3
<1>6. \A n \in DOMAIN b : /\ n \in Nat /\ n >= 1 /\ n <= Len(b)
                          /\ Len(a) + n \in DOMAIN c /\ c[Len(a) + n] = b[n]
  BY <1>1, <1>2, <1>3
<1> QED
  BY <1>1, <1>4, <1>5, <1>6

\* The list of a workspace that is restored: what was listed, then what was
\* missing of its terminals, each once, and all of them docked.
Filled(g, r, k) ==
  /\ r \in GuiRec /\ r.restore = Nothing /\ r.active = g.active
  /\ r.panes = Visible(r.terms) /\ k \in Nat /\ Len(g.terms) \in Nat
  /\ ListedIds(r.terms) = ListedIds(g.terms) \union 1 .. g.restore.count
  /\ Visible(r.terms) \subseteq Visible(g.terms) \union 1 .. g.restore.count
  /\ \A x \in Ids : x \in r.closing <=> x \in g.closing /\ x \in ListedIds(r.terms)
  /\ \A x \in ListedIds(r.terms) :
       x \in g.pinned \/ x \in 1 .. g.restore.count => x \in r.pinned
  /\ \A i \in DOMAIN r.terms :
       \/ i \in DOMAIN g.terms /\ r.terms[i] = g.terms[i]
       \/ \E n \in 1 .. k : i = Len(g.terms) + n
  /\ \A n \in 1 .. k : r.terms[Len(g.terms) + n].id \in 1 .. g.restore.count \ ListedIds(g.terms)
  /\ \A n, m \in 1 .. k :
       n < m => r.terms[Len(g.terms) + n].id # r.terms[Len(g.terms) + m].id
  /\ \A x \in 1 .. g.restore.count \ ListedIds(g.terms) : \E n \in 1 .. k : r.terms[Len(g.terms) + n].id = x

LEMMA RestoredFacts ==
  ASSUME NEW g \in GuiRec, g.restore # Nothing, g.restore.count \in Nat,
         1 .. g.restore.count \subseteq Ids, NEW r, r = Restored(g)
  PROVE  Filled(g, r, Len(r.terms) - Len(g.terms))
<1> DEFINE c == g.restore.count
           all == [i \in 1 .. c |-> i]
           new == 1 .. c \ ListedIds(g.terms)
           missing == Pick(all, new)
           more == [i \in DOMAIN missing |-> Terminal(missing[i], FALSE)]
           h == [g EXCEPT !.terms = @ \o more, !.restore = Nothing]
           p == Pinned(h, 1 .. c)
<1>1. r = SyncPanes(p)
  BY DEF Restored
<1>2. /\ all \in Seq(Ids) /\ new \subseteq DOMAIN all
      /\ \A i \in new : all[i] = i /\ i \in Nat
  <2>1. all \in [1 .. c -> Ids]
    OBVIOUS
  <2> QED
    BY <2>1
<1>3. /\ DOMAIN missing = 1 .. Len(missing) /\ Len(missing) \in Nat
      /\ \A n \in DOMAIN missing : missing[n] \in new
      /\ \A i \in new : \E n \in DOMAIN missing : missing[n] = i
      /\ \A n, m \in DOMAIN missing : n < m => missing[n] # missing[m]
  <2> HIDE DEF all, new
  <2>1. /\ DOMAIN missing = 1 .. Len(missing) /\ Len(missing) \in Nat
        /\ \A n \in DOMAIN missing : \E i \in new : missing[n] = all[i]
        /\ \A i \in new : \E n \in DOMAIN missing : missing[n] = all[i]
        /\ \A n, m \in DOMAIN missing :
             n < m => \E i, k \in new : i < k /\ missing[n] = all[i] /\ missing[m] = all[k]
    BY <1>2, PickFacts
  <2> HIDE DEF missing
  <2>2. \A n, m \in DOMAIN missing : n < m => missing[n] # missing[m]
    <3> SUFFICES ASSUME NEW n \in DOMAIN missing, NEW m \in DOMAIN missing, n < m
                 PROVE  missing[n] # missing[m]
      OBVIOUS
    <3>1. PICK i \in new, k \in new : i < k /\ missing[n] = all[i] /\ missing[m] = all[k]
      BY <2>1
    <3>2. missing[n] = i /\ missing[m] = k /\ i \in Nat /\ k \in Nat
      BY <1>2, <3>1
    <3> QED
      BY <3>1, <3>2
  <2> QED
    BY <1>2, <2>1, <2>2
<1> HIDE DEF missing, all
<1>4. /\ more \in Seq(TermRec) /\ DOMAIN more = 1 .. Len(missing) /\ Len(more) = Len(missing)
      /\ \A n \in DOMAIN more : more[n].id = missing[n]
  <2>1. \A n \in DOMAIN missing : Terminal(missing[n], FALSE) \in TermRec
    BY <1>2, <1>3 DEF Terminal, TermRec
  <2>2. more \in [1 .. Len(missing) -> TermRec]
    BY <1>3, <2>1
  <2>3. \A n \in DOMAIN more : more[n].id = missing[n]
    BY DEF Terminal
  <2> HIDE DEF more
  <2> QED
    BY <1>3, <2>2, <2>3
<1> HIDE DEF more
<1>5. g.terms \in Seq(TermRec)
  BY DEF GuiRec
<1> DEFINE t == g.terms \o more
<1>6. /\ t \in Seq(TermRec) /\ Len(g.terms) \in Nat /\ Len(t) = Len(g.terms) + Len(more)
      /\ \A i \in DOMAIN g.terms : i \in DOMAIN t /\ t[i] = g.terms[i]
      /\ \A n \in DOMAIN more : Len(g.terms) + n \in DOMAIN t /\ t[Len(g.terms) + n] = more[n]
      /\ \A i \in DOMAIN t : i \in DOMAIN g.terms \/ \E n \in DOMAIN more : i = Len(g.terms) + n
  <2> DEFINE T == g.terms
  <2>1. T \in Seq(TermRec) /\ more \in Seq(TermRec) /\ t = T \o more
    BY <1>4, <1>5
  <2> HIDE DEF T, t
  <2>2. /\ t \in Seq(TermRec) /\ Len(T) \in Nat /\ Len(t) = Len(T) + Len(more)
        /\ \A i \in DOMAIN T : i \in DOMAIN t /\ t[i] = T[i]
        /\ \A n \in DOMAIN more : Len(T) + n \in DOMAIN t /\ t[Len(T) + n] = more[n]
        /\ \A i \in DOMAIN t : i \in DOMAIN T \/ \E n \in DOMAIN more : i = Len(T) + n
    <3>1. t \in Seq(TermRec) /\ Len(T) \in Nat /\ Len(more) \in Nat /\ Len(t) = Len(T) + Len(more)
      BY <2>1, Joined
    <3>2. \A i \in DOMAIN T : i \in DOMAIN t /\ t[i] = T[i]
      BY <2>1, Joined
    <3>3. \A n \in DOMAIN more : Len(T) + n \in DOMAIN t /\ t[Len(T) + n] = more[n]
      BY <2>1, Joined
    <3>4. \A i \in DOMAIN t : i \in DOMAIN T \/ \E n \in DOMAIN more : i = Len(T) + n
      BY <2>1, Joined
    <3> QED
      BY <3>1, <3>2, <3>3, <3>4
  <2> QED
    BY <2>2 DEF T
<1>7. h \in GuiRec /\ h.terms = t /\ h.restore = Nothing /\ h.active = g.active
      /\ h.pinned = g.pinned /\ h.closing = g.closing
  BY <1>6 DEF GuiRec
<1> HIDE DEF t, h
<1>8. p \in GuiRec /\ p.terms = t /\ p.restore = Nothing /\ p.active = g.active
      /\ p.pinned = g.pinned \union 1 .. c /\ p.closing = g.closing
  <2>1. 1 .. c \in SUBSET Ids
    OBVIOUS
  <2> QED
    BY <1>7, <2>1, PinFacts
<1> HIDE DEF p
<1>9. /\ r \in GuiRec /\ r.terms = t /\ r.active = g.active /\ r.restore = Nothing
      /\ r.panes = Visible(t)
      /\ \A x \in Ids : x \in r.closing <=> x \in g.closing /\ x \in ListedIds(t)
      /\ \A x \in ListedIds(t) : x \in g.pinned \union 1 .. c => x \in r.pinned
  BY <1>1, <1>8, SyncFacts
<1> HIDE DEF new
<1>10. \A n \in DOMAIN more : t[Len(g.terms) + n].id \in new
  BY <1>3, <1>4, <1>6
<1>11. ListedIds(t) = ListedIds(g.terms) \union 1 .. c
  <2>1. \A x \in ListedIds(t) : x \in ListedIds(g.terms) \union new
    BY <1>6, <1>10 DEF ListedIds
  <2>2. \A x \in ListedIds(g.terms) : x \in ListedIds(t)
    BY <1>6 DEF ListedIds
  <2>3. ASSUME NEW x \in new PROVE x \in ListedIds(t)
    <3>1. PICK n \in DOMAIN more : t[Len(g.terms) + n].id = x /\ Len(g.terms) + n \in DOMAIN t
      BY <1>3, <1>4, <1>6
    <3> QED
      BY <3>1 DEF ListedIds
  <2> QED
    BY <2>1, <2>2, <2>3 DEF new
<1>12. Visible(t) \subseteq Visible(g.terms) \union 1 .. c
  BY <1>6, <1>10 DEF Visible, new
<1>13. \A n, m \in DOMAIN more : n < m => t[Len(g.terms) + n].id # t[Len(g.terms) + m].id
  BY <1>3, <1>4, <1>6
<1>14. \A x \in new : \E n \in DOMAIN more : t[Len(g.terms) + n].id = x
  BY <1>3, <1>4, <1>6
<1>15. Len(r.terms) - Len(g.terms) = Len(missing) /\ 1 .. Len(missing) = DOMAIN more
  BY <1>3, <1>4, <1>6, <1>9
<1> HIDE DEF c
<1>16. /\ r \in GuiRec /\ r.restore = Nothing /\ r.active = g.active
       /\ r.panes = Visible(r.terms) /\ Len(missing) \in Nat /\ Len(g.terms) \in Nat
       /\ ListedIds(r.terms) = ListedIds(g.terms) \union 1 .. c
       /\ Visible(r.terms) \subseteq Visible(g.terms) \union 1 .. c
       /\ \A x \in Ids : x \in r.closing <=> x \in g.closing /\ x \in ListedIds(r.terms)
       /\ \A x \in ListedIds(r.terms) : x \in g.pinned \/ x \in 1 .. c => x \in r.pinned
       /\ \A i \in DOMAIN r.terms :
            \/ i \in DOMAIN g.terms /\ r.terms[i] = g.terms[i]
            \/ \E n \in DOMAIN more : i = Len(g.terms) + n
       /\ \A n \in DOMAIN more : r.terms[Len(g.terms) + n].id \in new
       /\ \A n, m \in DOMAIN more :
            n < m => r.terms[Len(g.terms) + n].id # r.terms[Len(g.terms) + m].id
       /\ \A x \in new : \E n \in DOMAIN more : r.terms[Len(g.terms) + n].id = x
  BY <1>3, <1>6, <1>9, <1>10, <1>11, <1>12, <1>13, <1>14
<1>17. g.restore.count = c /\ new = 1 .. g.restore.count \ ListedIds(g.terms)
  BY DEF c, new
<1> DEFINE k == Len(r.terms) - Len(g.terms)
<1>18. DOMAIN more = 1 .. k /\ k \in Nat
  BY <1>3, <1>15
<1> HIDE DEF k
<1>19. /\ r \in GuiRec /\ r.restore = Nothing /\ r.active = g.active
       /\ r.panes = Visible(r.terms) /\ Len(g.terms) \in Nat
       /\ ListedIds(r.terms) = ListedIds(g.terms) \union 1 .. g.restore.count
       /\ Visible(r.terms) \subseteq Visible(g.terms) \union 1 .. g.restore.count
       /\ \A x \in Ids : x \in r.closing <=> x \in g.closing /\ x \in ListedIds(r.terms)
       /\ \A x \in ListedIds(r.terms) :
            x \in g.pinned \/ x \in 1 .. g.restore.count => x \in r.pinned
  BY <1>16, <1>17
<1>20. /\ \A i \in DOMAIN r.terms :
            \/ i \in DOMAIN g.terms /\ r.terms[i] = g.terms[i]
            \/ \E n \in 1 .. k : i = Len(g.terms) + n
       /\ \A n \in 1 .. k : r.terms[Len(g.terms) + n].id \in new
       /\ \A n, m \in 1 .. k :
            n < m => r.terms[Len(g.terms) + n].id # r.terms[Len(g.terms) + m].id
       /\ \A x \in new : \E n \in 1 .. k : r.terms[Len(g.terms) + n].id = x
  <2> DEFINE M == DOMAIN more
             K == 1 .. k
             P(n) == r.terms[Len(g.terms) + n]
             N == Len(g.terms)
  <2>1. M = K
    BY <1>18
  <2>2. /\ \A i \in DOMAIN r.terms :
             (i \in DOMAIN g.terms /\ r.terms[i] = g.terms[i]) \/ \E n \in M : i = N + n
        /\ \A n \in M : P(n).id \in new
        /\ \A n, m \in M : n < m => P(n).id # P(m).id
        /\ \A x \in new : \E n \in M : P(n).id = x
    BY <1>16
  <2> HIDE DEF M, K, P, N
  <2>3. /\ \A i \in DOMAIN r.terms :
             (i \in DOMAIN g.terms /\ r.terms[i] = g.terms[i]) \/ \E n \in K : i = N + n
        /\ \A n \in K : P(n).id \in new
        /\ \A n, m \in K : n < m => P(n).id # P(m).id
        /\ \A x \in new : \E n \in K : P(n).id = x
    BY <2>1, <2>2
  <2> QED
    BY <2>3 DEF K, P, N
<1>21. Filled(g, r, k)
  BY <1>17, <1>18, <1>19, <1>20 DEF Filled
<1> QED
  BY <1>21 DEF k

-----------------------------------------------------------------------------
(* The session's slots for the worker's signals.                           *)

LEMMA SignalTypes ==
  /\ \A x \in SignalRec :
       /\ x.type \in AboutTerminal \union {"connected", "disconnected", "error", "data"}
       /\ x.type \in AboutTerminal \union {"connected", "data"} => x.id \in Ids
       /\ x.type \in {"disconnected", "error"} => x.id = None
       /\ x.type = "data" => x.chunks \subseteq Chunks
  /\ \A type \in AboutTerminal \union {"connected"}, id \in Ids : Signal(type, id) \in SignalRec
  /\ \A type \in {"disconnected", "error"} : Signal(type, None) \in SignalRec
  /\ \A type, id : Signal(type, id).type = type /\ Signal(type, id).id = id
  /\ None \notin Ids
<1>1. \A x \in SignalRec :
        \/ x.type \in AboutTerminal \union {"connected"} /\ x.id \in Ids
        \/ x.type \in {"disconnected", "error"} /\ x.id = None
        \/ x.type = "data" /\ x.id \in Ids /\ x.chunks \subseteq Chunks
  BY DEF SignalRec
<1>2. None \notin Ids
  BY DEF None, Ids
<1>3. \A type \in AboutTerminal \union {"connected"}, id \in Ids : Signal(type, id) \in SignalRec
  BY DEF Signal, SignalRec
<1>4. \A type \in {"disconnected", "error"} : Signal(type, None) \in SignalRec
  BY DEF Signal, SignalRec
<1>5. \A type, id : Signal(type, id).type = type /\ Signal(type, id).id = id
  BY DEF Signal
<1>6. \A x \in SignalRec :
       /\ x.type \in AboutTerminal \union {"connected", "disconnected", "error", "data"}
       /\ x.type \in AboutTerminal \union {"connected", "data"} => x.id \in Ids
       /\ x.type \in {"disconnected", "error"} => x.id = None
       /\ x.type = "data" => x.chunks \subseteq Chunks
  BY <1>1 DEF AboutTerminal
<1> QED
  BY <1>2, <1>3, <1>4, <1>5, <1>6

\* A signal about a terminal, or of its output, is taken: what the worker does
\* and what is asked of it is as it was.
LEMMA Taken ==
  ASSUME IInv, signals # <<>>, signals' = Tail(signals),
         Head(signals).type \in AboutTerminal \union {"data"},
         UNCHANGED <<session, created, calls, workerVars, asked>>,
         session = "Connecting" => gui'.active = gui.active
  PROVE  WorkerFits' /\ EndsFit'
<1>0. UNCHANGED <<session, created, calls, up, phase, out, asked>>
  BY DEF workerVars
<1>1. /\ signals' \in Seq(SignalRec) /\ 1 \in DOMAIN signals /\ signals[1] \in SignalRec
      /\ signals[1].type \in AboutTerminal \union {"data"}
      /\ \A i \in DOMAIN signals' : /\ i \in Nat /\ i >= 1 /\ i + 1 \in DOMAIN signals
                                    /\ signals'[i] = signals[i + 1]
      /\ \A i \in DOMAIN signals : /\ i \in Nat /\ i >= 1
                                   /\ i # 1 => i - 1 \in DOMAIN signals' /\ signals'[i - 1] = signals[i]
  <2>1. signals \in Seq(SignalRec)
    BY DEF IInv, Typed
  <2> QED
    BY <2>1, FromTheHead
<1>2. signals[1].type \notin Outcomes
  BY <1>1 DEF Outcomes, AboutTerminal
<1>3. WorkerFits'
  <2>1. /\ session' \in {"Disconnected", "Failed"} =>
             /\ calls' = <<>> /\ ~up'
             /\ \A i \in DOMAIN signals' : signals'[i].type \notin Outcomes
        /\ \A id \in Ids : phase'[id] # "none" => up'
        /\ \A id \in Ids : phase'[id] \in {"none", "failing", "finished"} => out'[id] = {}
    BY <1>0, <1>1 DEF IInv, WorkerFits
  <2>2. \A i \in DOMAIN signals' : signals'[i].type = "connected" =>
          session' = "Connecting" /\ signals'[i].id = gui'.active
    BY <1>0, <1>1 DEF IInv, WorkerFits
  <2>3. \A i, j \in DOMAIN signals' :
          signals'[i].type = "connected" /\ signals'[j].type = "connected" => i = j
    <3> SUFFICES ASSUME NEW i \in DOMAIN signals', NEW j \in DOMAIN signals',
                        signals'[i].type = "connected" /\ signals'[j].type = "connected"
                 PROVE  i = j
      OBVIOUS
    <3>1. i + 1 = j + 1 /\ i \in Nat /\ j \in Nat
      BY <1>1 DEF IInv, WorkerFits
    <3> QED
      BY <3>1
  <2>4. \A i \in DOMAIN calls' : calls'[i].op = "connect" =>
          /\ session' = "Connecting" /\ ~up'
          /\ \A j \in DOMAIN signals' : signals'[j].type \notin Outcomes
    BY <1>0, <1>1 DEF IInv, WorkerFits
  <2>5. ASSUME session' = "Connecting"
        PROVE  /\ \A i \in DOMAIN calls' : calls'[i].op # "open"
               /\ up' => Signalled("connected", gui.active)'
               /\ \A i \in DOMAIN signals' : signals'[i].id = gui'.active /\ signals'[i].type # "connected" =>
                    \E j \in 1 .. i - 1 : signals'[j].type = "connected"
    <3>1. session = "Connecting" /\ gui'.active = gui.active
      BY <1>0, <2>5
    <3>2. \A i \in DOMAIN calls' : calls'[i].op # "open"
      BY <1>0, <3>1 DEF IInv, WorkerFits
    <3>3. ASSUME up' PROVE Signalled("connected", gui.active)'
      <4>1. PICK i \in DOMAIN signals : signals[i].type = "connected" /\ signals[i].id = gui.active
        BY <1>0, <3>1, <3>3 DEF IInv, WorkerFits, Signalled
      <4>2. i - 1 \in DOMAIN signals' /\ signals'[i - 1] = signals[i]
        BY <1>1, <1>2, <4>1 DEF Outcomes
      <4> QED
        BY <3>1, <4>1, <4>2 DEF Signalled
    <3>4. ASSUME NEW i \in DOMAIN signals', signals'[i].id = gui'.active, signals'[i].type # "connected"
          PROVE  \E j \in 1 .. i - 1 : signals'[j].type = "connected"
      <4>1. i \in Nat /\ i >= 1 /\ i + 1 \in DOMAIN signals /\ signals'[i] = signals[i + 1]
        BY <1>1
      <4>2. PICK j \in 1 .. (i + 1) - 1 : signals[j].type = "connected"
        BY <3>1, <3>4, <4>1 DEF IInv, WorkerFits
      <4>3. j \in DOMAIN signals
        <5>1. signals \in Seq(SignalRec)
          BY DEF IInv, Typed
        <5> QED
          BY <4>1, <4>2, <5>1
      <4>4. j # 1
        BY <1>2, <4>2 DEF Outcomes
      <4>5. signals'[j - 1] = signals[j] /\ j - 1 \in 1 .. i - 1
        BY <1>1, <4>1, <4>2, <4>3, <4>4
      <4> QED
        BY <4>2, <4>5
    <3> QED
      BY <3>2, <3>3, <3>4
  <2> QED
    BY <2>1, <2>2, <2>3, <2>4, <2>5 DEF WorkerFits
<1>4. EndsFit'
  <2>1. /\ \A i \in DOMAIN calls' : calls'[i].op = "close" => calls'[i].id \in asked'
        /\ \A i \in DOMAIN calls' : calls'[i].op = "retire" => phase'[calls'[i].id] \in {"finished", "none"}
    BY <1>0 DEF IInv, EndsFit
  <2>2. \A i \in DOMAIN signals' : signals'[i].type \in {"closed", "openFailed"} => phase'[signals'[i].id] = "none"
    BY <1>0, <1>1 DEF IInv, EndsFit
  <2>3. \A i \in DOMAIN signals' : signals'[i].type = "failed" =>
          \/ phase'[signals'[i].id] \in {"failing", "none"}
          \/ Called("retire", signals[i].id)'
    BY <1>0, <1>1 DEF IInv, EndsFit, Called
  <2>4. \A i, j \in DOMAIN signals' :
          signals'[i].type = "closed" /\ i < j /\ signals'[j].type = "data" => signals'[j].id # signals'[i].id
    <3> SUFFICES ASSUME NEW i \in DOMAIN signals', NEW j \in DOMAIN signals',
                        signals'[i].type = "closed", i < j, signals'[j].type = "data"
                 PROVE  signals'[j].id # signals'[i].id
      OBVIOUS
    <3>1. /\ i + 1 \in DOMAIN signals /\ signals'[i] = signals[i + 1] /\ i \in Nat
          /\ j + 1 \in DOMAIN signals /\ signals'[j] = signals[j + 1] /\ j \in Nat
      BY <1>1
    <3>2. i + 1 < j + 1
      BY <3>1
    <3> QED
      BY <3>1, <3>2 DEF IInv, EndsFit
  <2> QED
    BY <2>1, <2>2, <2>3, <2>4 DEF EndsFit
<1> QED
  BY <1>3, <1>4

\* A terminal is opened, or it is over and leaves the list.
LEMMA AnswerPage ==
  ASSUME IInv, NEW id \in Ids, NEW gone \in {{}, {id}},
         \/ gui' = WithState(gui, id, "Open") /\ gone = {}
         \/ gui' = Removed(gui, id) /\ gone = {id}
         \/ gui' = Removed(WithState(gui, id, "Failed"), id) /\ gone = {id}
  PROVE  /\ gui' \in GuiRec /\ gui'.restore = gui.restore
         /\ ListedIds(gui'.terms) = ListedIds(gui.terms) \ gone
         /\ Visible(gui'.terms) = Visible(gui.terms) \ gone
         /\ gui'.panes = Visible(gui'.terms)
         /\ \A n \in DOMAIN gui'.terms : \E i \in DOMAIN gui.terms :
              /\ gui'.terms[n].id = gui.terms[i].id
              /\ gui'.terms[n].state = gui.terms[i].state \/ gui'.terms[n].state = "Open"
              /\ gone = {} /\ gui.terms[i].id = id => gui'.terms[n].state = "Open"
              /\ gui.terms[i].id # id => gui'.terms[n].state = gui.terms[i].state
         /\ \A x \in Ids : x \in gui'.closing <=> x \in gui.closing /\ x \in ListedIds(gui'.terms)
         /\ \A x \in ListedIds(gui'.terms) : x \in gui.pinned => x \in gui'.pinned
         /\ session # "Connected" =>
              gui'.pinned \subseteq gui.pinned /\ (gui.active \notin gone => gui'.active = gui.active)
<1>1. gui \in GuiRec /\ gui.panes = Visible(gui.terms)
  BY DEF IInv, Typed, PageFits
<1>2. gui.terms \in Seq(TermRec)
  BY <1>1 DEF GuiRec
<1>3. \A s \in {"Open", "Failed"} :
        LET r == WithState(gui, id, s)
        IN  /\ r \in GuiRec /\ r.restore = gui.restore
            /\ DOMAIN r.terms = DOMAIN gui.terms
            /\ \A i \in DOMAIN gui.terms :
                 /\ r.terms[i].id = gui.terms[i].id
                 /\ r.terms[i].state = IF gui.terms[i].id = id THEN s ELSE gui.terms[i].state
            /\ ListedIds(r.terms) = ListedIds(gui.terms) /\ Visible(r.terms) = Visible(gui.terms)
            /\ r.panes = Visible(r.terms)
            /\ \A x \in Ids : x \in r.closing <=> x \in gui.closing /\ x \in ListedIds(gui.terms)
            /\ \A x \in ListedIds(gui.terms) : x \in gui.pinned => x \in r.pinned
            /\ session # "Connected" => r.pinned \subseteq gui.pinned /\ r.active = gui.active
  <2> SUFFICES ASSUME NEW s \in {"Open", "Failed"}
               PROVE  LET r == WithState(gui, id, s)
                      IN  /\ r \in GuiRec /\ r.restore = gui.restore
                          /\ DOMAIN r.terms = DOMAIN gui.terms
                          /\ \A i \in DOMAIN gui.terms :
                               /\ r.terms[i].id = gui.terms[i].id
                               /\ r.terms[i].state = IF gui.terms[i].id = id THEN s ELSE gui.terms[i].state
                          /\ ListedIds(r.terms) = ListedIds(gui.terms)
                          /\ Visible(r.terms) = Visible(gui.terms)
                          /\ r.panes = Visible(r.terms)
                          /\ \A x \in Ids : x \in r.closing <=> x \in gui.closing /\ x \in ListedIds(gui.terms)
                          /\ \A x \in ListedIds(gui.terms) : x \in gui.pinned => x \in r.pinned
                          /\ session # "Connected" => r.pinned \subseteq gui.pinned /\ r.active = gui.active
    OBVIOUS
  <2> QED
    BY <1>1, WithStateFacts
<1>4. ASSUME NEW g \in GuiRec, g.panes = Visible(g.terms)
      PROVE  LET r == Removed(g, id)
             IN  /\ r \in GuiRec /\ r.restore = g.restore
                 /\ \A n \in DOMAIN r.terms : \E i \in DOMAIN g.terms : r.terms[n] = g.terms[i]
                 /\ ListedIds(r.terms) = ListedIds(g.terms) \ {id}
                 /\ Visible(r.terms) = Visible(g.terms) \ {id}
                 /\ r.panes = Visible(r.terms)
                 /\ \A x \in Ids : x \in r.closing <=> x \in g.closing /\ x \in ListedIds(r.terms)
                 /\ \A x \in ListedIds(r.terms) : x \in g.pinned => x \in r.pinned
                 /\ session # "Connected" =>
                      r.pinned \subseteq g.pinned /\ (id # g.active => r.active = g.active)
  BY <1>4, RemovedFacts
<1>5. CASE gui' = WithState(gui, id, "Open") /\ gone = {}
  BY <1>3, <1>5
<1>6. CASE gui' = Removed(gui, id) /\ gone = {id}
  <2>1. \A n \in DOMAIN gui'.terms : \E i \in DOMAIN gui.terms : gui'.terms[n] = gui.terms[i]
    BY <1>1, <1>4, <1>6
  <2> QED
    BY <1>1, <1>4, <1>6, <2>1
<1>7. CASE gui' = Removed(WithState(gui, id, "Failed"), id) /\ gone = {id}
  <2> DEFINE g == WithState(gui, id, "Failed")
  <2>1. /\ g \in GuiRec /\ g.restore = gui.restore
        /\ DOMAIN g.terms = DOMAIN gui.terms
        /\ \A i \in DOMAIN gui.terms :
             /\ g.terms[i].id = gui.terms[i].id
             /\ g.terms[i].state = IF gui.terms[i].id = id THEN "Failed" ELSE gui.terms[i].state
        /\ ListedIds(g.terms) = ListedIds(gui.terms) /\ Visible(g.terms) = Visible(gui.terms)
        /\ g.panes = Visible(g.terms)
        /\ \A x \in Ids : x \in g.closing <=> x \in gui.closing /\ x \in ListedIds(gui.terms)
        /\ \A x \in ListedIds(gui.terms) : x \in gui.pinned => x \in g.pinned
        /\ session # "Connected" => g.pinned \subseteq gui.pinned /\ g.active = gui.active
    BY <1>3
  <2>2. gui' = Removed(g, id)
    BY <1>7
  <2> HIDE DEF g
  <2>3. /\ gui' \in GuiRec /\ gui'.restore = g.restore
        /\ \A n \in DOMAIN gui'.terms : \E i \in DOMAIN g.terms : gui'.terms[n] = g.terms[i]
        /\ ListedIds(gui'.terms) = ListedIds(g.terms) \ {id}
        /\ Visible(gui'.terms) = Visible(g.terms) \ {id}
        /\ gui'.panes = Visible(gui'.terms)
        /\ \A x \in Ids : x \in gui'.closing <=> x \in g.closing /\ x \in ListedIds(gui'.terms)
        /\ \A x \in ListedIds(gui'.terms) : x \in g.pinned => x \in gui'.pinned
        /\ session # "Connected" =>
             gui'.pinned \subseteq g.pinned /\ (id # g.active => gui'.active = g.active)
    BY <1>4, <2>1, <2>2
  <2>4. \A n \in DOMAIN gui'.terms : gui'.terms[n].id # id
    BY <2>3 DEF ListedIds
  <2>5. \A n \in DOMAIN gui'.terms : \E i \in DOMAIN gui.terms :
          /\ gui'.terms[n].id = gui.terms[i].id
          /\ gui'.terms[n].state = gui.terms[i].state
    BY <2>1, <2>3, <2>4
  <2>6. \A x \in ListedIds(gui'.terms) : x \in ListedIds(gui.terms)
    BY <2>1, <2>3
  <2> QED
    BY <1>7, <2>1, <2>3, <2>5, <2>6
<1> QED
  BY <1>5, <1>6, <1>7

LEMMA TerminalAnswered ==
  ASSUME IInv, OnTerminalOpened \/ OnTerminalOpenFailed \/ OnTerminalClosed \/ OnTerminalFailed
  PROVE  IInv'
<1> DEFINE id == Head(signals).id
           type == Head(signals).type
           gone == IF type = "opened" THEN {} ELSE {id}
<1>1. /\ signals # <<>> /\ signals' = Tail(signals) /\ type \in AboutTerminal
      /\ UNCHANGED <<session, created, calls, workerVars, asked, unseen>> /\ LogsKept(gui')
      /\ \/ gui' = WithState(gui, id, "Open") /\ type = "opened"
         \/ gui' = Removed(gui, id) /\ type \in {"openFailed", "closed"}
         \/ gui' = Removed(WithState(gui, id, "Failed"), id) /\ type = "failed"
  <2>1. CASE OnTerminalOpened
    BY <2>1 DEF OnTerminalOpened, ReceiveForTerminal, Receive, LogsKept, AboutTerminal
  <2>2. CASE OnTerminalOpenFailed
    BY <2>2 DEF OnTerminalOpenFailed, ReceiveForTerminal, Receive, LogsKept, AboutTerminal
  <2>3. CASE OnTerminalClosed
    BY <2>3 DEF OnTerminalClosed, ReceiveForTerminal, Receive, LogsKept, AboutTerminal
  <2>4. CASE OnTerminalFailed
    BY <2>4 DEF OnTerminalFailed, ReceiveForTerminal, Receive, LogsKept, AboutTerminal
  <2> QED
    BY <2>1, <2>2, <2>3, <2>4
<1>2. /\ signals' \in Seq(SignalRec) /\ 1 \in DOMAIN signals /\ signals[1] \in SignalRec
      /\ signals[1].type = type /\ signals[1].id = id
      /\ \A i \in DOMAIN signals' : /\ i \in Nat /\ i >= 1 /\ i + 1 \in DOMAIN signals
                                    /\ signals'[i] = signals[i + 1]
      /\ \A i \in DOMAIN signals : /\ i \in Nat /\ i >= 1
                                   /\ i # 1 => i - 1 \in DOMAIN signals' /\ signals'[i - 1] = signals[i]
  <2>1. signals \in Seq(SignalRec)
    BY DEF IInv, Typed
  <2> QED
    BY <1>1, <2>1, FromTheHead
<1> HIDE DEF id, type
<1>3. id \in Ids
  BY <1>1, <1>2, SignalTypes
<1>4. \A t, x : Signalled(t, x)' => Signalled(t, x)
  BY <1>2 DEF Signalled
<1>5. \A t, x : Signalled(t, x) => Signalled(t, x)' \/ (t = type /\ x = id)
  BY <1>2 DEF Signalled
<1>6. UNCHANGED <<session, created, calls, up, phase, out, asked, unseen>>
  BY <1>1 DEF workerVars
<1>7. \A t, x : Called(t, x)' = Called(t, x)
  BY <1>6 DEF Called
<1>8. session = "Connecting" => id # gui.active
  <2> SUFFICES ASSUME session = "Connecting", id = gui.active PROVE FALSE
    OBVIOUS
  <2>1. \E j \in 1 .. 1 - 1 : signals[j].type = "connected"
    BY <1>1, <1>2 DEF IInv, WorkerFits, AboutTerminal
  <2> QED
    BY <2>1
<1>9. /\ gui' \in GuiRec /\ gui'.restore = gui.restore
      /\ ListedIds(gui'.terms) = ListedIds(gui.terms) \ gone
      /\ Visible(gui'.terms) = Visible(gui.terms) \ gone
      /\ gui'.panes = Visible(gui'.terms)
      /\ \A n \in DOMAIN gui'.terms : \E i \in DOMAIN gui.terms :
           /\ gui'.terms[n].id = gui.terms[i].id
           /\ gui'.terms[n].state = gui.terms[i].state \/ gui'.terms[n].state = "Open"
           /\ gone = {} /\ gui.terms[i].id = id => gui'.terms[n].state = "Open"
           /\ gui.terms[i].id # id => gui'.terms[n].state = gui.terms[i].state
      /\ \A x \in Ids : x \in gui'.closing <=> x \in gui.closing /\ x \in ListedIds(gui'.terms)
      /\ \A x \in ListedIds(gui'.terms) : x \in gui.pinned => x \in gui'.pinned
      /\ session # "Connected" =>
           gui'.pinned \subseteq gui.pinned /\ (gui.active \notin gone => gui'.active = gui.active)
  <2> DEFINE G == gone
  <2>1. /\ G \in {{}, {id}}
        /\ \/ gui' = WithState(gui, id, "Open") /\ G = {}
           \/ gui' = Removed(gui, id) /\ G = {id}
           \/ gui' = Removed(WithState(gui, id, "Failed"), id) /\ G = {id}
    BY <1>1
  <2> HIDE DEF G
  <2>2. /\ gui' \in GuiRec /\ gui'.restore = gui.restore
        /\ ListedIds(gui'.terms) = ListedIds(gui.terms) \ G
        /\ Visible(gui'.terms) = Visible(gui.terms) \ G
        /\ gui'.panes = Visible(gui'.terms)
        /\ \A n \in DOMAIN gui'.terms : \E i \in DOMAIN gui.terms :
             /\ gui'.terms[n].id = gui.terms[i].id
             /\ gui'.terms[n].state = gui.terms[i].state \/ gui'.terms[n].state = "Open"
             /\ G = {} /\ gui.terms[i].id = id => gui'.terms[n].state = "Open"
             /\ gui.terms[i].id # id => gui'.terms[n].state = gui.terms[i].state
        /\ \A x \in Ids : x \in gui'.closing <=> x \in gui.closing /\ x \in ListedIds(gui'.terms)
        /\ \A x \in ListedIds(gui'.terms) : x \in gui.pinned => x \in gui'.pinned
        /\ session # "Connected" =>
             gui'.pinned \subseteq gui.pinned /\ (gui.active \notin G => gui'.active = gui.active)
    BY <1>3, <2>1, AnswerPage
  <2> QED
    BY <2>2 DEF G
<1>10. gone \in {{}, {id}} /\ (gone = {} <=> type = "opened")
  OBVIOUS
<1> HIDE DEF gone
<1>11. gui'.terms \in Seq(TermRec) /\ gui.terms \in Seq(TermRec)
  BY <1>9 DEF IInv, Typed, GuiRec
<1>12. ListedIds(gui.terms) \subseteq Ids /\ Visible(gui.terms) \subseteq ListedIds(gui.terms)
  BY <1>11, TermIds
<1>13. session = "Connecting" => gui'.active = gui.active
  BY <1>8, <1>9, <1>10
<1>14. Typed'
  BY <1>2, <1>6, <1>9, <1>1 DEF IInv, Typed, LogsKept
<1>15. PageFits'
  <2>1. gui'.closing \subseteq Ids /\ gui.closing \subseteq Ids
    BY <1>9 DEF IInv, Typed, GuiRec
  <2>2. gui'.closing \subseteq ListedIds(gui'.terms) /\ gui'.closing \subseteq gui.closing
    BY <1>9, <2>1
  <2>3. /\ gui'.restore # Nothing => session' = "Connecting" /\ gui'.restore.count <= created'
        /\ session' # "Connected" => gui'.pinned = {} /\ gui'.closing = {}
    BY <1>6, <1>9, <2>2 DEF IInv, PageFits
  <2>4. ASSUME session' = "Connecting"
        PROVE  /\ ListedIds(gui'.terms) = {gui'.active} /\ Visible(gui'.terms) = {gui'.active}
               /\ gui'.restore # Nothing => gui'.active = 1
    BY <1>6, <1>8, <1>9, <1>10, <1>13, <2>4 DEF IInv, PageFits
  <2> QED
    BY <1>9, <2>2, <2>3, <2>4 DEF PageFits
<1>16. WorkerFits' /\ EndsFit'
  BY <1>1, <1>13, Taken DEF type
<1>17. UnbornFits'
  <2> SUFFICES ASSUME NEW x \in Ids, Unborn(x)'
               PROVE  /\ x \notin ListedIds(gui'.terms) /\ phase'[x] = "none" /\ unseen'[x] = {}
                      /\ \A i \in DOMAIN calls' : calls'[i].id # x
                      /\ \A i \in DOMAIN signals' : signals'[i].id # x
    BY DEF UnbornFits
  <2>1. Unborn(x)
    BY <1>6, <1>9, <1>13 DEF Unborn, IInv, PageFits
  <2>2. /\ x \notin ListedIds(gui.terms) /\ phase[x] = "none" /\ unseen[x] = {}
        /\ \A i \in DOMAIN calls : calls[i].id # x
        /\ \A i \in DOMAIN signals : signals[i].id # x
    BY <2>1 DEF IInv, UnbornFits
  <2> QED
    BY <1>2, <1>6, <1>9, <2>2
<1>18. OpensFit'
  <2> SUFFICES ASSUME NEW i \in DOMAIN calls', calls'[i].op \in Opens
               PROVE  /\ calls'[i].id \in ListedIds(gui'.terms)
                      /\ phase'[calls'[i].id] = "none" /\ unseen'[calls'[i].id] = {}
                      /\ \A j \in DOMAIN signals' : signals'[j].id # calls'[i].id
                      /\ \A j \in DOMAIN calls' : calls'[j].id = calls'[i].id => i <= j /\ calls'[j].op # "retire"
    BY DEF OpensFit
  <2>1. /\ calls[i].id \in ListedIds(gui.terms)
        /\ phase[calls[i].id] = "none" /\ unseen[calls[i].id] = {}
        /\ \A j \in DOMAIN signals : signals[j].id # calls[i].id
        /\ \A j \in DOMAIN calls : calls[j].id = calls[i].id => i <= j /\ calls[j].op # "retire"
    BY <1>6 DEF IInv, OpensFit
  <2>2. calls[i].id \notin gone
    BY <1>2, <1>10, <2>1
  <2> QED
    BY <1>2, <1>6, <1>9, <2>1, <2>2
<1>19. OutputFits'
  <2> SUFFICES ASSUME NEW x \in gui'.panes,
                      phase'[x] # "none" \/ (Signalled("closed", x)' /\ x \notin asked'),
                      NEW chunk \in unseen'[x]
               PROVE  \/ chunk \in out'[x]
                      \/ \E i \in DOMAIN signals' : /\ signals'[i].type = "data" /\ signals'[i].id = x
                                                    /\ chunk \in signals'[i].chunks
    BY <1>6 DEF OutputFits, Signalled
  <2>1. x \in gui.panes /\ (phase[x] # "none" \/ (Signalled("closed", x) /\ x \notin asked))
    BY <1>4, <1>6, <1>9 DEF IInv, PageFits
  <2>2. \/ chunk \in out[x]
        \/ \E i \in DOMAIN signals : /\ signals[i].type = "data" /\ signals[i].id = x
                                     /\ chunk \in signals[i].chunks
    BY <1>6, <2>1 DEF IInv, OutputFits
  <2>3. ASSUME NEW i \in DOMAIN signals, signals[i].type = "data" PROVE i # 1
    BY <1>1, <1>2, <2>3 DEF AboutTerminal
  <2> QED
    BY <1>2, <1>6, <2>2, <2>3
<1>20. Ledger'
  <2> SUFFICES ASSUME up'
               PROVE  /\ \A x \in ListedIds(gui'.terms) :
                           phase'[x] # "none" \/ Called("open", x)' \/ Signalled("openFailed", x)' \/ Signalled("closed", x)'
                      /\ \A x \in Ids :
                           phase'[x] # "none" => x \in ListedIds(gui'.terms) \/ phase'[x] = "failing" \/ Called("retire", x)'
                      /\ \A i \in DOMAIN gui'.terms :
                           gui'.terms[i].state # "Open" =>
                             Called("open", gui.terms[i].id)' \/ \E t \in {"connected", "opened", "openFailed", "closed"} : Signalled(t, gui.terms[i].id)'
                      /\ \A x \in gui'.closing : Called("close", x)' \/ Signalled("closed", x)' \/ Signalled("openFailed", x)'
    BY DEF Ledger
  <2>0. up
    BY <1>6
  <2>1. ASSUME NEW x \in ListedIds(gui'.terms)
        PROVE  phase'[x] # "none" \/ Called("open", x)' \/ Signalled("openFailed", x)' \/ Signalled("closed", x)'
    <3>1. x \in ListedIds(gui.terms) /\ x \notin gone
      BY <1>9
    <3>2. phase[x] # "none" \/ Called("open", x) \/ Signalled("openFailed", x) \/ Signalled("closed", x)
      BY <2>0, <3>1 DEF IInv, Ledger
    <3> QED
      BY <1>5, <1>6, <1>7, <1>10, <3>1, <3>2
  <2>2. ASSUME NEW x \in Ids, phase'[x] # "none"
        PROVE  x \in ListedIds(gui'.terms) \/ phase'[x] = "failing" \/ Called("retire", x)'
    <3>1. x \in ListedIds(gui.terms) \/ phase[x] = "failing" \/ Called("retire", x)
      BY <1>6, <2>0, <2>2 DEF IInv, Ledger
    <3>2. CASE x \in gone
      <4>1. x = id /\ type \in {"openFailed", "closed", "failed"}
        BY <1>1, <1>10, <3>2 DEF AboutTerminal
      <4>2. phase[x] = "none" \/ phase[x] = "failing" \/ Called("retire", x)
        BY <1>2, <4>1 DEF IInv, EndsFit
      <4> QED
        BY <1>6, <1>7, <2>2, <4>2
    <3>3. CASE x \notin gone
      BY <1>6, <1>7, <1>9, <3>1, <3>3
    <3> QED
      BY <3>2, <3>3
  <2>3. ASSUME NEW n \in DOMAIN gui'.terms, gui'.terms[n].state # "Open"
        PROVE  Called("open", gui.terms[n].id)' \/ \E t \in {"connected", "opened", "openFailed", "closed"} : Signalled(t, gui.terms[n].id)'
    <3>1. PICK i \in DOMAIN gui.terms :
            /\ gui'.terms[n].id = gui.terms[i].id
            /\ gui'.terms[n].state = gui.terms[i].state
            /\ gone = {} => gui.terms[i].id # id
      BY <1>9, <2>3
    <3>2. Called("open", gui.terms[i].id) \/ \E t \in {"connected", "opened", "openFailed", "closed"} : Signalled(t, gui.terms[i].id)
      BY <2>0, <2>3, <3>1 DEF IInv, Ledger
    <3>3. gui'.terms[n].id \notin gone
      BY <1>9 DEF ListedIds
    <3>4. gui.terms[i].id # id
      BY <1>10, <3>1, <3>3
    <3> QED
      BY <1>5, <1>7, <3>1, <3>2, <3>4
  <2>4. ASSUME NEW x \in gui'.closing
        PROVE  Called("close", x)' \/ Signalled("closed", x)' \/ Signalled("openFailed", x)'
    <3>1. x \in Ids
      BY <1>9 DEF GuiRec
    <3>2. x \in gui.closing /\ x \notin gone
      BY <1>9, <3>1
    <3>3. Called("close", x) \/ Signalled("closed", x) \/ Signalled("openFailed", x)
      BY <2>0, <3>2 DEF IInv, Ledger
    <3> QED
      BY <1>5, <1>7, <1>10, <3>2, <3>3
  <2> QED
    BY <2>1, <2>2, <2>3, <2>4
<1>21. Docked'
  BY <1>6, <1>9, <1>12 DEF IInv, Docked, GuiRec
<1> QED
  BY <1>14, <1>15, <1>16, <1>17, <1>18, <1>19, <1>20, <1>21 DEF IInv

\* Output is shown: its pane has been given it.
LEMMA OutputShown ==
  ASSUME IInv, OnTerminalData
  PROVE  IInv'
<1> DEFINE id == Head(signals).id
<1>1. /\ signals # <<>> /\ signals' = Tail(signals) /\ Head(signals).type = "data"
      /\ UNCHANGED <<session, created, calls, up, phase, out, asked, gui, logs>>
      /\ unseen' = IF id \in gui.panes \union {logs}
                   THEN [unseen EXCEPT ![id] = @ \ Head(signals).chunks] ELSE unseen
  BY DEF OnTerminalData, Receive, workerVars
<1>2. /\ signals' \in Seq(SignalRec) /\ 1 \in DOMAIN signals /\ signals[1] \in SignalRec
      /\ signals[1].type = "data" /\ signals[1].id = id /\ signals[1] = Head(signals)
      /\ \A i \in DOMAIN signals' : /\ i \in Nat /\ i >= 1 /\ i + 1 \in DOMAIN signals
                                    /\ signals'[i] = signals[i + 1]
      /\ \A i \in DOMAIN signals : /\ i \in Nat /\ i >= 1
                                   /\ i # 1 => i - 1 \in DOMAIN signals' /\ signals'[i - 1] = signals[i]
  <2>1. signals \in Seq(SignalRec)
    BY DEF IInv, Typed
  <2> QED
    BY <1>1, <2>1, FromTheHead
<1>3. id \in Ids
  BY <1>2, SignalTypes
<1>4. unseen \in [Ids -> SUBSET Chunks]
  BY DEF IInv, Typed
<1>5. /\ unseen' \in [Ids -> SUBSET Chunks]
      /\ \A x \in Ids : unseen'[x] \subseteq unseen[x]
      /\ id \in gui.panes => unseen'[id] = unseen[id] \ signals[1].chunks
  BY <1>1, <1>2, <1>3, <1>4
<1> HIDE DEF id
<1>6. \A t, x : Signalled(t, x)' => Signalled(t, x)
  BY <1>2 DEF Signalled
<1>7. \A t, x : Signalled(t, x) => Signalled(t, x)' \/ t = "data"
  BY <1>2 DEF Signalled
<1>8. \A t, x : Called(t, x)' = Called(t, x)
  BY <1>1 DEF Called
<1>9. Typed'
  BY <1>1, <1>2, <1>5 DEF IInv, Typed
<1>10. PageFits' /\ Docked'
  BY <1>1 DEF IInv, PageFits, Docked
<1>11. WorkerFits' /\ EndsFit'
  BY <1>1, Taken DEF workerVars
<1>12. UnbornFits'
  <2> SUFFICES ASSUME NEW x \in Ids, Unborn(x)'
               PROVE  /\ x \notin ListedIds(gui'.terms) /\ phase'[x] = "none" /\ unseen'[x] = {}
                      /\ \A i \in DOMAIN calls' : calls'[i].id # x
                      /\ \A i \in DOMAIN signals' : signals'[i].id # x
    BY DEF UnbornFits
  <2>1. Unborn(x)
    BY <1>1 DEF Unborn
  <2>2. /\ x \notin ListedIds(gui.terms) /\ phase[x] = "none" /\ unseen[x] = {}
        /\ \A i \in DOMAIN calls : calls[i].id # x
        /\ \A i \in DOMAIN signals : signals[i].id # x
    BY <2>1 DEF IInv, UnbornFits
  <2> QED
    BY <1>1, <1>2, <1>5, <2>2
<1>13. OpensFit'
  <2> SUFFICES ASSUME NEW i \in DOMAIN calls', calls'[i].op \in Opens
               PROVE  /\ calls'[i].id \in ListedIds(gui'.terms)
                      /\ phase'[calls'[i].id] = "none" /\ unseen'[calls'[i].id] = {}
                      /\ \A j \in DOMAIN signals' : signals'[j].id # calls'[i].id
                      /\ \A j \in DOMAIN calls' : calls'[j].id = calls'[i].id => i <= j /\ calls'[j].op # "retire"
    BY DEF OpensFit
  <2>1. /\ calls[i].id \in ListedIds(gui.terms)
        /\ phase[calls[i].id] = "none" /\ unseen[calls[i].id] = {}
        /\ \A j \in DOMAIN signals : signals[j].id # calls[i].id
        /\ \A j \in DOMAIN calls : calls[j].id = calls[i].id => i <= j /\ calls[j].op # "retire"
    BY <1>1 DEF IInv, OpensFit
  <2>2. calls[i].id \in Ids
    <3>1. calls \in Seq(CallRec) /\ i \in DOMAIN calls
      BY <1>1 DEF IInv, Typed
    <3>2. calls[i] \in CallRec
      BY <3>1
    <3> QED
      BY <3>2 DEF CallRec
  <2> QED
    BY <1>1, <1>2, <1>5, <2>1, <2>2
<1>14. OutputFits'
  <2> SUFFICES ASSUME NEW x \in gui'.panes,
                      phase'[x] # "none" \/ (Signalled("closed", x)' /\ x \notin asked'),
                      NEW chunk \in unseen'[x]
               PROVE  \/ chunk \in out'[x]
                      \/ \E i \in DOMAIN signals' : /\ signals'[i].type = "data" /\ signals'[i].id = x
                                                    /\ chunk \in signals'[i].chunks
    BY DEF OutputFits
  <2>1. x \in gui.panes /\ (phase[x] # "none" \/ (Signalled("closed", x) /\ x \notin asked))
    BY <1>1, <1>6
  <2>2. x \in Ids
    BY <2>1 DEF IInv, Typed, GuiRec
  <2>3. chunk \in unseen[x] /\ (x = id => chunk \notin signals[1].chunks)
    BY <1>5, <2>1, <2>2
  <2>4. \/ chunk \in out[x]
        \/ \E i \in DOMAIN signals : /\ signals[i].type = "data" /\ signals[i].id = x
                                     /\ chunk \in signals[i].chunks
    BY <2>1, <2>3 DEF IInv, OutputFits
  <2>5. ASSUME NEW i \in DOMAIN signals, signals[i].id = x, chunk \in signals[i].chunks PROVE i # 1
    BY <1>2, <2>3, <2>5
  <2>6. CASE chunk \in out[x]
    BY <1>1, <2>6
  <2>7. ASSUME NEW i \in DOMAIN signals, signals[i].type = "data", signals[i].id = x,
               chunk \in signals[i].chunks
        PROVE  \E j \in DOMAIN signals' : /\ signals'[j].type = "data" /\ signals'[j].id = x
                                          /\ chunk \in signals'[j].chunks
    <3>1. i - 1 \in DOMAIN signals' /\ signals'[i - 1] = signals[i]
      BY <1>2, <2>5, <2>7
    <3> QED
      BY <2>7, <3>1
  <2> QED
    BY <2>4, <2>6, <2>7
<1>15. Ledger'
  <2> SUFFICES ASSUME up'
               PROVE  /\ \A x \in ListedIds(gui'.terms) :
                           phase'[x] # "none" \/ Called("open", x)' \/ Signalled("openFailed", x)' \/ Signalled("closed", x)'
                      /\ \A x \in Ids :
                           phase'[x] # "none" => x \in ListedIds(gui'.terms) \/ phase'[x] = "failing" \/ Called("retire", x)'
                      /\ \A i \in DOMAIN gui'.terms :
                           gui'.terms[i].state # "Open" =>
                             Called("open", gui.terms[i].id)' \/ \E t \in {"connected", "opened", "openFailed", "closed"} : Signalled(t, gui.terms[i].id)'
                      /\ \A x \in gui'.closing : Called("close", x)' \/ Signalled("closed", x)' \/ Signalled("openFailed", x)'
    BY DEF Ledger
  <2>1. \A t, x : Called(t, x)' <=> Called(t, x)
    BY <1>8
  <2>2. \A i \in DOMAIN gui'.terms :
          gui'.terms[i].state # "Open" =>
            Called("open", gui.terms[i].id)' \/ \E t \in {"connected", "opened", "openFailed", "closed"} : Signalled(t, gui.terms[i].id)'
    <3> SUFFICES ASSUME NEW i \in DOMAIN gui'.terms, gui'.terms[i].state # "Open"
                 PROVE  Called("open", gui.terms[i].id)' \/ \E t \in {"connected", "opened", "openFailed", "closed"} : Signalled(t, gui.terms[i].id)'
      OBVIOUS
    <3>1. gui' = gui /\ up
      BY <1>1
    <3>2. Called("open", gui.terms[i].id) \/ \E t \in {"connected", "opened", "openFailed", "closed"} : Signalled(t, gui.terms[i].id)
      BY <3>1 DEF IInv, Ledger
    <3> QED
      BY <1>7, <2>1, <3>1, <3>2
  <2> QED
    BY <1>1, <1>7, <2>1, <2>2 DEF IInv, Ledger
<1> QED
  BY <1>9, <1>10, <1>11, <1>12, <1>13, <1>14, <1>15 DEF IInv

-----------------------------------------------------------------------------
(* The worker.                                                             *)

LEMMA CallTypes ==
  /\ \A x \in CallRec : x.op \in {"connect", "open", "close", "retire"} /\ x.id \in Ids
  /\ \A op \in {"connect", "open", "close", "retire"}, id \in Ids : Call(op, id) \in CallRec
  /\ \A op, id : Call(op, id).op = op /\ Call(op, id).id = id
BY DEF CallRec, Call

\* What happens to a terminal that has a shell changes nothing of the page.
LEMMA ShellActs ==
  ASSUME IInv, NEW id \in Ids,
         RemoteWrites(id) \/ RemoteEnds(id) \/ WriteFails(id)
  PROVE  IInv'
<1>1. /\ UNCHANGED <<session, gui, logs, created, asked, up, calls, signals>>
      /\ phase[id] = "open" /\ Idle
  BY DEF RemoteWrites, RemoteEnds, WriteFails, Unseen
<1>2. /\ phase \in [Ids -> Phases] /\ out \in [Ids -> SUBSET Chunks]
      /\ unseen \in [Ids -> SUBSET Chunks]
  BY DEF IInv, Typed
<1>3. /\ phase' \in [Ids -> Phases] /\ out' \in [Ids -> SUBSET Chunks]
      /\ unseen' \in [Ids -> SUBSET Chunks]
      /\ \A x \in Ids : x # id => phase'[x] = phase[x] /\ out'[x] = out[x] /\ unseen'[x] = unseen[x]
      /\ phase'[id] \in {"open", "eof", "broken"}
      /\ \E new \in SUBSET Chunks : out'[id] = out[id] \union new /\ unseen'[id] = unseen[id] \union new
  <2>1. CASE RemoteWrites(id)
    <3>1. PICK chunk \in Chunks : /\ unseen' = [unseen EXCEPT ![id] = @ \union {chunk}]
                                  /\ out' = [out EXCEPT ![id] = @ \union {chunk}]
                                  /\ phase' = phase
      BY <2>1 DEF RemoteWrites
    <3>2. {chunk} \in SUBSET Chunks
      OBVIOUS
    <3>3. out'[id] = out[id] \union {chunk} /\ unseen'[id] = unseen[id] \union {chunk}
      BY <1>2, <3>1
    <3>4. /\ phase' \in [Ids -> Phases] /\ out' \in [Ids -> SUBSET Chunks]
          /\ unseen' \in [Ids -> SUBSET Chunks]
          /\ \A x \in Ids : x # id => phase'[x] = phase[x] /\ out'[x] = out[x] /\ unseen'[x] = unseen[x]
          /\ phase'[id] \in {"open", "eof", "broken"}
      BY <1>1, <1>2, <3>1
    <3> QED
      BY <3>2, <3>3, <3>4
  <2>2. CASE RemoteEnds(id) \/ WriteFails(id)
    <3>1. /\ \E p \in {"eof", "broken"} : phase' = [phase EXCEPT ![id] = p]
          /\ out' = out /\ unseen' = unseen
      BY <2>2 DEF RemoteEnds, WriteFails
    <3>2. out'[id] = out[id] \union {} /\ unseen'[id] = unseen[id] \union {} /\ {} \in SUBSET Chunks
      BY <3>1
    <3>3. /\ phase' \in [Ids -> Phases]
          /\ \A x \in Ids : x # id => phase'[x] = phase[x]
          /\ phase'[id] \in {"open", "eof", "broken"}
      BY <1>2, <3>1 DEF Phases
    <3> QED
      BY <1>2, <3>1, <3>2, <3>3
  <2> QED
    BY <2>1, <2>2
<1>4. \A t, x : Signalled(t, x)' = Signalled(t, x)
  BY <1>1 DEF Signalled
<1>5. \A t, x : Called(t, x)' = Called(t, x)
  BY <1>1 DEF Called
<1>6. \A i \in DOMAIN calls : calls[i] \in CallRec
  BY DEF IInv, Typed
<1>7. \A i \in DOMAIN signals : signals[i] \in SignalRec
  BY DEF IInv, Typed
<1>8. Typed'
  BY <1>1, <1>3 DEF IInv, Typed
<1>9. PageFits' /\ Docked'
  BY <1>1 DEF IInv, PageFits, Docked
<1>10. WorkerFits'
  <2>1. up
    BY <1>1 DEF IInv, WorkerFits
  <2>2. \A x \in Ids : phase'[x] # "none" => up'
    BY <1>1, <2>1
  <2>3. \A x \in Ids : phase'[x] \in {"none", "failing", "finished"} => out'[x] = {}
    BY <1>3 DEF IInv, WorkerFits
  <2> QED
    BY <1>1, <1>4, <2>2, <2>3 DEF IInv, WorkerFits
<1>11. UnbornFits'
  <2>1. \A x \in Ids : Unborn(x)' = Unborn(x)
    BY <1>1 DEF Unborn
  <2>2. \A x \in Ids : Unborn(x) => x # id
    BY <1>1 DEF IInv, UnbornFits
  <2> QED
    BY <1>1, <1>3, <2>1, <2>2 DEF IInv, UnbornFits
<1>12. OpensFit'
  <2>1. \A i \in DOMAIN calls : calls[i].op \in Opens => calls[i].id # id /\ calls[i].id \in Ids
    BY <1>1, <1>6, CallTypes DEF IInv, OpensFit
  <2> QED
    BY <1>1, <1>3, <2>1 DEF IInv, OpensFit
<1>13. EndsFit'
  <2>1. \A i \in DOMAIN calls : calls[i].op = "retire" => calls[i].id # id /\ calls[i].id \in Ids
    BY <1>1, <1>6, CallTypes DEF IInv, EndsFit
  <2>2. \A i \in DOMAIN signals : signals[i].type \in {"closed", "openFailed"} =>
          signals[i].id # id /\ signals[i].id \in Ids
    BY <1>1, <1>7, SignalTypes DEF IInv, EndsFit, AboutTerminal
  <2>3. \A i \in DOMAIN signals : signals[i].type = "failed" =>
          signals[i].id \in Ids /\ (signals[i].id # id \/ Called("retire", signals[i].id))
    BY <1>1, <1>7, SignalTypes DEF IInv, EndsFit, AboutTerminal
  <2>4. /\ \A i \in DOMAIN calls' : calls'[i].op = "close" => calls'[i].id \in asked'
        /\ \A i \in DOMAIN calls' : calls'[i].op = "retire" => phase'[calls'[i].id] \in {"finished", "none"}
        /\ \A i \in DOMAIN signals' : signals'[i].type \in {"closed", "openFailed"} => phase'[signals'[i].id] = "none"
    BY <1>1, <1>3, <2>1, <2>2 DEF IInv, EndsFit
  <2>5. ASSUME NEW i \in DOMAIN signals', signals'[i].type = "failed"
        PROVE  phase'[signals'[i].id] \in {"failing", "none"} \/ Called("retire", signals[i].id)'
    <3>1. phase[signals[i].id] \in {"failing", "none"} \/ Called("retire", signals[i].id)
      BY <1>1, <2>5 DEF IInv, EndsFit
    <3>2. signals[i].id \in Ids /\ (signals[i].id # id \/ Called("retire", signals[i].id))
      BY <1>1, <2>3, <2>5
    <3> QED
      BY <1>1, <1>3, <1>5, <3>1, <3>2
  <2>6. \A i, j \in DOMAIN signals' :
          signals'[i].type = "closed" /\ i < j /\ signals'[j].type = "data" => signals'[j].id # signals'[i].id
    BY <1>1 DEF IInv, EndsFit
  <2> QED
    BY <2>4, <2>5, <2>6 DEF EndsFit
<1>14. OutputFits'
  <2> SUFFICES ASSUME NEW x \in gui'.panes,
                      phase'[x] # "none" \/ (Signalled("closed", x)' /\ x \notin asked'),
                      NEW chunk \in unseen'[x]
               PROVE  \/ chunk \in out'[x]
                      \/ \E i \in DOMAIN signals' : /\ signals'[i].type = "data" /\ signals'[i].id = x
                                                    /\ chunk \in signals'[i].chunks
    BY DEF OutputFits
  <2>1. x \in gui.panes /\ x \in Ids
    BY <1>1 DEF IInv, Typed, GuiRec
  <2>2. phase[x] # "none" \/ (Signalled("closed", x) /\ x \notin asked)
    BY <1>1, <1>3, <1>4, <2>1
  <2>3. CASE chunk \in unseen[x]
    <3>1. \/ chunk \in out[x]
          \/ \E i \in DOMAIN signals : /\ signals[i].type = "data" /\ signals[i].id = x
                                       /\ chunk \in signals[i].chunks
      BY <2>1, <2>2, <2>3 DEF IInv, OutputFits
    <3> QED
      BY <1>1, <1>3, <2>1, <3>1
  <2>4. CASE chunk \notin unseen[x]
    BY <1>3, <2>1, <2>4
  <2> QED
    BY <2>3, <2>4
<1>15. Ledger'
  <2>1. \A x \in Ids : (phase'[x] = "none" <=> phase[x] = "none") /\ (phase[x] = "failing" => phase'[x] = "failing")
    BY <1>1, <1>3
  <2>2. ListedIds(gui.terms) \subseteq Ids
    <3>1. gui.terms \in Seq(TermRec)
      BY DEF IInv, Typed, GuiRec
    <3> QED
      BY <3>1, TermIds
  <2>3. ASSUME up'
        PROVE  \A x \in ListedIds(gui'.terms) :
                 phase'[x] # "none" \/ Called("open", x)' \/ Signalled("openFailed", x)' \/ Signalled("closed", x)'
    BY <1>1, <1>4, <1>5, <2>1, <2>2, <2>3 DEF IInv, Ledger
  <2>4. ASSUME up'
        PROVE  \A x \in Ids :
                 phase'[x] # "none" => x \in ListedIds(gui'.terms) \/ phase'[x] = "failing" \/ Called("retire", x)'
    BY <1>1, <1>5, <2>1, <2>4 DEF IInv, Ledger
  <2>5. ASSUME up'
        PROVE  \A i \in DOMAIN gui'.terms :
                 gui'.terms[i].state # "Open" =>
                   Called("open", gui.terms[i].id)' \/ \E t \in {"connected", "opened", "openFailed", "closed"} : Signalled(t, gui.terms[i].id)'
    BY <1>1, <2>5 DEF IInv, Ledger, Called, Signalled
  <2>6. ASSUME up'
        PROVE  \A x \in gui'.closing : Called("close", x)' \/ Signalled("closed", x)' \/ Signalled("openFailed", x)'
    BY <1>1, <1>4, <1>5, <2>6 DEF IInv, Ledger
  <2> QED
    BY <2>3, <2>4, <2>5, <2>6 DEF Ledger
<1> QED
  BY <1>8, <1>9, <1>10, <1>11, <1>12, <1>13, <1>14, <1>15 DEF IInv

\* The worker's thread says something while the session connects or is
\* connected, and no more is asked of it than was.
LEMMA WorkerSays ==
  ASSUME IInv, session \in {"Connecting", "Connected"}, UNCHANGED <<session, gui>>,
         \A x \in Ids : phase'[x] # "none" => up',
         \A x \in Ids : phase'[x] \in {"none", "failing", "finished"} => out'[x] = {},
         up' => up,
         \A i \in DOMAIN calls' :
           calls'[i].op = "retire" \/ \E k \in DOMAIN calls : calls'[i] = calls[k],
         NEW s,
         \/ signals' = signals
         \/ /\ s \in SignalRec /\ signals' = Append(signals, s) /\ s.type # "connected"
            /\ session = "Connecting" /\ s.id = gui.active => up
            /\ s.type \in Outcomes => up \/ \A i \in DOMAIN calls' : calls'[i].op # "connect"
  PROVE  WorkerFits'
<1> DEFINE n == Len(signals')
           New == /\ s.type # "connected"
                  /\ session = "Connecting" /\ s.id = gui.active => up
                  /\ s.type \in Outcomes => up \/ \A i \in DOMAIN calls' : calls'[i].op # "connect"
<1>1. /\ signals \in Seq(SignalRec)
      /\ \A i \in DOMAIN signals : i \in DOMAIN signals' /\ signals'[i] = signals[i] /\ i \in Nat /\ i >= 1
      /\ \A i \in DOMAIN signals' : i \in DOMAIN signals \/ (signals'[i] = s /\ New /\ \A k \in DOMAIN signals : k < i)
      /\ \A i \in DOMAIN signals' : i \in Nat
  <2>1. signals \in Seq(SignalRec)
    BY DEF IInv, Typed
  <2>2. CASE signals' = signals
    BY <2>1, <2>2
  <2>3. CASE s \in SignalRec /\ signals' = Append(signals, s) /\ New
    <3>1. /\ n \in DOMAIN signals' /\ signals'[n] = s /\ n \in Nat
          /\ \A i \in DOMAIN signals : /\ i \in DOMAIN signals' /\ signals'[i] = signals[i]
                                       /\ i \in Nat /\ i >= 1 /\ i < n
          /\ \A i \in DOMAIN signals' : i \in DOMAIN signals \/ i = n
      BY <2>1, <2>3, AtTheEnd
    <3> HIDE DEF n
    <3> QED
      BY <2>1, <3>1
  <2> QED
    BY <2>2, <2>3
<1> HIDE DEF n
<1>2. \A i \in DOMAIN signals' : signals'[i].type = "connected" => i \in DOMAIN signals
  BY <1>1
<1>3. /\ \A i \in DOMAIN signals' : signals'[i].type = "connected" =>
           session' = "Connecting" /\ signals'[i].id = gui'.active
      /\ \A i, j \in DOMAIN signals' :
           signals'[i].type = "connected" /\ signals'[j].type = "connected" => i = j
  BY <1>1, <1>2 DEF IInv, WorkerFits
<1>4. ASSUME NEW i \in DOMAIN calls', calls'[i].op = "connect"
      PROVE  /\ session' = "Connecting" /\ ~up'
             /\ \A j \in DOMAIN signals' : signals'[j].type \notin Outcomes
  <2>1. PICK k \in DOMAIN calls : calls'[i] = calls[k]
    BY <1>4
  <2>2. /\ session = "Connecting" /\ ~up
        /\ \A j \in DOMAIN signals : signals[j].type \notin Outcomes
    BY <1>4, <2>1 DEF IInv, WorkerFits
  <2>3. New => s.type \notin Outcomes
    BY <1>4, <2>2
  <2> QED
    BY <1>1, <2>2, <2>3
<1>5. ASSUME session' = "Connecting"
      PROVE  /\ \A i \in DOMAIN calls' : calls'[i].op # "open"
             /\ up' => Signalled("connected", gui.active)'
             /\ \A i \in DOMAIN signals' : signals'[i].id = gui'.active /\ signals'[i].type # "connected" =>
                  \E j \in 1 .. i - 1 : signals'[j].type = "connected"
  <2>1. session = "Connecting"
    BY <1>5
  <2>2. \A i \in DOMAIN calls' : calls'[i].op # "open"
    <3>1. \A k \in DOMAIN calls : calls[k].op # "open"
      BY <2>1 DEF IInv, WorkerFits
    <3> QED
      BY <3>1
  <2>3. up => \E k \in DOMAIN signals : signals[k].type = "connected" /\ signals[k].id = gui.active
    BY <2>1 DEF IInv, WorkerFits, Signalled
  <2>4. up' => Signalled("connected", gui.active)'
    BY <1>1, <2>3 DEF Signalled
  <2>5. ASSUME NEW i \in DOMAIN signals', signals'[i].id = gui'.active, signals'[i].type # "connected"
        PROVE  \E j \in 1 .. i - 1 : signals'[j].type = "connected"
    <3>1. CASE i \in DOMAIN signals
      <4>1. PICK j \in 1 .. i - 1 : signals[j].type = "connected"
        BY <1>1, <2>1, <2>5, <3>1 DEF IInv, WorkerFits
      <4>2. j \in DOMAIN signals
        BY <1>1, <3>1, <4>1
      <4> QED
        BY <1>1, <4>1, <4>2
    <3>2. CASE signals'[i] = s /\ New /\ \A k \in DOMAIN signals : k < i
      <4>1. PICK k \in DOMAIN signals : signals[k].type = "connected"
        BY <2>1, <2>3, <2>5, <3>2
      <4>2. k \in 1 .. i - 1 /\ signals'[k] = signals[k]
        BY <1>1, <3>2, <4>1
      <4> QED
        BY <4>1, <4>2
    <3> QED
      BY <1>1, <3>1, <3>2
  <2> QED
    BY <2>2, <2>4, <2>5
<1> QED
  BY <1>3, <1>4, <1>5 DEF WorkerFits

\* A handler acts: what has not begun, the page and the session are as they were.
LEMMA HandlerActs ==
  ASSUME IInv, NEW id \in Ids, phase[id] # "none",
         UNCHANGED <<session, gui, logs, created, asked, up, unseen>>,
         phase' \in [Ids -> Phases], out' \in [Ids -> SUBSET Chunks],
         \A x \in Ids : x # id => phase'[x] = phase[x] /\ out'[x] = out[x],
         phase'[id] \in {"none", "failing", "finished"} => out'[id] = {},
         calls' \in Seq(CallRec), NEW d \in {0, 1},
         \A i \in DOMAIN calls' : \/ i + d \in DOMAIN calls /\ calls'[i] = calls[i + d]
                                  \/ calls'[i] = Call("retire", id),
         NEW s \in SignalRec, s.id = id, s.type \in {"closed", "failed", "data"},
         signals' = signals \/ signals' = Append(signals, s)
  PROVE  /\ Typed' /\ PageFits' /\ Docked' /\ WorkerFits' /\ UnbornFits' /\ OpensFit'
         /\ \A t, x : Signalled(t, x) => Signalled(t, x)'
<1>1. /\ signals \in Seq(SignalRec) /\ signals' \in Seq(SignalRec)
      /\ \A i \in DOMAIN signals : i \in DOMAIN signals' /\ signals'[i] = signals[i]
      /\ \A i \in DOMAIN signals' : (i \in DOMAIN signals /\ signals'[i] = signals[i]) \/ signals'[i] = s
  <2>1. signals \in Seq(SignalRec)
    BY DEF IInv, Typed
  <2>2. CASE signals' = signals
    BY <2>1, <2>2
  <2>3. CASE signals' = Append(signals, s)
    <3>1. /\ signals' \in Seq(SignalRec) /\ signals'[Len(signals')] = s
          /\ \A i \in DOMAIN signals : i \in DOMAIN signals' /\ signals'[i] = signals[i]
          /\ \A i \in DOMAIN signals' : i \in DOMAIN signals \/ i = Len(signals')
      BY <2>1, <2>3, AtTheEnd
    <3> QED
      BY <2>1, <3>1
  <2> QED
    BY <2>2, <2>3
<1>2. up
  BY DEF IInv, WorkerFits
<1>3. session \in {"Connecting", "Connected"}
  BY <1>2 DEF IInv, Typed, WorkerFits
<1>4. \A i \in DOMAIN calls : calls[i] \in CallRec /\ i \in Nat
  BY DEF IInv, Typed
<1>5. Typed'
  BY <1>1 DEF IInv, Typed
<1>6. PageFits' /\ Docked'
  BY DEF IInv, PageFits, Docked
<1>7. WorkerFits'
  <2>1. \A x \in Ids : phase'[x] # "none" => up'
    BY <1>2
  <2>2. \A x \in Ids : phase'[x] \in {"none", "failing", "finished"} => out'[x] = {}
    BY DEF IInv, WorkerFits
  <2>3. \A i \in DOMAIN calls' :
          calls'[i].op = "retire" \/ \E k \in DOMAIN calls : calls'[i] = calls[k]
    BY CallTypes
  <2> QED
    BY <1>2, <1>3, <2>1, <2>2, <2>3, WorkerSays
<1>8. UnbornFits'
  <2> SUFFICES ASSUME NEW x \in Ids, Unborn(x)'
               PROVE  /\ x \notin ListedIds(gui'.terms) /\ phase'[x] = "none" /\ unseen'[x] = {}
                      /\ \A i \in DOMAIN calls' : calls'[i].id # x
                      /\ \A i \in DOMAIN signals' : signals'[i].id # x
    BY DEF UnbornFits
  <2>1. Unborn(x)
    BY DEF Unborn
  <2>2. /\ x \notin ListedIds(gui.terms) /\ phase[x] = "none" /\ unseen[x] = {}
        /\ \A i \in DOMAIN calls : calls[i].id # x
        /\ \A i \in DOMAIN signals : signals[i].id # x
    BY <2>1 DEF IInv, UnbornFits
  <2>3. x # id
    BY <2>2
  <2>4. \A i \in DOMAIN calls' : calls'[i].id # x
    BY <2>2, <2>3, CallTypes
  <2>5. \A i \in DOMAIN signals' : signals'[i].id # x
    BY <1>1, <2>2, <2>3
  <2> QED
    BY <2>2, <2>3, <2>4, <2>5
<1>9. OpensFit'
  <2> SUFFICES ASSUME NEW i \in DOMAIN calls', calls'[i].op \in Opens
               PROVE  /\ calls'[i].id \in ListedIds(gui'.terms)
                      /\ phase'[calls'[i].id] = "none" /\ unseen'[calls'[i].id] = {}
                      /\ \A j \in DOMAIN signals' : signals'[j].id # calls'[i].id
                      /\ \A j \in DOMAIN calls' : calls'[j].id = calls'[i].id => i <= j /\ calls'[j].op # "retire"
    BY DEF OpensFit
  <2> DEFINE y == calls'[i].id
  <2>1. i + d \in DOMAIN calls /\ calls'[i] = calls[i + d]
    BY CallTypes DEF Opens
  <2>2. /\ y \in ListedIds(gui.terms) /\ phase[y] = "none" /\ unseen[y] = {}
        /\ \A j \in DOMAIN signals : signals[j].id # y
        /\ \A j \in DOMAIN calls : calls[j].id = y => i + d <= j /\ calls[j].op # "retire"
    BY <2>1 DEF IInv, OpensFit
  <2>3. y \in Ids /\ y # id
    <3>1. y \in Ids
      BY <1>4, <2>1, CallTypes
    <3> QED
      BY <2>2, <3>1
  <2> HIDE DEF y
  <2>4. ASSUME NEW j \in DOMAIN calls', calls'[j].id = y
        PROVE  i <= j /\ calls'[j].op # "retire"
    <3>1. j + d \in DOMAIN calls /\ calls'[j] = calls[j + d]
      BY <2>3, <2>4, CallTypes
    <3>2. i + d <= j + d /\ calls[j + d].op # "retire"
      BY <2>2, <2>4, <3>1
    <3>3. i \in Nat /\ j \in Nat
      OBVIOUS
    <3> QED
      BY <3>1, <3>2, <3>3
  <2>5. \A j \in DOMAIN signals' : signals'[j].id # y
    BY <1>1, <2>2, <2>3
  <2>6. y \in ListedIds(gui'.terms) /\ phase'[y] = "none" /\ unseen'[y] = {}
    BY <2>2, <2>3
  <2> QED
    BY <2>4, <2>5, <2>6 DEF y
<1>10. \A t, x : Signalled(t, x) => Signalled(t, x)'
  BY <1>1 DEF Signalled
<1> QED
  BY <1>5, <1>6, <1>7, <1>8, <1>9, <1>10

\* closeTerminal and the retirement of a channel that has ended.
LEMMA TerminalRetired ==
  ASSUME IInv, RetireTerminal
  PROVE  IInv'
<1> DEFINE id == Head(calls).id
           op == Head(calls).op
           s == Signal("closed", id)
<1>1. /\ calls # <<>> /\ calls' = Tail(calls) /\ op \in {"close", "retire"} /\ Idle
      /\ UNCHANGED <<session, gui, logs, created, unseen, asked, up>>
      /\ phase' = [phase EXCEPT ![id] = "none"] /\ out' = [out EXCEPT ![id] = {}]
      /\ signals' = IF phase[id] # "none" THEN Append(signals, s) ELSE signals
  BY DEF RetireTerminal, RunSlot, Posted
<1>2. /\ calls' \in Seq(CallRec) /\ 1 \in DOMAIN calls /\ calls[1] \in CallRec
      /\ calls[1].op = op /\ calls[1].id = id
      /\ \A i \in DOMAIN calls' : /\ i \in Nat /\ i >= 1 /\ i + 1 \in DOMAIN calls
                                  /\ calls'[i] = calls[i + 1]
      /\ \A i \in DOMAIN calls : /\ i \in Nat /\ i >= 1
                                 /\ i # 1 => i - 1 \in DOMAIN calls' /\ calls'[i - 1] = calls[i]
  <2>1. calls \in Seq(CallRec)
    BY DEF IInv, Typed
  <2> QED
    BY <1>1, <2>1, FromTheHead
<1> HIDE DEF id, op
<1>3. id \in Ids
  BY <1>2, CallTypes
<1>4. phase \in [Ids -> Phases] /\ out \in [Ids -> SUBSET Chunks]
  BY DEF IInv, Typed
<1>5. /\ phase' \in [Ids -> Phases] /\ out' \in [Ids -> SUBSET Chunks]
      /\ \A x \in Ids : x # id => phase'[x] = phase[x] /\ out'[x] = out[x]
      /\ phase'[id] = "none" /\ out'[id] = {}
  BY <1>1, <1>3, <1>4 DEF Phases
<1>6. \A t, x : Called(t, x)' => Called(t, x)
  BY <1>2 DEF Called
<1>7. \A t, x : Called(t, x) => Called(t, x)' \/ (t = op /\ x = id)
  BY <1>2 DEF Called
<1>8. s \in SignalRec /\ s.type = "closed" /\ s.id = id
  BY <1>3, SignalTypes DEF AboutTerminal
<1> HIDE DEF s
<1>9. ~Called("open", id)
  BY <1>1, <1>2 DEF Called, IInv, OpensFit, Opens
<1>10. gui.terms \in Seq(TermRec)
  BY DEF IInv, Typed, GuiRec
<1>11. ListedIds(gui.terms) \subseteq Ids
  BY <1>10, TermIds
<1>12. gui.closing \subseteq ListedIds(gui.terms)
  BY DEF IInv, PageFits
<1>13. /\ signals \in Seq(SignalRec)
       /\ \A i \in DOMAIN signals : i \in DOMAIN signals' /\ signals'[i] = signals[i] /\ i \in Nat
       /\ \A i \in DOMAIN signals' :
            \/ i \in DOMAIN signals
            \/ phase[id] # "none" /\ signals'[i] = s /\ i \in Nat /\ \A k \in DOMAIN signals : k < i
       /\ \A x : phase[id] # "none" /\ x = id => Signalled("closed", x)'
  <2>1. signals \in Seq(SignalRec)
    BY DEF IInv, Typed
  <2>2. CASE phase[id] = "none"
    BY <1>1, <2>1, <2>2
  <2>3. CASE phase[id] # "none"
    <3>1. signals' = Append(signals, s)
      BY <1>1, <2>3
    <3>2. /\ Len(signals') \in DOMAIN signals' /\ signals'[Len(signals')] = s /\ Len(signals') \in Nat
          /\ \A i \in DOMAIN signals : /\ i \in DOMAIN signals' /\ signals'[i] = signals[i]
                                       /\ i \in Nat /\ i >= 1 /\ i < Len(signals')
          /\ \A i \in DOMAIN signals' : i \in DOMAIN signals \/ i = Len(signals')
      BY <1>8, <2>1, <3>1, AtTheEnd
    <3>3. \A x : x = id => Signalled("closed", x)'
      BY <1>8, <3>2 DEF Signalled
    <3> QED
      BY <2>1, <2>3, <3>2, <3>3
  <2> QED
    BY <2>2, <2>3
<1>14. \A t, x : Signalled(t, x) => Signalled(t, x)'
  BY <1>13 DEF Signalled
<1>15. Typed' /\ PageFits' /\ Docked' /\ WorkerFits' /\ UnbornFits' /\ OpensFit'
  <2>1. CASE phase[id] # "none"
    <3>1. \A i \in DOMAIN calls' : \/ i + 1 \in DOMAIN calls /\ calls'[i] = calls[i + 1]
                                   \/ calls'[i] = Call("retire", id)
      BY <1>2
    <3>2. signals' = Append(signals, s)
      BY <1>1, <2>1
    <3> QED
      BY <1>1, <1>2, <1>3, <1>5, <1>8, <2>1, <3>1, <3>2, HandlerActs
  <2>2. CASE phase[id] = "none"
    <3>1. phase' = phase /\ out' = out /\ signals' = signals
      <4>1. out[id] = {}
        BY <1>3, <2>2 DEF IInv, WorkerFits
      <4> QED
        BY <1>1, <1>3, <1>4, <2>2, <4>1
    <3>2. Typed'
      BY <1>1, <1>2, <3>1 DEF IInv, Typed
    <3>3. PageFits' /\ Docked'
      BY <1>1 DEF IInv, PageFits, Docked
    <3>4. WorkerFits'
      <4>1. session \in {"Connecting", "Connected"}
        BY <1>1 DEF IInv, Typed, WorkerFits
      <4>2. \A i \in DOMAIN calls' :
              calls'[i].op = "retire" \/ \E k \in DOMAIN calls : calls'[i] = calls[k]
        BY <1>2
      <4>3. \A x \in Ids : phase'[x] # "none" => up'
        BY <1>1, <3>1 DEF IInv, WorkerFits
      <4>4. \A x \in Ids : phase'[x] \in {"none", "failing", "finished"} => out'[x] = {}
        BY <3>1 DEF IInv, WorkerFits
      <4> QED
        BY <1>1, <3>1, <4>1, <4>2, <4>3, <4>4, WorkerSays
    <3>5. UnbornFits'
      <4>1. \A x \in Ids : Unborn(x)' = Unborn(x)
        BY <1>1 DEF Unborn
      <4> QED
        BY <1>1, <1>2, <3>1, <4>1 DEF IInv, UnbornFits
    <3>6. OpensFit'
      <4> SUFFICES ASSUME NEW i \in DOMAIN calls', calls'[i].op \in Opens
                   PROVE  /\ calls'[i].id \in ListedIds(gui'.terms)
                          /\ phase'[calls'[i].id] = "none" /\ unseen'[calls'[i].id] = {}
                          /\ \A j \in DOMAIN signals' : signals'[j].id # calls'[i].id
                          /\ \A j \in DOMAIN calls' : calls'[j].id = calls'[i].id => i <= j /\ calls'[j].op # "retire"
        BY DEF OpensFit
      <4>1. /\ calls[i + 1].id \in ListedIds(gui.terms)
            /\ phase[calls[i + 1].id] = "none" /\ unseen[calls[i + 1].id] = {}
            /\ \A j \in DOMAIN signals : signals[j].id # calls[i + 1].id
            /\ \A j \in DOMAIN calls : calls[j].id = calls[i + 1].id => i + 1 <= j /\ calls[j].op # "retire"
        BY <1>2 DEF IInv, OpensFit
      <4>2. ASSUME NEW j \in DOMAIN calls', calls'[j].id = calls'[i].id
            PROVE  i <= j /\ calls'[j].op # "retire"
        <5>1. i + 1 <= j + 1 /\ calls[j + 1].op # "retire" /\ i \in Nat /\ j \in Nat
          BY <1>2, <4>1, <4>2
        <5> QED
          BY <1>2, <5>1
      <4> QED
        BY <1>1, <1>2, <3>1, <4>1, <4>2
    <3> QED
      BY <3>2, <3>3, <3>4, <3>5, <3>6
  <2> QED
    BY <2>1, <2>2
<1>16. EndsFit'
  <2>1. \A i \in DOMAIN calls' : calls'[i].op = "close" => calls'[i].id \in asked'
    BY <1>1, <1>2 DEF IInv, EndsFit
  <2>2. ASSUME NEW i \in DOMAIN calls', calls'[i].op = "retire"
        PROVE  phase'[calls'[i].id] \in {"finished", "none"}
    <3>1. calls[i + 1] \in CallRec /\ phase[calls[i + 1].id] \in {"finished", "none"}
      BY <1>2, <2>2 DEF IInv, EndsFit, Typed
    <3>2. calls[i + 1].id \in Ids
      BY <3>1, CallTypes
    <3> QED
      BY <1>2, <1>5, <3>1, <3>2
  <2>3. ASSUME NEW x \in Ids, phase[x] = "none" PROVE phase'[x] = "none"
    BY <1>5, <2>3
  <2>4. ASSUME NEW i \in DOMAIN signals', signals'[i].type \in {"closed", "openFailed"}
        PROVE  phase'[signals'[i].id] = "none"
    <3>1. CASE i \in DOMAIN signals
      <4>1. signals'[i] = signals[i] /\ signals[i] \in SignalRec /\ phase[signals[i].id] = "none"
        BY <1>13, <2>4, <3>1 DEF IInv, EndsFit
      <4>2. signals[i].id \in Ids
        BY <2>4, <4>1, SignalTypes DEF AboutTerminal
      <4> QED
        BY <2>3, <4>1, <4>2
    <3>2. CASE signals'[i] = s
      BY <1>5, <1>8, <3>2
    <3> QED
      BY <1>13, <3>1, <3>2
  <2>5. ASSUME NEW i \in DOMAIN signals', signals'[i].type = "failed"
        PROVE  phase'[signals'[i].id] \in {"failing", "none"} \/ Called("retire", signals[i].id)'
    <3>1. i \in DOMAIN signals /\ signals'[i] = signals[i] /\ signals[i] \in SignalRec
      BY <1>8, <1>13, <2>5
    <3>2. signals[i].id \in Ids
      BY <2>5, <3>1, SignalTypes DEF AboutTerminal
    <3>3. phase[signals[i].id] \in {"failing", "none"} \/ Called("retire", signals[i].id)
      BY <2>5, <3>1 DEF IInv, EndsFit
    <3>4. CASE signals[i].id = id
      BY <1>5, <3>1, <3>4
    <3>5. CASE signals[i].id # id
      BY <1>5, <1>7, <3>1, <3>2, <3>3, <3>5
    <3> QED
      BY <3>4, <3>5
  <2>6. ASSUME NEW i \in DOMAIN signals', NEW j \in DOMAIN signals',
               signals'[i].type = "closed", i < j, signals'[j].type = "data"
        PROVE  signals'[j].id # signals'[i].id
    <3>1. j \in DOMAIN signals
      BY <1>8, <1>13, <2>6
    <3>2. i \in DOMAIN signals
      <4> SUFFICES ASSUME \A k \in DOMAIN signals : k < i, i \in Nat PROVE FALSE
        BY <1>13
      <4>1. j < i /\ j \in Nat
        BY <1>13, <3>1
      <4> QED
        BY <2>6, <4>1
    <3> QED
      BY <1>13, <2>6, <3>1, <3>2 DEF IInv, EndsFit
  <2> QED
    BY <2>1, <2>2, <2>4, <2>5, <2>6 DEF EndsFit
<1>17. OutputFits'
  <2> SUFFICES ASSUME NEW x \in gui'.panes,
                      phase'[x] # "none" \/ (Signalled("closed", x)' /\ x \notin asked'),
                      NEW chunk \in unseen'[x]
               PROVE  \/ chunk \in out'[x]
                      \/ \E i \in DOMAIN signals' : /\ signals'[i].type = "data" /\ signals'[i].id = x
                                                    /\ chunk \in signals'[i].chunks
    BY DEF OutputFits
  <2>1. x \in gui.panes /\ x \in Ids
    BY <1>1 DEF IInv, Typed, GuiRec
  <2>2. \A t, y : Signalled(t, y)' => Signalled(t, y) \/ (y = id /\ phase[id] # "none")
    BY <1>8, <1>13 DEF Signalled
  <2>3. \/ chunk \in out[x]
        \/ \E i \in DOMAIN signals : /\ signals[i].type = "data" /\ signals[i].id = x
                                     /\ chunk \in signals[i].chunks
    BY <1>1, <1>5, <2>1, <2>2 DEF IInv, OutputFits
  <2>4. CASE chunk \in out[x]
    <3>1. CASE x # id
      BY <1>5, <2>1, <2>4, <3>1
    <3>2. CASE x = id
      <4>1. id \notin asked
        BY <1>1, <1>5, <3>2
      <4>2. op = "retire"
        BY <1>1, <1>2, <4>1 DEF IInv, EndsFit
      <4>3. phase[id] \in {"finished", "none"}
        BY <1>2, <4>2 DEF IInv, EndsFit
      <4>4. out[id] = {}
        BY <1>3, <4>3 DEF IInv, WorkerFits
      <4> QED
        BY <2>4, <3>2, <4>4
    <3> QED
      BY <3>1, <3>2
  <2>5. CASE \E i \in DOMAIN signals : /\ signals[i].type = "data" /\ signals[i].id = x
                                       /\ chunk \in signals[i].chunks
    BY <1>13, <2>5
  <2> QED
    BY <2>3, <2>4, <2>5
<1>18. Ledger'
  <2> SUFFICES ASSUME up'
               PROVE  /\ \A x \in ListedIds(gui'.terms) :
                           phase'[x] # "none" \/ Called("open", x)' \/ Signalled("openFailed", x)' \/ Signalled("closed", x)'
                      /\ \A x \in Ids :
                           phase'[x] # "none" => x \in ListedIds(gui'.terms) \/ phase'[x] = "failing" \/ Called("retire", x)'
                      /\ \A i \in DOMAIN gui'.terms :
                           gui'.terms[i].state # "Open" =>
                             Called("open", gui.terms[i].id)' \/ \E t \in {"connected", "opened", "openFailed", "closed"} : Signalled(t, gui.terms[i].id)'
                      /\ \A x \in gui'.closing : Called("close", x)' \/ Signalled("closed", x)' \/ Signalled("openFailed", x)'
    BY DEF Ledger
  <2>0. up /\ gui' = gui
    BY <1>1
  <2>1. \A x : Called("open", x) => Called("open", x)'
    BY <1>1, <1>7
  <2>2. ASSUME NEW x \in ListedIds(gui.terms)
        PROVE  phase'[x] # "none" \/ Called("open", x)' \/ Signalled("openFailed", x)' \/ Signalled("closed", x)'
    <3>1. phase[x] # "none" \/ Called("open", x) \/ Signalled("openFailed", x) \/ Signalled("closed", x)
      BY <2>0 DEF IInv, Ledger
    <3>2. x \in Ids
      BY <1>11
    <3> QED
      BY <1>5, <1>13, <1>14, <2>1, <3>1, <3>2
  <2>3. ASSUME NEW x \in Ids, phase'[x] # "none"
        PROVE  x \in ListedIds(gui.terms) \/ phase'[x] = "failing" \/ Called("retire", x)'
    <3>1. x # id /\ phase[x] = phase'[x]
      BY <1>5, <2>3
    <3>2. x \in ListedIds(gui.terms) \/ phase[x] = "failing" \/ Called("retire", x)
      BY <2>0, <2>3, <3>1 DEF IInv, Ledger
    <3> QED
      BY <1>7, <3>1, <3>2
  <2>4. ASSUME NEW i \in DOMAIN gui.terms, gui.terms[i].state # "Open"
        PROVE  Called("open", gui.terms[i].id)' \/ \E t \in {"connected", "opened", "openFailed", "closed"} : Signalled(t, gui.terms[i].id)'
    <3>1. Called("open", gui.terms[i].id) \/ \E t \in {"connected", "opened", "openFailed", "closed"} : Signalled(t, gui.terms[i].id)
      BY <2>0, <2>4 DEF IInv, Ledger
    <3> QED
      BY <1>14, <2>0, <2>1, <3>1
  <2>5. ASSUME NEW x \in gui.closing
        PROVE  Called("close", x)' \/ Signalled("closed", x)' \/ Signalled("openFailed", x)'
    <3>1. CASE x # id
      BY <1>7, <1>14, <2>0, <3>1 DEF IInv, Ledger
    <3>2. CASE x = id
      <4>1. phase[id] # "none" \/ Called("open", id) \/ Signalled("openFailed", id) \/ Signalled("closed", id)
        BY <1>12, <2>0, <3>2 DEF IInv, Ledger
      <4> QED
        BY <1>9, <1>13, <1>14, <3>2, <4>1
    <3> QED
      BY <3>1, <3>2
  <2> QED
    BY <2>0, <2>2, <2>3, <2>4, <2>5
<1> QED
  BY <1>15, <1>16, <1>17, <1>18 DEF IInv

\* A handler delivers output, reports its failure or posts its retirement.
LEMMA HandlerGoesOn ==
  ASSUME IInv, NEW id \in Ids, OnIdle(id) \/ ReportFailed(id) \/ ReportClosed(id)
  PROVE  IInv'
<1> DEFINE c == Call("retire", id)
           data == [type |-> "data", id |-> id, chunks |-> out[id]]
           s == IF ReportFailed(id) THEN Signal("failed", id) ELSE data
<1>1. /\ phase \in [Ids -> Phases] /\ out \in [Ids -> SUBSET Chunks]
      /\ calls \in Seq(CallRec) /\ signals \in Seq(SignalRec)
  BY DEF IInv, Typed
<1>2. c \in CallRec /\ c.op = "retire" /\ c.id = id
  BY CallTypes
<1>3. /\ data \in SignalRec /\ data.type = "data" /\ data.id = id /\ data.chunks = out[id]
  BY <1>1 DEF SignalRec
<1>4. /\ s \in SignalRec /\ s.id = id /\ s.type \in {"failed", "data"}
      /\ s.type = "data" => s.chunks = out[id]
      /\ s.type = "failed" => ReportFailed(id)
  BY <1>3, SignalTypes DEF AboutTerminal
<1> HIDE DEF data
<1>5. /\ UNCHANGED <<session, gui, logs, created, asked, up, unseen>>
      /\ phase[id] \in {"open", "eof", "broken", "failing"} /\ phase'[id] \in Phases \ {"none"}
      /\ phase' = [phase EXCEPT ![id] = phase'[id]]
      /\ out' = [out EXCEPT ![id] = out'[id]] /\ out'[id] \in SUBSET Chunks
      /\ \/ signals' = signals /\ out'[id] = out[id]
         \/ signals' = Append(signals, s)
      /\ signals' = Append(signals, s) /\ s.type = "failed" => phase'[id] = "failing" /\ out'[id] = out[id]
      /\ \/ calls' = calls /\ phase'[id] \in {phase[id], "failing"} /\ (phase[id] = "failing" => phase'[id] = "failing")
         \/ calls' = Append(calls, c) /\ phase'[id] = "finished"
      /\ phase'[id] \in {"failing", "finished"} => out'[id] = {}
  <2>1. CASE OnIdle(id)
    <3>1. s = data
      BY <2>1 DEF OnIdle, ReportFailed, s
    <3>2. out' = [out EXCEPT ![id] = {}] /\ out'[id] = {} /\ signals' = IF out[id] = {} THEN signals ELSE Append(signals, data)
      BY <1>1, <2>1 DEF OnIdle, DeliverPendingOutput, data
    <3> HIDE DEF s
    <3>3. CASE phase[id] = "eof"
      <4>1. phase' = [phase EXCEPT ![id] = "finished"] /\ calls' = Append(calls, c)
        BY <2>1, <3>3 DEF OnIdle
      <4>2. phase'[id] = "finished" /\ phase' = [phase EXCEPT ![id] = phase'[id]]
        BY <1>1, <4>1
      <4>3. UNCHANGED <<session, gui, logs, created, asked, up, unseen>>
        BY <2>1 DEF OnIdle, Unseen
      <4>4. /\ out' = [out EXCEPT ![id] = out'[id]] /\ out'[id] \in SUBSET Chunks
            /\ \/ signals' = signals /\ out'[id] = out[id]
               \/ signals' = Append(signals, s)
        BY <3>1, <3>2
      <4>5. s.type # "failed"
        BY <1>3, <3>1
      <4> HIDE DEF c
      <4> QED
        BY <3>2, <3>3, <4>1, <4>2, <4>3, <4>4, <4>5 DEF Phases
    <3>4. CASE phase[id] \in {"open", "broken"} /\ out[id] # {}
      <4>1. phase' = phase /\ calls' = calls
        BY <2>1, <3>4 DEF OnIdle
      <4>2. s.type = "data"
        BY <1>3, <3>1
      <4> QED
        BY <1>1, <2>1, <3>1, <3>2, <3>4, <4>1, <4>2 DEF OnIdle, Unseen, Phases
    <3> QED
      BY <2>1, <3>3, <3>4 DEF OnIdle
  <2>2. CASE ReportFailed(id)
    <3>1. s = Signal("failed", id)
      BY <2>2
    <3> HIDE DEF s
    <3> QED
      BY <1>1, <2>2, <3>1 DEF ReportFailed, Posted, Unseen, Phases
  <2>3. CASE ReportClosed(id)
    <3>1. out[id] = {}
      BY <2>3 DEF ReportClosed, IInv, WorkerFits
    <3> HIDE DEF s
    <3> QED
      BY <1>1, <1>4, <2>3, <3>1 DEF ReportClosed, Unseen, Phases
  <2> QED
    BY <2>1, <2>2, <2>3
<1> HIDE DEF s, c
<1>6. /\ phase' \in [Ids -> Phases] /\ out' \in [Ids -> SUBSET Chunks]
      /\ \A x \in Ids : x # id => phase'[x] = phase[x] /\ out'[x] = out[x]
      /\ phase'[id] # "none" /\ phase[id] \notin {"none", "finished"}
  BY <1>1, <1>5
<1>7. /\ calls' \in Seq(CallRec)
      /\ \A i \in DOMAIN calls : i \in DOMAIN calls' /\ calls'[i] = calls[i]
      /\ \A i \in DOMAIN calls' : \/ i \in DOMAIN calls /\ calls'[i] = calls[i]
                                  \/ calls'[i] = c /\ phase'[id] = "finished"
      /\ calls' = calls \/ \E i \in DOMAIN calls' : calls'[i] = c
  <2>1. CASE calls' = calls
    BY <1>1, <2>1
  <2>2. CASE calls' = Append(calls, c) /\ phase'[id] = "finished"
    <3>1. /\ calls' \in Seq(CallRec) /\ Len(calls') \in DOMAIN calls' /\ calls'[Len(calls')] = c
          /\ \A i \in DOMAIN calls : i \in DOMAIN calls' /\ calls'[i] = calls[i]
          /\ \A i \in DOMAIN calls' : i \in DOMAIN calls \/ i = Len(calls')
      BY <1>1, <1>2, <2>2, AtTheEnd
    <3> QED
      BY <2>2, <3>1
  <2> QED
    BY <1>5, <2>1, <2>2
<1>8. /\ \A i \in DOMAIN signals : i \in DOMAIN signals' /\ signals'[i] = signals[i] /\ i \in Nat
      /\ \A i \in DOMAIN signals' :
           \/ i \in DOMAIN signals
           \/ signals' = Append(signals, s) /\ signals'[i] = s /\ i \in Nat /\ \A k \in DOMAIN signals : k < i
      /\ signals' = Append(signals, s) => \E i \in DOMAIN signals' : signals'[i] = s
  <2>1. CASE signals' = signals /\ signals' # Append(signals, s)
    BY <1>1, <2>1
  <2>2. CASE signals' = Append(signals, s)
    <3>1. /\ Len(signals') \in DOMAIN signals' /\ signals'[Len(signals')] = s /\ Len(signals') \in Nat
          /\ \A i \in DOMAIN signals : /\ i \in DOMAIN signals' /\ signals'[i] = signals[i]
                                       /\ i \in Nat /\ i >= 1 /\ i < Len(signals')
          /\ \A i \in DOMAIN signals' : i \in DOMAIN signals \/ i = Len(signals')
      BY <1>1, <1>4, <2>2, AtTheEnd
    <3> QED
      BY <2>2, <3>1
  <2> QED
    BY <1>5, <2>1, <2>2
<1>9. /\ Typed' /\ PageFits' /\ Docked' /\ WorkerFits' /\ UnbornFits' /\ OpensFit'
      /\ \A t, x : Signalled(t, x) => Signalled(t, x)'
  <2>1. phase[id] # "none"
    BY <1>6
  <2>2. phase'[id] \in {"none", "failing", "finished"} => out'[id] = {}
    BY <1>5
  <2>3. \A i \in DOMAIN calls' : \/ i + 0 \in DOMAIN calls /\ calls'[i] = calls[i + 0]
                                 \/ calls'[i] = Call("retire", id)
    <3>1. \A i \in DOMAIN calls : i + 0 = i
      BY <1>1
    <3> QED
      BY <1>7, <3>1 DEF c
  <2>4. s.type \in {"closed", "failed", "data"} /\ (signals' = signals \/ signals' = Append(signals, s))
    BY <1>4, <1>5
  <2> QED
    BY <1>4, <1>5, <1>6, <1>7, <2>1, <2>2, <2>3, <2>4, HandlerActs
<1>10. \A t, x : Called(t, x) => Called(t, x)'
  BY <1>7 DEF Called
<1>11. ~Called("retire", id)
  BY <1>6 DEF Called, IInv, EndsFit
<1>12. phase[id] = "failing" /\ phase'[id] # "failing" => \E i \in DOMAIN calls' : calls'[i] = c
  BY <1>5, <1>7
<1>13. \A x : x = id /\ phase[id] = "failing" /\ phase'[id] # "failing" => Called("retire", x)'
  BY <1>2, <1>12 DEF Called
<1>14. gui.terms \in Seq(TermRec)
  BY DEF IInv, Typed, GuiRec
<1>15. ListedIds(gui.terms) \subseteq Ids
  BY <1>14, TermIds
<1>16. EndsFit'
  <2>1. \A i \in DOMAIN calls' : calls'[i].op = "close" => calls'[i].id \in asked'
    BY <1>2, <1>5, <1>7 DEF IInv, EndsFit
  <2>2. ASSUME NEW i \in DOMAIN calls', calls'[i].op = "retire"
        PROVE  phase'[calls'[i].id] \in {"finished", "none"}
    <3>1. CASE i \in DOMAIN calls /\ calls'[i] = calls[i]
      <4>1. calls[i] \in CallRec /\ phase[calls[i].id] \in {"finished", "none"}
        BY <1>1, <2>2, <3>1 DEF IInv, EndsFit
      <4>2. calls[i].id \in Ids /\ calls[i].id # id
        BY <1>6, <4>1, CallTypes
      <4> QED
        BY <1>6, <3>1, <4>1, <4>2
    <3>2. CASE calls'[i] = c /\ phase'[id] = "finished"
      BY <1>2, <3>2
    <3> QED
      BY <1>7, <3>1, <3>2
  <2>3. ASSUME NEW i \in DOMAIN signals', signals'[i].type \in {"closed", "openFailed"}
        PROVE  phase'[signals'[i].id] = "none"
    <3>1. i \in DOMAIN signals /\ signals'[i] = signals[i] /\ signals[i] \in SignalRec
      BY <1>1, <1>4, <1>8, <2>3
    <3>2. phase[signals[i].id] = "none" /\ signals[i].id \in Ids
      BY <2>3, <3>1, SignalTypes DEF IInv, EndsFit, AboutTerminal
    <3> QED
      BY <1>6, <3>1, <3>2
  <2>4. ASSUME NEW i \in DOMAIN signals', signals'[i].type = "failed"
        PROVE  phase'[signals'[i].id] \in {"failing", "none"} \/ Called("retire", signals[i].id)'
    <3>1. CASE i \in DOMAIN signals
      <4>1. signals'[i] = signals[i] /\ signals[i] \in SignalRec
        BY <1>1, <1>8, <3>1
      <4>2. signals[i].id \in Ids
        BY <2>4, <4>1, SignalTypes DEF AboutTerminal
      <4>3. phase[signals[i].id] \in {"failing", "none"} \/ Called("retire", signals[i].id)
        BY <2>4, <3>1, <4>1 DEF IInv, EndsFit
      <4>4. CASE signals[i].id = id
        BY <1>6, <1>11, <1>13, <4>1, <4>3, <4>4
      <4>5. CASE signals[i].id # id
        BY <1>6, <1>10, <4>1, <4>2, <4>3, <4>5
      <4> QED
        BY <4>4, <4>5
    <3>2. CASE signals' = Append(signals, s) /\ signals'[i] = s
      BY <1>4, <1>5, <2>4, <3>2
    <3> QED
      BY <1>8, <3>1, <3>2
  <2>5. ASSUME NEW i \in DOMAIN signals', NEW j \in DOMAIN signals',
               signals'[i].type = "closed", i < j, signals'[j].type = "data"
        PROVE  signals'[j].id # signals'[i].id
    <3>1. i \in DOMAIN signals /\ signals'[i] = signals[i]
      BY <1>4, <1>8, <2>5
    <3>2. CASE j \in DOMAIN signals
      BY <1>8, <2>5, <3>1, <3>2 DEF IInv, EndsFit
    <3>3. CASE signals'[j] = s
      <4>1. phase[signals[i].id] = "none"
        BY <2>5, <3>1 DEF IInv, EndsFit
      <4> QED
        BY <1>4, <1>6, <3>1, <3>3, <4>1
    <3> QED
      BY <1>8, <3>2, <3>3
  <2> QED
    BY <2>1, <2>2, <2>3, <2>4, <2>5 DEF EndsFit
<1>17. OutputFits'
  <2> SUFFICES ASSUME NEW x \in gui'.panes,
                      phase'[x] # "none" \/ (Signalled("closed", x)' /\ x \notin asked'),
                      NEW chunk \in unseen'[x]
               PROVE  \/ chunk \in out'[x]
                      \/ \E i \in DOMAIN signals' : /\ signals'[i].type = "data" /\ signals'[i].id = x
                                                    /\ chunk \in signals'[i].chunks
    BY DEF OutputFits
  <2>1. x \in gui.panes /\ x \in Ids
    BY <1>5 DEF IInv, Typed, GuiRec
  <2>2. Signalled("closed", x)' => Signalled("closed", x)
    BY <1>4, <1>8 DEF Signalled
  <2>3. \/ chunk \in out[x]
        \/ \E i \in DOMAIN signals : /\ signals[i].type = "data" /\ signals[i].id = x
                                     /\ chunk \in signals[i].chunks
    BY <1>5, <1>6, <2>1, <2>2 DEF IInv, OutputFits
  <2>4. CASE chunk \in out[x] /\ out'[x] # out[x]
    <3>1. x = id /\ signals' = Append(signals, s) /\ s.type = "data"
      BY <1>4, <1>5, <1>6, <2>1, <2>4
    <3> QED
      BY <1>4, <1>8, <2>4, <3>1
  <2>5. CASE \E i \in DOMAIN signals : /\ signals[i].type = "data" /\ signals[i].id = x
                                       /\ chunk \in signals[i].chunks
    BY <1>8, <2>5
  <2> QED
    BY <2>3, <2>4, <2>5
<1>18. Ledger'
  <2> SUFFICES ASSUME up'
               PROVE  /\ \A x \in ListedIds(gui'.terms) :
                           phase'[x] # "none" \/ Called("open", x)' \/ Signalled("openFailed", x)' \/ Signalled("closed", x)'
                      /\ \A x \in Ids :
                           phase'[x] # "none" => x \in ListedIds(gui'.terms) \/ phase'[x] = "failing" \/ Called("retire", x)'
                      /\ \A i \in DOMAIN gui'.terms :
                           gui'.terms[i].state # "Open" =>
                             Called("open", gui.terms[i].id)' \/ \E t \in {"connected", "opened", "openFailed", "closed"} : Signalled(t, gui.terms[i].id)'
                      /\ \A x \in gui'.closing : Called("close", x)' \/ Signalled("closed", x)' \/ Signalled("openFailed", x)'
    BY DEF Ledger
  <2>0. up /\ gui' = gui
    BY <1>5
  <2>1. ASSUME NEW x \in ListedIds(gui.terms)
        PROVE  phase'[x] # "none" \/ Called("open", x)' \/ Signalled("openFailed", x)' \/ Signalled("closed", x)'
    <3>1. phase[x] # "none" \/ Called("open", x) \/ Signalled("openFailed", x) \/ Signalled("closed", x)
      BY <2>0 DEF IInv, Ledger
    <3>2. x \in Ids
      BY <1>15
    <3> QED
      BY <1>6, <1>9, <1>10, <3>1, <3>2
  <2>2. ASSUME NEW x \in Ids, phase'[x] # "none"
        PROVE  x \in ListedIds(gui.terms) \/ phase'[x] = "failing" \/ Called("retire", x)'
    <3>1. x \in ListedIds(gui.terms) \/ phase[x] = "failing" \/ Called("retire", x)
      BY <1>6, <2>0, <2>2 DEF IInv, Ledger
    <3>2. CASE x = id
      BY <1>10, <1>13, <3>1, <3>2
    <3>3. CASE x # id
      BY <1>6, <1>10, <3>1, <3>3
    <3> QED
      BY <3>2, <3>3
  <2>3. ASSUME NEW i \in DOMAIN gui.terms, gui.terms[i].state # "Open"
        PROVE  Called("open", gui.terms[i].id)' \/ \E t \in {"connected", "opened", "openFailed", "closed"} : Signalled(t, gui.terms[i].id)'
    <3>1. Called("open", gui.terms[i].id) \/ \E t \in {"connected", "opened", "openFailed", "closed"} : Signalled(t, gui.terms[i].id)
      BY <2>0, <2>3 DEF IInv, Ledger
    <3> QED
      BY <1>9, <1>10, <2>0, <3>1
  <2>4. ASSUME NEW x \in gui.closing
        PROVE  Called("close", x)' \/ Signalled("closed", x)' \/ Signalled("openFailed", x)'
    BY <1>9, <1>10, <2>0 DEF IInv, Ledger
  <2> QED
    BY <2>0, <2>1, <2>2, <2>3, <2>4
<1> QED
  BY <1>9, <1>16, <1>17, <1>18 DEF IInv

\* openTerminal: a shell, or the answer that there is none.
LEMMA TerminalOpens ==
  ASSUME IInv, OpenTerminal
  PROVE  IInv'
<1>1. PICK id : id = Head(calls).id
  OBVIOUS
<1>2. /\ calls # <<>> /\ calls' = Tail(calls) /\ Head(calls).op = "open"
      /\ UNCHANGED <<session, gui, logs, created, unseen, asked, up, out>>
      /\ \/ up /\ phase' = [phase EXCEPT ![id] = "open"] /\ signals' = Append(signals, Signal("opened", id))
         \/ phase' = phase /\ signals' = Append(signals, Signal("openFailed", id))
  BY <1>1 DEF OpenTerminal, RunSlot, Posted, ShellOpens
<1>3. /\ calls' \in Seq(CallRec) /\ 1 \in DOMAIN calls /\ calls[1] \in CallRec
      /\ calls[1].op = "open" /\ calls[1].id = id
      /\ \A i \in DOMAIN calls' : /\ i \in Nat /\ i >= 1 /\ i + 1 \in DOMAIN calls
                                  /\ calls'[i] = calls[i + 1]
      /\ \A i \in DOMAIN calls : /\ i \in Nat /\ i >= 1
                                 /\ i # 1 => i - 1 \in DOMAIN calls' /\ calls'[i - 1] = calls[i]
  <2>1. calls \in Seq(CallRec)
    BY DEF IInv, Typed
  <2> QED
    BY <1>1, <1>2, <2>1, FromTheHead
<1>4. id \in Ids
  BY <1>3, CallTypes
<1>5. /\ phase \in [Ids -> Phases] /\ out \in [Ids -> SUBSET Chunks] /\ signals \in Seq(SignalRec)
  BY DEF IInv, Typed
<1>6. PICK s \in SignalRec :
        /\ s.id = id /\ signals' = Append(signals, s)
        /\ \/ s.type = "opened" /\ up /\ phase' = [phase EXCEPT ![id] = "open"]
           \/ s.type = "openFailed" /\ phase' = phase
  BY <1>2, <1>4, SignalTypes DEF AboutTerminal
<1>7. /\ id \in ListedIds(gui.terms) /\ phase[id] = "none" /\ unseen[id] = {}
      /\ \A j \in DOMAIN signals : signals[j].id # id
      /\ \A j \in DOMAIN calls : calls[j].id = id => 1 <= j /\ calls[j].op # "retire"
      /\ \A j \in DOMAIN calls : calls[j].id = id /\ calls[j].op \in Opens => j = 1
  <2>1. /\ id \in ListedIds(gui.terms) /\ phase[id] = "none" /\ unseen[id] = {}
        /\ \A j \in DOMAIN signals : signals[j].id # id
        /\ \A j \in DOMAIN calls : calls[j].id = id => 1 <= j /\ calls[j].op # "retire"
    BY <1>3 DEF IInv, OpensFit, Opens
  <2>2. ASSUME NEW j \in DOMAIN calls, calls[j].id = id, calls[j].op \in Opens PROVE j = 1
    <3>1. j <= 1
      BY <1>3, <2>2 DEF IInv, OpensFit
    <3> QED
      BY <1>3, <3>1
  <2> QED
    BY <2>1, <2>2
<1>8. /\ phase' \in [Ids -> Phases] /\ \A x \in Ids : x # id => phase'[x] = phase[x]
      /\ phase'[id] \in {"none", "open"}
      /\ phase'[id] = "open" => up
      /\ phase'[id] # "open" => s.type = "openFailed"
      /\ s.type = "openFailed" => phase'[id] = "none"
      /\ s.type \in {"opened", "openFailed"}
  BY <1>4, <1>5, <1>6, <1>7 DEF Phases
<1>9. session = "Connected"
  <2>1. session # "Connecting"
    BY <1>3 DEF IInv, WorkerFits
  <2>2. session \notin {"Disconnected", "Failed"}
    BY <1>2 DEF IInv, WorkerFits
  <2> QED
    BY <2>1, <2>2 DEF IInv, Typed
<1>10. /\ \A i \in DOMAIN signals : i \in DOMAIN signals' /\ signals'[i] = signals[i] /\ i \in Nat
       /\ \A i \in DOMAIN signals' : i \in DOMAIN signals \/ signals'[i] = s
       /\ \E i \in DOMAIN signals' : signals'[i] = s
       /\ signals' \in Seq(SignalRec)
  <2>1. /\ Len(signals') \in DOMAIN signals' /\ signals'[Len(signals')] = s /\ signals' \in Seq(SignalRec)
        /\ \A i \in DOMAIN signals : /\ i \in DOMAIN signals' /\ signals'[i] = signals[i]
                                     /\ i \in Nat /\ i >= 1 /\ i < Len(signals')
        /\ \A i \in DOMAIN signals' : i \in DOMAIN signals \/ i = Len(signals')
    BY <1>5, <1>6, AtTheEnd
  <2> QED
    BY <2>1
<1>11. \A t, x : Signalled(t, x) => Signalled(t, x)'
  BY <1>10 DEF Signalled
<1>12. \A t, x : Called(t, x) => Called(t, x)' \/ (t = "open" /\ x = id)
  BY <1>3 DEF Called
<1>13. Signalled(s.type, id)'
  BY <1>6, <1>10 DEF Signalled
<1>14. gui.terms \in Seq(TermRec)
  BY DEF IInv, Typed, GuiRec
<1>15. ListedIds(gui.terms) \subseteq Ids
  BY <1>14, TermIds
<1>16. Typed'
  BY <1>2, <1>3, <1>8, <1>10 DEF IInv, Typed
<1>17. PageFits' /\ Docked'
  BY <1>2 DEF IInv, PageFits, Docked
<1>18. WorkerFits'
  <2>1. \A x \in Ids : phase'[x] # "none" => up'
    BY <1>2, <1>8 DEF IInv, WorkerFits
  <2>2. \A x \in Ids : phase'[x] \in {"none", "failing", "finished"} => out'[x] = {}
    BY <1>2, <1>7, <1>8 DEF IInv, WorkerFits
  <2>3. \A i \in DOMAIN calls' :
          calls'[i].op = "retire" \/ \E k \in DOMAIN calls : calls'[i] = calls[k]
    BY <1>3
  <2>4. s.type # "connected" /\ s.type \notin Outcomes
    BY <1>8 DEF Outcomes
  <2> QED
    BY <1>2, <1>6, <1>9, <2>1, <2>2, <2>3, <2>4, WorkerSays
<1>19. UnbornFits'
  <2> SUFFICES ASSUME NEW x \in Ids, Unborn(x)'
               PROVE  /\ x \notin ListedIds(gui'.terms) /\ phase'[x] = "none" /\ unseen'[x] = {}
                      /\ \A i \in DOMAIN calls' : calls'[i].id # x
                      /\ \A i \in DOMAIN signals' : signals'[i].id # x
    BY DEF UnbornFits
  <2>1. Unborn(x)
    BY <1>2 DEF Unborn
  <2>2. /\ x \notin ListedIds(gui.terms) /\ phase[x] = "none" /\ unseen[x] = {}
        /\ \A i \in DOMAIN calls : calls[i].id # x
        /\ \A i \in DOMAIN signals : signals[i].id # x
    BY <2>1 DEF IInv, UnbornFits
  <2> QED
    BY <1>2, <1>3, <1>6, <1>8, <1>10, <2>2
<1>20. OpensFit'
  <2> SUFFICES ASSUME NEW i \in DOMAIN calls', calls'[i].op \in Opens
               PROVE  /\ calls'[i].id \in ListedIds(gui'.terms)
                      /\ phase'[calls'[i].id] = "none" /\ unseen'[calls'[i].id] = {}
                      /\ \A j \in DOMAIN signals' : signals'[j].id # calls'[i].id
                      /\ \A j \in DOMAIN calls' : calls'[j].id = calls'[i].id => i <= j /\ calls'[j].op # "retire"
    BY DEF OpensFit
  <2>1. i + 1 \in DOMAIN calls /\ calls'[i] = calls[i + 1] /\ i \in Nat /\ i >= 1
    BY <1>3
  <2>2. PICK y : y = calls'[i].id
    OBVIOUS
  <2>3. /\ y \in ListedIds(gui.terms) /\ phase[y] = "none" /\ unseen[y] = {}
        /\ \A j \in DOMAIN signals : signals[j].id # y
        /\ \A j \in DOMAIN calls : calls[j].id = y => i + 1 <= j /\ calls[j].op # "retire"
    BY <2>1, <2>2 DEF IInv, OpensFit
  <2>4. y # id
    <3> SUFFICES ASSUME y = id PROVE FALSE
      OBVIOUS
    <3>1. i + 1 = 1
      BY <1>7, <2>1, <2>2
    <3> QED
      BY <2>1, <3>1
  <2>5. ASSUME NEW j \in DOMAIN calls', calls'[j].id = y
        PROVE  i <= j /\ calls'[j].op # "retire"
    <3>1. i + 1 <= j + 1 /\ calls[j + 1].op # "retire" /\ i \in Nat /\ j \in Nat
      BY <1>3, <2>3, <2>5
    <3> QED
      BY <1>3, <3>1
  <2>6. \A j \in DOMAIN signals' : signals'[j].id # y
    BY <1>6, <1>10, <2>3, <2>4
  <2>7. y \in ListedIds(gui'.terms) /\ phase'[y] = "none" /\ unseen'[y] = {}
    BY <1>2, <1>8, <1>15, <2>3, <2>4
  <2> QED
    BY <2>2, <2>5, <2>6, <2>7
<1>21. EndsFit'
  <2>1. \A i \in DOMAIN calls' : calls'[i].op = "close" => calls'[i].id \in asked'
    BY <1>2, <1>3 DEF IInv, EndsFit
  <2>2. ASSUME NEW i \in DOMAIN calls', calls'[i].op = "retire"
        PROVE  phase'[calls'[i].id] \in {"finished", "none"}
    <3>1. calls[i + 1] \in CallRec /\ phase[calls[i + 1].id] \in {"finished", "none"} /\ calls[i + 1].id # id
      BY <1>3, <1>7, <2>2 DEF IInv, EndsFit, Typed
    <3>2. calls[i + 1].id \in Ids
      BY <3>1, CallTypes
    <3> QED
      BY <1>3, <1>8, <3>1, <3>2
  <2>3. ASSUME NEW i \in DOMAIN signals', signals'[i].type \in {"closed", "openFailed"}
        PROVE  phase'[signals'[i].id] = "none"
    <3>1. CASE i \in DOMAIN signals
      <4>1. signals'[i] = signals[i] /\ signals[i] \in SignalRec /\ phase[signals[i].id] = "none"
        BY <1>5, <1>10, <2>3, <3>1 DEF IInv, EndsFit
      <4>2. signals[i].id \in Ids /\ signals[i].id # id
        BY <1>7, <2>3, <3>1, <4>1, SignalTypes DEF AboutTerminal
      <4> QED
        BY <1>8, <4>1, <4>2
    <3>2. CASE signals'[i] = s
      BY <1>6, <1>8, <2>3, <3>2
    <3> QED
      BY <1>10, <3>1, <3>2
  <2>4. ASSUME NEW i \in DOMAIN signals', signals'[i].type = "failed"
        PROVE  phase'[signals'[i].id] \in {"failing", "none"} \/ Called("retire", signals[i].id)'
    <3>1. i \in DOMAIN signals /\ signals'[i] = signals[i]
      BY <1>8, <1>10, <2>4
    <3>2. signals[i] \in SignalRec /\ signals[i].id # id
      BY <1>5, <1>7, <3>1
    <3>3. signals[i].id \in Ids
      BY <2>4, <3>1, <3>2, SignalTypes DEF AboutTerminal
    <3>4. phase[signals[i].id] \in {"failing", "none"} \/ Called("retire", signals[i].id)
      BY <2>4, <3>1 DEF IInv, EndsFit
    <3> QED
      BY <1>8, <1>12, <3>1, <3>2, <3>3, <3>4
  <2>5. ASSUME NEW i \in DOMAIN signals', NEW j \in DOMAIN signals',
               signals'[i].type = "closed", i < j, signals'[j].type = "data"
        PROVE  signals'[j].id # signals'[i].id
    BY <1>8, <1>10, <2>5 DEF IInv, EndsFit
  <2> QED
    BY <2>1, <2>2, <2>3, <2>4, <2>5 DEF EndsFit
<1>22. OutputFits'
  <2> SUFFICES ASSUME NEW x \in gui'.panes,
                      phase'[x] # "none" \/ (Signalled("closed", x)' /\ x \notin asked'),
                      NEW chunk \in unseen'[x]
               PROVE  \/ chunk \in out'[x]
                      \/ \E i \in DOMAIN signals' : /\ signals'[i].type = "data" /\ signals'[i].id = x
                                                    /\ chunk \in signals'[i].chunks
    BY DEF OutputFits
  <2>1. x \in gui.panes /\ x \in Ids
    BY <1>2 DEF IInv, Typed, GuiRec
  <2>2. Signalled("closed", x)' => Signalled("closed", x)
    BY <1>8, <1>10 DEF Signalled
  <2>3. x # id
    BY <1>2, <1>7
  <2>4. \/ chunk \in out[x]
        \/ \E i \in DOMAIN signals : /\ signals[i].type = "data" /\ signals[i].id = x
                                     /\ chunk \in signals[i].chunks
    BY <1>2, <1>8, <2>1, <2>2, <2>3 DEF IInv, OutputFits
  <2> QED
    BY <1>2, <1>10, <2>4
<1>23. Ledger'
  <2> SUFFICES ASSUME up'
               PROVE  /\ \A x \in ListedIds(gui'.terms) :
                           phase'[x] # "none" \/ Called("open", x)' \/ Signalled("openFailed", x)' \/ Signalled("closed", x)'
                      /\ \A x \in Ids :
                           phase'[x] # "none" => x \in ListedIds(gui'.terms) \/ phase'[x] = "failing" \/ Called("retire", x)'
                      /\ \A i \in DOMAIN gui'.terms :
                           gui'.terms[i].state # "Open" =>
                             Called("open", gui.terms[i].id)' \/ \E t \in {"connected", "opened", "openFailed", "closed"} : Signalled(t, gui.terms[i].id)'
                      /\ \A x \in gui'.closing : Called("close", x)' \/ Signalled("closed", x)' \/ Signalled("openFailed", x)'
    BY DEF Ledger
  <2>0. up /\ gui' = gui
    BY <1>2
  <2>1. ASSUME NEW x \in ListedIds(gui.terms)
        PROVE  phase'[x] # "none" \/ Called("open", x)' \/ Signalled("openFailed", x)' \/ Signalled("closed", x)'
    <3>1. phase[x] # "none" \/ Called("open", x) \/ Signalled("openFailed", x) \/ Signalled("closed", x)
      BY <2>0 DEF IInv, Ledger
    <3>2. x \in Ids
      BY <1>15
    <3>3. CASE x = id
      BY <1>8, <1>13, <3>3
    <3>4. CASE x # id
      BY <1>8, <1>11, <1>12, <3>1, <3>2, <3>4
    <3> QED
      BY <3>3, <3>4
  <2>2. ASSUME NEW x \in Ids, phase'[x] # "none"
        PROVE  x \in ListedIds(gui.terms) \/ phase'[x] = "failing" \/ Called("retire", x)'
    <3>1. CASE x = id
      BY <1>7, <3>1
    <3>2. CASE x # id
      <4>1. x \in ListedIds(gui.terms) \/ phase[x] = "failing" \/ Called("retire", x)
        BY <1>8, <2>0, <2>2, <3>2 DEF IInv, Ledger
      <4> QED
        BY <1>8, <1>12, <3>2, <4>1
    <3> QED
      BY <3>1, <3>2
  <2>3. ASSUME NEW i \in DOMAIN gui.terms, gui.terms[i].state # "Open"
        PROVE  Called("open", gui.terms[i].id)' \/ \E t \in {"connected", "opened", "openFailed", "closed"} : Signalled(t, gui.terms[i].id)'
    <3>1. PICK y : y = gui.terms[i].id
      OBVIOUS
    <3>2. Called("open", y) \/ \E t \in {"connected", "opened", "openFailed", "closed"} : Signalled(t, y)
      BY <2>0, <2>3, <3>1 DEF IInv, Ledger
    <3>3. Called("open", y)' \/ \E t \in {"connected", "opened", "openFailed", "closed"} : Signalled(t, y)'
      BY <1>8, <1>11, <1>12, <1>13, <3>2
    <3>4. gui'.terms[i].id = y
      BY <2>0, <3>1
    <3> QED
      BY <3>3, <3>4
  <2>4. ASSUME NEW x \in gui.closing
        PROVE  Called("close", x)' \/ Signalled("closed", x)' \/ Signalled("openFailed", x)'
    BY <1>11, <1>12, <2>0 DEF IInv, Ledger
  <2> QED
    BY <2>0, <2>1, <2>2, <2>3, <2>4
<1> QED
  BY <1>16, <1>17, <1>18, <1>19, <1>20, <1>21, <1>22, <1>23 DEF IInv

\* connectToHost: the connection and the first shell, or an error.
LEMMA HostConnected ==
  ASSUME IInv, ConnectToHost
  PROVE  IInv'
<1>1. PICK id : id = Head(calls).id
  OBVIOUS
<1>2. /\ calls # <<>> /\ calls' = Tail(calls) /\ Head(calls).op = "connect"
      /\ UNCHANGED <<session, gui, logs, created, unseen, asked, out>>
      /\ \/ /\ up' = TRUE /\ phase' = [phase EXCEPT ![id] = "open"]
            /\ signals' = signals \o <<Signal("connected", id), Signal("opened", id)>>
         \/ up' = up /\ phase' = phase /\ signals' = Append(signals, Signal("error", None))
  BY <1>1 DEF ConnectToHost, RunSlot, Posted, ShellOpens
<1>3. /\ calls' \in Seq(CallRec) /\ 1 \in DOMAIN calls /\ calls[1] \in CallRec
      /\ calls[1].op = "connect" /\ calls[1].id = id
      /\ \A i \in DOMAIN calls' : /\ i \in Nat /\ i >= 1 /\ i + 1 \in DOMAIN calls
                                  /\ calls'[i] = calls[i + 1]
      /\ \A i \in DOMAIN calls : /\ i \in Nat /\ i >= 1
                                 /\ i # 1 => i - 1 \in DOMAIN calls' /\ calls'[i - 1] = calls[i]
  <2>1. calls \in Seq(CallRec)
    BY DEF IInv, Typed
  <2> QED
    BY <1>1, <1>2, <2>1, FromTheHead
<1>4. id \in Ids
  BY <1>3, CallTypes
<1>5. /\ phase \in [Ids -> Phases] /\ out \in [Ids -> SUBSET Chunks] /\ signals \in Seq(SignalRec)
  BY DEF IInv, Typed
<1>6. /\ id \in ListedIds(gui.terms) /\ phase[id] = "none" /\ unseen[id] = {}
      /\ \A j \in DOMAIN signals : signals[j].id # id
      /\ \A j \in DOMAIN calls : calls[j].id = id => 1 <= j /\ calls[j].op # "retire"
      /\ \A j \in DOMAIN calls : calls[j].id = id /\ calls[j].op \in Opens => j = 1
  <2>1. /\ id \in ListedIds(gui.terms) /\ phase[id] = "none" /\ unseen[id] = {}
        /\ \A j \in DOMAIN signals : signals[j].id # id
        /\ \A j \in DOMAIN calls : calls[j].id = id => 1 <= j /\ calls[j].op # "retire"
    BY <1>3 DEF IInv, OpensFit, Opens
  <2>2. ASSUME NEW j \in DOMAIN calls, calls[j].id = id, calls[j].op \in Opens PROVE j = 1
    <3>1. j <= 1
      BY <1>3, <2>2 DEF IInv, OpensFit
    <3> QED
      BY <1>3, <3>1
  <2> QED
    BY <2>1, <2>2
<1>7. /\ session = "Connecting" /\ ~up
      /\ \A j \in DOMAIN signals : signals[j].type \notin Outcomes
  BY <1>3 DEF IInv, WorkerFits
<1>8. /\ ListedIds(gui.terms) = {id} /\ gui.active = id /\ gui.closing = {}
      /\ \A x \in Ids : phase[x] = "none"
      /\ \A x \in Ids : out[x] = {}
  <2>1. /\ ListedIds(gui.terms) = {id} /\ gui.active = id /\ gui.closing = {}
    BY <1>6, <1>7 DEF IInv, PageFits
  <2> QED
    BY <1>7, <2>1 DEF IInv, WorkerFits
<1>9. \A i \in DOMAIN calls' : calls'[i].op \notin Opens
  <2> SUFFICES ASSUME NEW i \in DOMAIN calls', calls'[i].op \in Opens PROVE FALSE
    OBVIOUS
  <2>1. i + 1 \in DOMAIN calls /\ calls'[i] = calls[i + 1] /\ i \in Nat /\ i >= 1
    BY <1>3
  <2>2. calls[i + 1].id = id
    BY <1>8, <2>1 DEF IInv, OpensFit
  <2>3. i + 1 = 1
    BY <1>6, <2>1, <2>2
  <2> QED
    BY <2>1, <2>3
<1>10. OpensFit'
  BY <1>9 DEF OpensFit
<1>11. PageFits' /\ Docked'
  BY <1>2 DEF IInv, PageFits, Docked
<1>12. \A x \in Ids : Unborn(x) => x # id
  BY <1>6 DEF IInv, UnbornFits
<1>13. \A x \in Ids : Unborn(x)' = Unborn(x)
  BY <1>2 DEF Unborn
<1>14. \A i \in DOMAIN calls' : calls'[i].op = "close" => calls'[i].id \in asked'
  BY <1>2, <1>3 DEF IInv, EndsFit
<1>15. \A i \in DOMAIN calls' : calls'[i].op = "retire" => calls'[i].id \in Ids /\ calls'[i].id # id
  BY <1>3, <1>6, CallTypes DEF IInv, Typed
<1>16. CASE signals' = Append(signals, Signal("error", None)) /\ up' = up /\ phase' = phase
  <2>1. PICK s \in SignalRec : s.type = "error" /\ s.id = None /\ signals' = Append(signals, s)
    BY <1>16, SignalTypes
  <2>2. /\ signals' \in Seq(SignalRec)
        /\ \A i \in DOMAIN signals : i \in DOMAIN signals' /\ signals'[i] = signals[i] /\ i \in Nat
        /\ \A i \in DOMAIN signals' : i \in DOMAIN signals \/ signals'[i] = s
    BY <1>5, <2>1, AtTheEnd
  <2>3. Typed'
    BY <1>2, <1>3, <1>16, <2>2 DEF IInv, Typed
  <2>4. WorkerFits'
    <3>1. \A i \in DOMAIN calls' :
            calls'[i].op = "retire" \/ \E k \in DOMAIN calls : calls'[i] = calls[k]
      BY <1>3
    <3>2. \A i \in DOMAIN calls' : calls'[i].op # "connect"
      BY <1>9 DEF Opens
    <3>3. s.id # gui.active
      BY <1>4, <1>8, <2>1, SignalTypes
    <3>4. s.type # "connected"
      BY <2>1
    <3>5. /\ \A x \in Ids : phase'[x] # "none" => up'
          /\ \A x \in Ids : phase'[x] \in {"none", "failing", "finished"} => out'[x] = {}
      BY <1>2, <1>8, <1>16
    <3> QED
      BY <1>2, <1>7, <1>16, <2>1, <3>1, <3>2, <3>3, <3>4, <3>5, WorkerSays
  <2>5. UnbornFits'
    BY <1>2, <1>3, <1>13, <1>16, <2>1, <2>2, SignalTypes DEF IInv, UnbornFits
  <2>6. EndsFit'
    <3>1. \A i \in DOMAIN calls' : calls'[i].op = "retire" => phase'[calls'[i].id] \in {"finished", "none"}
      BY <1>8, <1>15, <1>16
    <3>2. \A i \in DOMAIN signals' : signals'[i].type \in {"closed", "openFailed", "failed"} =>
            phase'[signals'[i].id] = "none"
      BY <1>5, <1>8, <1>16, <2>1, <2>2, SignalTypes DEF AboutTerminal
    <3>3. \A i, j \in DOMAIN signals' :
            signals'[i].type = "closed" /\ i < j /\ signals'[j].type = "data" => signals'[j].id # signals'[i].id
      BY <2>1, <2>2 DEF IInv, EndsFit
    <3> QED
      BY <1>14, <3>1, <3>2, <3>3 DEF EndsFit
  <2>7. OutputFits'
    <3>1. \A x : Signalled("closed", x)' => Signalled("closed", x)
      BY <2>1, <2>2 DEF Signalled
    <3> SUFFICES ASSUME NEW x \in gui'.panes,
                        phase'[x] # "none" \/ (Signalled("closed", x)' /\ x \notin asked'),
                        NEW chunk \in unseen'[x]
                 PROVE  \/ chunk \in out'[x]
                        \/ \E i \in DOMAIN signals' : /\ signals'[i].type = "data" /\ signals'[i].id = x
                                                      /\ chunk \in signals'[i].chunks
      BY DEF OutputFits
    <3>2. \/ chunk \in out[x]
          \/ \E i \in DOMAIN signals : /\ signals[i].type = "data" /\ signals[i].id = x
                                       /\ chunk \in signals[i].chunks
      BY <1>2, <1>16, <3>1 DEF IInv, OutputFits
    <3> QED
      BY <1>2, <2>2, <3>2
  <2>8. Ledger'
    BY <1>7, <1>16 DEF Ledger
  <2> QED
    BY <1>10, <1>11, <2>3, <2>4, <2>5, <2>6, <2>7, <2>8 DEF IInv
<1>17. CASE /\ up' = TRUE /\ phase' = [phase EXCEPT ![id] = "open"]
            /\ signals' = signals \o <<Signal("connected", id), Signal("opened", id)>>
  <2>1. PICK a \in SignalRec, b \in SignalRec :
          /\ a.type = "connected" /\ a.id = id /\ b.type = "opened" /\ b.id = id
          /\ signals' = signals \o <<a, b>>
    <3>1. /\ Signal("connected", id) \in SignalRec /\ Signal("opened", id) \in SignalRec
          /\ Signal("connected", id).type = "connected" /\ Signal("opened", id).type = "opened"
          /\ Signal("connected", id).id = id /\ Signal("opened", id).id = id
      BY <1>4, SignalTypes DEF AboutTerminal
    <3> QED
      BY <1>17, <3>1
  <2>2. PICK n \in Nat : n = Len(signals) + 1
    BY <1>5
  <2>3. /\ signals' \in Seq(SignalRec)
        /\ \A i \in DOMAIN signals : i \in DOMAIN signals' /\ signals'[i] = signals[i] /\ i \in Nat /\ i >= 1 /\ i < n
        /\ \A i \in DOMAIN signals' : i \in Nat /\ i >= 1 /\ (i \in DOMAIN signals \/ i = n \/ i = n + 1)
        /\ n \in DOMAIN signals' /\ n + 1 \in DOMAIN signals' /\ signals'[n] = a /\ signals'[n + 1] = b
        /\ n >= 1
    <3>1. <<a, b>> \in Seq(SignalRec) /\ Len(<<a, b>>) = 2 /\ DOMAIN <<a, b>> = 1 .. 2
          /\ <<a, b>>[1] = a /\ <<a, b>>[2] = b
      OBVIOUS
    <3>2. PICK p \in Seq(SignalRec) : p = <<a, b>>
      BY <3>1
    <3> DEFINE q == signals
               r == signals'
    <3>3. q \in Seq(SignalRec) /\ r = q \o p
      BY <1>5, <2>1, <3>2
    <3> HIDE DEF q, r
    <3>4. /\ r \in Seq(SignalRec) /\ Len(q) \in Nat
          /\ \A i \in DOMAIN q : i \in DOMAIN r /\ r[i] = q[i] /\ i \in Nat /\ i >= 1 /\ i <= Len(q)
      BY <3>3, Joined
    <3>5. \A m \in DOMAIN p : Len(q) + m \in DOMAIN r /\ r[Len(q) + m] = p[m]
      BY <3>3, Joined
    <3>6. DOMAIN p = {1, 2} /\ p[1] = a /\ p[2] = b
      BY <3>1, <3>2
    <3>7. \A i \in DOMAIN r : i \in Nat /\ i >= 1
      BY <3>4
    <3>8. \A i \in DOMAIN r : i \in DOMAIN q \/ i = Len(q) + 1 \/ i = Len(q) + 2
      <4>1. Len(r) = Len(q) + Len(p) /\ Len(p) = 2
        BY <3>1, <3>2, <3>3, Joined
      <4>2. DOMAIN r = 1 .. Len(r) /\ DOMAIN q = 1 .. Len(q) /\ Len(q) \in Nat
        BY <3>3, <3>4
      <4>3. PICK k \in Nat : k = Len(q)
        <5>1. Len(q) \in Nat
          BY <4>2
        <5> QED
          BY <5>1
      <4>4. DOMAIN r = 1 .. k + 2 /\ DOMAIN q = 1 .. k
        BY <4>1, <4>2, <4>3
      <4>5. \A i \in 1 .. k + 2 : i \in 1 .. k \/ i = k + 1 \/ i = k + 2
        OBVIOUS
      <4> QED
        BY <4>3, <4>4, <4>5
    <3>9. /\ Len(q) + 1 \in DOMAIN r /\ r[Len(q) + 1] = a
          /\ Len(q) + 2 \in DOMAIN r /\ r[Len(q) + 2] = b
      BY <3>5, <3>6
    <3>10. n + 1 = Len(q) + 2 /\ n = Len(q) + 1
      BY <2>2, <3>4 DEF q
    <3>11. \A i \in DOMAIN q : i < n
      BY <3>4, <3>10
    <3> QED
      BY <3>4, <3>7, <3>8, <3>9, <3>10, <3>11 DEF q, r
  <2>4. /\ phase' \in [Ids -> Phases] /\ phase'[id] = "open"
        /\ \A x \in Ids : x # id => phase'[x] = "none"
    BY <1>4, <1>5, <1>8, <1>17 DEF Phases
  <2>5. \A i \in DOMAIN signals' :
          /\ signals'[i].id = id => i = n \/ i = n + 1
          /\ signals'[i].id # id => i \in DOMAIN signals
          /\ signals'[i].type \notin {"connected", "opened"} => i \in DOMAIN signals
    BY <1>6, <2>1, <2>3
  <2>6. Signalled("connected", id)'
    BY <2>1, <2>3 DEF Signalled
  <2>7. Typed'
    BY <1>2, <1>3, <1>17, <2>3, <2>4 DEF IInv, Typed
  <2>8. WorkerFits'
    <3>1. /\ \A x \in Ids : phase'[x] # "none" => up'
          /\ \A x \in Ids : phase'[x] \in {"none", "failing", "finished"} => out'[x] = {}
      BY <1>2, <1>8, <1>17
    <3>2. \A i \in DOMAIN signals' : signals'[i].type = "connected" => i = n
      <4> SUFFICES ASSUME NEW i \in DOMAIN signals', signals'[i].type = "connected" PROVE i = n
        OBVIOUS
      <4>1. i \notin DOMAIN signals
        BY <1>7, <2>3 DEF Outcomes
      <4>2. i # n + 1
        BY <2>1, <2>3
      <4> QED
        BY <2>3, <4>1, <4>2
    <3>3. \A i \in DOMAIN calls' : calls'[i].op \notin {"connect", "open"}
      BY <1>9 DEF Opens
    <3>4. ASSUME NEW i \in DOMAIN signals', signals'[i].id = gui'.active, signals'[i].type # "connected"
          PROVE  \E j \in 1 .. i - 1 : signals'[j].type = "connected"
      <4>1. i = n + 1
        BY <1>2, <1>8, <2>1, <2>3, <2>5, <3>4
      <4>2. n \in 1 .. i - 1
        BY <2>3, <4>1
      <4> QED
        BY <2>1, <2>3, <4>2
    <3>5. \A i \in DOMAIN signals' : signals'[i].type = "connected" =>
            session' = "Connecting" /\ signals'[i].id = gui'.active
      BY <1>2, <1>7, <1>8, <2>1, <2>3, <3>2
    <3>6. session' = "Connecting" /\ gui'.active = id
      BY <1>2, <1>7, <1>8
    <3>7. Signalled("connected", gui.active)'
      BY <2>1, <2>3, <3>6 DEF Signalled
    <3> QED
      BY <3>1, <3>2, <3>3, <3>4, <3>5, <3>6, <3>7 DEF WorkerFits
  <2>9. UnbornFits'
    <3> SUFFICES ASSUME NEW x \in Ids, Unborn(x)'
                 PROVE  /\ x \notin ListedIds(gui'.terms) /\ phase'[x] = "none" /\ unseen'[x] = {}
                        /\ \A i \in DOMAIN calls' : calls'[i].id # x
                        /\ \A i \in DOMAIN signals' : signals'[i].id # x
      BY DEF UnbornFits
    <3>1. x # id
      BY <1>12, <1>13
    <3>2. /\ x \notin ListedIds(gui.terms) /\ phase[x] = "none" /\ unseen[x] = {}
          /\ \A i \in DOMAIN calls : calls[i].id # x
          /\ \A i \in DOMAIN signals : signals[i].id # x
      BY <1>13 DEF IInv, UnbornFits
    <3> QED
      BY <1>2, <1>3, <2>3, <2>4, <2>5, <3>1, <3>2
  <2>10. EndsFit'
    <3>1. \A i \in DOMAIN calls' : calls'[i].op = "retire" => phase'[calls'[i].id] \in {"finished", "none"}
      BY <1>15, <2>4
    <3>2. \A i \in DOMAIN signals' : signals'[i].type \in {"closed", "openFailed", "failed"} =>
            phase'[signals'[i].id] = "none"
      <4> SUFFICES ASSUME NEW i \in DOMAIN signals', signals'[i].type \in {"closed", "openFailed", "failed"}
                   PROVE  phase'[signals'[i].id] = "none"
        OBVIOUS
      <4>1. i \in DOMAIN signals /\ signals'[i] = signals[i] /\ signals[i] \in SignalRec
        BY <1>5, <2>3, <2>5
      <4>2. signals[i].id \in Ids /\ signals[i].id # id
        BY <1>6, <4>1, SignalTypes DEF AboutTerminal
      <4> QED
        BY <2>4, <4>1, <4>2
    <3>3. \A i, j \in DOMAIN signals' :
            signals'[i].type = "closed" /\ i < j /\ signals'[j].type = "data" => signals'[j].id # signals'[i].id
      BY <2>3, <2>5 DEF IInv, EndsFit
    <3> QED
      BY <1>14, <3>1, <3>2, <3>3 DEF EndsFit
  <2>11. OutputFits'
    <3>1. \A x : Signalled("closed", x)' => Signalled("closed", x)
      BY <2>3, <2>5 DEF Signalled
    <3> SUFFICES ASSUME NEW x \in gui'.panes,
                        phase'[x] # "none" \/ (Signalled("closed", x)' /\ x \notin asked'),
                        NEW chunk \in unseen'[x]
                 PROVE  \/ chunk \in out'[x]
                        \/ \E i \in DOMAIN signals' : /\ signals'[i].type = "data" /\ signals'[i].id = x
                                                      /\ chunk \in signals'[i].chunks
      BY DEF OutputFits
    <3>2. x # id /\ x \in Ids
      BY <1>2, <1>6 DEF IInv, Typed, GuiRec
    <3>3. \/ chunk \in out[x]
          \/ \E i \in DOMAIN signals : /\ signals[i].type = "data" /\ signals[i].id = x
                                       /\ chunk \in signals[i].chunks
      BY <1>2, <2>4, <3>1, <3>2 DEF IInv, OutputFits
    <3> QED
      BY <1>2, <2>3, <3>3
  <2>12. Ledger'
    <3> SUFFICES ASSUME up'
                 PROVE  /\ \A x \in ListedIds(gui'.terms) :
                             phase'[x] # "none" \/ Called("open", x)' \/ Signalled("openFailed", x)' \/ Signalled("closed", x)'
                        /\ \A x \in Ids :
                             phase'[x] # "none" => x \in ListedIds(gui'.terms) \/ phase'[x] = "failing" \/ Called("retire", x)'
                        /\ \A i \in DOMAIN gui'.terms :
                             gui'.terms[i].state # "Open" =>
                               Called("open", gui.terms[i].id)' \/ \E t \in {"connected", "opened", "openFailed", "closed"} : Signalled(t, gui.terms[i].id)'
                        /\ \A x \in gui'.closing : Called("close", x)' \/ Signalled("closed", x)' \/ Signalled("openFailed", x)'
      BY DEF Ledger
    <3>1. \A i \in DOMAIN gui'.terms : gui'.terms[i].id = id
      BY <1>2, <1>8 DEF ListedIds
    <3>2. \A i \in DOMAIN gui'.terms : Signalled("connected", gui.terms[i].id)'
      BY <2>1, <2>3, <3>1 DEF Signalled
    <3>3. ListedIds(gui'.terms) = {id} /\ gui'.closing = {}
      BY <1>2, <1>8
    <3> QED
      BY <2>4, <3>2, <3>3
  <2> QED
    BY <1>10, <1>11, <2>7, <2>8, <2>9, <2>10, <2>11, <2>12 DEF IInv
<1> QED
  BY <1>2, <1>16, <1>17

\* A connection that is lost: no shell is left, and the session is to be told.
LEMMA LostConnection ==
  ASSUME IInv, ConnectionLost
  PROVE  IInv'
<1>1. /\ up /\ up' = FALSE /\ phase' = [x \in Ids |-> "none"] /\ out' = [x \in Ids |-> {}]
      /\ signals' = Append(signals, Signal("disconnected", None))
      /\ UNCHANGED <<session, gui, logs, created, calls, unseen, asked>>
  BY DEF ConnectionLost, Detached, Posted
<1>2. PICK s \in SignalRec : s.type = "disconnected" /\ s.id = None /\ signals' = Append(signals, s)
  BY <1>1, SignalTypes
<1>3. /\ phase \in [Ids -> Phases] /\ out \in [Ids -> SUBSET Chunks] /\ signals \in Seq(SignalRec)
  BY DEF IInv, Typed
<1>4. /\ signals' \in Seq(SignalRec)
      /\ \A i \in DOMAIN signals : i \in DOMAIN signals' /\ signals'[i] = signals[i] /\ i \in Nat
      /\ \A i \in DOMAIN signals' : i \in DOMAIN signals \/ signals'[i] = s
  BY <1>2, <1>3, AtTheEnd
<1>5. /\ phase' \in [Ids -> Phases] /\ out' \in [Ids -> SUBSET Chunks]
      /\ \A x \in Ids : phase'[x] = "none" /\ out'[x] = {}
  BY <1>1 DEF Phases
<1>6. Typed'
  BY <1>1, <1>4, <1>5 DEF IInv, Typed
<1>7. PageFits' /\ Docked'
  BY <1>1 DEF IInv, PageFits, Docked
<1>8. WorkerFits'
  <2>1. session \in {"Connecting", "Connected"}
    BY <1>1 DEF IInv, Typed, WorkerFits
  <2>2. \A i \in DOMAIN calls' :
          calls'[i].op = "retire" \/ \E k \in DOMAIN calls : calls'[i] = calls[k]
    BY <1>1
  <2>3. s.type # "connected"
    BY <1>2
  <2>4. /\ \A x \in Ids : phase'[x] # "none" => up'
        /\ \A x \in Ids : phase'[x] \in {"none", "failing", "finished"} => out'[x] = {}
    BY <1>5
  <2> QED
    BY <1>1, <1>2, <2>1, <2>2, <2>3, <2>4, WorkerSays
<1>9. UnbornFits'
  <2>1. \A x \in Ids : Unborn(x)' = Unborn(x)
    BY <1>1 DEF Unborn
  <2> QED
    BY <1>1, <1>2, <1>4, <1>5, <2>1, SignalTypes DEF IInv, UnbornFits
<1>10. \A i \in DOMAIN calls : calls[i].id \in Ids
  BY CallTypes DEF IInv, Typed
<1>11. OpensFit'
  <2> SUFFICES ASSUME NEW i \in DOMAIN calls', calls'[i].op \in Opens
               PROVE  /\ calls'[i].id \in ListedIds(gui'.terms)
                      /\ phase'[calls'[i].id] = "none" /\ unseen'[calls'[i].id] = {}
                      /\ \A j \in DOMAIN signals' : signals'[j].id # calls'[i].id
                      /\ \A j \in DOMAIN calls' : calls'[j].id = calls'[i].id => i <= j /\ calls'[j].op # "retire"
    BY DEF OpensFit
  <2>1. /\ calls[i].id \in ListedIds(gui.terms) /\ unseen[calls[i].id] = {}
        /\ \A j \in DOMAIN signals : signals[j].id # calls[i].id
        /\ \A j \in DOMAIN calls : calls[j].id = calls[i].id => i <= j /\ calls[j].op # "retire"
    BY <1>1 DEF IInv, OpensFit
  <2>2. calls[i].id # None /\ phase'[calls[i].id] = "none"
    BY <1>1, <1>5, <1>10, SignalTypes
  <2> QED
    BY <1>1, <1>2, <1>4, <2>1, <2>2
<1>12. EndsFit'
  <2>1. /\ \A i \in DOMAIN calls' : calls'[i].op = "close" => calls'[i].id \in asked'
        /\ \A i \in DOMAIN calls' : calls'[i].op = "retire" => phase'[calls'[i].id] \in {"finished", "none"}
    BY <1>1, <1>5, <1>10 DEF IInv, EndsFit
  <2>2. \A i \in DOMAIN signals' : signals'[i].type \in {"closed", "openFailed", "failed"} =>
          phase'[signals'[i].id] = "none"
    BY <1>2, <1>3, <1>4, <1>5, SignalTypes DEF AboutTerminal
  <2>3. \A i, j \in DOMAIN signals' :
          signals'[i].type = "closed" /\ i < j /\ signals'[j].type = "data" => signals'[j].id # signals'[i].id
    BY <1>2, <1>4 DEF IInv, EndsFit
  <2> QED
    BY <2>1, <2>2, <2>3 DEF EndsFit
<1>13. OutputFits'
  <2> SUFFICES ASSUME NEW x \in gui'.panes,
                      phase'[x] # "none" \/ (Signalled("closed", x)' /\ x \notin asked'),
                      NEW chunk \in unseen'[x]
               PROVE  \/ chunk \in out'[x]
                      \/ \E i \in DOMAIN signals' : /\ signals'[i].type = "data" /\ signals'[i].id = x
                                                    /\ chunk \in signals'[i].chunks
    BY DEF OutputFits
  <2>1. x \in gui.panes /\ x \in Ids
    BY <1>1 DEF IInv, Typed, GuiRec
  <2>2. Signalled("closed", x) /\ x \notin asked
    BY <1>1, <1>2, <1>4, <1>5, <2>1 DEF Signalled
  <2>3. phase[x] = "none"
    BY <2>2 DEF IInv, EndsFit, Signalled
  <2>4. out[x] = {}
    BY <2>1, <2>3 DEF IInv, WorkerFits
  <2>5. \E i \in DOMAIN signals : /\ signals[i].type = "data" /\ signals[i].id = x
                                  /\ chunk \in signals[i].chunks
    BY <1>1, <2>1, <2>2, <2>4 DEF IInv, OutputFits
  <2> QED
    BY <1>4, <2>5
<1>14. Ledger'
  BY <1>1 DEF Ledger
<1> QED
  BY <1>6, <1>7, <1>8, <1>9, <1>11, <1>12, <1>13, <1>14 DEF IInv

-----------------------------------------------------------------------------
(* The session begins and ends.                                            *)

\* The worker is given up: what is left is what was posted about terminals.
LEMMA WorkerReleased ==
  ASSUME IInv, DisconnectTransport \/ OnWorkerGone
  PROVE  IInv'
<1> DEFINE at == {i \in DOMAIN signals : signals[i].type \notin Outcomes}
           rest == Pick(signals, at)
<1>1. /\ session' \in {"Disconnected", "Failed"}
      /\ calls' = <<>> /\ up' = FALSE /\ phase' = [x \in Ids |-> "none"] /\ out' = [x \in Ids |-> {}]
      /\ signals' = rest /\ gui' = Cleared(gui) /\ logs' = None
      /\ UNCHANGED <<created, unseen, asked>>
  BY DEF DisconnectTransport, OnWorkerGone, ReleaseWorker, Detached
<1>2. /\ phase \in [Ids -> Phases] /\ out \in [Ids -> SUBSET Chunks] /\ signals \in Seq(SignalRec)
  BY DEF IInv, Typed
<1>3. at \subseteq DOMAIN signals
  OBVIOUS
<1>4. \A i \in DOMAIN signals : i \in Nat /\ signals[i] \in SignalRec
  BY <1>2
<1>5. /\ signals' \in Seq(SignalRec) /\ \A n \in DOMAIN signals' : n \in Nat
      /\ \A n \in DOMAIN signals' : \E i \in at : signals'[n] = signals[i]
      /\ \A i \in at : \E n \in DOMAIN signals' : signals'[n] = signals[i]
      /\ \A n, m \in DOMAIN signals' :
           n < m => \E i, k \in at : i < k /\ signals'[n] = signals[i] /\ signals'[m] = signals[k]
  <2> HIDE DEF at
  <2>1. /\ rest \in Seq(SignalRec) /\ DOMAIN rest = 1 .. Len(rest) /\ Len(rest) \in Nat
        /\ \A n \in DOMAIN rest : \E i \in at : rest[n] = signals[i]
        /\ \A i \in at : \E n \in DOMAIN rest : rest[n] = signals[i]
        /\ \A n, m \in DOMAIN rest :
             n < m => \E i, k \in at : i < k /\ rest[n] = signals[i] /\ rest[m] = signals[k]
    BY <1>2, <1>3, PickFacts
  <2> HIDE DEF rest
  <2> QED
    BY <1>1, <2>1
<1>6. \A n \in DOMAIN signals' : signals'[n].type \notin Outcomes /\ signals'[n] \in SignalRec
  BY <1>4, <1>5
<1> HIDE DEF rest
<1>7. /\ phase' \in [Ids -> Phases] /\ out' \in [Ids -> SUBSET Chunks]
      /\ \A x \in Ids : phase'[x] = "none" /\ out'[x] = {}
  BY <1>1 DEF Phases
<1>8. /\ gui' \in GuiRec /\ gui'.restore = Nothing /\ gui'.active = None
      /\ gui'.pinned = {} /\ gui'.closing = {} /\ gui'.panes = Visible(gui'.terms)
      /\ ListedIds(gui'.terms) = ListedIds(gui.terms) /\ Visible(gui'.terms) = Visible(gui.terms)
      /\ gui.panes = Visible(gui.terms)
  <2>1. gui \in GuiRec /\ gui.panes = Visible(gui.terms)
    BY DEF IInv, Typed, PageFits
  <2> QED
    BY <1>1, <2>1, ClearedFacts
<1>9. DOMAIN calls' = {}
  BY <1>1
<1>10. Typed'
  <2>0. <<>> \in Seq(CallRec)
    OBVIOUS
  <2>1. calls' \in Seq(CallRec) /\ up' \in BOOLEAN
    BY <1>1, <2>0
  <2>2. /\ created' \in 0 .. MaxIds /\ asked' \subseteq Ids /\ unseen' \in [Ids -> SUBSET Chunks]
        /\ session' \in {"Disconnected", "Connecting", "Connected", "Failed"}
        /\ logs' \in Ids \union {None}
    BY <1>1 DEF IInv, Typed
  <2> QED
    BY <1>5, <1>7, <1>8, <2>1, <2>2 DEF Typed
<1>11. PageFits' /\ Docked'
  BY <1>1, <1>8 DEF PageFits, Docked
<1>12. WorkerFits'
  BY <1>1, <1>6, <1>7, <1>9 DEF WorkerFits, Outcomes
<1>13. UnbornFits'
  <2> SUFFICES ASSUME NEW x \in Ids, Unborn(x)'
               PROVE  /\ x \notin ListedIds(gui'.terms) /\ phase'[x] = "none" /\ unseen'[x] = {}
                      /\ \A i \in DOMAIN calls' : calls'[i].id # x
                      /\ \A i \in DOMAIN signals' : signals'[i].id # x
    BY DEF UnbornFits
  <2>1. Unborn(x)
    BY <1>1, <1>8 DEF Unborn
  <2> QED
    BY <1>1, <1>3, <1>5, <1>7, <1>8, <1>9, <2>1 DEF IInv, UnbornFits
<1>14. OpensFit'
  BY <1>9 DEF OpensFit
<1>15. EndsFit'
  <2>1. \A i \in DOMAIN signals' : signals'[i].type \in {"closed", "openFailed", "failed"} =>
          phase'[signals'[i].id] = "none"
    BY <1>6, <1>7, SignalTypes DEF AboutTerminal
  <2>2. ASSUME NEW i \in DOMAIN signals', NEW j \in DOMAIN signals',
               signals'[i].type = "closed", i < j, signals'[j].type = "data"
        PROVE  signals'[j].id # signals'[i].id
    <3>1. PICK a \in at, b \in at : a < b /\ signals'[i] = signals[a] /\ signals'[j] = signals[b]
      BY <1>5, <2>2
    <3> QED
      BY <1>3, <2>2, <3>1 DEF IInv, EndsFit
  <2> QED
    BY <1>9, <2>1, <2>2 DEF EndsFit
<1>16. OutputFits'
  <2> SUFFICES ASSUME NEW x \in gui'.panes,
                      phase'[x] # "none" \/ (Signalled("closed", x)' /\ x \notin asked'),
                      NEW chunk \in unseen'[x]
               PROVE  \/ chunk \in out'[x]
                      \/ \E i \in DOMAIN signals' : /\ signals'[i].type = "data" /\ signals'[i].id = x
                                                    /\ chunk \in signals'[i].chunks
    BY DEF OutputFits
  <2>1. x \in gui.panes /\ x \in Ids
    BY <1>8 DEF IInv, Typed, GuiRec
  <2>2. Signalled("closed", x) /\ x \notin asked
    BY <1>1, <1>3, <1>5, <1>7, <2>1 DEF Signalled
  <2>3. phase[x] = "none"
    BY <2>2 DEF IInv, EndsFit, Signalled
  <2>4. out[x] = {}
    BY <2>1, <2>3 DEF IInv, WorkerFits
  <2>5. PICK i \in DOMAIN signals : /\ signals[i].type = "data" /\ signals[i].id = x
                                    /\ chunk \in signals[i].chunks
    BY <1>1, <2>1, <2>2, <2>4 DEF IInv, OutputFits
  <2>6. i \in at
    BY <2>5 DEF Outcomes
  <2>7. PICK n \in DOMAIN signals' : signals'[n] = signals[i]
    BY <1>5, <2>6
  <2> QED
    BY <2>5, <2>7
<1>17. Ledger'
  BY <1>1 DEF Ledger
<1> QED
  BY <1>10, <1>11, <1>12, <1>13, <1>14, <1>15, <1>16, <1>17 DEF IInv

\* A session that connects, with a workspace to restore or without.
LEMMA SessionConnects ==
  ASSUME IInv, NEW entry \in Entries, Connect(entry)
  PROVE  IInv'
<1>1. PICK first, last : /\ first = created + 1
                         /\ last = created + (IF entry.count > 1 THEN entry.count ELSE 1)
  OBVIOUS
<1>2. PICK t : t = <<Terminal(first, FALSE)>>
  OBVIOUS
<1> DEFINE u == [gui EXCEPT !.terms = t, !.active = first, !.restore = entry]
<1>3. /\ session \in {"Disconnected", "Failed"} /\ session' = "Connecting"
      /\ created = 0 \/ entry = Nothing
      /\ last <= MaxIds /\ created' = last /\ gui' = SyncPanes(u)
      /\ calls' = <<Call("connect", first)>>
      /\ unseen' = [x \in Ids |-> {}] /\ asked' = {}
      /\ UNCHANGED <<logs, up, phase, out, signals>>
  BY <1>1, <1>2 DEF Connect, workerVars
<1>4. MaxIds \in Nat /\ created \in Nat /\ created <= MaxIds /\ entry.count \in Nat
  BY LimitAssumption, EntriesAssumption DEF IInv, Typed
<1>5. /\ first \in Nat /\ last \in Nat /\ first >= 1 /\ created < first /\ first <= last
      /\ entry.count <= last
      /\ entry # Nothing => first = 1 /\ created = 0
  BY <1>1, <1>3, <1>4
<1>6. first \in Ids /\ last \in 0 .. MaxIds
  BY <1>3, <1>4, <1>5 DEF Ids
<1>7. /\ t \in Seq(TermRec) /\ DOMAIN t = {1} /\ t[1].id = first /\ t[1].aux = FALSE
  <2>1. Terminal(first, FALSE) \in TermRec /\ Terminal(first, FALSE).id = first /\ Terminal(first, FALSE).aux = FALSE
    BY <1>6 DEF Terminal, TermRec
  <2>2. t[1] = Terminal(first, FALSE) /\ Len(t) = 1
    BY <1>2
  <2>3. t \in Seq(TermRec)
    <3>1. PICK z \in TermRec : z = Terminal(first, FALSE)
      BY <2>1
    <3>2. <<z>> \in Seq(TermRec)
      OBVIOUS
    <3> QED
      BY <1>2, <3>1, <3>2
  <2>4. DOMAIN t = {1}
    BY <1>2
  <2> QED
    BY <2>1, <2>2, <2>3, <2>4
<1>8. ListedIds(t) = {first} /\ Visible(t) = {first}
  BY <1>7 DEF ListedIds, Visible
<1>9. u \in GuiRec /\ u.terms = t /\ u.active = first /\ u.restore = entry
      /\ u.pinned = gui.pinned /\ u.closing = gui.closing
  <2>1. gui \in GuiRec
    BY DEF IInv, Typed
  <2> QED
    BY <1>6, <1>7, <2>1 DEF GuiRec
<1> HIDE DEF u
<1>10. /\ gui' \in GuiRec /\ gui'.terms = t /\ gui'.active = first /\ gui'.restore = entry
       /\ gui'.panes = {first} /\ gui'.pinned \subseteq gui.pinned
       /\ \A x \in Ids : x \in gui'.closing <=> x \in gui.closing /\ x \in {first}
  BY <1>3, <1>8, <1>9, SyncFacts
<1>11. gui.pinned = {} /\ gui.closing = {}
  BY <1>3 DEF IInv, PageFits
<1>12. gui'.pinned = {} /\ gui'.closing = {}
  BY <1>10, <1>11 DEF GuiRec
<1>13. /\ calls' \in Seq(CallRec) /\ DOMAIN calls' = {1}
       /\ calls'[1].op = "connect" /\ calls'[1].id = first
  <2>1. /\ Call("connect", first) \in CallRec /\ Call("connect", first).op = "connect"
        /\ Call("connect", first).id = first
    BY <1>6, CallTypes
  <2> QED
    BY <1>3, <2>1
<1>14. /\ ~up /\ \A x \in Ids : phase[x] = "none"
       /\ \A i \in DOMAIN signals : signals[i].type \notin Outcomes
  BY <1>3 DEF IInv, WorkerFits
<1>15. \A x \in Ids : x > created => /\ \A i \in DOMAIN signals : signals[i].id # x
  BY DEF IInv, UnbornFits, Unborn
<1>16. unseen' \in [Ids -> SUBSET Chunks] /\ \A x \in Ids : unseen'[x] = {}
  BY <1>3
<1>17. Typed'
  BY <1>3, <1>6, <1>10, <1>13, <1>16 DEF IInv, Typed
<1>18. PageFits' /\ Docked'
  BY <1>3, <1>5, <1>8, <1>10, <1>12 DEF PageFits, Docked
<1>19. \A i \in DOMAIN signals' : signals'[i].id # first
  BY <1>3, <1>4, <1>5, <1>6, <1>15
<1>20. WorkerFits'
  <2>1. /\ \A x \in Ids : phase'[x] # "none" => up'
        /\ \A x \in Ids : phase'[x] \in {"none", "failing", "finished"} => out'[x] = {}
    BY <1>3 DEF IInv, WorkerFits
  <2>2. \A i \in DOMAIN signals' : signals'[i].type \notin Outcomes /\ signals'[i].type # "connected"
    BY <1>3, <1>14 DEF Outcomes
  <2>3. \A i \in DOMAIN calls' : calls'[i].op # "open"
    BY <1>13
  <2> QED
    BY <1>3, <1>10, <1>14, <1>19, <2>1, <2>2, <2>3 DEF WorkerFits
<1>21. UnbornFits'
  <2> SUFFICES ASSUME NEW x \in Ids, Unborn(x)'
               PROVE  /\ x \notin ListedIds(gui'.terms) /\ phase'[x] = "none" /\ unseen'[x] = {}
                      /\ \A i \in DOMAIN calls' : calls'[i].id # x
                      /\ \A i \in DOMAIN signals' : signals'[i].id # x
    BY DEF UnbornFits
  <2>1. x \in Nat /\ x >= 1
    BY <1>4 DEF Ids
  <2>2. x # first /\ x > created
    BY <1>3, <1>4, <1>5, <1>10, <2>1 DEF Unborn
  <2> QED
    BY <1>3, <1>8, <1>10, <1>13, <1>14, <1>15, <1>16, <2>2
<1>22. OpensFit'
  BY <1>3, <1>6, <1>8, <1>10, <1>13, <1>14, <1>16, <1>19 DEF OpensFit
<1>23. EndsFit'
  <2>1. \A i \in DOMAIN signals' : signals'[i].type \in {"closed", "openFailed", "failed"} =>
          phase'[signals'[i].id] = "none"
    BY <1>3, <1>14, SignalTypes DEF AboutTerminal, IInv, Typed
  <2>2. \A i, j \in DOMAIN signals' :
          signals'[i].type = "closed" /\ i < j /\ signals'[j].type = "data" => signals'[j].id # signals'[i].id
    BY <1>3 DEF IInv, EndsFit
  <2> QED
    BY <1>13, <2>1, <2>2 DEF EndsFit
<1>24. OutputFits'
  BY <1>6, <1>10, <1>16 DEF OutputFits
<1>25. Ledger'
  BY <1>3, <1>14 DEF Ledger
<1> QED
  BY <1>17, <1>18, <1>20, <1>21, <1>22, <1>23, <1>24, <1>25 DEF IInv

-----------------------------------------------------------------------------
(* The user.                                                               *)

\* A terminal is created: listed, docked unless it is a tool's, and asked for.
LEMMA TerminalCreated ==
  ASSUME IInv, NEW aux \in BOOLEAN, NewTerminal(aux)
  PROVE  IInv'
<1>1. PICK n : n = created + 1
  OBVIOUS
<1>2. PICK x : x = Terminal(n, aux)
  OBVIOUS
<1> DEFINE t == Append(gui.terms, x)
           u == [gui EXCEPT !.terms = t]
<1>3. /\ session = "Connected" /\ created < MaxIds /\ created' = n
      /\ gui' = OnTerminalsChanged(u) /\ calls' = Append(calls, Call("open", n))
      /\ logs' \in {logs, n}
      /\ UNCHANGED <<session, up, phase, out, signals, unseen, asked>>
  BY <1>1, <1>2 DEF NewTerminal, workerVars
<1>4. MaxIds \in Nat /\ created \in Nat
  BY LimitAssumption DEF IInv, Typed
<1>5. n \in Ids /\ created' \in 0 .. MaxIds
  BY <1>1, <1>3, <1>4 DEF Ids
<1>6. x \in TermRec /\ x.id = n /\ x.aux = aux
  BY <1>2, <1>5 DEF Terminal, TermRec
<1>7. gui \in GuiRec /\ gui.terms \in Seq(TermRec) /\ gui.panes = Visible(gui.terms)
      /\ gui.restore = Nothing /\ gui.closing \subseteq ListedIds(gui.terms)
  BY <1>3 DEF IInv, Typed, PageFits, GuiRec
<1>8. /\ n \notin ListedIds(gui.terms) /\ phase[n] = "none" /\ unseen[n] = {}
      /\ \A i \in DOMAIN calls : calls[i].id # n
      /\ \A i \in DOMAIN signals : signals[i].id # n
  <2>1. Unborn(n)
    BY <1>1, <1>4 DEF Unborn
  <2> QED
    BY <1>5, <2>1 DEF IInv, UnbornFits
<1>9. /\ t \in Seq(TermRec)
      /\ \A i \in DOMAIN gui.terms : i \in DOMAIN t /\ t[i] = gui.terms[i]
      /\ \A i \in DOMAIN t : i \in DOMAIN gui.terms \/ t[i] = x
      /\ \E i \in DOMAIN t : t[i] = x
  <2> DEFINE q == gui.terms
             r == t
  <2>1. q \in Seq(TermRec) /\ r = Append(q, x)
    BY <1>7
  <2> HIDE DEF q, r
  <2>2. /\ r \in Seq(TermRec) /\ Len(r) \in DOMAIN r /\ r[Len(r)] = x
        /\ \A i \in DOMAIN q : i \in DOMAIN r /\ r[i] = q[i]
        /\ \A i \in DOMAIN r : i \in DOMAIN q \/ i = Len(r)
    BY <1>6, <2>1, AtTheEnd
  <2>3. /\ r \in Seq(TermRec)
        /\ \A i \in DOMAIN q : i \in DOMAIN r /\ r[i] = q[i]
        /\ \A i \in DOMAIN r : i \in DOMAIN q \/ r[i] = x
        /\ \E i \in DOMAIN r : r[i] = x
    BY <2>2
  <2> QED
    BY <2>3 DEF q, r
<1>10. u \in GuiRec /\ u.terms = t /\ u.panes = gui.panes /\ u.restore = gui.restore
       /\ u.closing = gui.closing /\ u.pinned = gui.pinned
  BY <1>7, <1>9 DEF GuiRec
<1> HIDE DEF t, u
<1>11. /\ ListedIds(t) = ListedIds(gui.terms) \union {n}
       /\ Visible(t) \subseteq Visible(gui.terms) \union {n}
       /\ n \in Visible(t) => ~aux
  <2>1. ListedIds(t) = ListedIds(gui.terms) \union {n}
    BY <1>6, <1>9 DEF ListedIds
  <2>2. Visible(t) \subseteq Visible(gui.terms) \union {n}
    BY <1>6, <1>9 DEF Visible
  <2>3. n \in Visible(t) => ~aux
    BY <1>6, <1>8, <1>9 DEF Visible, ListedIds
  <2> QED
    BY <2>1, <2>2, <2>3
<1>12. /\ gui' \in GuiRec /\ gui'.terms = t /\ gui'.restore = Nothing
       /\ gui'.panes = Visible(t)
       /\ \A y \in Ids : y \in gui'.closing <=> y \in gui.closing /\ y \in ListedIds(t)
       /\ \A y \in ListedIds(t) : y \in gui.pinned => y \in gui'.pinned
       /\ \A y \in Ids :
            /\ session = "Connected" /\ y \notin gui.closing
            /\ \E i \in DOMAIN t : ~t[i].aux /\ t[i].id \notin gui.panes
            /\ \A i \in DOMAIN t : ~t[i].aux /\ t[i].id \notin gui.panes => t[i].id = y
            => y \in gui'.pinned
  BY <1>3, <1>7, <1>10, ChangedFacts
<1>13. ~aux => n \in gui'.pinned
  <2> SUFFICES ASSUME ~aux PROVE n \in gui'.pinned
    OBVIOUS
  <2>1. n \notin gui.closing /\ n \notin gui.panes
    <3>1. Visible(gui.terms) \subseteq ListedIds(gui.terms)
      BY <1>7, TermIds
    <3> QED
      BY <1>7, <1>8, <3>1
  <2>2. \E i \in DOMAIN t : ~t[i].aux /\ t[i].id \notin gui.panes
    BY <1>6, <1>9, <2>1
  <2>3. \A i \in DOMAIN t : ~t[i].aux /\ t[i].id \notin gui.panes => t[i].id = n
    BY <1>6, <1>7, <1>9 DEF Visible
  <2> QED
    BY <1>3, <1>5, <1>12, <2>1, <2>2, <2>3
<1>14. PICK c \in CallRec : c.op = "open" /\ c.id = n /\ calls' = Append(calls, c)
  BY <1>3, <1>5, CallTypes
<1>15. /\ calls' \in Seq(CallRec) /\ Len(calls') \in DOMAIN calls' /\ calls'[Len(calls')] = c
       /\ \A i \in DOMAIN calls : /\ i \in DOMAIN calls' /\ calls'[i] = calls[i]
                                  /\ i \in Nat /\ i >= 1 /\ i < Len(calls')
       /\ \A i \in DOMAIN calls' : i \in DOMAIN calls \/ i = Len(calls')
       /\ Len(calls') \in Nat
  <2>1. calls \in Seq(CallRec)
    BY DEF IInv, Typed
  <2> QED
    BY <1>14, <2>1, AtTheEnd
<1>16. \A o, y : Called(o, y) => Called(o, y)'
  BY <1>15 DEF Called
<1>17. \A y : y = n => Called("open", y)'
  BY <1>14, <1>15 DEF Called
<1>18. \A o, y : Signalled(o, y)' = Signalled(o, y)
  BY <1>3 DEF Signalled
<1>19. Typed'
  BY <1>3, <1>5, <1>12, <1>15 DEF IInv, Typed
<1>20. PageFits'
  <2>1. gui'.closing \subseteq ListedIds(gui'.terms)
    BY <1>12 DEF GuiRec
  <2> QED
    BY <1>3, <1>12, <2>1 DEF PageFits
<1>21. Docked'
  BY <1>3, <1>7, <1>11, <1>12, <1>13, TermIds DEF IInv, Docked
<1>22. WorkerFits'
  <2>1. \A i \in DOMAIN calls' : calls'[i].op # "connect"
    BY <1>3, <1>14, <1>15 DEF IInv, WorkerFits
  <2>2. \A i \in DOMAIN signals' : signals'[i].type # "connected"
    BY <1>3 DEF IInv, WorkerFits
  <2> QED
    BY <1>3, <2>1, <2>2 DEF IInv, WorkerFits
<1>23. UnbornFits'
  <2> SUFFICES ASSUME NEW y \in Ids, Unborn(y)'
               PROVE  /\ y \notin ListedIds(gui'.terms) /\ phase'[y] = "none" /\ unseen'[y] = {}
                      /\ \A i \in DOMAIN calls' : calls'[i].id # y
                      /\ \A i \in DOMAIN signals' : signals'[i].id # y
    BY DEF UnbornFits
  <2>1. y \in Nat
    BY <1>4 DEF Ids
  <2>2. y # n /\ Unborn(y)
    BY <1>1, <1>3, <1>4, <1>12, <2>1 DEF Unborn
  <2>3. /\ y \notin ListedIds(gui.terms) /\ phase[y] = "none" /\ unseen[y] = {}
        /\ \A i \in DOMAIN calls : calls[i].id # y
        /\ \A i \in DOMAIN signals : signals[i].id # y
    BY <2>2 DEF IInv, UnbornFits
  <2> QED
    BY <1>3, <1>11, <1>12, <1>14, <1>15, <2>2, <2>3
<1>24. OpensFit'
  <2> SUFFICES ASSUME NEW i \in DOMAIN calls', calls'[i].op \in Opens
               PROVE  /\ calls'[i].id \in ListedIds(gui'.terms)
                      /\ phase'[calls'[i].id] = "none" /\ unseen'[calls'[i].id] = {}
                      /\ \A j \in DOMAIN signals' : signals'[j].id # calls'[i].id
                      /\ \A j \in DOMAIN calls' : calls'[j].id = calls'[i].id => i <= j /\ calls'[j].op # "retire"
    BY DEF OpensFit
  <2>1. CASE i \in DOMAIN calls
    <3>1. /\ calls[i].id \in ListedIds(gui.terms)
          /\ phase[calls[i].id] = "none" /\ unseen[calls[i].id] = {}
          /\ \A j \in DOMAIN signals : signals[j].id # calls[i].id
          /\ \A j \in DOMAIN calls : calls[j].id = calls[i].id => i <= j /\ calls[j].op # "retire"
      BY <1>15, <2>1 DEF IInv, OpensFit
    <3>2. calls[i].id # n
      BY <1>8, <2>1
    <3> QED
      BY <1>3, <1>11, <1>12, <1>14, <1>15, <2>1, <3>1, <3>2
  <2>2. CASE i = Len(calls')
    BY <1>3, <1>8, <1>11, <1>12, <1>14, <1>15, <2>2
  <2> QED
    BY <1>15, <2>1, <2>2
<1>25. EndsFit'
  <2>1. /\ \A i \in DOMAIN calls' : calls'[i].op = "close" => calls'[i].id \in asked'
        /\ \A i \in DOMAIN calls' : calls'[i].op = "retire" => phase'[calls'[i].id] \in {"finished", "none"}
    BY <1>3, <1>14, <1>15 DEF IInv, EndsFit
  <2>2. ASSUME NEW i \in DOMAIN signals', signals'[i].type = "failed"
        PROVE  phase'[signals'[i].id] \in {"failing", "none"} \/ Called("retire", signals[i].id)'
    BY <1>3, <1>16, <2>2 DEF IInv, EndsFit
  <2> QED
    BY <1>3, <2>1, <2>2 DEF IInv, EndsFit
<1>26. OutputFits'
  BY <1>3, <1>7, <1>8, <1>11, <1>12, <1>18 DEF IInv, OutputFits
<1>27. Ledger'
  <2> SUFFICES ASSUME up'
               PROVE  /\ \A y \in ListedIds(gui'.terms) :
                           phase'[y] # "none" \/ Called("open", y)' \/ Signalled("openFailed", y)' \/ Signalled("closed", y)'
                      /\ \A y \in Ids :
                           phase'[y] # "none" => y \in ListedIds(gui'.terms) \/ phase'[y] = "failing" \/ Called("retire", y)'
                      /\ \A i \in DOMAIN gui'.terms :
                           gui'.terms[i].state # "Open" =>
                             Called("open", gui.terms[i].id)' \/ \E o \in {"connected", "opened", "openFailed", "closed"} : Signalled(o, gui.terms[i].id)'
                      /\ \A y \in gui'.closing : Called("close", y)' \/ Signalled("closed", y)' \/ Signalled("openFailed", y)'
    BY DEF Ledger
  <2>0. up
    BY <1>3
  <2>1. ASSUME NEW y \in ListedIds(gui'.terms)
        PROVE  phase'[y] # "none" \/ Called("open", y)' \/ Signalled("openFailed", y)' \/ Signalled("closed", y)'
    <3>1. CASE y = n
      BY <1>17, <3>1
    <3>2. CASE y # n
      <4>1. phase[y] # "none" \/ Called("open", y) \/ Signalled("openFailed", y) \/ Signalled("closed", y)
        BY <1>11, <1>12, <2>0, <3>2 DEF IInv, Ledger
      <4> QED
        BY <1>3, <1>16, <1>18, <4>1
    <3> QED
      BY <3>1, <3>2
  <2>2. \A y \in Ids :
          phase'[y] # "none" => y \in ListedIds(gui'.terms) \/ phase'[y] = "failing" \/ Called("retire", y)'
    BY <1>3, <1>11, <1>12, <1>16, <2>0 DEF IInv, Ledger
  <2>3. ASSUME NEW i \in DOMAIN gui'.terms, gui'.terms[i].state # "Open"
        PROVE  Called("open", gui.terms[i].id)' \/ \E o \in {"connected", "opened", "openFailed", "closed"} : Signalled(o, gui.terms[i].id)'
    <3>1. PICK y : y = gui'.terms[i].id
      OBVIOUS
    <3>2. Called("open", y)' \/ \E o \in {"connected", "opened", "openFailed", "closed"} : Signalled(o, y)'
      <4>1. CASE y = n
        BY <1>17, <4>1
      <4>2. CASE y # n
        <5>1. i \in DOMAIN gui.terms /\ gui.terms[i] = gui'.terms[i]
          BY <1>6, <1>9, <1>12, <3>1, <4>2
        <5>2. Called("open", y) \/ \E o \in {"connected", "opened", "openFailed", "closed"} : Signalled(o, y)
          BY <2>0, <2>3, <3>1, <5>1 DEF IInv, Ledger
        <5> QED
          BY <1>16, <1>18, <5>2
      <4> QED
        BY <4>1, <4>2
    <3> QED
      BY <3>1, <3>2
  <2>4. ASSUME NEW y \in gui'.closing
        PROVE  Called("close", y)' \/ Signalled("closed", y)' \/ Signalled("openFailed", y)'
    <3>1. y \in gui.closing
      BY <1>12 DEF GuiRec
    <3> QED
      BY <1>16, <1>18, <2>0, <3>1 DEF IInv, Ledger
  <2> QED
    BY <2>1, <2>2, <2>3, <2>4
<1> QED
  BY <1>19, <1>20, <1>21, <1>22, <1>23, <1>24, <1>25, <1>26, <1>27 DEF IInv

\* A terminal is asked to close, from its dock or otherwise.
LEMMA TerminalAskedToClose ==
  ASSUME IInv, NEW id, CloseTerminal(id), logs' \in {logs, None},
         gui' = gui \/ (gui' = [gui EXCEPT !.closing = @ \union {id}] /\ id \in gui.pinned)
  PROVE  IInv'
<1>1. /\ session \in {"Connecting", "Connected"} /\ id \in ListedIds(gui.terms)
      /\ calls' = Append(calls, Call("close", id)) /\ asked' = asked \union {id}
      /\ UNCHANGED <<session, created, up, phase, out, signals, unseen>>
  BY DEF CloseTerminal, workerVars
<1>2. gui \in GuiRec /\ gui.terms \in Seq(TermRec)
  BY DEF IInv, Typed, GuiRec
<1>3. id \in Ids
  BY <1>1, <1>2, TermIds
<1>4. /\ gui' \in GuiRec /\ gui'.terms = gui.terms /\ gui'.restore = gui.restore
      /\ gui'.panes = gui.panes /\ gui'.pinned = gui.pinned /\ gui'.active = gui.active
      /\ gui'.closing \subseteq gui.closing \union {id}
      /\ gui'.closing = gui.closing \/ id \in gui.pinned
  BY <1>2, <1>3 DEF GuiRec
<1>5. PICK c \in CallRec : c.op = "close" /\ c.id = id /\ calls' = Append(calls, c)
  BY <1>1, <1>3, CallTypes
<1>6. /\ calls' \in Seq(CallRec) /\ Len(calls') \in DOMAIN calls' /\ calls'[Len(calls')] = c
      /\ \A i \in DOMAIN calls : /\ i \in DOMAIN calls' /\ calls'[i] = calls[i]
                                 /\ i \in Nat /\ i >= 1 /\ i < Len(calls')
      /\ \A i \in DOMAIN calls' : i \in DOMAIN calls \/ i = Len(calls')
      /\ Len(calls') \in Nat
  <2>1. calls \in Seq(CallRec)
    BY DEF IInv, Typed
  <2> QED
    BY <1>5, <2>1, AtTheEnd
<1>7. \A o, y : Called(o, y) => Called(o, y)'
  BY <1>6 DEF Called
<1>8. \A y : y = id => Called("close", y)'
  BY <1>5, <1>6 DEF Called
<1>9. \A o, y : Signalled(o, y)' = Signalled(o, y)
  BY <1>1 DEF Signalled
<1>10. Typed'
  BY <1>1, <1>3, <1>4, <1>6 DEF IInv, Typed
<1>11. PageFits'
  <2>1. gui'.closing \subseteq ListedIds(gui'.terms)
    BY <1>1, <1>4 DEF IInv, PageFits
  <2>2. session' # "Connected" => gui'.closing = {}
    BY <1>1, <1>4 DEF IInv, PageFits
  <2> QED
    BY <1>1, <1>4, <2>1, <2>2 DEF IInv, PageFits
<1>12. Docked'
  BY <1>1, <1>4 DEF IInv, Docked
<1>13. WorkerFits'
  <2>1. \A i \in DOMAIN calls' : calls'[i].op \in Opens => i \in DOMAIN calls /\ calls'[i] = calls[i]
    BY <1>5, <1>6 DEF Opens
  <2>2. \A i \in DOMAIN calls' : calls'[i].op = "connect" =>
          /\ session' = "Connecting" /\ ~up'
          /\ \A j \in DOMAIN signals' : signals'[j].type \notin Outcomes
    BY <1>1, <2>1 DEF IInv, WorkerFits, Opens
  <2>3. session' = "Connecting" => \A i \in DOMAIN calls' : calls'[i].op # "open"
    BY <1>1, <2>1 DEF IInv, WorkerFits, Opens
  <2>4. session' = "Connecting" =>
          /\ up' => Signalled("connected", gui.active)'
          /\ \A i \in DOMAIN signals' : signals'[i].id = gui'.active /\ signals'[i].type # "connected" =>
               \E j \in 1 .. i - 1 : signals'[j].type = "connected"
    BY <1>1, <1>4 DEF IInv, WorkerFits, Signalled
  <2>5. session' \notin {"Disconnected", "Failed"}
    BY <1>1
  <2>6. /\ \A x \in Ids : phase'[x] # "none" => up'
        /\ \A x \in Ids : phase'[x] \in {"none", "failing", "finished"} => out'[x] = {}
        /\ \A i \in DOMAIN signals' : signals'[i].type = "connected" =>
             session' = "Connecting" /\ signals'[i].id = gui'.active
        /\ \A i, j \in DOMAIN signals' : signals'[i].type = "connected" /\ signals'[j].type = "connected" => i = j
    BY <1>1, <1>4 DEF IInv, WorkerFits
  <2> QED
    BY <2>2, <2>3, <2>4, <2>5, <2>6 DEF WorkerFits
<1>14. UnbornFits'
  <2> SUFFICES ASSUME NEW y \in Ids, Unborn(y)'
               PROVE  /\ y \notin ListedIds(gui'.terms) /\ phase'[y] = "none" /\ unseen'[y] = {}
                      /\ \A i \in DOMAIN calls' : calls'[i].id # y
                      /\ \A i \in DOMAIN signals' : signals'[i].id # y
    BY DEF UnbornFits
  <2>1. Unborn(y)
    BY <1>1, <1>4 DEF Unborn
  <2>2. /\ y \notin ListedIds(gui.terms) /\ phase[y] = "none" /\ unseen[y] = {}
        /\ \A i \in DOMAIN calls : calls[i].id # y
        /\ \A i \in DOMAIN signals : signals[i].id # y
    BY <2>1 DEF IInv, UnbornFits
  <2> QED
    BY <1>1, <1>4, <1>5, <1>6, <2>2
<1>15. OpensFit'
  <2> SUFFICES ASSUME NEW i \in DOMAIN calls', calls'[i].op \in Opens
               PROVE  /\ calls'[i].id \in ListedIds(gui'.terms)
                      /\ phase'[calls'[i].id] = "none" /\ unseen'[calls'[i].id] = {}
                      /\ \A j \in DOMAIN signals' : signals'[j].id # calls'[i].id
                      /\ \A j \in DOMAIN calls' : calls'[j].id = calls'[i].id => i <= j /\ calls'[j].op # "retire"
    BY DEF OpensFit
  <2>1. i \in DOMAIN calls /\ calls'[i] = calls[i]
    BY <1>5, <1>6 DEF Opens
  <2>2. /\ calls[i].id \in ListedIds(gui.terms)
        /\ phase[calls[i].id] = "none" /\ unseen[calls[i].id] = {}
        /\ \A j \in DOMAIN signals : signals[j].id # calls[i].id
        /\ \A j \in DOMAIN calls : calls[j].id = calls[i].id => i <= j /\ calls[j].op # "retire"
    BY <2>1 DEF IInv, OpensFit
  <2> QED
    BY <1>1, <1>4, <1>5, <1>6, <2>1, <2>2
<1>16. EndsFit'
  <2>1. /\ \A i \in DOMAIN calls' : calls'[i].op = "close" => calls'[i].id \in asked'
        /\ \A i \in DOMAIN calls' : calls'[i].op = "retire" => phase'[calls'[i].id] \in {"finished", "none"}
    BY <1>1, <1>5, <1>6 DEF IInv, EndsFit
  <2>2. ASSUME NEW i \in DOMAIN signals', signals'[i].type = "failed"
        PROVE  phase'[signals'[i].id] \in {"failing", "none"} \/ Called("retire", signals[i].id)'
    BY <1>1, <1>7, <2>2 DEF IInv, EndsFit
  <2> QED
    BY <1>1, <2>1, <2>2 DEF IInv, EndsFit
<1>17. OutputFits'
  BY <1>1, <1>4, <1>9 DEF IInv, OutputFits
<1>18. Ledger'
  <2> SUFFICES ASSUME up'
               PROVE  /\ \A y \in ListedIds(gui'.terms) :
                           phase'[y] # "none" \/ Called("open", y)' \/ Signalled("openFailed", y)' \/ Signalled("closed", y)'
                      /\ \A y \in Ids :
                           phase'[y] # "none" => y \in ListedIds(gui'.terms) \/ phase'[y] = "failing" \/ Called("retire", y)'
                      /\ \A i \in DOMAIN gui'.terms :
                           gui'.terms[i].state # "Open" =>
                             Called("open", gui.terms[i].id)' \/ \E o \in {"connected", "opened", "openFailed", "closed"} : Signalled(o, gui.terms[i].id)'
                      /\ \A y \in gui'.closing : Called("close", y)' \/ Signalled("closed", y)' \/ Signalled("openFailed", y)'
    BY DEF Ledger
  <2>0. up
    BY <1>1
  <2>1. /\ \A y \in ListedIds(gui'.terms) :
             phase'[y] # "none" \/ Called("open", y)' \/ Signalled("openFailed", y)' \/ Signalled("closed", y)'
        /\ \A y \in Ids :
             phase'[y] # "none" => y \in ListedIds(gui'.terms) \/ phase'[y] = "failing" \/ Called("retire", y)'
    BY <1>1, <1>4, <1>7, <1>9, <2>0 DEF IInv, Ledger
  <2>2. ASSUME NEW i \in DOMAIN gui'.terms, gui'.terms[i].state # "Open"
        PROVE  Called("open", gui.terms[i].id)' \/ \E o \in {"connected", "opened", "openFailed", "closed"} : Signalled(o, gui.terms[i].id)'
    <3>1. PICK y : y = gui.terms[i].id /\ y = gui'.terms[i].id
      BY <1>4
    <3>2. Called("open", y) \/ \E o \in {"connected", "opened", "openFailed", "closed"} : Signalled(o, y)
      BY <1>4, <2>0, <2>2, <3>1 DEF IInv, Ledger
    <3> QED
      BY <1>7, <1>9, <3>1, <3>2
  <2>3. \A y \in gui'.closing : Called("close", y)' \/ Signalled("closed", y)' \/ Signalled("openFailed", y)'
    BY <1>4, <1>7, <1>8, <1>9, <2>0 DEF IInv, Ledger
  <2> QED
    BY <2>1, <2>2, <2>3
<1> QED
  BY <1>10, <1>11, <1>12, <1>13, <1>14, <1>15, <1>16, <1>17, <1>18 DEF IInv

\* Another terminal is the active one.
LEMMA TerminalActivated ==
  ASSUME IInv, NEW id, Activate(id)
  PROVE  IInv'
<1> DEFINE u == SetActive(gui, id)
<1>1. /\ id \in Visible(gui.terms) /\ gui' = ShowActive(u)
      /\ UNCHANGED <<session, logs, created, calls, up, phase, out, signals, unseen, asked>>
  BY DEF Activate, workerVars
<1>2. gui \in GuiRec
  BY DEF IInv, Typed
<1>3. /\ u \in GuiRec /\ u.terms = gui.terms /\ u.restore = gui.restore
      /\ u.panes = gui.panes /\ u.closing = gui.closing /\ u.pinned = gui.pinned
      /\ u.active = id
  BY <1>1, <1>2, SetActiveFacts
<1> HIDE DEF u
<1>4. /\ gui' \in GuiRec /\ gui'.terms = gui.terms /\ gui'.restore = gui.restore /\ gui'.active = id
      /\ gui'.panes = gui.panes /\ gui'.closing = gui.closing /\ gui.pinned \subseteq gui'.pinned
      /\ session # "Connected" => gui'.pinned = gui.pinned
  BY <1>1, <1>3, ShowFacts
<1>5. session = "Connecting" => gui'.active = gui.active
  BY <1>1, <1>4 DEF IInv, PageFits
<1>6. Typed'
  BY <1>1, <1>4 DEF IInv, Typed
<1>7. PageFits' /\ Docked'
  BY <1>1, <1>4, <1>5 DEF IInv, PageFits, Docked
<1>8. WorkerFits'
  BY <1>1, <1>4, <1>5 DEF IInv, WorkerFits, Signalled
<1>9. UnbornFits'
  <2>1. \A x \in Ids : Unborn(x)' = Unborn(x)
    BY <1>1, <1>4, <1>5 DEF Unborn, IInv, PageFits
  <2> QED
    BY <1>1, <1>4, <2>1 DEF IInv, UnbornFits
<1>10. OpensFit' /\ EndsFit'
  BY <1>1, <1>4 DEF IInv, OpensFit, EndsFit, Called
<1>11. OutputFits'
  BY <1>1, <1>4 DEF IInv, OutputFits, Signalled
<1>12. Ledger'
  BY <1>1, <1>4 DEF IInv, Ledger, Signalled, Called
<1> QED
  BY <1>6, <1>7, <1>8, <1>9, <1>10, <1>11, <1>12 DEF IInv

LEMMA OpenShown ==
  ASSUME NEW g \in GuiRec, NEW id, g.panes = Visible(g.terms),
         NEW r, r = WithState(g, id, "Open")
  PROVE  /\ r \in GuiRec /\ r.restore = g.restore
         /\ DOMAIN r.terms = DOMAIN g.terms
         /\ \A i \in DOMAIN g.terms :
              /\ r.terms[i].id = g.terms[i].id
              /\ r.terms[i].state = IF g.terms[i].id = id THEN "Open" ELSE g.terms[i].state
         /\ ListedIds(r.terms) = ListedIds(g.terms) /\ Visible(r.terms) = Visible(g.terms)
         /\ r.panes = Visible(r.terms)
         /\ \A x \in Ids : x \in r.closing <=> x \in g.closing /\ x \in ListedIds(g.terms)
         /\ session # "Connected" => r.pinned \subseteq g.pinned /\ r.active = g.active
<1>1. \A s \in {"Opening", "Open", "Failed", "Closed"} :
        LET q == WithState(g, id, s)
        IN  /\ q \in GuiRec /\ q.restore = g.restore
            /\ DOMAIN q.terms = DOMAIN g.terms
            /\ \A i \in DOMAIN g.terms :
                 /\ q.terms[i].id = g.terms[i].id
                 /\ q.terms[i].state = IF g.terms[i].id = id THEN s ELSE g.terms[i].state
            /\ ListedIds(q.terms) = ListedIds(g.terms) /\ Visible(q.terms) = Visible(g.terms)
            /\ q.panes = Visible(q.terms)
            /\ \A x \in Ids : x \in q.closing <=> x \in g.closing /\ x \in ListedIds(g.terms)
            /\ session # "Connected" => q.pinned \subseteq g.pinned /\ q.active = g.active
  <2> SUFFICES ASSUME NEW s \in {"Opening", "Open", "Failed", "Closed"}
               PROVE LET q == WithState(g, id, s)
        IN  /\ q \in GuiRec /\ q.restore = g.restore
            /\ DOMAIN q.terms = DOMAIN g.terms
            /\ \A i \in DOMAIN g.terms :
                 /\ q.terms[i].id = g.terms[i].id
                 /\ q.terms[i].state = IF g.terms[i].id = id THEN s ELSE g.terms[i].state
            /\ ListedIds(q.terms) = ListedIds(g.terms) /\ Visible(q.terms) = Visible(g.terms)
            /\ q.panes = Visible(q.terms)
            /\ \A x \in Ids : x \in q.closing <=> x \in g.closing /\ x \in ListedIds(g.terms)
            /\ session # "Connected" => q.pinned \subseteq g.pinned /\ q.active = g.active
    OBVIOUS
  <2> QED
    BY WithStateFacts
<1> QED
  BY <1>1

\* The page of a session that has just connected: the terminal it connected
\* with is open, those of the workspace that were missing are listed behind it
\* and are to be opened, each once, and all are docked.
Grown(k, new) ==
  /\ gui' \in GuiRec /\ gui'.restore = Nothing /\ gui'.closing = {}
  /\ gui'.panes = Visible(gui'.terms) /\ Visible(gui'.terms) \subseteq gui'.pinned
  /\ ListedIds(gui'.terms) = {gui.active} \union {new[n] : n \in 1 .. k}
  /\ \A i \in DOMAIN gui'.terms :
       \/ gui'.terms[i].id = gui.active /\ gui'.terms[i].state = "Open"
       \/ \E n \in 1 .. k : gui'.terms[i].id = new[n]
  /\ \A n \in 1 .. k : Unborn(new[n]) /\ new[n] <= created
  /\ \A n, m \in 1 .. k : n < m => new[n] # new[m]
  /\ calls' = calls \o [n \in 1 .. k |-> Call("open", new[n])]

LEMMA ConnectedPage ==
  ASSUME ToolsNeedTerminals, IInv, OnWorkerConnected
  PROVE  \E k \in Nat : \E new \in [1 .. k -> Ids] : Grown(k, new)
<1> DEFINE g == WithState(gui, Head(signals).id, "Open")
           h == IF g.restore # Nothing THEN Restored(g) ELSE PinTerminal(g, g.active)
           k == Len(h.terms) - Len(g.terms)
           new == [n \in 1 .. k |-> h.terms[Len(g.terms) + n].id]
<1>1. signals # <<>> /\ Head(signals).type = "connected"
  BY DEF OnWorkerConnected, Receive
<1>2. session = "Connecting" /\ Head(signals).id = gui.active
  <2>1. 1 \in DOMAIN signals /\ Head(signals) = signals[1]
    <3>1. signals \in Seq(SignalRec)
      BY DEF IInv, Typed
    <3> QED
      BY <1>1, <3>1, FromTheHead
  <2> QED
    BY <1>1, <2>1 DEF IInv, WorkerFits
<1>3. gui' = h /\ calls' = calls \o [i \in 1 .. k |-> Call("open", h.terms[Len(g.terms) + i].id)]
  BY Zenon DEF OnWorkerConnected
<1>4. /\ gui \in GuiRec /\ gui.panes = Visible(gui.terms) /\ gui.closing = {} /\ gui.pinned = {}
      /\ ListedIds(gui.terms) = {gui.active} /\ Visible(gui.terms) = {gui.active}
      /\ gui.restore # Nothing => gui.active = 1 /\ gui.restore.count <= created
  BY <1>2 DEF IInv, Typed, PageFits
<1>5. gui.active \in Ids /\ gui.restore \in Entries \union {Nothing}
  <2>1. gui.terms \in Seq(TermRec) /\ gui.restore \in Entries \union {Nothing}
    BY <1>4 DEF GuiRec
  <2> QED
    BY <1>4, <2>1, TermIds
<1>6. /\ g \in GuiRec /\ g.restore = gui.restore
      /\ DOMAIN g.terms = DOMAIN gui.terms
      /\ \A i \in DOMAIN gui.terms :
           /\ g.terms[i].id = gui.terms[i].id
           /\ g.terms[i].state = IF gui.terms[i].id = gui.active THEN "Open" ELSE gui.terms[i].state
      /\ ListedIds(g.terms) = ListedIds(gui.terms) /\ Visible(g.terms) = Visible(gui.terms)
      /\ g.panes = Visible(g.terms)
      /\ \A x \in Ids : x \in g.closing <=> x \in gui.closing /\ x \in ListedIds(gui.terms)
      /\ session # "Connected" => g.pinned \subseteq gui.pinned /\ g.active = gui.active
  <2>1. g = WithState(gui, gui.active, "Open")
    BY <1>2
  <2> HIDE DEF g
  <2> QED
    BY <1>4, <2>1, OpenShown
<1>7. h = IF g.restore # Nothing THEN Restored(g) ELSE PinTerminal(g, g.active)
  OBVIOUS
<1> HIDE DEF g, h
<1>8. /\ ListedIds(g.terms) = {gui.active} /\ Visible(g.terms) = {gui.active}
      /\ g.panes = {gui.active} /\ g.active = gui.active /\ g.closing = {}
  <2>1. \A x \in Ids : x \notin g.closing
    BY <1>4, <1>6
  <2>2. g.closing = {}
    BY <1>6, <2>1 DEF GuiRec
  <2> QED
    BY <1>2, <1>4, <1>6, <2>2
<1>9. \A i \in DOMAIN g.terms : g.terms[i].id = gui.active /\ g.terms[i].state = "Open"
  <2>1. \A i \in DOMAIN g.terms : g.terms[i].id = gui.active
    BY <1>8 DEF ListedIds
  <2> QED
    BY <1>6, <2>1
<1>10. g.terms \in Seq(TermRec) /\ Len(g.terms) \in Nat
  BY <1>6 DEF GuiRec
<1>11. calls' = calls \o [n \in 1 .. k |-> Call("open", new[n])]
  <2> HIDE DEF k
  <2>1. \A n \in 1 .. k : new[n] = h.terms[Len(g.terms) + n].id
    OBVIOUS
  <2> HIDE DEF new
  <2>2. [i \in 1 .. k |-> Call("open", h.terms[Len(g.terms) + i].id)]
          = [n \in 1 .. k |-> Call("open", new[n])]
    BY <2>1
  <2> QED
    BY <1>3, <2>2
<1>12. \A n \in 1 .. k : new[n] = h.terms[Len(g.terms) + n].id
  OBVIOUS
<1>13. ASSUME g.restore = Nothing
       PROVE  k \in Nat /\ new \in [1 .. k -> Ids] /\ Grown(k, new)
  <2>1. h = Pinned(g, {gui.active}) /\ {gui.active} \in SUBSET Ids
    BY <1>5, <1>7, <1>8, <1>13 DEF PinTerminal
  <2>2. /\ h \in GuiRec /\ h.terms = g.terms /\ h.restore = g.restore
        /\ h.panes = g.panes /\ h.closing = g.closing /\ h.pinned = g.pinned \union {gui.active}
    BY <1>6, <2>1, PinFacts
  <2>3. k = 0
    BY <1>10, <2>2
  <2> HIDE DEF k
  <2>4. k \in Nat /\ 1 .. k = {}
    BY <2>3
  <2>5. new \in [1 .. k -> Ids]
    BY <2>4
  <2> HIDE DEF new
  <2>6. /\ gui' \in GuiRec /\ gui'.restore = Nothing /\ gui'.closing = {}
        /\ gui'.panes = Visible(gui'.terms) /\ Visible(gui'.terms) \subseteq gui'.pinned
        /\ ListedIds(gui'.terms) = {gui.active}
        /\ \A i \in DOMAIN gui'.terms : gui'.terms[i].id = gui.active /\ gui'.terms[i].state = "Open"
    BY <1>3, <1>8, <1>9, <1>13, <2>2
  <2> QED
    BY <1>11, <2>4, <2>5, <2>6 DEF Grown
<1>14. ASSUME g.restore # Nothing
       PROVE  k \in Nat /\ new \in [1 .. k -> Ids] /\ Grown(k, new)
  <2> DEFINE c == g.restore.count
  <2>1. c \in Nat /\ c > 0 /\ c <= created /\ gui.active = 1 /\ created \in Nat /\ created <= MaxIds
        /\ MaxIds \in Nat
    <3>1. gui.restore \in Entries /\ gui.restore # Nothing
      BY <1>5, <1>6, <1>14
    <3>2. gui.restore \in [count : 0 .. Limit, tools : BOOLEAN]
      BY <3>1, EntriesAssumption
    <3>3. gui.restore.count \in Nat /\ gui.restore.tools \in BOOLEAN
      BY <3>2, LimitAssumption
    <3>4. gui.restore.count # 0
      <4> SUFFICES ASSUME gui.restore.count = 0 PROVE FALSE
        OBVIOUS
      <4>1. ~gui.restore.tools
        BY <3>1, <3>3 DEF ToolsNeedTerminals
      <4>2. gui.restore = Nothing
        BY <3>2, <3>3, <4>1 DEF Nothing
      <4> QED
        BY <3>1, <4>2
    <3>5. created \in 0 .. MaxIds /\ MaxIds \in Nat
      BY LimitAssumption DEF IInv, Typed
    <3> QED
      BY <1>4, <1>6, <3>1, <3>3, <3>4, <3>5
  <2>2. 1 .. c \subseteq Ids /\ 1 \in 1 .. c
    BY <2>1 DEF Ids
  <2>3. h = Restored(g)
    BY <1>7, <1>14
  <2>4. /\ h \in GuiRec /\ h.restore = Nothing /\ h.active = g.active
        /\ h.panes = Visible(h.terms) /\ k \in Nat
        /\ ListedIds(h.terms) = ListedIds(g.terms) \union 1 .. c
        /\ Visible(h.terms) \subseteq Visible(g.terms) \union 1 .. c
        /\ \A x \in Ids : x \in h.closing <=> x \in g.closing /\ x \in ListedIds(h.terms)
        /\ \A x \in ListedIds(h.terms) : x \in g.pinned \/ x \in 1 .. c => x \in h.pinned
        /\ \A i \in DOMAIN h.terms :
             \/ i \in DOMAIN g.terms /\ h.terms[i] = g.terms[i]
             \/ \E n \in 1 .. k : i = Len(g.terms) + n
        /\ \A n \in 1 .. k : h.terms[Len(g.terms) + n].id \in 1 .. c \ ListedIds(g.terms)
        /\ \A n, m \in 1 .. k :
             n < m => h.terms[Len(g.terms) + n].id # h.terms[Len(g.terms) + m].id
        /\ \A x \in 1 .. c \ ListedIds(g.terms) : \E n \in 1 .. k : h.terms[Len(g.terms) + n].id = x
    <3>1. Filled(g, h, Len(h.terms) - Len(g.terms))
      BY <1>6, <1>14, <2>1, <2>2, <2>3, RestoredFacts
    <3>2. Filled(g, h, k)
      BY <3>1
    <3> HIDE DEF new, k
    <3> QED
      BY <3>2 DEF Filled
  <2> HIDE DEF k
  <2>5. new \in [1 .. k -> Ids]
    BY <2>2, <2>4
  <2> HIDE DEF new
  <2>6. /\ \A n \in 1 .. k : new[n] \in 1 .. c /\ new[n] # gui.active
        /\ \A n, m \in 1 .. k : n < m => new[n] # new[m]
        /\ \A x \in 1 .. c : x # gui.active => \E n \in 1 .. k : new[n] = x
    <3>1. \A n \in 1 .. k : new[n] \in 1 .. c /\ new[n] # gui.active
      BY <1>8, <1>12, <2>4
    <3>2. \A n, m \in 1 .. k : n < m => new[n] # new[m]
      BY <1>12, <2>4
    <3>3. ASSUME NEW x \in 1 .. c, x # gui.active
          PROVE  \E n \in 1 .. k : new[n] = x
      <4>1. PICK n \in 1 .. k : h.terms[Len(g.terms) + n].id = x
        BY <1>8, <2>4, <3>3
      <4> QED
        BY <1>12, <4>1
    <3> QED
      BY <3>1, <3>2, <3>3
  <2>7. \A n \in 1 .. k : Unborn(new[n]) /\ new[n] <= created
    BY <1>6, <1>14, <2>1, <2>6 DEF Unborn
  <2>8. gui'.closing = {}
    BY <1>3, <1>8, <2>4 DEF GuiRec
  <2>9. Visible(h.terms) \subseteq h.pinned
    <3>1. h.terms \in Seq(TermRec)
      BY <2>4 DEF GuiRec
    <3>2. Visible(h.terms) \subseteq ListedIds(h.terms)
      BY <3>1, TermIds
    <3>3. Visible(h.terms) \subseteq 1 .. c
      BY <1>8, <2>1, <2>2, <2>4
    <3> QED
      BY <2>4, <3>2, <3>3
  <2>10. ListedIds(h.terms) = {gui.active} \union {new[n] : n \in 1 .. k}
    <3>1. ListedIds(h.terms) = {gui.active} \union 1 .. c
      BY <1>8, <2>4
    <3> QED
      BY <2>1, <2>2, <2>6, <3>1
  <2>11. \A i \in DOMAIN h.terms :
           \/ h.terms[i].id = gui.active /\ h.terms[i].state = "Open"
           \/ \E n \in 1 .. k : h.terms[i].id = new[n]
    <3> SUFFICES ASSUME NEW i \in DOMAIN h.terms
                 PROVE  \/ h.terms[i].id = gui.active /\ h.terms[i].state = "Open"
                        \/ \E n \in 1 .. k : h.terms[i].id = new[n]
      OBVIOUS
    <3>1. CASE i \in DOMAIN g.terms /\ h.terms[i] = g.terms[i]
      BY <1>9, <3>1
    <3>2. CASE \E n \in 1 .. k : i = Len(g.terms) + n
      BY <1>12, <3>2
    <3> QED
      BY <2>4, <3>1, <3>2
  <2>12. /\ gui' \in GuiRec /\ gui'.restore = Nothing /\ gui'.closing = {}
         /\ gui'.panes = Visible(gui'.terms) /\ Visible(gui'.terms) \subseteq gui'.pinned
         /\ ListedIds(gui'.terms) = {gui.active} \union {new[n] : n \in 1 .. k}
         /\ \A i \in DOMAIN gui'.terms :
              \/ gui'.terms[i].id = gui.active /\ gui'.terms[i].state = "Open"
              \/ \E n \in 1 .. k : gui'.terms[i].id = new[n]
    BY <1>3, <2>4, <2>8, <2>9, <2>10, <2>11
  <2>13. k \in Nat
    BY <2>4
  <2> HIDE DEF c
  <2> QED
    BY <1>11, <2>5, <2>6, <2>7, <2>12, <2>13 DEF Grown
<1> HIDE DEF k, new
<1>15. k \in Nat /\ new \in [1 .. k -> Ids] /\ Grown(k, new)
  BY <1>13, <1>14
<1> QED
  BY <1>15

\* The session is connected, and its workspace restored.
LEMMA SessionConnected ==
  ASSUME ToolsNeedTerminals, IInv, OnWorkerConnected
  PROVE  IInv'
<1>1. PICK k \in Nat : \E new \in [1 .. k -> Ids] : Grown(k, new)
  BY ConnectedPage
<1>2. PICK new \in [1 .. k -> Ids] : Grown(k, new)
  BY <1>1
<1>3. /\ signals # <<>> /\ Head(signals).type = "connected" /\ signals' = Tail(signals)
      /\ session' = "Connected" /\ logs' \in {logs, None}
      /\ UNCHANGED <<created, up, phase, out, asked, unseen>>
  <2>1. Receive("connected") /\ session' = "Connected" /\ UNCHANGED unseen
    BY Zenon DEF OnWorkerConnected
  <2>2. \E h : LogsKept(h)
    BY Zenon DEF OnWorkerConnected
  <2> QED
    BY <2>1, <2>2 DEF Receive, LogsKept, workerVars
<1>4. /\ signals' \in Seq(SignalRec) /\ 1 \in DOMAIN signals /\ signals[1].type = "connected"
      /\ \A i \in DOMAIN signals' : /\ i \in Nat /\ i >= 1 /\ i + 1 \in DOMAIN signals
                                    /\ signals'[i] = signals[i + 1]
      /\ \A i \in DOMAIN signals : /\ i \in Nat /\ i >= 1
                                   /\ i # 1 => i - 1 \in DOMAIN signals' /\ signals'[i - 1] = signals[i]
  <2>1. signals \in Seq(SignalRec)
    BY DEF IInv, Typed
  <2> QED
    BY <1>3, <2>1, FromTheHead
<1>5. session = "Connecting" /\ signals[1].id = gui.active
  BY <1>4 DEF IInv, WorkerFits
<1>6. /\ gui \in GuiRec /\ gui.panes = Visible(gui.terms)
      /\ ListedIds(gui.terms) = {gui.active} /\ Visible(gui.terms) = {gui.active}
  BY <1>5 DEF IInv, Typed, PageFits
<1>7. \A i \in DOMAIN calls : calls[i].op # "connect" /\ calls[i].op # "open"
  BY <1>4, <1>5 DEF IInv, WorkerFits, Outcomes
<1>8. \A i \in DOMAIN signals' : signals'[i].type # "connected"
  <2> SUFFICES ASSUME NEW i \in DOMAIN signals', signals'[i].type = "connected" PROVE FALSE
    OBVIOUS
  <2>1. i + 1 \in DOMAIN signals /\ signals[i + 1].type = "connected" /\ i \in Nat /\ i >= 1
    BY <1>4
  <2>2. i + 1 = 1
    BY <1>4, <2>1 DEF IInv, WorkerFits
  <2> QED
    BY <2>1, <2>2
<1>9. /\ gui' \in GuiRec /\ gui'.restore = Nothing /\ gui'.closing = {}
      /\ gui'.panes = Visible(gui'.terms) /\ Visible(gui'.terms) \subseteq gui'.pinned
      /\ ListedIds(gui'.terms) = {gui.active} \union {new[n] : n \in 1 .. k}
      /\ \A i \in DOMAIN gui'.terms :
           \/ gui'.terms[i].id = gui.active /\ gui'.terms[i].state = "Open"
           \/ \E n \in 1 .. k : gui'.terms[i].id = new[n]
      /\ \A n \in 1 .. k : Unborn(new[n]) /\ new[n] <= created
      /\ \A n, m \in 1 .. k : n < m => new[n] # new[m]
  BY <1>2 DEF Grown
<1>10. \A n \in 1 .. k :
         /\ new[n] \in Ids /\ new[n] # gui.active /\ phase[new[n]] = "none" /\ unseen[new[n]] = {}
         /\ \A i \in DOMAIN calls : calls[i].id # new[n]
         /\ \A i \in DOMAIN signals : signals[i].id # new[n]
  BY <1>6, <1>9 DEF IInv, UnbornFits
<1>11. PICK b : b = [n \in 1 .. k |-> Call("open", new[n])]
  OBVIOUS
<1>12. /\ b \in Seq(CallRec) /\ DOMAIN b = 1 .. k
       /\ \A n \in 1 .. k : b[n].op = "open" /\ b[n].id = new[n]
  <2>1. \A n \in 1 .. k : Call("open", new[n]) \in CallRec
    BY <1>10, CallTypes
  <2>2. b \in [1 .. k -> CallRec]
    BY <1>11, <2>1
  <2>3. \A n \in 1 .. k : b[n].op = "open" /\ b[n].id = new[n]
    BY <1>11 DEF Call
  <2>4. DOMAIN b = 1 .. k
    BY <1>11
  <2>5. b \in Seq(CallRec)
    BY <2>2
  <2> QED
    BY <2>3, <2>4, <2>5
<1>13. calls' = calls \o b /\ calls \in Seq(CallRec)
  BY <1>2, <1>11 DEF Grown, IInv, Typed
<1>14. calls' \in Seq(CallRec) /\ Len(calls) \in Nat
  BY <1>12, <1>13, Joined
<1>15. \A i \in DOMAIN calls : i \in DOMAIN calls' /\ calls'[i] = calls[i]
  BY <1>12, <1>13, Joined
<1>16. \A n \in DOMAIN b : Len(calls) + n \in DOMAIN calls' /\ calls'[Len(calls) + n] = b[n]
  BY <1>12, <1>13, Joined
<1>17. \A i \in DOMAIN calls' : i \in DOMAIN calls \/ \E n \in DOMAIN b : i = Len(calls) + n
  <2>1. Len(calls') = Len(calls) + Len(b) /\ Len(b) = k
    <3>1. Len(calls') = Len(calls) + Len(b)
      BY <1>12, <1>13, Joined
    <3> QED
      BY <1>12, <3>1
  <2>2. DOMAIN calls' = 1 .. Len(calls') /\ DOMAIN calls = 1 .. Len(calls)
    BY <1>13, <1>14
  <2>3. PICK m \in Nat : m = Len(calls)
    BY <1>14
  <2>4. \A i \in 1 .. m + k : i \in 1 .. m \/ \E n \in 1 .. k : i = m + n
    <3> SUFFICES ASSUME NEW i \in 1 .. m + k, i \notin 1 .. m
                 PROVE  \E n \in 1 .. k : i = m + n
      OBVIOUS
    <3>1. i - m \in 1 .. k /\ i = m + (i - m)
      OBVIOUS
    <3> QED
      BY <3>1
  <2>5. DOMAIN calls' = 1 .. m + k /\ DOMAIN calls = 1 .. m /\ DOMAIN b = 1 .. k
    BY <1>12, <2>1, <2>2, <2>3
  <2> QED
    BY <2>3, <2>4, <2>5
<1>18. \A i \in DOMAIN calls' :
         \/ i \in DOMAIN calls /\ calls'[i] = calls[i]
         \/ \E n \in 1 .. k : /\ i = Len(calls) + n
                              /\ calls'[i].op = "open" /\ calls'[i].id = new[n]
  BY <1>12, <1>15, <1>16, <1>17
<1>19. \A o, y : Called(o, y) => Called(o, y)'
  BY <1>15 DEF Called
<1>20. \A n \in 1 .. k : \A y : y = new[n] => Called("open", y)'
  BY <1>12, <1>16 DEF Called
<1>21. \A o, y : Signalled(o, y)' => Signalled(o, y)
  BY <1>4 DEF Signalled
<1>22. \A o, y : Signalled(o, y) /\ o # "connected" => Signalled(o, y)'
  <2> SUFFICES ASSUME NEW o, NEW y, Signalled(o, y), o # "connected" PROVE Signalled(o, y)'
    OBVIOUS
  <2>1. PICK i \in DOMAIN signals : signals[i].type = o /\ signals[i].id = y
    BY DEF Signalled
  <2>2. i - 1 \in DOMAIN signals' /\ signals'[i - 1] = signals[i]
    BY <1>4, <2>1
  <2> QED
    BY <2>1, <2>2 DEF Signalled
<1>23. Typed'
  BY <1>3, <1>4, <1>9, <1>14 DEF IInv, Typed
<1>24. PageFits' /\ Docked'
  BY <1>3, <1>9 DEF PageFits, Docked
<1>25. WorkerFits'
  <2>1. \A i \in DOMAIN calls' : calls'[i].op # "connect"
    BY <1>7, <1>18
  <2> QED
    BY <1>3, <1>8, <2>1 DEF IInv, WorkerFits
<1>26. UnbornFits'
  <2> SUFFICES ASSUME NEW y \in Ids, Unborn(y)'
               PROVE  /\ y \notin ListedIds(gui'.terms) /\ phase'[y] = "none" /\ unseen'[y] = {}
                      /\ \A i \in DOMAIN calls' : calls'[i].id # y
                      /\ \A i \in DOMAIN signals' : signals'[i].id # y
    BY DEF UnbornFits
  <2>1. y > created
    BY <1>3, <1>9 DEF Unborn
  <2>2. \A n \in 1 .. k : new[n] # y
    <3>1. created \in Nat /\ y \in Nat
      BY LimitAssumption DEF IInv, Typed, Ids
    <3> QED
      BY <1>9, <1>10, <2>1, <3>1 DEF Ids
  <2>3. /\ y \notin ListedIds(gui.terms) /\ phase[y] = "none" /\ unseen[y] = {}
        /\ \A i \in DOMAIN calls : calls[i].id # y
        /\ \A i \in DOMAIN signals : signals[i].id # y
    BY <2>1 DEF IInv, UnbornFits, Unborn
  <2>4. y \notin ListedIds(gui'.terms)
    BY <1>6, <1>9, <2>2, <2>3
  <2>5. \A i \in DOMAIN calls' : calls'[i].id # y
    BY <1>18, <2>2, <2>3
  <2>6. \A i \in DOMAIN signals' : signals'[i].id # y
    BY <1>4, <2>3
  <2> QED
    BY <1>3, <2>3, <2>4, <2>5, <2>6
<1>27. OpensFit'
  <2> SUFFICES ASSUME NEW i \in DOMAIN calls', calls'[i].op \in Opens
               PROVE  /\ calls'[i].id \in ListedIds(gui'.terms)
                      /\ phase'[calls'[i].id] = "none" /\ unseen'[calls'[i].id] = {}
                      /\ \A j \in DOMAIN signals' : signals'[j].id # calls'[i].id
                      /\ \A j \in DOMAIN calls' : calls'[j].id = calls'[i].id => i <= j /\ calls'[j].op # "retire"
    BY DEF OpensFit
  <2>1. PICK n \in 1 .. k : i = Len(calls) + n /\ calls'[i].id = new[n]
    BY <1>7, <1>18 DEF Opens
  <2>2. ASSUME NEW j \in DOMAIN calls', calls'[j].id = calls'[i].id
        PROVE  i <= j /\ calls'[j].op # "retire"
    <3>1. PICK m \in 1 .. k : /\ j = Len(calls) + m
                              /\ calls'[j].op = "open" /\ calls'[j].id = new[m]
      BY <1>10, <1>18, <2>1, <2>2
    <3>2. m = n
      BY <1>9, <2>1, <2>2, <3>1
    <3> QED
      BY <1>14, <2>1, <3>1, <3>2
  <2> QED
    BY <1>3, <1>4, <1>9, <1>10, <2>1, <2>2
<1>28. EndsFit'
  <2>1. /\ \A i \in DOMAIN calls' : calls'[i].op = "close" => calls'[i].id \in asked'
        /\ \A i \in DOMAIN calls' : calls'[i].op = "retire" => phase'[calls'[i].id] \in {"finished", "none"}
    BY <1>3, <1>18 DEF IInv, EndsFit
  <2>2. \A i \in DOMAIN signals' : signals'[i].type \in {"closed", "openFailed"} => phase'[signals'[i].id] = "none"
    BY <1>3, <1>4 DEF IInv, EndsFit
  <2>3. ASSUME NEW i \in DOMAIN signals', signals'[i].type = "failed"
        PROVE  phase'[signals'[i].id] \in {"failing", "none"} \/ Called("retire", signals[i].id)'
    <3>1. PICK y : y = signals'[i].id
      OBVIOUS
    <3>2. i + 1 \in DOMAIN signals /\ signals[i + 1].type = "failed" /\ signals[i + 1].id = y
      BY <1>4, <2>3, <3>1
    <3>3. phase[y] \in {"failing", "none"} \/ Called("retire", y)
      BY <3>2 DEF IInv, EndsFit
    <3> QED
      BY <1>3, <1>19, <3>1, <3>3
  <2>4. ASSUME NEW i \in DOMAIN signals', NEW j \in DOMAIN signals',
               signals'[i].type = "closed", i < j, signals'[j].type = "data"
        PROVE  signals'[j].id # signals'[i].id
    <3>1. /\ i + 1 \in DOMAIN signals /\ signals'[i] = signals[i + 1]
          /\ j + 1 \in DOMAIN signals /\ signals'[j] = signals[j + 1] /\ i + 1 < j + 1
      BY <1>4, <2>4
    <3> QED
      BY <2>4, <3>1 DEF IInv, EndsFit
  <2> QED
    BY <2>1, <2>2, <2>3, <2>4 DEF EndsFit
<1>29. OutputFits'
  <2> SUFFICES ASSUME NEW x \in gui'.panes,
                      phase'[x] # "none" \/ (Signalled("closed", x)' /\ x \notin asked'),
                      NEW chunk \in unseen'[x]
               PROVE  \/ chunk \in out'[x]
                      \/ \E i \in DOMAIN signals' : /\ signals'[i].type = "data" /\ signals'[i].id = x
                                                    /\ chunk \in signals'[i].chunks
    BY <1>3 DEF OutputFits, Signalled
  <2>1. x = gui.active
    <3>1. gui'.terms \in Seq(TermRec)
      BY <1>9 DEF GuiRec
    <3>2. x \in ListedIds(gui'.terms)
      BY <1>9, <3>1, TermIds
    <3> QED
      BY <1>3, <1>9, <1>10, <3>2
  <2>2. x \in gui.panes /\ (phase[x] # "none" \/ (Signalled("closed", x) /\ x \notin asked))
    BY <1>3, <1>6, <1>21, <2>1
  <2>3. \/ chunk \in out[x]
        \/ \E i \in DOMAIN signals : /\ signals[i].type = "data" /\ signals[i].id = x
                                     /\ chunk \in signals[i].chunks
    BY <1>3, <2>2 DEF IInv, OutputFits
  <2>4. CASE chunk \in out[x]
    BY <1>3, <2>4
  <2>5. ASSUME NEW i \in DOMAIN signals, signals[i].type = "data", signals[i].id = x,
               chunk \in signals[i].chunks
        PROVE  \E j \in DOMAIN signals' : /\ signals'[j].type = "data" /\ signals'[j].id = x
                                          /\ chunk \in signals'[j].chunks
    <3>1. i - 1 \in DOMAIN signals' /\ signals'[i - 1] = signals[i]
      BY <1>4, <2>5
    <3> QED
      BY <2>5, <3>1
  <2> QED
    BY <2>3, <2>4, <2>5
<1>30. Ledger'
  <2> SUFFICES ASSUME up'
               PROVE  /\ \A y \in ListedIds(gui'.terms) :
                           phase'[y] # "none" \/ Called("open", y)' \/ Signalled("openFailed", y)' \/ Signalled("closed", y)'
                      /\ \A y \in Ids :
                           phase'[y] # "none" => y \in ListedIds(gui'.terms) \/ phase'[y] = "failing" \/ Called("retire", y)'
                      /\ \A i \in DOMAIN gui'.terms :
                           gui'.terms[i].state # "Open" =>
                             Called("open", gui.terms[i].id)' \/ \E o \in {"connected", "opened", "openFailed", "closed"} : Signalled(o, gui.terms[i].id)'
                      /\ \A y \in gui'.closing : Called("close", y)' \/ Signalled("closed", y)' \/ Signalled("openFailed", y)'
    BY DEF Ledger
  <2>0. up
    BY <1>3
  <2>1. ASSUME NEW y \in ListedIds(gui'.terms)
        PROVE  phase'[y] # "none" \/ Called("open", y)' \/ Signalled("openFailed", y)' \/ Signalled("closed", y)'
    <3>1. CASE y = gui.active
      <4>1. phase[y] # "none" \/ Called("open", y) \/ Signalled("openFailed", y) \/ Signalled("closed", y)
        BY <1>6, <2>0, <3>1 DEF IInv, Ledger
      <4> QED
        BY <1>3, <1>19, <1>22, <4>1
    <3>2. CASE \E n \in 1 .. k : y = new[n]
      BY <1>20, <3>2
    <3> QED
      BY <1>9, <3>1, <3>2
  <2>2. ASSUME NEW y \in Ids, phase'[y] # "none"
        PROVE  y \in ListedIds(gui'.terms) \/ phase'[y] = "failing" \/ Called("retire", y)'
    <3>1. y \in ListedIds(gui.terms) \/ phase[y] = "failing" \/ Called("retire", y)
      BY <1>3, <2>0, <2>2 DEF IInv, Ledger
    <3> QED
      BY <1>3, <1>6, <1>9, <1>19, <3>1
  <2>3. ASSUME NEW i \in DOMAIN gui'.terms, gui'.terms[i].state # "Open"
        PROVE  Called("open", gui.terms[i].id)' \/ \E o \in {"connected", "opened", "openFailed", "closed"} : Signalled(o, gui.terms[i].id)'
    <3>1. PICK n \in 1 .. k : gui'.terms[i].id = new[n]
      BY <1>9, <2>3
    <3> QED
      BY <1>20, <3>1
  <2>4. \A y \in gui'.closing : Called("close", y)' \/ Signalled("closed", y)' \/ Signalled("openFailed", y)'
    BY <1>9
  <2> QED
    BY <2>1, <2>2, <2>3, <2>4
<1> QED
  BY <1>23, <1>24, <1>25, <1>26, <1>27, <1>28, <1>29, <1>30 DEF IInv

-----------------------------------------------------------------------------
(* The invariant of every behaviour, and what it says of the terminals.    *)

LEMMA Starts == Init => IInv
<1> SUFFICES ASSUME Init PROVE IInv
  OBVIOUS
<1>1. /\ session = "Disconnected" /\ logs = None /\ created = 0 /\ up = FALSE
      /\ calls = <<>> /\ signals = <<>> /\ asked = {}
      /\ phase = [id \in Ids |-> "none"] /\ out = [id \in Ids |-> {}] /\ unseen = [id \in Ids |-> {}]
  BY DEF Init
<1>2. /\ gui.terms = <<>> /\ gui.active = None /\ gui.panes = {} /\ gui.pinned = {}
      /\ gui.closing = {} /\ gui.restore = Nothing
  BY DEF Init
<1>3. <<>> \in Seq(TermRec) /\ <<>> \in Seq(CallRec) /\ <<>> \in Seq(SignalRec)
  OBVIOUS
<1>4. gui \in GuiRec
  BY <1>3 DEF Init, GuiRec
<1>5. DOMAIN gui.terms = {} /\ DOMAIN calls = {} /\ DOMAIN signals = {}
  BY <1>1, <1>2
<1>6. ListedIds(gui.terms) = {} /\ Visible(gui.terms) = {}
  BY <1>5 DEF ListedIds, Visible
<1>7. 0 \in 0 .. MaxIds
  BY LimitAssumption
<1>8. Typed
  BY <1>1, <1>3, <1>4, <1>7 DEF Typed, Phases
<1>9. PageFits /\ Docked
  BY <1>1, <1>2, <1>6 DEF PageFits, Docked
<1>10. WorkerFits
  BY <1>1, <1>5 DEF WorkerFits
<1>11. UnbornFits
  BY <1>1, <1>5, <1>6 DEF UnbornFits
<1>12. OpensFit /\ EndsFit
  BY <1>5 DEF OpensFit, EndsFit
<1>13. OutputFits /\ Ledger
  BY <1>1, <1>2 DEF OutputFits, Ledger
<1> QED
  BY <1>8, <1>9, <1>10, <1>11, <1>12, <1>13 DEF IInv

LEMMA EveryStep ==
  ASSUME ToolsNeedTerminals, IInv, [Next]_vars
  PROVE  IInv'
<1>1. CASE User
  <2>1. ASSUME NEW entry \in Entries, Connect(entry) PROVE IInv'
    BY <2>1, SessionConnects
  <2>2. CASE DisconnectTransport
    BY <2>2, WorkerReleased
  <2>3. CASE NewTerminal(FALSE)
    BY <2>3, TerminalCreated
  <2>4. CASE OpenLogs
    BY <2>4, TerminalCreated DEF OpenLogs
  <2>5. ASSUME NEW id \in Ids, OnDockShellCloseRequested(id) PROVE IInv'
    <3>1. /\ id \in gui.pinned /\ gui' = [gui EXCEPT !.closing = @ \union {id}]
          /\ logs' = logs /\ CloseTerminal(id)
      BY <2>5 DEF OnDockShellCloseRequested
    <3> QED
      BY <3>1, TerminalAskedToClose
  <2>6. ASSUME NEW id \in Ids, ActivateTerminal(id) \/ OnDockTerminalFocused(id) PROVE IInv'
    BY <2>6, TerminalActivated DEF ActivateTerminal, OnDockTerminalFocused
  <2>7. CASE CloseActive
    <3>1. PICK id : id = gui.active
      OBVIOUS
    <3>2. CloseTerminal(id) /\ gui' = gui /\ logs' = logs
      BY <2>7, <3>1 DEF CloseActive
    <3> QED
      BY <3>2, TerminalAskedToClose
  <2>8. CASE CloseLogs
    <3>1. PICK id : id = logs
      OBVIOUS
    <3>2. CloseTerminal(id) /\ gui' = gui /\ logs' = None
      BY <2>8, <3>1 DEF CloseLogs
    <3> QED
      BY <3>2, TerminalAskedToClose
  <2> QED
    BY <1>1, <2>1, <2>2, <2>3, <2>4, <2>5, <2>6, <2>7, <2>8 DEF User
<1>2. CASE Slots
  BY <1>2, HostConnected, TerminalOpens, TerminalRetired DEF Slots
<1>3. CASE Handlers
  BY <1>3, HandlerGoesOn DEF Handlers
<1>4. CASE Remote
  BY <1>4, LostConnection, ShellActs DEF Remote
<1>5. CASE Answers
  BY <1>5, SessionConnected, WorkerReleased, TerminalAnswered, OutputShown DEF Answers
<1>6. CASE UNCHANGED vars
  <2>1. UNCHANGED <<session, gui, logs, created, calls, up, phase, out, signals, unseen, asked>>
    BY <1>6 DEF vars, workerVars
  <2>2. Typed' /\ PageFits' /\ Docked'
    BY <2>1 DEF IInv, Typed, PageFits, Docked
  <2>3. WorkerFits' /\ UnbornFits'
    BY <2>1 DEF IInv, WorkerFits, UnbornFits, Unborn, Signalled
  <2>4. OpensFit' /\ EndsFit'
    BY <2>1 DEF IInv, OpensFit, EndsFit, Called
  <2>5. OutputFits' /\ Ledger'
    BY <2>1 DEF IInv, OutputFits, Ledger, Called, Signalled
  <2> QED
    BY <2>2, <2>3, <2>4, <2>5 DEF IInv
<1> QED
  BY <1>1, <1>2, <1>3, <1>4, <1>5, <1>6 DEF Next

LEMMA Always ==
  ASSUME ToolsNeedTerminals
  PROVE  Spec => []IInv
<1>1. IInv /\ [Next]_vars => IInv'
  BY EveryStep
<1> QED
  BY <1>1, Starts, PTL DEF Spec

(* A shell that ends by itself has its whole output in its pane before the *)
(* session takes the pane away: the handler hands over what is pending     *)
(* before it posts its own retirement (TerminalIoHandler::onIdle,          *)
(* finishIfNeeded), and the signals come in the order they were posted.    *)
THEOREM NoOutputIsLost ==
  ASSUME ToolsNeedTerminals
  PROVE  Spec => []OutputBeforeClosed
<1>1. ASSUME IInv, NEW i \in DOMAIN signals, signals[i].type = "closed", signals[i].id \notin asked,
             i = 1, signals[i].id \in gui.panes
      PROVE  unseen[signals[i].id] = {}
  <2>1. PICK id : id = signals[i].id
    OBVIOUS
  <2>2. id \in Ids /\ id \in gui.panes
    BY <1>1, <2>1 DEF IInv, Typed, GuiRec
  <2>3. phase[id] = "none" /\ out[id] = {}
    BY <1>1, <2>1, <2>2 DEF IInv, EndsFit, WorkerFits
  <2>4. Signalled("closed", id) /\ id \notin asked
    BY <1>1, <2>1 DEF Signalled
  <2>5. \A chunk \in unseen[id] :
          \E j \in DOMAIN signals : signals[j].type = "data" /\ signals[j].id = id
    BY <1>1, <2>2, <2>3, <2>4 DEF IInv, OutputFits
  <2>6. ASSUME NEW j \in DOMAIN signals, signals[j].type = "data", signals[j].id = id
        PROVE  FALSE
    <3>1. signals \in Seq(SignalRec)
      BY <1>1 DEF IInv, Typed
    <3>2. i < j
      BY <1>1, <2>6, <3>1
    <3> QED
      BY <1>1, <2>1, <2>6, <3>2 DEF IInv, EndsFit
  <2> QED
    BY <2>1, <2>5, <2>6
<1>2. IInv => OutputBeforeClosed
  BY <1>1 DEF OutputBeforeClosed
<1> QED
  BY <1>2, Always, PTL

(* Once the two threads have heard of each other they agree: the session   *)
(* lists the terminals the worker has channels for, as open and none as    *)
(* closing, and every shell the page shows has its dock, those of a        *)
(* workspace that was restored too (Session, SshWorker, SessionPage).      *)
THEOREM NobodyIsAGhost ==
  ASSUME ToolsNeedTerminals
  PROVE  Spec => []TerminalsAgree
<1>1. ASSUME IInv, session = "Connected", up, calls = <<>>, signals = <<>>, Idle
      PROVE  /\ ListedIds(gui.terms) = Live
             /\ \A i \in DOMAIN gui.terms : gui.terms[i].state = "Open"
             /\ gui.closing = {}
  <2>1. DOMAIN calls = {} /\ DOMAIN signals = {}
    BY <1>1
  <2>2. \A x, y : ~Called(x, y) /\ ~Signalled(x, y)
    BY <2>1 DEF Called, Signalled
  <2>3. \A id \in Ids : phase[id] # "failing"
    BY <1>1 DEF Idle
  <2>4. ListedIds(gui.terms) \subseteq Ids
    <3>1. gui.terms \in Seq(TermRec)
      BY <1>1 DEF IInv, Typed, GuiRec
    <3> QED
      BY <3>1, TermIds
  <2>5. \A id \in ListedIds(gui.terms) : phase[id] # "none"
    BY <1>1, <2>2 DEF IInv, Ledger
  <2>6. \A id \in Ids : phase[id] # "none" => id \in ListedIds(gui.terms)
    BY <1>1, <2>2, <2>3 DEF IInv, Ledger
  <2>7. \A i \in DOMAIN gui.terms : gui.terms[i].state = "Open"
    BY <1>1, <2>2 DEF IInv, Ledger
  <2>8. gui.closing = {}
    BY <1>1, <2>2 DEF IInv, Ledger
  <2> QED
    BY <2>4, <2>5, <2>6, <2>7, <2>8 DEF Live
<1>2. IInv => TerminalsAgree
  BY <1>1 DEF TerminalsAgree, NoGhosts, EveryShellIsDocked, IInv, Docked
<1> QED
  BY <1>2, Always, PTL
=============================================================================
