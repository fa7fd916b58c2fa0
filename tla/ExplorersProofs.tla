--------------------------- MODULE ExplorersProofs ---------------------------
(***************************************************************************)
(* Proofs about Explorers, for any questions, any rows the host may list   *)
(* and any bounds: whatever is hidden, asked again or abandoned, a page    *)
(* shows what the host said, and never something older than it has shown.  *)
(***************************************************************************)
EXTENDS Explorers, FiniteSetTheorems, SequenceTheorems, TLAPS

-----------------------------------------------------------------------------
(* The entries at some positions, in their order, are as many as these:    *)
(* the positions below each one number them.                               *)

LEMMA Ranks ==
  ASSUME NEW at, IsFiniteSet(at), at \subseteq Nat,
         NEW n \in 1 .. Cardinality(at)
  PROVE  \E i \in at : Cardinality({j \in at : j <= i}) = n
<1> DEFINE R(i) == {j \in at : j <= i}
           N == Cardinality(at)
           f == [i \in at |-> Cardinality(R(i))]
<1>1. N \in Nat
  BY FS_CardinalityType
<1>2. ASSUME NEW i \in at
      PROVE  IsFiniteSet(R(i)) /\ Cardinality(R(i)) \in 1 .. N
  <2>1. R(i) \in SUBSET at
    OBVIOUS
  <2>2. IsFiniteSet(R(i)) /\ Cardinality(R(i)) <= N
    BY <2>1, FS_Subset
  <2>3. i \in R(i)
    OBVIOUS
  <2>4. Cardinality(R(i)) \in Nat /\ Cardinality(R(i)) # 0
    BY <2>2, <2>3, FS_CardinalityType, FS_EmptySet
  <2> HIDE DEF R, N
  <2> QED
    BY <1>1, <2>2, <2>4
<1>3. ASSUME NEW i \in at, NEW k \in at, f[i] = f[k], i <= k
      PROVE  i = k
  <2>0. i \in Nat /\ k \in Nat /\ i <= k
    BY <1>3
  <2>1. R(i) \in SUBSET R(k) /\ IsFiniteSet(R(k)) /\ k \in R(k)
    <3>1. \A j \in at : j <= i => j <= k
      BY <2>0
    <3> HIDE DEF f
    <3> QED
      <4>1. R(i) \in SUBSET R(k)
        BY <3>1
      <4>2. k \in R(k)
        BY <2>0
      <4> QED
        BY <1>2, <4>1, <4>2, Zenon
  <2>2. R(k) = R(i)
    BY <1>3, <2>1, FS_Subset
  <2>3. k <= i
    BY <2>1, <2>2
  <2> QED
    BY <1>3, <2>3
<1>4. f \in [at -> 1 .. N]
  BY <1>2
<1>5. \A i, k \in at : f[i] = f[k] => i = k
  <2> HIDE DEF f
  <2> SUFFICES ASSUME NEW i \in at, NEW k \in at, f[i] = f[k] PROVE i = k
    OBVIOUS
  <2>1. i <= k \/ k <= i
    OBVIOUS
  <2> QED
    BY <1>3, <2>1
<1> HIDE DEF f
<1>6. f \in Injection(at, 1 .. N)
  <2> DEFINE T == 1 .. N
  <2>1. f \in [at -> T] /\ \A i, k \in at : f[i] = f[k] => i = k
    BY <1>4, <1>5
  <2> HIDE DEF T
  <2>2. f \in Injection(at, T)
    BY <2>1 DEF Injection, IsInjective
  <2> QED
    BY <2>2 DEF T
<1>7. IsFiniteSet(1 .. N) /\ Cardinality(1 .. N) = N
  BY <1>1, FS_Interval
<1>8. f \in Surjection(at, 1 .. N)
  BY <1>6, <1>7, FS_Injection
<1>9. PICK i \in at : f[i] = n
  BY <1>8 DEF Surjection
<1> QED
  BY <1>9 DEF f

LEMMA PickFacts ==
  ASSUME NEW S, NEW s \in Seq(S), NEW at, at \subseteq DOMAIN s
  PROVE  /\ Pick(s, at) \in Seq(S)
         /\ DOMAIN Pick(s, at) = 1 .. Len(Pick(s, at))
         /\ Len(Pick(s, at)) \in Nat
         /\ \A n \in DOMAIN Pick(s, at) : \E i \in at : Pick(s, at)[n] = s[i]
         /\ \A i \in at : \E n \in DOMAIN Pick(s, at) : Pick(s, at)[n] = s[i]
         /\ \A n, m \in DOMAIN Pick(s, at) :
              n # m => \E i, k \in at : i # k /\ Pick(s, at)[n] = s[i] /\ Pick(s, at)[m] = s[k]
<1> DEFINE R(i) == {j \in at : j <= i}
           N == Cardinality(at)
           C(n) == CHOOSE i \in at : Cardinality(R(i)) = n
           p == [n \in 1 .. N |-> s[C(n)]]
<1>1. Len(s) \in Nat /\ DOMAIN s = 1 .. Len(s)
  OBVIOUS
<1>2. IsFiniteSet(at) /\ at \subseteq Nat
  <2>1. IsFiniteSet(1 .. Len(s))
    BY <1>1, FS_Interval
  <2>2. at \in SUBSET (1 .. Len(s))
    BY <1>1
  <2> QED
    BY <1>1, <2>1, <2>2, FS_Subset
<1>3. N \in Nat
  BY <1>2, FS_CardinalityType
<1>4. ASSUME NEW n \in 1 .. N
      PROVE  C(n) \in at /\ Cardinality(R(C(n))) = n
  <2>1. \E i \in at : Cardinality(R(i)) = n
    BY <1>2, Ranks
  <2> QED
    BY <2>1
<1>5. ASSUME NEW i \in at
      PROVE  Cardinality(R(i)) \in 1 .. N
  <2>1. R(i) \in SUBSET at
    OBVIOUS
  <2>2. IsFiniteSet(R(i)) /\ Cardinality(R(i)) <= N
    BY <1>2, <2>1, FS_Subset
  <2>3. i \in R(i)
    BY <1>2
  <2>4. Cardinality(R(i)) \in Nat /\ Cardinality(R(i)) # 0
    BY <2>2, <2>3, FS_CardinalityType, FS_EmptySet
  <2> HIDE DEF R, N
  <2> QED
    BY <1>3, <2>2, <2>4
<1>6. ASSUME NEW i \in at
      PROVE  C(Cardinality(R(i))) = i
  <2> DEFINE k == C(Cardinality(R(i)))
  <2>1. k \in at /\ Cardinality(R(k)) = Cardinality(R(i))
    BY <1>4, <1>5
  <2> HIDE DEF k
  <2>2. ASSUME NEW a \in at, NEW b \in at, a <= b, Cardinality(R(a)) = Cardinality(R(b))
        PROVE  a = b
    <3>1. R(a) \in SUBSET R(b) /\ R(b) \in SUBSET at /\ b \in R(b)
      BY <1>2, <2>2
    <3>2. IsFiniteSet(R(b))
      BY <1>2, <3>1, FS_Subset
    <3>3. R(b) = R(a)
      BY <2>2, <3>1, <3>2, FS_Subset
    <3>4. b <= a
      BY <3>1, <3>3
    <3> QED
      BY <1>2, <2>2, <3>4
  <2>3. k <= i \/ i <= k
    BY <1>2, <2>1
  <2>4. k = i
    BY <2>1, <2>2, <2>3
  <2> QED
    BY <2>4 DEF k
<1>7. p = Pick(s, at)
  BY DEF Pick
<1> HIDE DEF C, R, N
<1>8. p \in Seq(S) /\ Len(p) = N /\ DOMAIN p = 1 .. N /\ \A n \in 1 .. N : p[n] = s[C(n)]
  <2>1. p \in [1 .. N -> S]
    BY <1>1, <1>4
  <2> QED
    BY <1>3, <2>1
<1> HIDE DEF p
<1>9. \A n \in DOMAIN p : \E i \in at : p[n] = s[i]
  BY <1>4, <1>8
<1>10. \A i \in at : \E n \in DOMAIN p : p[n] = s[i]
  <2> SUFFICES ASSUME NEW i \in at PROVE \E n \in DOMAIN p : p[n] = s[i]
    OBVIOUS
  <2>1. Cardinality(R(i)) \in DOMAIN p /\ p[Cardinality(R(i))] = s[i]
    BY <1>5, <1>6, <1>8
  <2> QED
    BY <2>1
<1>11. \A n, m \in DOMAIN p :
         n # m => \E i, k \in at : i # k /\ p[n] = s[i] /\ p[m] = s[k]
  <2> SUFFICES ASSUME NEW n \in 1 .. N, NEW m \in 1 .. N, n # m
               PROVE  \E i, k \in at : i # k /\ p[n] = s[i] /\ p[m] = s[k]
    BY <1>8
  <2>1. C(n) \in at /\ C(m) \in at /\ C(n) # C(m)
    BY <1>4
  <2> QED
    BY <1>8, <2>1
<1> QED
  BY <1>3, <1>7, <1>8, <1>9, <1>10, <1>11

-----------------------------------------------------------------------------
(* What the parsers return.                                                *)

Row == [id : Names, data : 0 .. 1]
ParsedRow == [id : Names \union {NoName}, data : 0 .. 1]

LEMMA ParsedFacts ==
  ASSUME NEW k \in Kinds, NEW lines \in Seq(Lines)
  PROVE  ParseList(k, lines) \in Seq(ParsedRow)
<1> DEFINE at == {i \in DOMAIN lines : k # "systeminfo" /\ lines[i].type = "row"}
           good == Pick(lines, at)
           HasStats(id) == \E i \in DOMAIN lines : lines[i].type = "stats" /\ lines[i].id = id
           parsed == [i \in DOMAIN good |->
                        [id |-> good[i].id,
                         data |-> IF k = "container" THEN IF HasStats(good[i].id) THEN 1 ELSE 0
                                  ELSE good[i].data]]
<1>0. at \subseteq DOMAIN lines
  OBVIOUS
<1>3. ParseList(k, lines) = parsed
  BY DEF ParseList
<1> HIDE DEF at
<1>1. /\ good \in Seq(Lines) /\ DOMAIN good = 1 .. Len(good) /\ Len(good) \in Nat
      /\ \A n \in DOMAIN good : \E i \in at : good[n] = lines[i]
  BY <1>0, PickFacts
<1>2. ASSUME NEW n \in DOMAIN good
      PROVE  good[n].id \in Names \union {NoName} /\ good[n].data \in 0 .. 1
  <2>1. PICK i \in DOMAIN lines : good[n] = lines[i] /\ lines[i].type = "row"
    BY <1>1 DEF at
  <2>2. lines[i] \in Lines
    OBVIOUS
  <2> QED
    BY <2>1, <2>2 DEF Lines
<1> HIDE DEF good, HasStats
<1>4. parsed \in [1 .. Len(good) -> ParsedRow]
  BY <1>1, <1>2 DEF ParsedRow
<1> HIDE DEF parsed
<1> QED
  BY <1>1, <1>3, <1>4

LEMMA SnapshotFacts ==
  ASSUME NEW k \in Kinds, NEW snapshot \in Snapshots[k]
  PROVE  snapshot \in Seq(ParsedRow)
<1>1. PICK o \in Outputs : snapshot = ParseList(k, o.lines)
  BY DEF Snapshots
<1>2. o.lines \in Seq(Lines)
  <2>1. o.lines \in SeqOf(Lines, MaxLines)
    BY DEF Outputs
  <2>2. PICK m \in 0 .. MaxLines : o.lines \in [1 .. m -> Lines]
    BY <2>1 DEF SeqOf
  <2> QED
    BY <2>2, BoundsAssumption
<1> QED
  BY <1>1, <1>2, ParsedFacts

-----------------------------------------------------------------------------
(* The rows of a table, and how a list patches them.                       *)

Unique(s) == \A i, j \in DOMAIN s : s[i].id = s[j].id => i = j
Content(s) == {s[i] : i \in DOMAIN s}
First(s) == {j \in DOMAIN s : s[j].id # NoName /\ \A k \in 1 .. j - 1 : s[k].id # s[j].id}
Listing(s) == {s[i] : i \in First(s)}

LEMMA DistinctFacts ==
  ASSUME NEW s \in Seq(ParsedRow)
  PROVE  /\ Distinct(s) \in Seq(Row) /\ Unique(Distinct(s))
         /\ Content(Distinct(s)) = Listing(s)
<1> DEFINE at == First(s)
           d == Pick(s, at)
<1>1. d = Distinct(s) /\ at \subseteq DOMAIN s
  BY DEF Distinct, First
<1>2. /\ d \in Seq(ParsedRow) /\ DOMAIN d = 1 .. Len(d) /\ Len(d) \in Nat
      /\ \A n \in DOMAIN d : \E i \in at : d[n] = s[i]
      /\ \A i \in at : \E n \in DOMAIN d : d[n] = s[i]
      /\ \A n, m \in DOMAIN d : n # m => \E i, k \in at : i # k /\ d[n] = s[i] /\ d[m] = s[k]
  BY <1>1, PickFacts
<1> HIDE DEF d
<1>3. ASSUME NEW i \in at, NEW k \in at, i # k
      PROVE  s[i].id # s[k].id
  <2>1. i \in Nat /\ k \in Nat /\ i >= 1 /\ k >= 1
    BY <1>1
  <2>2. i \in 1 .. k - 1 \/ k \in 1 .. i - 1
    BY <1>3, <2>1
  <2> QED
    BY <2>2 DEF First
<1>4. Unique(d)
  <2> SUFFICES ASSUME NEW n \in DOMAIN d, NEW m \in DOMAIN d, n # m
               PROVE  d[n].id # d[m].id
    BY Zenon DEF Unique
  <2>1. PICK i \in at, k \in at : i # k /\ d[n] = s[i] /\ d[m] = s[k]
    BY <1>2
  <2> QED
    BY <1>3, <2>1
<1>5. Content(d) = Listing(s)
  <2>1. ASSUME NEW x \in Content(d) PROVE x \in Listing(s)
    BY <1>2 DEF Content, Listing
  <2>2. ASSUME NEW x \in Listing(s) PROVE x \in Content(d)
    BY <1>2 DEF Content, Listing
  <2> QED
    BY <2>1, <2>2
<1>6. ASSUME NEW n \in DOMAIN d PROVE d[n] \in Row
  <2>1. PICK i \in at : d[n] = s[i]
    BY <1>2
  <2>2. s[i] \in ParsedRow /\ s[i].id # NoName
    BY <1>1 DEF First
  <2> QED
    BY <2>1, <2>2 DEF ParsedRow, Row
<1>7. d \in Seq(Row)
  BY <1>2, <1>6
<1> QED
  BY <1>1, <1>4, <1>5, <1>7

LEMMA Applied ==
  ASSUME NEW old \in Seq(Row), Unique(old), NEW s \in Seq(ParsedRow)
  PROVE  /\ ApplySnapshot(old, s) \in Seq(Row) /\ Unique(ApplySnapshot(old, s))
         /\ Content(ApplySnapshot(old, s)) = Listing(s)
<1> DEFINE d == Distinct(s)
           In(id) == d[CHOOSE i \in DOMAIN d : d[i].id = id]
           at == {i \in DOMAIN old : old[i].id \in IdsOf(d)}
           kept == Pick(old, at)
           a == [i \in DOMAIN kept |-> In(kept[i].id)]
           bt == {i \in DOMAIN d : d[i].id \notin IdsOf(old)}
           b == Pick(d, bt)
           t == a \o b
<1>1. d \in Seq(Row) /\ Unique(d) /\ Content(d) = Listing(s)
  BY DistinctFacts
<1>2. ApplySnapshot(old, s) = t
  BY DEF ApplySnapshot
<1>0. at \subseteq DOMAIN old /\ bt \subseteq DOMAIN d
  OBVIOUS
<1> HIDE DEF d, at, bt
<1>3. /\ kept \in Seq(Row) /\ DOMAIN kept = 1 .. Len(kept) /\ Len(kept) \in Nat
      /\ \A n \in DOMAIN kept : \E i \in at : kept[n] = old[i]
      /\ \A i \in at : \E n \in DOMAIN kept : kept[n] = old[i]
      /\ \A n, m \in DOMAIN kept :
           n # m => \E i, k \in at : i # k /\ kept[n] = old[i] /\ kept[m] = old[k]
  BY <1>0, PickFacts
<1>4. /\ b \in Seq(Row) /\ DOMAIN b = 1 .. Len(b) /\ Len(b) \in Nat
      /\ \A n \in DOMAIN b : \E i \in bt : b[n] = d[i]
      /\ \A i \in bt : \E n \in DOMAIN b : b[n] = d[i]
      /\ \A n, m \in DOMAIN b : n # m => \E i, k \in bt : i # k /\ b[n] = d[i] /\ b[m] = d[k]
  BY <1>0, <1>1, PickFacts
<1> USE DEF at, bt
<1>5. ASSUME NEW id \in IdsOf(d)
      PROVE  In(id) \in Content(d) /\ In(id).id = id
  BY DEF IdsOf, Content
<1> HIDE DEF In, kept, b
<1>6. ASSUME NEW n \in DOMAIN kept
      PROVE  /\ kept[n].id \in IdsOf(d) /\ kept[n].id \in IdsOf(old)
             /\ a[n] = In(kept[n].id) /\ a[n] \in Content(d) /\ a[n].id = kept[n].id
  <2>1. PICK i \in at : kept[n] = old[i]
    BY <1>3
  <2>2. kept[n].id \in IdsOf(d) /\ kept[n].id \in IdsOf(old)
    BY <2>1 DEF IdsOf
  <2>3. a[n] = In(kept[n].id)
    OBVIOUS
  <2> QED
    BY <1>5, <2>2, <2>3
<1>7. ASSUME NEW n \in DOMAIN b
      PROVE  b[n] \in Content(d) /\ b[n].id \notin IdsOf(old)
  BY <1>4 DEF Content
<1>8. Content(d) \subseteq Row
  BY <1>1 DEF Content
<1>9. a \in Seq(Row) /\ Len(a) = Len(kept) /\ DOMAIN a = DOMAIN kept
  <2>1. a \in [1 .. Len(kept) -> Row]
    BY <1>3, <1>6, <1>8
  <2> QED
    BY <1>3, <2>1
<1> HIDE DEF a
<1>10. /\ t \in Seq(Row) /\ Len(t) = Len(a) + Len(b)
       /\ \A i \in 1 .. Len(a) + Len(b) : t[i] = IF i <= Len(a) THEN a[i] ELSE b[i - Len(a)]
  <2>1. a \in Seq(Row) /\ b \in Seq(Row)
    BY <1>4, <1>9
  <2> QED
    BY <2>1, ConcatProperties
<1> HIDE DEF t
<1>11. /\ Len(a) \in Nat /\ Len(b) \in Nat
       /\ DOMAIN t = 1 .. Len(a) + Len(b) /\ DOMAIN a = 1 .. Len(a) /\ DOMAIN b = 1 .. Len(b)
  BY <1>4, <1>9, <1>10
<1>12. ASSUME NEW i \in DOMAIN t
       PROVE  \/ i \in DOMAIN a /\ t[i] = a[i]
              \/ i - Len(a) \in DOMAIN b /\ t[i] = b[i - Len(a)] /\ i \notin DOMAIN a
  BY <1>10, <1>11
<1>13. ASSUME NEW n \in DOMAIN a, NEW m \in DOMAIN a, a[n].id = a[m].id
       PROVE  n = m
  <2> SUFFICES ASSUME n # m PROVE FALSE
    OBVIOUS
  <2>1. PICK i \in at, k \in at : i # k /\ kept[n] = old[i] /\ kept[m] = old[k]
    BY <1>3, <1>9
  <2>2. old[i].id = old[k].id /\ i \in DOMAIN old /\ k \in DOMAIN old
    BY <1>6, <1>9, <1>13, <2>1
  <2> QED
    BY <2>1, <2>2 DEF Unique
<1>14. ASSUME NEW n \in DOMAIN b, NEW m \in DOMAIN b, b[n].id = b[m].id
       PROVE  n = m
  <2> SUFFICES ASSUME n # m PROVE FALSE
    OBVIOUS
  <2>1. PICK i \in bt, k \in bt : i # k /\ b[n] = d[i] /\ b[m] = d[k]
    BY <1>4
  <2>2. d[i].id = d[k].id /\ i \in DOMAIN d /\ k \in DOMAIN d
    BY <1>14, <2>1
  <2> QED
    BY <1>1, <2>1, <2>2 DEF Unique
<1>15. ASSUME NEW n \in DOMAIN a, NEW m \in DOMAIN b
       PROVE  a[n].id # b[m].id
  BY <1>6, <1>7, <1>9
<1>16. Unique(t)
  <2> SUFFICES ASSUME NEW i \in DOMAIN t, NEW j \in DOMAIN t, t[i].id = t[j].id
               PROVE  i = j
    BY Zenon DEF Unique
  <2>1. CASE i \in DOMAIN a /\ j \in DOMAIN a
    BY <1>12, <1>13, <2>1
  <2>2. CASE i \notin DOMAIN a /\ j \notin DOMAIN a
    <3>1. i - Len(a) = j - Len(a)
      BY <1>12, <1>14, <2>2
    <3> QED
      BY <1>11, <3>1
  <2>3. CASE i \in DOMAIN a /\ j \notin DOMAIN a
    BY <1>12, <1>15, <2>3
  <2>4. CASE i \notin DOMAIN a /\ j \in DOMAIN a
    BY <1>12, <1>15, <2>4
  <2> QED
    BY <2>1, <2>2, <2>3, <2>4
<1>17. Content(t) \subseteq Content(d)
  <2> SUFFICES ASSUME NEW i \in DOMAIN t PROVE t[i] \in Content(d)
    BY DEF Content
  <2> QED
    BY <1>6, <1>7, <1>9, <1>12
<1>18. ASSUME NEW x \in Content(d) PROVE x \in Content(t)
  <2>1. PICK j \in DOMAIN d : x = d[j]
    BY DEF Content
  <2>2. CASE x.id \in IdsOf(old)
    <3>1. PICK i \in DOMAIN old : old[i].id = x.id
      BY <2>2 DEF IdsOf
    <3>2. x.id \in IdsOf(d)
      BY <2>1 DEF IdsOf
    <3>3. i \in at
      BY <3>1, <3>2
    <3>4. PICK n \in DOMAIN kept : kept[n] = old[i]
      BY <1>3, <3>3
    <3>5. a[n] \in Content(d) /\ a[n].id = x.id
      BY <1>6, <3>1, <3>4
    <3>6. PICK m \in DOMAIN d : a[n] = d[m]
      BY <3>5 DEF Content
    <3>7. m = j
      BY <1>1, <2>1, <3>5, <3>6 DEF Unique
    <3>8. n \in DOMAIN t /\ t[n] = a[n]
      BY <1>9, <1>10, <1>11
    <3> QED
      BY <2>1, <3>6, <3>7, <3>8 DEF Content
  <2>3. CASE x.id \notin IdsOf(old)
    <3>1. j \in bt
      BY <2>1, <2>3
    <3>2. PICK m \in DOMAIN b : b[m] = x
      BY <1>4, <2>1, <3>1
    <3>3. m \in Nat /\ m >= 1 /\ m <= Len(b)
      BY <1>11
    <3> DEFINE k == Len(a) + m
    <3>4. k \in DOMAIN t /\ ~(k <= Len(a)) /\ k - Len(a) = m
      BY <1>11, <3>3
    <3>5. t[k] = b[m]
      BY <1>10, <1>11, <3>4
    <3> QED
      BY <3>2, <3>4, <3>5 DEF Content
  <2> QED
    BY <2>2, <2>3
<1> QED
  BY <1>1, <1>2, <1>10, <1>16, <1>17, <1>18

(* A table in which no row comes twice has as many as it shows.            *)
LEMMA Counted ==
  ASSUME NEW s \in Seq(Row), Unique(s)
  PROVE  Cardinality(Content(s)) = Len(s)
<1> DEFINE T == Content(s)
           n == Len(s)
<1>1. n \in Nat /\ DOMAIN s = 1 .. n /\ s \in [1 .. n -> T]
  BY DEF Content
<1>2. s \in Injection(1 .. n, T)
  BY <1>1 DEF Injection, IsInjective, Unique
<1>3. s \in Surjection(1 .. n, T)
  BY <1>1 DEF Surjection, Content
<1>4. ExistsBijection(1 .. n, T)
  BY <1>2, <1>3 DEF ExistsBijection, Bijection
<1> HIDE DEF T
<1> QED
  BY <1>1, <1>4, FS_CountingElements DEF T

-----------------------------------------------------------------------------
(* The invariant.                                                          *)

Source == [running : BOOLEAN, active : Calls \union {None}, after : BOOLEAN,
           capability : {"Checking", "Available", "Unavailable", "PermissionDenied", "Error"}]
Question == {"none", "sent", "read"}
Reading == [counter : Gone .. MaxCount, moved : 0 .. MaxCount, at : 0 .. MaxTime]

Measured ==
  /\ prev \in NoSample .. MaxCount /\ counter \in Gone .. MaxCount /\ moved \in 0 .. MaxCount
  /\ span \in 0 .. MaxTime /\ elapsed \in 0 .. span /\ reading \in Reading

(* The page does not wait for anything that was read before what it shows. *)
Fresh == src.active \notin older /\ newest

(* What the interface has carried, up to the moment at which the host read *)
(* and since then, covers the rate that is shown and the one after it.     *)
ReadingFits ==
  /\ Delta(prev, reading.counter) <= reading.moved
  /\ reading.moved <= moved /\ reading.at <= span
  /\ Delta(reading.counter, counter) <= moved - reading.moved

Rates ==
  /\ Delta(prev, counter) <= moved
  /\ src.active \in ReadFor => ReadingFits
  /\ honest

Table ==
  /\ Unique(rows) /\ Content(rows) = listing
  /\ page = "closed" => rows = <<>> /\ ~src.running
  /\ ViewIsCurrent

IInv == TypeOK /\ Fresh /\ Rates /\ Table

LEMMA Types ==
  ASSUME TypeOK
  PROVE  /\ src \in Source /\ calls \in [Calls -> Question] /\ rows \in Seq(Row)
         /\ Measured /\ kind \in Kinds
BY DEF TypeOK, Source, Question, Reading, Measured, Row

LEMMA NoneIsNoCall == None \notin Calls
BY NamesAssumption

-----------------------------------------------------------------------------
(* What asking does to the source and to the questions that are on their way. *)

AsksOrNot(base, left) ==
  /\ src' \in Source /\ calls' \in [Calls -> Question]
  /\ src'.capability = base.capability /\ src'.running = base.running
  /\ \A d \in Calls : \/ calls'[d] = left[d]
                      \/ left[d] = "none" /\ calls'[d] = "sent"
  /\ \/ src'.active = base.active
     \/ src'.active \in Calls /\ left[src'.active] = "none"

LEMMA Asks ==
  ASSUME NEW base \in Source, NEW left \in [Calls -> Question], Ask(base, left)
  PROVE  AsksOrNot(base, left) /\ src'.active \in Calls /\ left[src'.active] = "none"
<1>1. PICK c \in Free(left) : /\ src' = [base EXCEPT !.active = c]
                              /\ calls' = [left EXCEPT ![c] = "sent"]
  BY DEF Ask
<1>2. c \in Calls /\ left[c] = "none"
  BY DEF Free
<1>3. src' \in Source /\ src'.capability = base.capability /\ src'.active = c
      /\ src'.running = base.running
  BY <1>1, <1>2 DEF Source
<1>4. calls' \in [Calls -> Question] /\ calls'[c] = "sent"
      /\ \A d \in Calls : d # c => calls'[d] = left[d]
  BY <1>1, <1>2 DEF Question
<1> QED
  BY <1>2, <1>3, <1>4 DEF AsksOrNot

LEMMA AsksAgain ==
  ASSUME NEW base \in Source, NEW left \in [Calls -> Question], ThenAskAgain(base, left)
  PROVE  AsksOrNot(base, left)
<1>1. CASE src.after
  <2> DEFINE again == [base EXCEPT !.after = FALSE]
  <2>1. /\ again \in Source /\ again.active = base.active
        /\ again.capability = base.capability /\ again.running = base.running
    BY DEF Source
  <2>2. Ask(again, left)
    BY <1>1 DEF ThenAskAgain
  <2> HIDE DEF again
  <2> QED
    BY <2>1, <2>2, Asks DEF AsksOrNot
<1>2. CASE ~src.after
  BY <1>2 DEF ThenAskAgain, AsksOrNot
<1> QED
  BY <1>1, <1>2

LEMMA AnsweredFacts ==
  ASSUME TypeOK, NEW c \in Calls
  PROVE  /\ Answered(c) \in [Calls -> Question] /\ Answered(c)[c] = "none"
         /\ \A d \in Calls : d # c => Answered(c)[d] = calls[d]
BY Types DEF Answered, Question

(* The page waits for nothing, or for what the host has not read yet.      *)
NothingRead == \/ src'.active = None
               \/ src'.active \in Calls /\ calls'[src'.active] # "read"

(* A step that gives the page nothing of what the host has read.           *)
Quiet ==
  /\ src' \in Source /\ calls' \in [Calls -> Question]
  /\ \A d \in Calls : \/ calls'[d] = calls[d]
                      \/ /\ calls'[d] # "read"
                         /\ calls[d] = "read" =>
                              d \notin older' /\ \A p \in order' : d \notin {p[1], p[2]}
  /\ older' \subseteq older /\ order' \subseteq order
  /\ src'.active = src.active \/ NothingRead
  /\ UNCHANGED sampleVars \/ (NoSampleKept /\ NothingRead)
  /\ UNCHANGED <<counter, honest, newest>>

LEMMA QuietKeeps ==
  ASSUME TypeOK, Fresh, Rates, Quiet
  PROVE  /\ order' \subseteq ReadFor' \X ReadFor' /\ older' \subseteq ReadFor'
         /\ Fresh' /\ Rates'
<1>1. ASSUME NEW d \in Calls, d \in ReadFor'
      PROVE  d \in ReadFor /\ calls'[d] = calls[d]
  BY <1>1 DEF ReadFor, Quiet
<1>2. ASSUME NEW d \in ReadFor, d \notin ReadFor'
      PROVE  d \notin older' /\ \A p \in order' : d \notin {p[1], p[2]}
  BY <1>2 DEF ReadFor, Quiet
<1>3. older \subseteq ReadFor /\ order \subseteq ReadFor \X ReadFor
  BY DEF TypeOK
<1>4. older' \subseteq ReadFor'
  BY <1>2, <1>3 DEF Quiet
<1>5. order' \subseteq ReadFor' \X ReadFor'
  <2> SUFFICES ASSUME NEW p \in order' PROVE p \in ReadFor' \X ReadFor'
    OBVIOUS
  <2>1. p \in ReadFor \X ReadFor
    BY <1>3 DEF Quiet
  <2>2. p[1] \in ReadFor /\ p[2] \in ReadFor /\ p = <<p[1], p[2]>>
    BY <2>1
  <2>3. p[1] \in ReadFor' /\ p[2] \in ReadFor'
    BY <1>2, <2>2
  <2> QED
    BY <2>2, <2>3
<1>6. Fresh'
  <2>1. newest'
    BY DEF Quiet, Fresh
  <2>2. src'.active \notin older'
    <3>1. CASE src'.active = src.active
      BY <3>1 DEF Quiet, Fresh
    <3>2. CASE src'.active = None
      BY <1>4, <3>2, NoneIsNoCall DEF ReadFor
    <3>3. CASE src'.active \in Calls /\ calls'[src'.active] # "read"
      BY <1>4, <3>3 DEF ReadFor
    <3> QED
      BY <3>1, <3>2, <3>3 DEF Quiet, NothingRead
  <2> QED
    BY <2>1, <2>2 DEF Fresh
<1>7. Rates'
  <2>1. counter' = counter /\ honest'
    BY DEF Quiet, Rates
  <2>2. CASE NothingRead
    <3>1. src'.active \notin ReadFor'
      BY <2>2, NoneIsNoCall DEF NothingRead, ReadFor
    <3>2. Delta(prev', counter') <= moved'
      <4>1. CASE UNCHANGED sampleVars
        BY <2>1, <4>1 DEF Rates, sampleVars
      <4>2. CASE NoSampleKept
        BY <4>2 DEF NoSampleKept, Delta, Unknown
      <4> QED
        BY <4>1, <4>2 DEF Quiet
    <3> QED
      BY <2>1, <3>1, <3>2 DEF Rates
  <2>3. CASE ~NothingRead
    <3>1. src'.active = src.active /\ UNCHANGED sampleVars
      BY <2>3 DEF Quiet
    <3>2. src'.active \in ReadFor' => src.active \in ReadFor
      BY <1>1, <3>1 DEF ReadFor
    <3> QED
      BY <2>1, <3>1, <3>2 DEF Rates, ReadingFits, sampleVars
  <2> QED
    BY <2>2, <2>3
<1> QED
  BY <1>4, <1>5, <1>6, <1>7

-----------------------------------------------------------------------------
(* What the widgets are told.                                              *)

Views == {"loading", "list", "empty", "failed"}

LEMMA CapabilityShown ==
  ASSUME TypeOK, Table, page # "closed", page' # "closed", UNCHANGED kind,
         NEW capability, src'.capability = capability, ShowCapability(capability)
  PROVE  Table' /\ rows' = rows /\ view' \in Views
<1>1. rows' = rows /\ listing' = listing
  BY DEF ShowCapability
<1>2. kind # "systeminfo" => view = ViewOf(src.capability, rows)
  BY DEF Table, ViewIsCurrent
<1>3. kind # "systeminfo" => view' = ViewOf(capability, rows)
  <2> SUFFICES ASSUME kind # "systeminfo" PROVE view' = ViewOf(capability, rows)
    OBVIOUS
  <2>1. view' = Refreshed(capability, rows)
    BY DEF ShowCapability
  <2>2. CASE capability # src.capability \/ capability = "Error"
    BY <2>1, <2>2 DEF Refreshed
  <2>3. CASE ~(capability # src.capability \/ capability = "Error")
    <3>1. Refreshed(capability, rows) = view
      BY <2>3 DEF Refreshed
    <3> QED
      BY <1>2, <2>1, <2>3, <3>1
  <2> QED
    BY <2>2, <2>3
<1>4. view' \in Views
  <2>1. view \in Views
    BY DEF TypeOK, Views
  <2>2. ViewOf(capability, rows) \in Views
    BY DEF ViewOf, Views
  <2> QED
    BY <1>3, <2>1, <2>2 DEF ShowCapability
<1>5. Table'
  BY <1>1, <1>3 DEF Table, ViewIsCurrent, Unique, Content
<1> QED
  BY <1>1, <1>4, <1>5

LEMMA ListShown ==
  ASSUME TypeOK, Table, page # "closed", page' # "closed", UNCHANGED kind,
         NEW snapshot \in Snapshots[kind], ShowList(snapshot), src'.capability = "Available"
  PROVE  Table' /\ rows' \in Seq(Row) /\ view' \in Views
<1> DEFINE table == ApplySnapshot(rows, snapshot)
<1>1. kind \in Kinds /\ rows \in Seq(Row) /\ Unique(rows)
  BY Types DEF Table
<1>2. snapshot \in Seq(ParsedRow)
  BY <1>1, SnapshotFacts
<1>3. table \in Seq(Row) /\ Unique(table) /\ Content(table) = Listing(snapshot)
  BY <1>1, <1>2, Applied
<1>4. rows' = table /\ listing' = Listing(snapshot) /\ view' = Refreshed("Available", table)
  BY DEF ShowList, Listing, First
<1> HIDE DEF table
<1>5. \A s \in Seq(Row) : IdsOf(s) = {} <=> s = <<>>
  <2> SUFFICES ASSUME NEW s \in Seq(Row) PROVE IdsOf(s) = {} <=> s = <<>>
    OBVIOUS
  <2>1. s = <<>> => IdsOf(s) = {}
    BY DEF IdsOf
  <2>2. ASSUME s # <<>> PROVE IdsOf(s) # {}
    <3>1. 1 \in DOMAIN s
      BY <2>2
    <3> QED
      BY <3>1 DEF IdsOf
  <2> QED
    BY <2>1, <2>2
<1>6. view' = ViewOf("Available", table) \/ (kind = "systeminfo" /\ view' = view)
  <2>1. CASE IdsOf(table) # IdsOf(rows)
    BY <1>4, <2>1 DEF Refreshed
  <2>2. CASE IdsOf(table) = IdsOf(rows) /\ "Available" # src.capability
    <3>1. view' = ViewOf("Available", rows)
      BY <1>4, <2>2 DEF Refreshed
    <3>2. rows = <<>> <=> table = <<>>
      BY <1>1, <1>3, <1>5, <2>2
    <3> QED
      BY <3>1, <3>2 DEF ViewOf
  <2>3. CASE IdsOf(table) = IdsOf(rows) /\ "Available" = src.capability
    <3>1. view' = view
      BY <1>4, <2>3 DEF Refreshed
    <3>2. kind # "systeminfo" => view = ViewOf("Available", rows)
      BY <2>3 DEF Table, ViewIsCurrent
    <3>3. rows = <<>> <=> table = <<>>
      BY <1>1, <1>3, <1>5, <2>3
    <3> QED
      BY <3>1, <3>2, <3>3 DEF ViewOf
  <2> QED
    BY <2>1, <2>2, <2>3
<1>7. view' \in Views
  <2>1. view \in Views /\ ViewOf("Available", table) \in Views
    BY DEF TypeOK, ViewOf, Views
  <2> QED
    BY <1>6, <2>1
<1>8. Unique(rows)' /\ Content(rows)' = listing'
  BY <1>3, <1>4 DEF Unique, Content
<1>9. Table'
  BY <1>4, <1>6, <1>8 DEF Table, ViewIsCurrent
<1> QED
  BY <1>3, <1>4, <1>7, <1>9

-----------------------------------------------------------------------------
(* The steps of the user, the timer and the session.                       *)

Shown ==
  /\ kind \in Kinds /\ session \in {"up", "ending", "down"}
  /\ page \in {"closed", "hidden", "shown"}
  /\ view \in Views /\ rows \in Seq(Row) /\ dialog \in Calls \union {None, "row", "details"}

LEMMA ShownNow ==
  ASSUME TypeOK
  PROVE  Shown
BY DEF TypeOK, Shown, Views, Row

LEMMA Concluded ==
  ASSUME IInv, Quiet, Table', Shown'
  PROVE  IInv'
<1>1. /\ order' \subseteq ReadFor' \X ReadFor' /\ older' \subseteq ReadFor'
      /\ Fresh' /\ Rates'
  BY QuietKeeps DEF IInv
<1>2. Measured'
  <2>1. Measured
    BY Types DEF IInv
  <2>2. CASE UNCHANGED sampleVars
    BY <2>1, <2>2 DEF Quiet, Measured, sampleVars
  <2>3. CASE NoSampleKept
    BY <2>1, <2>3, BoundsAssumption
       DEF Quiet, Measured, NoSampleKept, NoReading, Reading, NoSample, Gone
  <2> QED
    BY <2>2, <2>3 DEF Quiet
<1>3. TypeOK'
  BY <1>1, <1>2 DEF TypeOK, Shown, Quiet, Source, Question, Reading, Measured, Row, Views
<1> QED
  BY <1>1, <1>3 DEF IInv

(* Rows, view and page are left alone, and the source keeps its capability. *)
LEMMA TableStays ==
  ASSUME Table, UNCHANGED <<kind, page, rows, view, listing>>,
         src'.capability = src.capability, page = "closed" => src'.running = src.running
  PROVE  Table'
BY DEF Table, ViewIsCurrent, Unique, Content

LEMMA TableCleared ==
  ASSUME rows' = <<>>, listing' = {}, page' = "closed", ~src'.running
  PROVE  Table'
<1>1. Content(rows') = {} /\ Unique(rows')
  BY DEF Content, Unique
<1>2. Content(rows)' = Content(rows') /\ Unique(rows)' <=> Unique(rows')
  BY DEF Content, Unique
<1> QED
  BY <1>1, <1>2 DEF Table, ViewIsCurrent, Content, Unique

LEMMA QuietAsk ==
  ASSUME IInv, NEW base \in Source, base.active \in {src.active, None}, AsksOrNot(base, calls),
         UNCHANGED sampleVars, UNCHANGED <<counter, honest, newest, older, order>>
  PROVE  Quiet
<1>1. ASSUME NEW d \in Calls
      PROVE  calls'[d] = calls[d] \/ (calls'[d] # "read" /\ calls[d] # "read")
  BY DEF AsksOrNot
<1>2. ASSUME src'.active \in Calls, calls[src'.active] = "none"
      PROVE  calls'[src'.active] # "read"
  BY <1>2 DEF AsksOrNot
<1>3. src'.active = src.active \/ NothingRead
  BY <1>2 DEF AsksOrNot, NothingRead
<1> QED
  BY <1>1, <1>3 DEF Quiet, AsksOrNot

LEMMA SourceFacts ==
  ASSUME TypeOK
  PROVE  /\ \A cap \in {"Checking", "Available", "Unavailable", "PermissionDenied", "Error"} :
              /\ [Silent EXCEPT !.capability = cap] \in Source
              /\ [Silent EXCEPT !.capability = cap].active = None
              /\ [Silent EXCEPT !.capability = cap].capability = cap
              /\ [src EXCEPT !.running = TRUE, !.capability = cap] \in Source
              /\ [src EXCEPT !.running = TRUE, !.capability = cap].active = src.active
              /\ [src EXCEPT !.running = TRUE, !.capability = cap].capability = cap
         /\ Stopped(src) \in Source /\ Stopped(src).active = None
         /\ Stopped(src).capability = src.capability /\ ~Stopped(src).running
         /\ Cleared \in Source /\ Cleared.active = None /\ ~Cleared.running
         /\ Cleared.capability = "Checking"
BY Types DEF Silent, Stopped, Cleared, Source

(* start, of a page that is open.                                          *)
LEMMA StartKeeps ==
  ASSUME IInv, Start, page # "closed", page' # "closed",
         UNCHANGED <<kind, counter, honest, newest, older, order>>
  PROVE  Quiet /\ Table' /\ rows' = rows /\ view' \in Views
<1>0. TypeOK /\ Table /\ view \in Views /\ src \in Source /\ calls \in [Calls -> Question]
  BY Types, ShownNow DEF IInv, Shown
<1>1. CASE src.running
  <2>1. UNCHANGED <<src, calls, view, rows, listing, sampleVars>>
    BY <1>1 DEF Start
  <2>2. Quiet
    BY <1>0, <2>1 DEF Quiet
  <2>3. Table'
    BY <1>0, <2>1 DEF Table, ViewIsCurrent, Unique, Content
  <2> QED
    BY <1>0, <2>1, <2>2, <2>3
<1>2. CASE ~src.running
  <2> DEFINE capability == IF src.capability = "Available" THEN "Available" ELSE "Checking"
             base == [src EXCEPT !.running = TRUE, !.capability = capability]
  <2>1. Ask(base, calls) /\ ShowCapability(capability) /\ NoSampleKept
    BY <1>2 DEF Start
  <2>2. base \in Source /\ base.active = src.active /\ base.capability = capability
    BY <1>0, SourceFacts
  <2> HIDE DEF base, capability
  <2>3. AsksOrNot(base, calls) /\ src'.active \in Calls /\ calls[src'.active] = "none"
    BY <1>0, <2>1, <2>2, Asks
  <2>4. Quiet
    <3>1. ASSUME NEW d \in Calls
          PROVE  calls'[d] = calls[d] \/ (calls'[d] # "read" /\ calls[d] # "read")
      BY <2>3 DEF AsksOrNot
    <3>2. NothingRead
      BY <2>3 DEF AsksOrNot, NothingRead
    <3> QED
      BY <2>1, <2>3, <3>1, <3>2 DEF Quiet, AsksOrNot
  <2>5. src'.capability = capability
    BY <2>2, <2>3 DEF AsksOrNot
  <2> QED
    BY <1>0, <2>1, <2>4, <2>5, CapabilityShown
<1> QED
  BY <1>1, <1>2

LEMMA OpenKeeps ==
  ASSUME IInv, NEW k, OpenPage(k)
  PROVE  IInv'
<1>1. /\ page = "closed" /\ page' = "hidden" /\ src' = Cleared /\ view' = "loading"
      /\ UNCHANGED <<kind, session, rows, prev, dialog, calls, hostVars, order, older, listing, history>>
  BY DEF OpenPage
<1>2. TypeOK /\ Table /\ rows = <<>>
  BY <1>1 DEF IInv, Table
<1>3. Quiet
  BY <1>1, <1>2, Types, SourceFacts DEF Quiet, NothingRead, sampleVars, hostVars, history
<1>4. Table'
  <2>1. ViewOf("Checking", <<>>) = "loading"
    BY DEF ViewOf
  <2>2. ViewIsCurrent'
    BY <1>1, <1>2, <2>1, SourceFacts DEF ViewIsCurrent
  <2> QED
    BY <1>1, <1>2, <2>2 DEF Table, Unique, Content
<1>5. Shown'
  BY <1>1, <1>2, ShownNow DEF Shown, Views
<1> QED
  BY <1>3, <1>4, <1>5, Concluded

LEMMA ShowKeeps ==
  ASSUME IInv, ShowPage
  PROVE  IInv'
<1>1. /\ page = "hidden" /\ page' = "shown" /\ Start
      /\ UNCHANGED <<kind, session, dialog, counter, order, older, history>>
  BY DEF ShowPage
<1>2. Quiet /\ Table' /\ rows' = rows /\ view' \in Views
  BY <1>1, StartKeeps DEF history
<1>3. Shown'
  BY <1>1, <1>2, ShownNow DEF Shown, IInv
<1> QED
  BY <1>2, <1>3, Concluded

LEMMA HideKeeps ==
  ASSUME IInv, HidePage
  PROVE  IInv'
<1>1. /\ page = "shown" /\ page' = "hidden" /\ src' = Stopped(src) /\ NoSampleKept
      /\ UNCHANGED <<kind, session, rows, view, dialog, calls, counter, order, older, listing, history>>
  BY DEF HidePage
<1>2. TypeOK /\ Table
  BY DEF IInv
<1>3. Quiet
  BY <1>1, <1>2, Types, SourceFacts DEF Quiet, NothingRead, history
<1>4. Table'
  BY <1>1, <1>2, SourceFacts DEF Table, ViewIsCurrent, Unique, Content
<1>5. Shown'
  BY <1>1, <1>2, ShownNow DEF Shown
<1> QED
  BY <1>3, <1>4, <1>5, Concluded

(* The page is closed, by the user or with the session.                    *)
LEMMA CloseKeeps ==
  ASSUME IInv, ClosePage \/ SessionEnds
  PROVE  IInv'
<1>1. /\ Unbound /\ session' \in {session, "ending"}
      /\ UNCHANGED <<kind, dialog, calls, counter, order, older, history>>
  BY DEF ClosePage, SessionEnds
<1>2. TypeOK
  BY DEF IInv
<1>3. Quiet
  BY <1>1, <1>2, Types, SourceFacts DEF Quiet, NothingRead, history, Unbound
<1>4. Table'
  BY <1>1, <1>2, SourceFacts, TableCleared DEF Unbound
<1>5. Shown'
  BY <1>1, <1>2, ShownNow, EmptySeq DEF Shown, Unbound, Views
<1> QED
  BY <1>3, <1>4, <1>5, Concluded

LEMMA RefreshKeeps ==
  ASSUME IInv, Refresh
  PROVE  IInv'
<1>1. /\ page = "shown" /\ UNCHANGED <<kind, session, page, dialog, counter, order, older, history>>
  BY DEF Refresh
<1>2. TypeOK /\ Table /\ src \in Source /\ calls \in [Calls -> Question] /\ rows \in Seq(Row)
  BY Types DEF IInv
<1>3. CASE src.running /\ InFlight
  <2>1. src' = [src EXCEPT !.after = TRUE] /\ UNCHANGED <<calls, view, rows, listing, sampleVars>>
    BY <1>3 DEF Refresh
  <2>2. src' \in Source /\ src'.active = src.active /\ src'.capability = src.capability
    BY <1>2, <2>1 DEF Source
  <2>3. Quiet
    BY <1>1, <1>2, <2>1, <2>2 DEF Quiet, history
  <2>4. Table'
    BY <1>1, <1>2, <2>1, <2>2, TableStays
  <2>5. Shown'
    BY <1>1, <1>2, <2>1, ShownNow DEF Shown
  <2> QED
    BY <2>3, <2>4, <2>5, Concluded
<1>4. CASE src.running /\ ~InFlight
  <2>1. Ask(src, calls) /\ UNCHANGED <<view, rows, listing, sampleVars>>
    BY <1>4 DEF Refresh
  <2>2. AsksOrNot(src, calls)
    BY <1>2, <2>1, Asks
  <2>3. Quiet
    BY <1>1, <1>2, <2>1, <2>2, QuietAsk DEF history
  <2>4. Table'
    BY <1>1, <1>2, <2>1, <2>2, TableStays DEF AsksOrNot
  <2>5. Shown'
    BY <1>1, <1>2, <2>1, ShownNow DEF Shown
  <2> QED
    BY <2>3, <2>4, <2>5, Concluded
<1>5. CASE ~src.running
  <2>1. Start
    BY <1>5 DEF Refresh
  <2>2. Quiet /\ Table' /\ rows' = rows /\ view' \in Views
    BY <1>1, <2>1, StartKeeps DEF history
  <2>3. Shown'
    BY <1>1, <1>2, <2>2, ShownNow DEF Shown
  <2> QED
    BY <2>2, <2>3, Concluded
<1> QED
  BY <1>3, <1>4, <1>5

LEMMA PollKeeps ==
  ASSUME IInv, OnPollTick
  PROVE  IInv'
<1>1. /\ Ask(src, calls) /\ UNCHANGED <<kind, session, page, rows, view, prev, dialog, hostVars,
                                        order, older, listing, history>>
  BY DEF OnPollTick
<1>2. TypeOK /\ Table /\ src \in Source /\ calls \in [Calls -> Question]
  BY Types DEF IInv
<1>3. AsksOrNot(src, calls)
  BY <1>1, <1>2, Asks
<1>4. Quiet
  BY <1>1, <1>2, <1>3, QuietAsk DEF hostVars, sampleVars, history
<1>5. Table'
  BY <1>1, <1>2, <1>3, TableStays DEF AsksOrNot
<1>6. Shown'
  BY <1>1, <1>2, ShownNow DEF Shown
<1> QED
  BY <1>4, <1>5, <1>6, Concluded

(* A dialog asks, or does not.                                             *)
LEMMA DetailsKeep ==
  ASSUME IInv, OpenProcessDetails \/ OpenServiceDetails \/ OpenContainerDetails \/ CloseDetails
  PROVE  IInv'
<1>1. /\ UNCHANGED <<kind, session, pageVars, hostVars, order, older, history>>
      /\ \/ calls' = calls /\ dialog' \in {None, "row"}
         \/ \E c \in Free(calls) : dialog' = c /\ calls' = [calls EXCEPT ![c] = "sent"]
  BY DEF OpenProcessDetails, OpenServiceDetails, OpenContainerDetails, CloseDetails, OpenDetails,
         AskDetails
<1>2. TypeOK /\ Table /\ src \in Source /\ calls \in [Calls -> Question]
  BY Types DEF IInv
<1>3. "sent" \in Question
  BY DEF Question
<1>4. /\ calls' \in [Calls -> Question] /\ dialog' \in Calls \union {None, "row", "details"}
      /\ \A d \in Calls : calls'[d] = calls[d] \/ (calls[d] = "none" /\ calls'[d] = "sent")
  BY <1>1, <1>2, <1>3 DEF Free
<1>5. Quiet
  BY <1>1, <1>2, <1>4 DEF Quiet, sampleVars, pageVars, hostVars, history
<1>6. Table'
  BY <1>1, <1>2, TableStays DEF pageVars
<1>7. Shown'
  BY <1>1, <1>2, <1>4, ShownNow DEF Shown, pageVars
<1> QED
  BY <1>5, <1>6, <1>7, Concluded

LEMMA SessionKeeps ==
  ASSUME IInv, ReleaseWorker \/ Reconnect \/ UNCHANGED vars
  PROVE  IInv'
<1>1. /\ UNCHANGED <<kind, pageVars, dialog, hostVars, history>>
      /\ session' \in {session, "up", "down"}
      /\ \/ calls' = [c \in Calls |-> "none"] /\ order' = {} /\ older' = {}
         \/ UNCHANGED <<calls, order, older>>
  BY DEF ReleaseWorker, Reconnect, vars, hostVars, history
<1>2. TypeOK /\ Table /\ src \in Source /\ calls \in [Calls -> Question]
  BY Types DEF IInv
<1>3. "none" \in Question
  BY DEF Question
<1>4. Quiet
  BY <1>1, <1>2, <1>3 DEF Quiet, sampleVars, pageVars, hostVars, history
<1>5. Table'
  BY <1>1, <1>2, TableStays DEF pageVars
<1>6. Shown'
  BY <1>1, <1>2, ShownNow DEF Shown, pageVars
<1> QED
  BY <1>4, <1>5, <1>6, Concluded

-----------------------------------------------------------------------------
(* The host reads and counts.                                              *)

LEMMA HostKeeps ==
  ASSUME IInv, NEW c \in Calls, HostReads(c)
  PROVE  IInv'
<1>1. /\ calls[c] = "sent" /\ calls' = [calls EXCEPT ![c] = "read"]
      /\ reading' = IF c = src.active THEN [counter |-> counter, moved |-> moved, at |-> span]
                    ELSE reading
      /\ order' = order \union {<<d, c>> : d \in ReadFor}
      /\ UNCHANGED <<kind, session, pageVars, dialog, counter, moved, span, elapsed, older, history>>
  BY DEF HostReads
<1>2. /\ TypeOK /\ Table /\ Fresh /\ Rates /\ src \in Source /\ calls \in [Calls -> Question]
      /\ Measured
  BY Types DEF IInv
<1>3. /\ calls' \in [Calls -> Question] /\ calls'[c] = "read"
      /\ \A d \in Calls : d # c => calls'[d] = calls[d]
  BY <1>1, <1>2 DEF Question
<1>4. ReadFor' = ReadFor \union {c}
  BY <1>1, <1>3 DEF ReadFor
<1>5. order' \subseteq ReadFor' \X ReadFor' /\ older' \subseteq ReadFor'
  BY <1>1, <1>2, <1>4 DEF TypeOK
<1>6. UNCHANGED <<src, older, newest, honest, prev, counter, moved, span, elapsed>>
  BY <1>1 DEF pageVars, history
<1>7. Fresh'
  BY <1>2, <1>6 DEF Fresh
<1>8. Rates'
  <2>1. CASE c = src.active
    <3>1. reading' = [counter |-> counter, moved |-> moved, at |-> span]
      BY <1>1, <2>1
    <3>2. Delta(counter, counter) <= 0
      BY <1>2, BoundsAssumption DEF Delta, Unknown, Gone, NoSample, Measured
    <3>3. ReadingFits'
      BY <1>2, <1>6, <3>1, <3>2 DEF ReadingFits, Rates, Measured
    <3> QED
      BY <1>2, <1>6, <3>3 DEF Rates
  <2>2. CASE c # src.active
    <3>1. src'.active \in ReadFor' => src.active \in ReadFor
      BY <1>4, <1>6, <2>2
    <3>2. reading' = reading
      BY <1>1, <2>2
    <3> QED
      BY <1>2, <1>6, <3>1, <3>2 DEF Rates, ReadingFits
  <2> QED
    BY <2>1, <2>2
<1>9. Table'
  BY <1>1, <1>2, TableStays DEF pageVars
<1>10. Shown'
  BY <1>1, <1>2, ShownNow DEF Shown, pageVars
<1>11. Measured'
  BY <1>1, <1>2, <1>6 DEF Measured, Reading
<1>12. TypeOK'
  BY <1>2, <1>3, <1>5, <1>6, <1>10, <1>11
     DEF TypeOK, Shown, Source, Question, Reading, Measured, Row, Views
<1> QED
  BY <1>7, <1>8, <1>9, <1>12 DEF IInv

(* A unit more is one that every sample read so far has not seen.          *)
LEMMA OneMore ==
  ASSUME NEW before \in NoSample .. MaxCount, NEW now \in 0 .. MaxCount - 1, NEW carried \in 0 .. MaxCount,
         Delta(before, now) <= carried
  PROVE  Delta(before, now + 1) <= carried + 1
BY BoundsAssumption DEF Delta, Unknown, Gone, NoSample

(* The counter moves, or the time: source, table and questions stay.       *)
LEMMA HostMoves ==
  ASSUME IInv, Measured', Rates', UNCHANGED reading,
         UNCHANGED <<kind, session, pageVars, dialog, calls, order, older, history>>
  PROVE  IInv'
<1>1. /\ TypeOK /\ Table /\ Fresh /\ src \in Source /\ calls \in [Calls -> Question]
  BY Types DEF IInv
<1>2. UNCHANGED <<src, older, order, newest, ReadFor>>
  BY DEF pageVars, history, ReadFor
<1>3. Fresh'
  BY <1>1, <1>2 DEF Fresh
<1>4. Table'
  BY <1>1, TableStays DEF pageVars
<1>5. Shown'
  BY <1>1, ShownNow DEF Shown, pageVars
<1>6. order' \subseteq ReadFor' \X ReadFor' /\ older' \subseteq ReadFor'
  BY <1>1, <1>2 DEF TypeOK
<1>7. TypeOK'
  BY <1>1, <1>2, <1>5, <1>6 DEF TypeOK, Shown, Source, Question, Reading, Measured, Row, Views
<1> QED
  BY <1>3, <1>4, <1>7 DEF IInv

LEMMA TrafficKeeps ==
  ASSUME IInv, Traffic
  PROVE  IInv'
<1>1. /\ counter \in 0 .. MaxCount - 1 /\ moved < MaxCount
      /\ counter' = counter + 1 /\ moved' = moved + 1
      /\ UNCHANGED <<kind, session, pageVars, dialog, calls, span, elapsed, reading, order, older,
                     history>>
  BY DEF Traffic
<1>2. Measured /\ Rates
  BY Types DEF IInv
<1>3. UNCHANGED <<src, prev, honest, ReadFor>>
  BY <1>1 DEF pageVars, history, ReadFor
<1>4. Measured'
  BY <1>1, <1>2, <1>3, BoundsAssumption DEF Measured, Gone
<1>5. Delta(prev', counter') <= moved'
  BY <1>1, <1>2, <1>3, OneMore DEF Rates, Measured
<1>6. ASSUME ReadingFits
      PROVE  ReadingFits'
  <2> DEFINE before == reading.counter
             carried == moved - reading.moved
  <2>1. before \in NoSample .. MaxCount /\ carried \in 0 .. MaxCount
    BY <1>2, <1>6, BoundsAssumption DEF ReadingFits, Measured, Reading, NoSample, Gone
  <2>2. Delta(before, counter) <= carried
    BY <1>6 DEF ReadingFits
  <2> HIDE DEF before, carried
  <2>3. Delta(before, counter + 1) <= carried + 1
    BY <1>1, <2>1, <2>2, OneMore
  <2>4. /\ prev' = prev /\ reading' = reading /\ span' = span
        /\ counter' = counter + 1 /\ moved' = moved + 1
    BY <1>1, <1>3
  <2>5. Delta(prev', reading'.counter) <= reading'.moved /\ reading'.at <= span'
    BY <1>6, <2>4 DEF ReadingFits
  <2>6. carried + 1 = moved' - reading.moved /\ reading.moved <= moved'
    BY <1>2, <1>6, <2>4 DEF carried, ReadingFits, Measured, Reading
  <2>7. Delta(reading.counter, counter') <= carried + 1
    BY <2>3, <2>4 DEF before
  <2>8. Delta(reading'.counter, counter') <= moved' - reading'.moved /\ reading'.moved <= moved'
    BY <2>4, <2>6, <2>7
  <2> QED
    BY <2>5, <2>8 DEF ReadingFits
<1>7. Rates'
  BY <1>2, <1>3, <1>5, <1>6 DEF Rates
<1> QED
  BY <1>1, <1>4, <1>7, HostMoves

LEMMA TimeKeeps ==
  ASSUME IInv, TimePasses
  PROVE  IInv'
<1>1. /\ span < MaxTime /\ span' = span + 1
      /\ elapsed' = IF prev = NoSample THEN elapsed ELSE elapsed + 1
      /\ UNCHANGED <<kind, session, pageVars, dialog, calls, counter, moved, reading, order, older,
                     history>>
  BY DEF TimePasses
<1>2. Measured /\ Rates
  BY Types DEF IInv
<1>3. UNCHANGED <<src, prev, honest, ReadFor>>
  BY <1>1 DEF pageVars, history, ReadFor
<1>4. Measured'
  BY <1>1, <1>2, <1>3, BoundsAssumption DEF Measured
<1>5. ReadingFits => ReadingFits'
  BY <1>1, <1>2, <1>3 DEF ReadingFits, Measured, Reading
<1>6. Rates'
  BY <1>1, <1>2, <1>3, <1>5 DEF Rates
<1> QED
  BY <1>1, <1>4, <1>6, HostMoves

LEMMA ReplacedKeeps ==
  ASSUME IInv, Replaced
  PROVE  IInv'
<1>1. /\ counter' \in {0, Gone}
      /\ UNCHANGED <<kind, session, pageVars, dialog, calls, moved, span, elapsed, reading, order,
                     older, history>>
  BY DEF Replaced
<1>2. Measured /\ Rates
  BY Types DEF IInv
<1>3. ASSUME NEW x \in NoSample .. MaxCount
      PROVE  Delta(x, counter') <= 0 /\ Delta(x, counter') \in Int
  <2>1. x \in Int /\ (x \in {-2, -1} \/ x >= 0)
    BY BoundsAssumption DEF NoSample
  <2>2. Delta(x, Gone) = -1
    BY DEF Delta, Unknown
  <2>3. Delta(x, 0) \in {-1, 0}
    <3>1. CASE x \in {-2, -1}
      BY <3>1 DEF Delta, Unknown, Gone, NoSample
    <3>2. CASE x > 0
      BY <2>1, <3>2 DEF Delta, Unknown, Gone, NoSample
    <3>3. CASE x = 0
      BY <3>3 DEF Delta, Unknown, Gone, NoSample
    <3> QED
      BY <2>1, <3>1, <3>2, <3>3
  <2> QED
    BY <1>1, <2>2, <2>3
<1>4. UNCHANGED <<src, prev, honest, ReadFor>>
  BY <1>1 DEF pageVars, history, ReadFor
<1>5. Measured'
  BY <1>1, <1>2, <1>4, BoundsAssumption DEF Measured, Gone
<1>6. Rates'
  <2>1. Delta(prev, counter') <= moved
    <3>1. Delta(prev, counter') <= 0 /\ Delta(prev, counter') \in Int
      BY <1>2, <1>3 DEF Measured
    <3> QED
      BY <1>2, <3>1 DEF Measured
  <2>2. ASSUME ReadingFits
        PROVE  ReadingFits'
    <3>1. reading.counter \in NoSample .. MaxCount
      BY <1>2, BoundsAssumption DEF Measured, Reading, NoSample, Gone
    <3>2. Delta(reading.counter, counter') <= 0 /\ Delta(reading.counter, counter') \in Int
      BY <1>3, <3>1
    <3>3. moved - reading.moved \in Nat
      BY <1>2, <2>2 DEF ReadingFits, Measured, Reading
    <3>4. Delta(reading.counter, counter') <= moved - reading.moved
      BY <3>2, <3>3
    <3> QED
      BY <1>1, <1>4, <2>2, <3>4 DEF ReadingFits
  <2> QED
    BY <1>1, <1>2, <1>4, <2>1, <2>2 DEF Rates
<1> QED
  BY <1>1, <1>5, <1>6, HostMoves

-----------------------------------------------------------------------------
(* The answers.                                                            *)

LEMMA QuietAnswer ==
  ASSUME IInv, NEW c \in Calls, NEW base \in Source, base.active \in {src.active, None},
         AsksOrNot(base, Answered(c)), Forget(c),
         UNCHANGED sampleVars, UNCHANGED <<counter, honest, newest>>
  PROVE  Quiet
<1>1. TypeOK /\ calls \in [Calls -> Question]
  BY Types DEF IInv
<1>2. /\ Answered(c)[c] = "none"
      /\ \A d \in Calls : d # c => Answered(c)[d] = calls[d]
  BY <1>1, AnsweredFacts
<1>3. c \notin older' /\ \A p \in order' : c \notin {p[1], p[2]}
  BY DEF Forget
<1>4. ASSUME NEW d \in Calls
      PROVE  \/ calls'[d] = calls[d]
             \/ /\ calls'[d] # "read"
                /\ calls[d] = "read" =>
                     d \notin older' /\ \A p \in order' : d \notin {p[1], p[2]}
  <2>1. CASE d = c
    <3>1. calls'[c] # "read"
      BY <1>2 DEF AsksOrNot
    <3> QED
      BY <1>3, <2>1, <3>1
  <2>2. CASE d # c
    BY <1>2, <2>2 DEF AsksOrNot
  <2> QED
    BY <2>1, <2>2
<1>5. ASSUME src'.active \in Calls, Answered(c)[src'.active] = "none"
      PROVE  calls'[src'.active] # "read"
  BY <1>5 DEF AsksOrNot
<1>6. src'.active = src.active \/ NothingRead
  BY <1>5 DEF AsksOrNot, NothingRead
<1> QED
  BY <1>4, <1>6 DEF Quiet, AsksOrNot, Forget

LEMMA AcceptedOpen ==
  ASSUME IInv, NEW c, Accepts(c)
  PROVE  page # "closed" /\ c = src.active
BY DEF IInv, Table, Accepts

(* A failure, of the command or of its output.                             *)
LEMMA OnFailureKeeps ==
  ASSUME IInv, NEW c \in Calls, Accepts(c), UNCHANGED <<dialog, kind, session, page, counter>>,
         \/ OnUnparsable(c)
         \/ \E capability \in Capabilities[kind] : OnFailure(c, capability)
  PROVE  IInv'
<1>1. TypeOK /\ Table /\ kind \in Kinds /\ page # "closed"
  BY Types, AcceptedOpen DEF IInv
<1>2. Answered(c) \in [Calls -> Question]
  BY <1>1, AnsweredFacts
<1>3. PICK capability \in {"Unavailable", "PermissionDenied", "Error"} :
        /\ ShowCapability(capability) /\ Forget(c) /\ UNCHANGED <<sampleVars, history>>
        /\ AsksOrNot([Silent EXCEPT !.capability = capability], Answered(c))
  <2>1. CASE OnUnparsable(c)
    <3>1. [Silent EXCEPT !.capability = "Error"] \in Source
      BY <1>1, SourceFacts
    <3>2. AsksOrNot([Silent EXCEPT !.capability = "Error"], Answered(c))
      BY <1>2, <2>1, <3>1 DEF OnUnparsable, AsksOrNot
    <3> QED
      BY <2>1, <3>2 DEF OnUnparsable
  <2>2. CASE \E capability \in Capabilities[kind] : OnFailure(c, capability)
    <3>1. PICK capability \in Capabilities[kind] : OnFailure(c, capability)
      BY <2>2
    <3>2. capability \in {"Unavailable", "PermissionDenied", "Error"}
      BY <1>1 DEF Capabilities, ClassifyFailure
    <3>3. [Silent EXCEPT !.capability = capability] \in Source
      BY <1>1, <3>2, SourceFacts
    <3>4. AsksOrNot([Silent EXCEPT !.capability = capability], Answered(c))
      BY <1>2, <3>1, <3>3, AsksAgain DEF OnFailure
    <3> QED
      BY <3>1, <3>2, <3>4 DEF OnFailure
  <2> QED
    BY <2>1, <2>2
<1> DEFINE base == [Silent EXCEPT !.capability = capability]
<1>4. base \in Source /\ base.active = None /\ base.capability = capability
      /\ AsksOrNot(base, Answered(c))
  BY <1>1, <1>3, SourceFacts
<1> HIDE DEF base
<1>5. Quiet
  BY <1>3, <1>4, QuietAnswer DEF history
<1>6. src'.capability = capability
  BY <1>4 DEF AsksOrNot
<1>7. Table' /\ rows' = rows /\ view' \in Views
  BY <1>1, <1>3, <1>6, CapabilityShown
<1>8. Shown'
  BY <1>1, <1>7, ShownNow DEF Shown
<1> QED
  BY <1>5, <1>7, <1>8, Concluded

(* An answer that the page does not wait for any more.                     *)
LEMMA NotForThePageKeeps ==
  ASSUME IInv, NEW c \in Calls, NEW contents \in SUBSET {"row", "details"},
         NotForThePage(c, contents), UNCHANGED <<kind, session, page, counter>>
  PROVE  IInv'
<1>1. TypeOK /\ Table /\ src \in Source /\ rows \in Seq(Row)
  BY Types DEF IInv
<1>2. /\ calls' = Answered(c) /\ Forget(c) /\ dialog' \in {dialog, "row", "details"}
      /\ UNCHANGED <<src, view, rows, listing, sampleVars, history>>
  BY DEF NotForThePage, DialogShows
<1>3. AsksOrNot(src, Answered(c))
  BY <1>1, <1>2, AnsweredFacts DEF AsksOrNot
<1>4. Quiet
  BY <1>1, <1>2, <1>3, QuietAnswer DEF history
<1>5. Table'
  BY <1>1, <1>2, TableStays
<1>6. Shown'
  BY <1>1, <1>2, ShownNow DEF Shown
<1> QED
  BY <1>4, <1>5, <1>6, Concluded

(* What is no more, and is divided by no less, is no higher a rate.        *)
LEMMA NoHigher ==
  ASSUME NEW grown \in Int, NEW carried \in Nat, grown <= carried,
         NEW between \in Nat, NEW time \in Nat, between <= time
  PROVE  grown * between <= carried * time
<1>1. grown * between <= carried * between
  OBVIOUS
<1>2. carried * between <= carried * time
  OBVIOUS
<1>3. grown * between \in Int /\ carried * between \in Int /\ carried * time \in Int
  OBVIOUS
<1> QED
  BY <1>1, <1>2, <1>3

LEMMA ReadingAgrees ==
  ASSUME Measured, ReadingFits
  PROVE  RateAgrees
<1> DEFINE grown == Delta(prev, reading.counter)
<1>1. /\ reading.moved \in Nat /\ reading.at \in Nat /\ elapsed \in Nat /\ span \in Nat
      /\ prev \in Int /\ reading.counter \in Int
  BY BoundsAssumption DEF Measured, Reading, Gone, NoSample
<1>2. grown \in Int /\ grown <= reading.moved /\ reading.at <= span
  BY <1>1 DEF ReadingFits, Delta, Unknown
<1> HIDE DEF grown
<1>3. grown * reading.at <= reading.moved * span
  BY <1>1, <1>2, NoHigher
<1>4. Faster \/ grown * reading.at <= reading.moved * elapsed
  <2>1. CASE elapsed < reading.at
    BY <2>1 DEF Faster
  <2>2. CASE ~(elapsed < reading.at)
    <3>1. reading.at <= elapsed
      BY <1>1, <2>2
    <3> QED
      BY <1>1, <1>2, <3>1, NoHigher
  <2> QED
    BY <2>1, <2>2
<1> QED
  BY <1>2, <1>3, <1>4 DEF RateAgrees, RateFits, grown

(* The page is given what the host has read.                               *)
LEMMA OnSnapshotKeeps ==
  ASSUME IInv, NEW c \in Calls, Accepts(c), calls[c] = "read",
         UNCHANGED <<dialog, kind, session, page, counter>>,
         NEW snapshot \in Snapshots[kind], OnSnapshot(c, snapshot)
  PROVE  IInv'
<1>1. /\ TypeOK /\ Table /\ Fresh /\ Rates /\ page # "closed" /\ c = src.active
      /\ src \in Source /\ calls \in [Calls -> Question] /\ Measured
      /\ rows \in Seq(Row)
  BY Types, AcceptedOpen DEF IInv
<1> DEFINE base == [Silent EXCEPT !.capability = "Available"]
           left == Answered(c)
<1>2. /\ left \in [Calls -> Question] /\ left[c] = "none"
      /\ \A d \in Calls : d # c => left[d] = calls[d]
  BY <1>1, AnsweredFacts
<1>3. base \in Source /\ base.active = None /\ base.capability = "Available"
  BY <1>1, SourceFacts
<1>4. ThenAskAgain(base, left)
  BY DEF OnSnapshot
<1> HIDE DEF base, left
<1>5. AsksOrNot(base, left)
  BY <1>2, <1>3, <1>4, AsksAgain
<1>6. /\ src' \in Source /\ calls' \in [Calls -> Question] /\ src'.capability = "Available"
      /\ \A d \in Calls : \/ calls'[d] = left[d]
                          \/ left[d] = "none" /\ calls'[d] = "sent"
      /\ \/ src'.active = None
         \/ src'.active \in Calls /\ left[src'.active] = "none"
  BY <1>3, <1>5 DEF AsksOrNot
<1>7. c \in ReadFor /\ c \notin ReadFor' /\ src'.active \notin ReadFor'
  <2>1. \A d \in Calls : left[d] = "none" => calls'[d] # "read"
    BY <1>6
  <2> QED
    BY <1>2, <1>6, <2>1, NoneIsNoCall DEF ReadFor
<1>8. ASSUME NEW d \in Calls, d # c
      PROVE  /\ d \in ReadFor <=> d \in ReadFor'
             /\ d \in ReadFor => calls'[d] = calls[d]
  BY <1>2, <1>6, <1>8 DEF ReadFor
<1>9. /\ order' = {p \in order : c \notin {p[1], p[2]}}
      /\ older' = (older \union {d \in Calls : <<d, c>> \in order}) \ {c}
      /\ newest' = (newest /\ c \notin older)
  BY DEF OnSnapshot
<1>10. order \subseteq ReadFor \X ReadFor /\ older \subseteq ReadFor /\ ReadFor \subseteq Calls
  BY <1>1 DEF TypeOK, ReadFor
<1>11. older' \subseteq ReadFor'
  <2> SUFFICES ASSUME NEW d \in older' PROVE d \in ReadFor'
    OBVIOUS
  <2>1. d \in ReadFor /\ d # c
    BY <1>9, <1>10
  <2> QED
    BY <1>8, <1>10, <2>1
<1>12. order' \subseteq ReadFor' \X ReadFor'
  <2> SUFFICES ASSUME NEW p \in order' PROVE p \in ReadFor' \X ReadFor'
    OBVIOUS
  <2>1. p \in ReadFor \X ReadFor /\ c \notin {p[1], p[2]}
    BY <1>9, <1>10
  <2>2. p = <<p[1], p[2]>> /\ p[1] \in ReadFor /\ p[2] \in ReadFor /\ p[1] # c /\ p[2] # c
    BY <2>1
  <2>3. p[1] \in ReadFor' /\ p[2] \in ReadFor'
    BY <1>8, <1>10, <2>2
  <2> QED
    BY <2>2, <2>3
<1>13. Fresh'
  <2>1. newest'
    BY <1>1, <1>9 DEF Fresh
  <2>2. src'.active \notin older'
    BY <1>7, <1>11
  <2> QED
    BY <2>1, <2>2 DEF Fresh
<1>14. CASE kind = "systeminfo"
  <2>1. /\ honest' = (honest /\ (HasRate => RateAgrees))
        /\ prev' = reading.counter /\ elapsed' = 0
        /\ moved' = moved - reading.moved /\ span' = span - reading.at
        /\ reading' = NoReading /\ UNCHANGED <<rows, view, listing>>
    BY <1>14 DEF OnSnapshot, ShowFigures
  <2>2. ReadingFits /\ honest
    BY <1>1, <1>7 DEF Rates
  <2>3. Measured'
    BY <1>1, <2>1, <2>2, BoundsAssumption
       DEF Measured, Reading, ReadingFits, NoReading, NoSample, Gone
  <2>4. Rates'
    <3>1. honest'
      BY <1>1, <2>1, <2>2, ReadingAgrees
    <3>2. Delta(prev', counter') <= moved'
      BY <2>1, <2>2 DEF ReadingFits
    <3> QED
      BY <1>7, <3>1, <3>2 DEF Rates
  <2>5. Table'
    BY <1>1, <1>14, <2>1 DEF Table, ViewIsCurrent, Unique, Content
  <2>6. Shown'
    BY <1>1, <2>1, ShownNow DEF Shown
  <2>7. TypeOK'
    BY <1>1, <1>6, <1>11, <1>12, <2>3, <2>6
       DEF TypeOK, Shown, Source, Question, Reading, Measured, Row, Views
  <2> QED
    BY <1>13, <2>4, <2>5, <2>7 DEF IInv
<1>15. CASE kind # "systeminfo"
  <2>1. ShowList(snapshot) /\ UNCHANGED <<sampleVars, honest>>
    BY <1>15 DEF OnSnapshot
  <2>2. Table' /\ rows' \in Seq(Row) /\ view' \in Views
    BY <1>1, <1>6, <2>1, ListShown
  <2>3. Rates' /\ Measured'
    BY <1>1, <1>7, <2>1 DEF Rates, Measured, sampleVars
  <2>4. Shown'
    BY <1>1, <2>2, ShownNow DEF Shown
  <2>5. TypeOK'
    BY <1>1, <1>6, <1>11, <1>12, <2>3, <2>4
       DEF TypeOK, Shown, Source, Question, Reading, Measured, Row, Views
  <2> QED
    BY <1>13, <2>2, <2>3, <2>5 DEF IInv
<1> QED
  BY <1>14, <1>15

LEMMA AnswerKeeps ==
  ASSUME IInv, NEW c \in Calls, AnswerFailure(c) \/ AnswerOutput(c)
  PROVE  IInv'
<1>1. UNCHANGED <<kind, session, page, counter>>
  BY DEF AnswerFailure, AnswerOutput
<1>2. CASE NotForThePage(c, {"row"}) \/ NotForThePage(c, {"row", "details"})
  BY <1>1, <1>2, NotForThePageKeeps
<1>3. CASE /\ Accepts(c) /\ UNCHANGED dialog
           /\ OnUnparsable(c) \/ \E capability \in Capabilities[kind] : OnFailure(c, capability)
  BY <1>1, <1>3, OnFailureKeeps
<1>4. CASE /\ Accepts(c) /\ UNCHANGED dialog /\ calls[c] = "read"
           /\ \E snapshot \in Snapshots[kind] : OnSnapshot(c, snapshot)
  BY <1>1, <1>4, OnSnapshotKeeps
<1> QED
  BY <1>2, <1>3, <1>4 DEF AnswerFailure, AnswerOutput

-----------------------------------------------------------------------------
(* What holds always.                                                      *)

LEMMA Starts == Init => IInv
<1> SUFFICES ASSUME Init PROVE IInv
  OBVIOUS
<1>1. NoReading \in Reading
  BY BoundsAssumption DEF NoReading, Reading, Gone
<1>2. ReadFor = {}
  BY DEF Init, ReadFor
<1>3. <<>> \in Seq(Row)
  BY EmptySeq
<1>4. calls \in [Calls -> Question] /\ Cleared \in Source
  BY DEF Init, Cleared, Source, Question
<1>5. TypeOK
  BY <1>1, <1>2, <1>3, <1>4, BoundsAssumption
     DEF Init, TypeOK, Source, Question, Reading, Row, None, NoSample, Gone
<1>6. Fresh
  BY DEF Init, Fresh
<1>7. Rates
  <2>1. Delta(NoSample, 0) <= 0
    BY DEF Delta, Unknown, NoSample
  <2>2. Cleared.active = None
    BY DEF Cleared
  <2> QED
    BY <1>2, <2>1, <2>2 DEF Init, Rates
<1>8. Table
  BY DEF Init, Table, Unique, Content, ViewIsCurrent, Cleared
<1> QED
  BY <1>5, <1>6, <1>7, <1>8 DEF IInv

LEMMA EveryStep == IInv /\ [Next]_vars => IInv'
<1> SUFFICES ASSUME IInv, [Next]_vars PROVE IInv'
  OBVIOUS
<1>1. CASE OpenProcessExplorer \/ OpenServiceExplorer \/ OpenContainerExplorer \/ OpenSystemInfo
  BY <1>1, OpenKeeps
     DEF OpenProcessExplorer, OpenServiceExplorer, OpenContainerExplorer, OpenSystemInfo
<1>2. CASE ShowPage
  BY <1>2, ShowKeeps
<1>3. CASE HidePage
  BY <1>3, HideKeeps
<1>4. CASE ClosePage \/ SessionEnds
  BY <1>4, CloseKeeps
<1>5. CASE Refresh
  BY <1>5, RefreshKeeps
<1>6. CASE OpenProcessDetails \/ OpenServiceDetails \/ OpenContainerDetails \/ CloseDetails
  BY <1>6, DetailsKeep
<1>7. CASE OnPollTick
  BY <1>7, PollKeeps
<1>8. CASE \E c \in Calls : AnswerFailure(c) \/ AnswerOutput(c)
  BY <1>8, AnswerKeeps
<1>9. CASE \E c \in Calls : HostReads(c)
  BY <1>9, HostKeeps
<1>10. CASE ReleaseWorker \/ Reconnect \/ UNCHANGED vars
  BY <1>10, SessionKeeps
<1>11. CASE Traffic
  BY <1>11, TrafficKeeps
<1>12. CASE Replaced
  BY <1>12, ReplacedKeeps
<1>13. CASE TimePasses
  BY <1>13, TimeKeeps
<1> QED
  BY <1>1, <1>2, <1>3, <1>4, <1>5, <1>6, <1>7, <1>8, <1>9, <1>10, <1>11, <1>12, <1>13 DEF Next

LEMMA Always == Spec => []IInv
BY Starts, EveryStep, PTL DEF Spec

(* The page, its source and its table are what the code takes them for.    *)
THEOREM ExplorerTypes == Spec => []TypeOK
BY Always, PTL DEF IInv

(* A page never goes back to a state of the host older than one it has     *)
(* shown, whatever order the questions it has abandoned are answered in    *)
(* (the request id that onCommandFinished compares, and stop clears).      *)
THEOREM NothingOlderIsShown == Spec => []NeverOlder
<1>1. IInv => NeverOlder
  BY DEF IInv, Fresh, NeverOlder
<1> QED
  BY <1>1, Always, PTL

LEMMA NoStateFacts == NoState.pid = 0
BY DEF NoState

(* The details of a row: every answer that mixes with the row, for each    *)
(* manager (parseInspect of the container and of the service explorer).    *)
LEMMA DetailsOfServices ==
  ASSUME NEW row \in RowsOf("systemd")
  PROVE  /\ InspectContainer(row) \/ InspectService(row)
         /\ \A a \in Answers("systemd") : ShownAsEnded(Inspected(row, a)) => ShownAsEnded(row)
<1>1. PICK s \in Services : row = [manager |-> "systemd", state |-> NormalizeActiveState(s.status), pid |-> 0]
  BY DEF RowsOf, SystemdRow
<1>2. row.manager = "systemd" /\ row.pid = 0
  BY <1>1
<1>3. ASSUME NEW a \in Answers("systemd"), ShownAsEnded(Inspected(row, a))
      PROVE  FALSE
  <2>1. a.says \in Services \union {NoState}
    BY DEF Answers, HostOf
  <2> DEFINE r == Inspected(row, a)
  <2>2. r = row \/ r = [row EXCEPT !.state = NormalizeActiveState(a.says.status), !.pid = a.says.pid]
         \/ r = [row EXCEPT !.state = NormalizeActiveState(row.state), !.pid = row.pid]
    BY <1>2, <2>1 DEF Inspected, ParseService, ShowProperties
  <2>3. r.pid = 0 \/ (r.pid = a.says.pid /\ r.state = NormalizeActiveState(a.says.status))
    BY <1>1, <1>2, <2>2
  <2>4. r.pid > 0 /\ r.state \in {"exited", "created", "inactive", "failed"}
    BY <1>3 DEF ShownAsEnded
  <2> HIDE DEF r
  <2>5. r.pid = a.says.pid /\ r.state = NormalizeActiveState(a.says.status)
    BY <2>3, <2>4
  <2>6. a.says.status \in {"active", "reloading"}
    <3>1. \A x \in Services : x.pid = 0 \/ x.status \in {"active", "reloading"}
      BY DEF Services
    <3>2. a.says.pid > 0
      BY <2>4, <2>5
    <3> QED
      BY <2>1, <3>1, <3>2, NoStateFacts
  <2> QED
    BY <2>4, <2>5, <2>6 DEF NormalizeActiveState
<1> QED
  BY <1>2, <1>3 DEF InspectService

(* ctr names the process of a task that has stopped, the others do not.    *)
LEMMA DockerStates ==
  \A x \in DockerContainers :
    x.pid = 0 \/ NormalizeState(x.status) \in {"running", "paused"}
<1>1. /\ NormalizeState("running") = "running" /\ NormalizeState("paused") = "paused"
  BY DEF NormalizeState
<1>2. \A x \in DockerContainers : x.pid = 0 \/ x.status \in {"running", "paused"}
  BY DEF DockerContainers
<1> QED
  BY <1>1, <1>2

LEMMA DetailsOfContainers ==
  ASSUME NEW manager \in {"docker", "podman"}, NEW row \in RowsOf(manager)
  PROVE  /\ InspectContainer(row) \/ InspectService(row)
         /\ \A a \in Answers(manager) : ShownAsEnded(Inspected(row, a)) => ShownAsEnded(row)
<1>1. PICK s \in DockerContainers :
        row = [manager |-> manager, state |-> NormalizeState(s.status), pid |-> 0]
  BY DEF RowsOf, DockerRow, PodmanRow
<1>2. row.manager \in {"docker", "podman"} /\ row.pid = 0
  BY <1>1
<1>3. ASSUME NEW a \in Answers(manager), ShownAsEnded(Inspected(row, a))
      PROVE  FALSE
  <2>1. a.says \in DockerContainers \union {NoState}
    BY DEF Answers, HostOf
  <2> DEFINE r == Inspected(row, a)
             filled == [row EXCEPT !.state = NormalizeState(a.says.status), !.pid = a.says.pid]
  <2>2. r \in {row, WithProcess(row, row), WithProcess(filled, row)}
        /\ (r = WithProcess(filled, row) => a.says # NoState \/ r \in {row, WithProcess(row, row)})
    BY <1>2, <2>1 DEF Inspected, ParseContainer, FillFromContainerd, FillFromDockerCompatible
  <2>3. filled.pid = a.says.pid /\ filled.state = NormalizeState(a.says.status)
    BY <1>1
  <2>4. \A x : x \in {row, filled} => WithProcess(x, row).pid = x.pid /\ WithProcess(x, row).state = x.state
    BY <1>1, <1>2 DEF WithProcess
  <2>5. r.pid > 0 /\ r.state \in {"exited", "created", "inactive", "failed"}
    BY <1>3 DEF ShownAsEnded
  <2> HIDE DEF r, filled
  <2>6. r.pid = 0 \/ (r.pid = a.says.pid /\ r.state = NormalizeState(a.says.status))
    BY <1>2, <2>2, <2>3, <2>4
  <2>7. a.says.pid > 0 /\ NormalizeState(a.says.status) \in {"exited", "created", "inactive", "failed"}
    BY <2>5, <2>6
  <2>8. a.says \in DockerContainers
    BY <2>1, <2>7, NoStateFacts
  <2> QED
    BY <2>7, <2>8, DockerStates
<1> QED
  BY <1>2, <1>3 DEF InspectContainer, Containers

LEMMA DetailsOfTasks ==
  ASSUME NEW row \in RowsOf("containerd")
  PROVE  /\ InspectContainer(row) \/ InspectService(row)
         /\ \A a \in Answers("containerd") : ShownAsEnded(Inspected(row, a)) => ShownAsEnded(row)
<1>1. PICK t \in Tasks :
        row = [manager |-> "containerd", state |-> NormalizeState(t.status), pid |-> t.pid]
  BY DEF RowsOf, ContainerdRow
<1>2. row.manager = "containerd" /\ row.pid \in {0, 1}
  BY <1>1 DEF Tasks
<1>3. ASSUME NEW a \in Answers("containerd")
      PROVE  Inspected(row, a).pid = row.pid /\ Inspected(row, a).state = row.state
  <2>1. a.form \in {"broken", "object"}
    BY DEF Answers, Forms
  <2>2. Inspected(row, a) \in {row, WithProcess(row, row)}
    BY <1>2, <2>1 DEF Inspected, ParsesContainer, ParseContainer, FillFromContainerd
  <2>3. WithProcess(row, row).pid = row.pid /\ WithProcess(row, row).state = row.state
    BY <1>1 DEF WithProcess
  <2> QED
    BY <2>2, <2>3
<1> QED
  BY <1>2, <1>3 DEF InspectContainer, Containers, ShownAsEnded

(* What is shown is what the host said last: the table holds the rows of   *)
(* the last list and nothing else, the view follows what is in the table   *)
(* and what the host can do, a rate never exceeds what was carried per     *)
(* time, unless the answer took less time than the one before, and a       *)
(* dialog never mixes two states (applySnapshot, applyCapabilityUi,        *)
(* applyClientDeltas, parseInspect).                                       *)
THEOREM WhatIsShownIsTrue == Spec => []ShownIsTrue
<1>1. DetailsAgree
  BY DetailsOfServices, DetailsOfContainers, DetailsOfTasks DEF DetailsAgree, Managers, Containers
<1>2. IInv => RowsAreTheListing
  BY Types, Counted DEF IInv, Table, RowsAreTheListing, Content
<1>3. IInv => ViewIsCurrent /\ RateIsNotExaggerated
  BY DEF IInv, Table, Rates, RateIsNotExaggerated
<1>4. IInv => ShownIsTrue
  BY <1>1, <1>2, <1>3 DEF ShownIsTrue
<1> QED
  BY <1>4, Always, PTL
=============================================================================
