---------------------------- MODULE TunnelProofs -----------------------------
(***************************************************************************)
(* Proofs about the tunnels and the connections: TunnelBridge, for any     *)
(* number of connections and of items; TunnelList, for any tabs, any       *)
(* finite number of tunnels of any connections, and any of its bounds; and *)
(* Connections, for any connections, forms and changes of the user.        *)
(***************************************************************************)
EXTENDS TunnelBridge, TunnelList, Connections, SequenceTheorems, FiniteSetTheorems, TLAPS

-----------------------------------------------------------------------------
(***************************************************************************)
(* TunnelBridge.                                                           *)
(***************************************************************************)

(* The variables have the types the proofs rest on.                        *)
BridgeTyped ==
  /\ kind \in Kinds
  /\ st \in [Bridges -> {"none", "waiting", "handshake", "open", "gone"}]
  /\ chan \subseteq Bridges /\ closing \subseteq Bridges /\ cut \subseteq Bridges
  /\ posted \in Seq({<<"stop">>, <<"delete">>} \union ({"close"} \X Bridges))
  /\ peer \in [Bridges -> {"there", "left"}]
  /\ srv \in [Bridges -> {"open", "eof", "ended"}]
  /\ upSent \in [Bridges -> Nat] /\ upRead \in [Bridges -> Nat]
  /\ upGot \in [Bridges -> Seq(Nat)]
  /\ downSent \in [Bridges -> Nat] /\ downIn \in [Bridges -> Nat]
  /\ downGot \in [Bridges -> Nat]

(* Upstream: what the server has got was read, in order and after the      *)
(* handshake, which an open bridge has behind it.                          *)
ReadSoFar(b) ==
  /\ upRead[b] <= upSent[b]
  /\ st[b] = "open" => upRead[b] >= HandshakeItems
  /\ \A i \in DOMAIN upGot[b] : upGot[b][i] <= upRead[b]

Upstream == UpstreamInOrder /\ \A b \in Bridges : ReadSoFar(b)

(* Downstream: only an open bridge has a channel; a close is deferred when *)
(* the server has ended the channel and all it sent is with the socket; and*)
(* a client that left is known to have cut its bridge short.               *)
Delivered(b) ==
  /\ b \in chan => st[b] = "open"
  /\ b \in closing => srv[b] = "ended"
  /\ srv[b] = "ended" => downIn[b] = downSent[b]
  /\ peer[b] = "left" => b \in cut
  /\ \A i \in DOMAIN posted : posted[i] = <<"close", b>> => b \in closing
  /\ st[b] = "gone" /\ b \notin cut => downGot[b] = downSent[b]

Downstream == \A b \in Bridges : Delivered(b)
-----------------------------------------------------------------------------
(* A socket's data goes to the channel behind what is there.               *)
LEMMA Behind ==
  ASSUME NEW s \in Seq(Nat), NEW r \in Nat, NEW n \in Nat
  PROVE  LET t == s \o [i \in 1 .. n |-> r + i]
         IN  /\ t \in Seq(Nat) /\ Len(s) \in Nat /\ Len(t) = Len(s) + n
             /\ DOMAIN t = 1 .. Len(s) + n
             /\ \A i \in 1 .. Len(s) : t[i] = s[i]
             /\ \A i \in 1 .. Len(s) + n : i > Len(s) => t[i] = r + (i - Len(s))
<1> DEFINE u == [i \in 1 .. n |-> r + i]
<1>1. u \in Seq(Nat) /\ Len(u) = n
  <2>1. \A i \in 1 .. n : r + i \in Nat
    OBVIOUS
  <2>2. u \in Seq(Nat)
    BY <2>1
  <2>3. DOMAIN u = 1 .. n
    OBVIOUS
  <2> QED
    BY <2>2, <2>3, LenProperties
<1>2. \A i \in 1 .. n : u[i] = r + i
  OBVIOUS
<1> HIDE DEF u
<1>3. /\ s \o u \in Seq(Nat) /\ Len(s \o u) = Len(s) + Len(u)
      /\ \A i \in 1 .. Len(s) + Len(u) :
           (s \o u)[i] = IF i <= Len(s) THEN s[i] ELSE u[i - Len(s)]
  BY <1>1, ConcatProperties
<1>4. Len(s) \in Nat /\ DOMAIN (s \o u) = 1 .. Len(s) + n
  BY <1>1, <1>3, LenProperties
<1>5. \A i \in 1 .. Len(s) + n : i > Len(s) => (s \o u)[i] = r + (i - Len(s))
  BY <1>1, <1>2, <1>3, <1>4
<1>6. \A i \in 1 .. Len(s) : (s \o u)[i] = s[i]
  BY <1>1, <1>3, <1>4
<1> QED
  BY <1>1, <1>3, <1>4, <1>5, <1>6 DEF u
-----------------------------------------------------------------------------
(* What closing the bridges in bs does to each bridge.                     *)
LEMMA Closed ==
  ASSUME BridgeTyped, NEW bs \in SUBSET Open, CloseBridges(bs)
  PROVE  /\ st' \in [Bridges -> {"none", "waiting", "handshake", "open", "gone"}]
         /\ downGot' \in [Bridges -> Nat]
         /\ chan' \subseteq Bridges /\ cut' \subseteq Bridges /\ cut \subseteq cut'
         /\ \A b \in bs : /\ st'[b] = "gone" /\ b \notin chan'
                          /\ b \notin cut' /\ peer[b] = "there" => downGot'[b] = downIn[b]
         /\ \A b \in Bridges \ bs : /\ st'[b] = st[b] /\ downGot'[b] = downGot[b]
                                    /\ b \in chan' => b \in chan
<1>1. bs \subseteq Bridges
  BY DEF Open
<1>2. PICK late \in SUBSET bs : downGot' = Received(bs \ late) /\ cut' = cut \union late
  BY DEF CloseBridges
<1>3. downGot' \in [Bridges -> Nat]
  BY <1>2 DEF Received, BridgeTyped
<1>4. /\ st' \in [Bridges -> {"none", "waiting", "handshake", "open", "gone"}]
      /\ \A b \in bs : st'[b] = "gone"
      /\ \A b \in Bridges \ bs : st'[b] = st[b]
  BY <1>1 DEF CloseBridges, BridgeTyped
<1>5. \A b \in Bridges : /\ b \notin bs => downGot'[b] = downGot[b]
                         /\ b \in bs \ late /\ peer[b] = "there" => downGot'[b] = downIn[b]
  BY <1>2 DEF Received
<1> QED
  BY <1>1, <1>2, <1>3, <1>4, <1>5 DEF CloseBridges, BridgeTyped

(* What comes off the posted events was among them.                        *)
LEMMA TailOfPosted ==
  ASSUME BridgeTyped, posted # <<>>
  PROVE  /\ Tail(posted) \in Seq({<<"stop">>, <<"delete">>} \union ({"close"} \X Bridges))
         /\ Head(posted) = posted[1] /\ 1 \in DOMAIN posted
         /\ \A i \in DOMAIN Tail(posted) : \E j \in DOMAIN posted : Tail(posted)[i] = posted[j]
<1>1. Len(posted) \in Nat \ {0} /\ DOMAIN posted = 1 .. Len(posted)
  BY DEF BridgeTyped
<1>2. Len(Tail(posted)) = Len(posted) - 1 /\ DOMAIN Tail(posted) = 1 .. Len(posted) - 1
  BY <1>1 DEF BridgeTyped
<1>3. \A i \in 1 .. Len(posted) - 1 : Tail(posted)[i] = posted[i + 1] /\ i + 1 \in DOMAIN posted
  BY <1>1 DEF BridgeTyped
<1>4. Tail(posted) \in Seq({<<"stop">>, <<"delete">>} \union ({"close"} \X Bridges))
  BY DEF BridgeTyped
<1>5. \A i \in DOMAIN Tail(posted) : \E j \in DOMAIN posted : Tail(posted)[i] = posted[j]
  BY <1>2, <1>3
<1>6. Head(posted) = posted[1] /\ 1 \in DOMAIN posted
  BY <1>1 DEF BridgeTyped
<1> QED
  BY <1>4, <1>5, <1>6

(* An event is posted behind the others.                                   *)
LEMMA AppendedToPosted ==
  ASSUME NEW S, NEW s \in Seq(S), NEW x \in S
  PROVE  /\ Append(s, x) \in Seq(S)
         /\ \A i \in DOMAIN Append(s, x) :
              Append(s, x)[i] = x \/ \E j \in DOMAIN s : Append(s, x)[i] = s[j]
<1>1. Len(s) \in Nat /\ DOMAIN s = 1 .. Len(s) /\ DOMAIN Append(s, x) = 1 .. Len(s) + 1
  OBVIOUS
<1>2. Append(s, x)[Len(s) + 1] = x /\ \A i \in 1 .. Len(s) : Append(s, x)[i] = s[i]
  BY <1>1
<1>3. \A i \in 1 .. Len(s) + 1 : i = Len(s) + 1 \/ i \in 1 .. Len(s)
  BY <1>1
<1> QED
  BY <1>1, <1>2, <1>3
-----------------------------------------------------------------------------
(* The types.                                                              *)
LEMMA TypedInit == BridgeInit => BridgeTyped
  BY DEF BridgeInit, BridgeTyped

(* Every step keeps the types.                                             *)
LEMMA TypedNext == BridgeTyped /\ [BridgeNext]_bridgeVars => BridgeTyped'
<1> SUFFICES ASSUME BridgeTyped, [BridgeNext]_bridgeVars PROVE BridgeTyped'
  OBVIOUS
<1> USE DEF pipe
<1>1. ASSUME NEW b \in Bridges, Arrive(b) PROVE BridgeTyped'
  BY <1>1 DEF Arrive, BridgeTyped
<1>2. ASSUME NEW b \in Bridges, ClientSends(b) \/ ServerSends(b) \/ ChannelData(b) PROVE BridgeTyped'
  <2>1. CASE ClientSends(b)
    BY <2>1 DEF ClientSends, BridgeTyped
  <2>2. CASE ServerSends(b)
    <3>1. downSent \in [Bridges -> Nat] /\ downSent[b] + 1 \in Nat
      BY DEF BridgeTyped
    <3>2. downSent' = [downSent EXCEPT ![b] = downSent[b] + 1]
      BY <2>2 DEF ServerSends
    <3>3. downSent' \in [Bridges -> Nat]
      BY <3>1, <3>2
    <3> QED
      BY <2>2, <3>3 DEF ServerSends, BridgeTyped
  <2>3. CASE ChannelData(b)
    BY <2>3 DEF ChannelData, BridgeTyped
  <2> QED
    BY <1>2, <2>1, <2>2, <2>3
<1>3. ASSUME NEW b \in Bridges, ClientLeaves(b) \/ ServerEnds(b) PROVE BridgeTyped'
  BY <1>3 DEF ClientLeaves, ServerEnds, BridgeTyped
<1>4. ASSUME NEW b \in Bridges, (Attached(b) /\ UNCHANGED cut) \/ NotAttached(b)
      PROVE  /\ st' \in [Bridges -> {"none", "waiting", "handshake", "open", "gone"}]
             /\ chan' \subseteq Bridges /\ cut' \subseteq Bridges
  BY <1>4 DEF Attached, NotAttached, BridgeTyped
<1>5. ASSUME NEW b \in Bridges, AcceptLocal(b) \/ AcceptRemote(b) \/ AcceptAgent(b) PROVE BridgeTyped'
  BY <1>4, <1>5 DEF AcceptLocal, AcceptRemote, AcceptAgent, OpenForwardBridge, BridgeTyped
<1>6. ASSUME NEW b \in Bridges, AcceptSocks(b) \/ HandshakeDisconnected(b) PROVE BridgeTyped'
  BY <1>6 DEF AcceptSocks, HandshakeDisconnected, BridgeTyped
<1>7. ASSUME NEW b \in Bridges, HandshakeReadyRead(b) PROVE BridgeTyped'
  <2>1. upRead' \in [Bridges -> Nat]
    BY <1>7 DEF HandshakeReadyRead, BridgeTyped
  <2>2. /\ st' \in [Bridges -> {"none", "waiting", "handshake", "open", "gone"}]
        /\ chan' \subseteq Bridges /\ cut' \subseteq Bridges
    BY <1>4, <1>7 DEF HandshakeReadyRead, OpenForwardBridge, BridgeTyped
  <2> QED
    BY <1>7, <2>1, <2>2 DEF HandshakeReadyRead, BridgeTyped
<1>8. ASSUME NEW b \in Bridges, ReadyRead(b) PROVE BridgeTyped'
  <2>1. upRead' \in [Bridges -> Nat] /\ b \in Open
    BY <1>8 DEF ReadyRead, BridgeTyped
  <2>2. CASE WriteToChannel(b) /\ UNCHANGED <<st, chan, reg, downGot, cut>>
    <3>1. PICK n \in 0 .. upSent[b] - upRead[b] :
            upGot' = [upGot EXCEPT ![b] = @ \o [i \in 1 .. n |-> upRead[b] + i]]
      BY <2>2 DEF WriteToChannel
    <3>2. n \in Nat /\ upRead[b] \in Nat /\ upGot[b] \in Seq(Nat)
      BY DEF BridgeTyped
    <3>3. upGot[b] \o [i \in 1 .. n |-> upRead[b] + i] \in Seq(Nat)
      BY <3>2, Behind
    <3>4. upGot' \in [Bridges -> Seq(Nat)]
      BY <3>1, <3>3 DEF BridgeTyped
    <3> QED
      BY <1>8, <2>1, <2>2, <3>4 DEF ReadyRead, BridgeTyped
  <2>3. CASE CloseBridges({b}) /\ UNCHANGED upGot
    BY <1>8, <2>1, <2>3, Closed DEF ReadyRead, BridgeTyped
  <2> QED
    BY <1>8, <2>2, <2>3 DEF ReadyRead
<1>9. ASSUME NEW b \in Bridges, SocketDisconnected(b) PROVE BridgeTyped'
  BY <1>9, Closed DEF SocketDisconnected, BridgeTyped
<1>10. ASSUME NEW b \in Bridges, ChannelEnd(b) PROVE BridgeTyped'
  <2>1. <<"close", b>> \in {<<"stop">>, <<"delete">>} \union ({"close"} \X Bridges)
    OBVIOUS
  <2>2. posted' \in Seq({<<"stop">>, <<"delete">>} \union ({"close"} \X Bridges))
    <3>1. posted \in Seq({<<"stop">>, <<"delete">>} \union ({"close"} \X Bridges))
      BY DEF BridgeTyped
    <3>2. Append(posted, <<"close", b>>)
            \in Seq({<<"stop">>, <<"delete">>} \union ({"close"} \X Bridges))
      BY <2>1, <3>1, AppendedToPosted
    <3>3. posted' = posted \/ posted' = Append(posted, <<"close", b>>)
      BY <1>10 DEF ChannelEnd, ScheduleClose
    <3> QED
      BY <3>1, <3>2, <3>3
  <2>3. closing' \subseteq Bridges /\ srv' \in [Bridges -> {"open", "eof", "ended"}]
    BY <1>10 DEF ChannelEnd, ScheduleClose, BridgeTyped
  <2> QED
    BY <1>10, <2>2, <2>3 DEF ChannelEnd, BridgeTyped
<1>11. CASE PostStop
  <2>1. posted' \in Seq({<<"stop">>, <<"delete">>} \union ({"close"} \X Bridges))
    BY <1>11, AppendedToPosted DEF PostStop, BridgeTyped
  <2> QED
    BY <1>11, <2>1 DEF PostStop, BridgeTyped
<1>12. CASE PostedClose
  <2>1. posted' \in Seq({<<"stop">>, <<"delete">>} \union ({"close"} \X Bridges))
    BY <1>12, TailOfPosted DEF PostedClose
  <2>2. CASE UNCHANGED <<st, chan, reg, downGot, cut>>
    BY <1>12, <2>1, <2>2 DEF PostedClose, BridgeTyped
  <2>3. CASE Head(posted)[2] \in Open /\ CloseBridges({Head(posted)[2]})
    BY <1>12, <2>1, <2>3, Closed DEF PostedClose, BridgeTyped
  <2> QED
    BY <1>12, <2>2, <2>3 DEF PostedClose
<1>13. CASE Stop
  <2>1. posted' \in Seq({<<"stop">>, <<"delete">>} \union ({"close"} \X Bridges))
    BY <1>13, TailOfPosted, AppendedToPosted DEF Stop
  <2>2. downGot' \in [Bridges -> Nat]
    BY <1>13 DEF Stop, Received, BridgeTyped
  <2>3. st' \in [Bridges -> {"none", "waiting", "handshake", "open", "gone"}]
    BY <1>13 DEF Stop, BridgeTyped
  <2> QED
    BY <1>13, <2>1, <2>2, <2>3 DEF Stop, BridgeTyped
<1>14. CASE Delete
  BY <1>14, TailOfPosted DEF Delete, BridgeTyped
<1>15. CASE UNCHANGED bridgeVars
  BY <1>15 DEF bridgeVars, BridgeTyped
<1> QED
  BY <1>1, <1>2, <1>3, <1>5, <1>6, <1>7, <1>8, <1>9, <1>10, <1>11, <1>12, <1>13, <1>14, <1>15
     DEF BridgeNext, PeerStep, PostedStep, SocketStep, LoopStep
-----------------------------------------------------------------------------
(* Upstream: a step that moves nothing keeps the order, if the bridges it  *)
(* opens have no handshake.                                                *)
LEMMA NothingRead ==
  ASSUME BridgeTyped, BridgeTyped', Upstream, UNCHANGED <<kind, upRead, upGot>>,
         \A b \in Bridges : upSent[b] <= upSent'[b],
         \A b \in Bridges : st'[b] = "open" => st[b] = "open" \/ HandshakeItems = 0
  PROVE  Upstream'
<1>1. HandshakeItems' = HandshakeItems /\ HandshakeItems \in Nat
  BY DEF HandshakeItems
<1>2. UpstreamInOrder'
  BY <1>1 DEF Upstream, UpstreamInOrder
<1>3. ASSUME NEW b \in Bridges PROVE ReadSoFar(b)'
  <2>1. upSent[b] \in Nat /\ upSent'[b] \in Nat /\ upRead[b] \in Nat
    BY DEF BridgeTyped
  <2> QED
    BY <1>1, <2>1 DEF Upstream, ReadSoFar
<1> QED
  BY <1>2, <1>3 DEF Upstream

(* A socket of an open bridge is read.                                     *)
LEMMA ReadInOrder ==
  ASSUME BridgeTyped, BridgeTyped', Upstream, NEW b \in Bridges, ReadyRead(b)
  PROVE  Upstream'
<1>1. HandshakeItems' = HandshakeItems /\ HandshakeItems \in Nat
  BY DEF HandshakeItems, ReadyRead
<1>2. /\ upSent[b] \in Nat /\ upRead[b] \in Nat /\ upGot[b] \in Seq(Nat)
      /\ st[b] = "open" /\ upRead[b] < upSent[b] /\ upRead[b] >= HandshakeItems
      /\ \A i \in DOMAIN upGot[b] : upGot[b][i] <= upRead[b]
  BY DEF ReadyRead, Open, BridgeTyped, Upstream, ReadSoFar
<1>3. /\ upSent' = upSent /\ upRead'[b] = upSent[b]
      /\ \A c \in Bridges \ {b} : upRead'[c] = upRead[c]
  BY DEF ReadyRead, BridgeTyped
<1>4. \A c \in Bridges : st'[c] = "open" => st[c] = "open"
  BY Closed DEF ReadyRead
<1>5. CASE upGot' = upGot
  <2>1. UpstreamInOrder'
    BY <1>1, <1>5 DEF Upstream, UpstreamInOrder
  <2>2. ASSUME NEW i \in DOMAIN upGot[b] PROVE upGot[b][i] <= upSent[b]
    <3>1. upGot[b][i] \in Nat
      BY <1>2
    <3> QED
      BY <1>2, <3>1
  <2>3. ReadSoFar(b)'
    BY <1>1, <1>2, <1>3, <1>5, <2>2 DEF ReadSoFar
  <2>4. ASSUME NEW c \in Bridges \ {b} PROVE ReadSoFar(c)'
    BY <1>1, <1>3, <1>4, <1>5 DEF ReadSoFar, Upstream
  <2> QED
    BY <2>1, <2>3, <2>4 DEF Upstream
<1>6. CASE WriteToChannel(b)
  <2>1. PICK n \in 0 .. upSent[b] - upRead[b] :
          upGot' = [upGot EXCEPT ![b] = @ \o [i \in 1 .. n |-> upRead[b] + i]]
    BY <1>6 DEF WriteToChannel
  <2> DEFINE s == upGot[b]
             r == upRead[b]
             t == s \o [i \in 1 .. n |-> r + i]
  <2>2. n \in Nat /\ r + n <= upSent[b]
    BY <1>2
  <2>3. /\ Len(s) \in Nat /\ DOMAIN s = 1 .. Len(s) /\ DOMAIN t = 1 .. Len(s) + n
        /\ \A i \in 1 .. Len(s) : t[i] = s[i] /\ s[i] \in Nat
        /\ \A i \in 1 .. Len(s) + n : i > Len(s) => t[i] = r + (i - Len(s))
    <3>1. s \in Seq(Nat) /\ r \in Nat
      BY <1>2
    <3>2. DOMAIN s = 1 .. Len(s) /\ \A i \in 1 .. Len(s) : s[i] \in Nat
      BY <3>1, LenProperties, ElementOfSeq
    <3> HIDE DEF s, r
    <3> QED
      BY <2>2, <3>1, <3>2, Behind
  <2>4. upGot'[b] = t /\ \A c \in Bridges \ {b} : upGot'[c] = upGot[c]
    BY <2>1 DEF BridgeTyped
  <2>5. \A i \in 1 .. Len(s) : s[i] > HandshakeItems /\ (i > 1 => s[i] > s[i - 1])
    BY <2>3 DEF Upstream, UpstreamInOrder
  <2>6. \A i \in 1 .. Len(s) : s[i] <= r
    BY <1>2, <2>3
  <2>7. r \in Nat /\ r >= HandshakeItems
    BY <1>2
  <2> HIDE DEF s, r, t
  <2>8. ASSUME NEW i \in 1 .. Len(s) + n
        PROVE  t[i] > HandshakeItems /\ t[i] <= upSent[b] /\ (i > 1 => t[i] > t[i - 1])
    <3>1. CASE i \in 1 .. Len(s)
      <4>1. i > 1 => i - 1 \in 1 .. Len(s)
        BY <2>3, <3>1
      <4>2. t[i] = s[i] /\ s[i] \in Nat /\ s[i] <= r /\ s[i] > HandshakeItems
        BY <2>3, <2>5, <2>6, <3>1
      <4>3. i > 1 => t[i] > t[i - 1]
        BY <2>3, <2>5, <3>1, <4>1
      <4> QED
        BY <1>1, <1>2, <2>2, <2>7, <4>2, <4>3
    <3>2. CASE i > Len(s)
      <4>1. t[i] = r + (i - Len(s)) /\ i - Len(s) \in 1 .. n
        BY <2>2, <2>3, <3>2
      <4>2. CASE i - 1 > Len(s)
        <5>1. t[i - 1] = r + (i - 1 - Len(s))
          BY <2>2, <2>3, <4>2
        <5>2. t[i] > t[i - 1]
          <6>1. i \in Int /\ Len(s) \in Int /\ r \in Int
            BY <2>2, <2>3, <2>7
          <6> QED
            BY <4>1, <5>1, <6>1
        <5>3. t[i] > r /\ t[i] <= r + n
          BY <2>2, <2>7, <4>1
        <5>4. t[i] > HandshakeItems /\ t[i] <= upSent[b]
          <6>1. t[i] \in Int /\ HandshakeItems \in Int /\ upSent[b] \in Int
            BY <1>1, <1>2, <2>2, <2>7, <4>1
          <6> QED
            BY <2>2, <2>7, <5>3, <6>1
        <5> QED
          BY <5>2, <5>4
      <4>3. CASE i - 1 = Len(s)
        <5>1. i > 1 => t[i - 1] = s[i - 1] /\ s[i - 1] \in Nat /\ s[i - 1] <= r
          BY <2>3, <2>6, <4>3
        <5> QED
          BY <1>1, <1>2, <2>2, <2>3, <2>7, <4>1, <5>1
      <4>4. i - 1 > Len(s) \/ i - 1 = Len(s)
        <5>1. i \in Int /\ Len(s) \in Int
          BY <2>2, <2>3
        <5> QED
          BY <3>2, <5>1
      <4> QED
        BY <4>2, <4>3, <4>4
    <3> QED
      BY <2>2, <2>3, <3>1, <3>2
  <2>9. UpstreamInOrder'
    <3>1. ASSUME NEW c \in Bridges, NEW i \in DOMAIN upGot'[c]
          PROVE  /\ upGot'[c][i] > HandshakeItems
                 /\ i > 1 => upGot'[c][i] > upGot'[c][i - 1]
      <4>1. CASE c = b
        BY <2>3, <2>4, <2>8, <4>1
      <4>2. CASE c # b
        BY <2>4, <4>2 DEF Upstream, UpstreamInOrder
      <4> QED
        BY <4>1, <4>2
    <3> QED
      BY <1>1, <3>1 DEF UpstreamInOrder
  <2>10. ReadSoFar(b)'
    BY <1>1, <1>2, <1>3, <2>3, <2>4, <2>8 DEF ReadSoFar
  <2>11. ASSUME NEW c \in Bridges \ {b} PROVE ReadSoFar(c)'
    BY <1>1, <1>3, <1>4, <2>4 DEF ReadSoFar, Upstream
  <2> QED
    BY <2>9, <2>10, <2>11 DEF Upstream
<1> QED
  BY <1>5, <1>6 DEF ReadyRead

(* The client of a SOCKS tunnel has its handshake behind it when the       *)
(* bridge is opened.                                                       *)
LEMMA HandshakeInOrder ==
  ASSUME BridgeTyped, BridgeTyped', Upstream, NEW b \in Bridges, HandshakeReadyRead(b)
  PROVE  Upstream'
<1>1. HandshakeItems' = HandshakeItems /\ HandshakeItems \in Nat
  BY DEF HandshakeItems, HandshakeReadyRead
<1>2. /\ upGot' = upGot /\ upSent' = upSent /\ upRead'[b] = upSent[b]
      /\ \A c \in Bridges \ {b} : upRead'[c] = upRead[c]
      /\ upSent[b] \in Nat /\ upRead[b] \in Nat /\ upRead[b] < upSent[b]
  BY DEF HandshakeReadyRead, BridgeTyped
<1>3. /\ \A c \in Bridges \ {b} : st'[c] = st[c]
      /\ st'[b] = "open" => upSent[b] >= HandshakeItems
  BY <1>1, <1>2 DEF HandshakeReadyRead, HandshakeOutcomes, OpenForwardBridge, Attached,
                    NotAttached, BridgeTyped
<1>4. UpstreamInOrder'
  BY <1>1, <1>2 DEF Upstream, UpstreamInOrder
<1>5. ReadSoFar(b)'
  <2>1. ASSUME NEW i \in DOMAIN upGot[b] PROVE upGot[b][i] <= upSent[b]
    <3>1. upGot[b] \in Seq(Nat)
      BY DEF BridgeTyped
    <3>2. upGot[b][i] \in Nat
      BY <3>1, ElementOfSeq, LenProperties
    <3>3. upGot[b][i] <= upRead[b]
      BY DEF Upstream, ReadSoFar
    <3> QED
      BY <1>2, <3>2, <3>3
  <2> QED
    BY <1>1, <1>2, <1>3, <2>1 DEF ReadSoFar
<1>6. ASSUME NEW c \in Bridges \ {b} PROVE ReadSoFar(c)'
  BY <1>1, <1>2, <1>3 DEF ReadSoFar, Upstream
<1> QED
  BY <1>4, <1>5, <1>6 DEF Upstream

(* Every step keeps what was read before what the server got.              *)
LEMMA UpstreamNext == BridgeTyped /\ Upstream /\ [BridgeNext]_bridgeVars => Upstream'
<1> SUFFICES ASSUME BridgeTyped, Upstream, [BridgeNext]_bridgeVars PROVE Upstream'
  OBVIOUS
<1>1. BridgeTyped'
  BY TypedNext
<1>2. \A b \in Bridges : upSent[b] <= upSent[b]
  BY DEF BridgeTyped
<1> USE DEF pipe
<1>3. ASSUME NEW b \in Bridges, ClientSends(b) PROVE Upstream'
  <2>1. \A c \in Bridges : upSent[c] <= upSent'[c]
    BY <1>3 DEF ClientSends, BridgeTyped
  <2> QED
    BY <1>1, <1>3, <2>1, NothingRead DEF ClientSends
<1>4. ASSUME NEW b \in Bridges,
             Arrive(b) \/ ClientLeaves(b) \/ ServerSends(b) \/ ServerEnds(b) \/ AcceptSocks(b)
               \/ HandshakeDisconnected(b) \/ ChannelData(b) \/ ChannelEnd(b)
      PROVE  Upstream'
  <2>1. UNCHANGED <<kind, upSent, upRead, upGot>>
    BY <1>4 DEF Arrive, ClientLeaves, ServerSends, ServerEnds, AcceptSocks,
                HandshakeDisconnected, ChannelData, ChannelEnd
  <2>2. \A c \in Bridges : st'[c] = "open" => st[c] = "open"
    BY <1>4 DEF Arrive, ClientLeaves, ServerSends, ServerEnds, AcceptSocks,
                HandshakeDisconnected, ChannelData, ChannelEnd, BridgeTyped
  <2> QED
    BY <1>1, <1>2, <2>1, <2>2, NothingRead
<1>5. ASSUME NEW b \in Bridges, AcceptLocal(b) \/ AcceptRemote(b) \/ AcceptAgent(b)
      PROVE  Upstream'
  <2>1. UNCHANGED <<kind, upSent, upRead, upGot>> /\ HandshakeItems = 0
    BY <1>5 DEF AcceptLocal, AcceptRemote, AcceptAgent, HandshakeItems
  <2> QED
    BY <1>1, <1>2, <2>1, NothingRead
<1>6. ASSUME NEW b \in Bridges, SocketDisconnected(b) PROVE Upstream'
  BY <1>1, <1>2, <1>6, Closed, NothingRead DEF SocketDisconnected
<1>7. CASE PostedClose
  <2>1. \A c \in Bridges : st'[c] = "open" => st[c] = "open"
    BY <1>7, Closed DEF PostedClose
  <2> QED
    BY <1>1, <1>2, <1>7, <2>1, NothingRead DEF PostedClose
<1>8. CASE Stop
  <2>1. \A c \in Bridges : st'[c] # "open"
    BY <1>8 DEF Stop
  <2> QED
    BY <1>1, <1>2, <1>8, <2>1, NothingRead DEF Stop
<1>9. CASE PostStop \/ Delete \/ UNCHANGED bridgeVars
  <2>1. UNCHANGED <<kind, st, upSent, upRead, upGot>>
    BY <1>9 DEF PostStop, Delete, bridgeVars
  <2> QED
    BY <1>1, <1>2, <2>1, NothingRead
<1> QED
  BY <1>1, <1>3, <1>4, <1>5, <1>6, <1>7, <1>8, <1>9, ReadInOrder, HandshakeInOrder
     DEF BridgeNext, PeerStep, PostedStep, SocketStep, LoopStep

(* What a server gets through a tunnel of any kind is in the order it was  *)
(* sent, nothing twice and nothing of the handshake, for any number of     *)
(* connections and items: whatever writeSocketToChannel drops.             *)
THEOREM SentInOrder == BridgeSpec => []UpstreamInOrder
<1>1. BridgeInit => Upstream
  BY DEF BridgeInit, Upstream, UpstreamInOrder, ReadSoFar, HandshakeItems
<1>2. Upstream => UpstreamInOrder
  BY DEF Upstream
<1> QED
  BY <1>1, <1>2, TypedInit, TypedNext, UpstreamNext, PTL DEF BridgeSpec
-----------------------------------------------------------------------------
(* Downstream: a step that closes nothing and delivers nothing.            *)
LEMMA NothingDelivered ==
  ASSUME BridgeTyped, Downstream, UNCHANGED <<closing, srv, downSent, downIn, downGot>>,
         \A i \in DOMAIN posted' : posted'[i][1] = "close" => \E j \in DOMAIN posted : posted'[i] = posted[j],
         cut \subseteq cut', chan' \subseteq Bridges,
         \A b \in Bridges : /\ b \in chan' => st'[b] = "open"
                            /\ peer'[b] = "left" => b \in cut'
                            /\ st'[b] = "gone" => st[b] = "gone" \/ b \in cut'
  PROVE  Downstream'
<1> SUFFICES ASSUME NEW b \in Bridges PROVE Delivered(b)'
  BY DEF Downstream
<1>1. ASSUME NEW i \in DOMAIN posted', posted'[i] = <<"close", b>> PROVE b \in closing
  <2>1. posted'[i][1] = "close"
    BY <1>1
  <2>2. PICK j \in DOMAIN posted : posted'[i] = posted[j]
    BY <2>1
  <2> QED
    BY <1>1, <2>2 DEF Downstream, Delivered
<1>2. st'[b] = "gone" /\ b \notin cut' => downGot[b] = downSent[b]
  BY DEF Downstream, Delivered
<1> QED
  BY <1>1, <1>2 DEF Downstream, Delivered

(* Closing bridges that are through, or have been cut short by their peer. *)
LEMMA ClosedDelivered ==
  ASSUME BridgeTyped, Downstream, NEW bs \in SUBSET Open, CloseBridges(bs),
         UNCHANGED <<closing, peer, srv, downSent, downIn>>,
         \A i \in DOMAIN posted' : \E j \in DOMAIN posted : posted'[i] = posted[j],
         \A b \in bs : srv[b] = "ended" \/ peer[b] = "left"
  PROVE  Downstream'
<1> SUFFICES ASSUME NEW b \in Bridges PROVE Delivered(b)'
  BY DEF Downstream
<1>1. /\ b \in chan => st[b] = "open"
      /\ b \in closing => srv[b] = "ended"
      /\ srv[b] = "ended" => downIn[b] = downSent[b]
      /\ peer[b] = "left" => b \in cut
      /\ \A i \in DOMAIN posted : posted[i] = <<"close", b>> => b \in closing
      /\ st[b] = "gone" /\ b \notin cut => downGot[b] = downSent[b]
  BY DEF Downstream, Delivered
<1>2. cut \subseteq cut' /\ peer[b] \in {"there", "left"}
  BY Closed DEF BridgeTyped
<1>3. \A i \in DOMAIN posted' : posted'[i] = <<"close", b>> => b \in closing
  BY <1>1
<1>4. CASE b \in bs
  <2>1. /\ st'[b] = "gone" /\ b \notin chan'
        /\ b \notin cut' /\ peer[b] = "there" => downGot'[b] = downIn[b]
    BY <1>4, Closed
  <2>2. b \notin cut' => peer[b] = "there" /\ srv[b] = "ended"
    BY <1>1, <1>2, <1>4
  <2> QED
    BY <1>1, <1>2, <1>3, <2>1, <2>2 DEF Delivered
<1>5. CASE b \notin bs
  <2>1. st'[b] = st[b] /\ downGot'[b] = downGot[b] /\ (b \in chan' => b \in chan)
    BY <1>5, Closed
  <2> QED
    BY <1>1, <1>2, <1>3, <2>1 DEF Delivered
<1> QED
  BY <1>4, <1>5

(* The server sends on a channel it has not ended.                         *)
LEMMA ServerDelivered ==
  ASSUME BridgeTyped, Downstream, NEW b \in Bridges, ServerSends(b) \/ ServerEnds(b) \/ ChannelData(b)
  PROVE  Downstream'
<1> SUFFICES ASSUME NEW c \in Bridges PROVE Delivered(c)'
  BY DEF Downstream
<1>1. /\ c \in chan => st[c] = "open"
      /\ c \in closing => srv[c] = "ended"
      /\ srv[c] = "ended" => downIn[c] = downSent[c]
      /\ peer[c] = "left" => c \in cut
      /\ \A i \in DOMAIN posted : posted[i] = <<"close", c>> => c \in closing
      /\ st[c] = "gone" /\ c \notin cut => downGot[c] = downSent[c]
      /\ downIn[c] \in Nat /\ downSent[c] \in Nat
  BY DEF Downstream, Delivered, BridgeTyped
<1> USE DEF pipe
<1>2. CASE ServerSends(b)
  BY <1>1, <1>2 DEF ServerSends, Delivered, BridgeTyped
<1>3. CASE ServerEnds(b)
  BY <1>1, <1>3 DEF ServerEnds, Delivered, BridgeTyped
<1>4. CASE ChannelData(b)
  BY <1>1, <1>4 DEF ChannelData, Delivered, BridgeTyped
<1> QED
  BY <1>2, <1>3, <1>4

(* The end of a channel comes behind its data.                             *)
LEMMA EndDelivered ==
  ASSUME BridgeTyped, Downstream, NEW b \in Bridges, ChannelEnd(b)
  PROVE  Downstream'
<1> SUFFICES ASSUME NEW c \in Bridges PROVE Delivered(c)'
  BY DEF Downstream
<1>1. /\ c \in chan => st[c] = "open"
      /\ c \in closing => srv[c] = "ended"
      /\ srv[c] = "ended" => downIn[c] = downSent[c]
      /\ peer[c] = "left" => c \in cut
      /\ \A i \in DOMAIN posted : posted[i] = <<"close", c>> => c \in closing
      /\ st[c] = "gone" /\ c \notin cut => downGot[c] = downSent[c]
  BY DEF Downstream, Delivered
<1>2. /\ UNCHANGED <<st, chan, peer, downSent, downIn, downGot, cut>>
      /\ downIn[b] = downSent[b] /\ srv'[b] = "ended" /\ (c # b => srv'[c] = srv[c])
  BY DEF ChannelEnd, BridgeTyped, pipe
<1>3. closing' = closing \union {b} /\ b \in closing'
  BY DEF ChannelEnd, ScheduleClose
<1>4. ASSUME NEW i \in DOMAIN posted', posted'[i] = <<"close", c>> PROVE c \in closing'
  <2>1. CASE posted' = posted
    BY <1>1, <1>3, <1>4, <2>1
  <2>2. CASE posted' = Append(posted, <<"close", b>>)
    <3>1. posted \in Seq({<<"stop">>, <<"delete">>} \union ({"close"} \X Bridges))
      BY DEF BridgeTyped
    <3>2. posted'[i] = <<"close", b>> \/ \E j \in DOMAIN posted : posted'[i] = posted[j]
      BY <2>2, <3>1, AppendedToPosted
    <3> QED
      BY <1>1, <1>3, <1>4, <3>2
  <2> QED
    BY <2>1, <2>2 DEF ChannelEnd, ScheduleClose
<1> QED
  BY <1>1, <1>2, <1>3, <1>4 DEF Delivered

(* Every step closes only bridges that are through, or were cut short.     *)
LEMMA DownstreamNext == BridgeTyped /\ Downstream /\ [BridgeNext]_bridgeVars => Downstream'
<1> SUFFICES ASSUME BridgeTyped, Downstream, [BridgeNext]_bridgeVars PROVE Downstream'
  OBVIOUS
<1>1. BridgeTyped'
  BY TypedNext
<1>2. \A b \in Bridges : /\ b \in chan => st[b] = "open"
                         /\ peer[b] = "left" => b \in cut
  BY DEF Downstream, Delivered
<1> USE DEF pipe
<1>3. ASSUME NEW b \in Bridges, ClientSends(b) PROVE Downstream'
  BY <1>1, <1>2, <1>3, NothingDelivered DEF ClientSends, BridgeTyped
<1>4. ASSUME NEW b \in Bridges, Arrive(b) \/ AcceptSocks(b) PROVE Downstream'
  <2>1. /\ UNCHANGED <<posted, chan, closing, peer, srv, pipe, cut>> /\ st[b] # "open"
        /\ \A c \in Bridges \ {b} : st'[c] = st[c]
        /\ st'[b] \notin {"open", "gone"}
    BY <1>4 DEF Arrive, AcceptSocks, BridgeTyped
  <2> QED
    BY <1>1, <1>2, <2>1, NothingDelivered DEF BridgeTyped
<1>5. ASSUME NEW b \in Bridges, ClientLeaves(b) PROVE Downstream'
  <2>1. /\ UNCHANGED <<posted, st, chan, closing, srv, pipe>> /\ cut' = cut \union {b}
        /\ \A c \in Bridges \ {b} : peer'[c] = peer[c]
    BY <1>5 DEF ClientLeaves, BridgeTyped
  <2> QED
    BY <1>1, <1>2, <2>1, NothingDelivered DEF BridgeTyped
<1>6. ASSUME NEW b \in Bridges, HandshakeDisconnected(b) PROVE Downstream'
  <2>1. /\ UNCHANGED <<posted, chan, closing, peer, srv, pipe, cut>> /\ st[b] # "open"
        /\ \A c \in Bridges \ {b} : st'[c] = st[c]
        /\ peer[b] = "left"
    BY <1>6 DEF HandshakeDisconnected, BridgeTyped
  <2> QED
    BY <1>1, <1>2, <2>1, NothingDelivered DEF BridgeTyped
<1>7. ASSUME NEW b \in Bridges,
             AcceptLocal(b) \/ AcceptRemote(b) \/ AcceptAgent(b) \/ HandshakeReadyRead(b)
      PROVE  Downstream'
  <2>1. /\ UNCHANGED <<posted, closing, peer, srv, downSent, downIn, downGot>>
        /\ st[b] # "open"
        /\ OpenForwardBridge(b) \/ NotAttached(b) \/ UNCHANGED <<st, chan, reg, cut>>
    BY <1>7 DEF AcceptLocal, AcceptRemote, AcceptAgent, HandshakeReadyRead
  <2>2. CASE UNCHANGED <<st, chan, reg, cut>>
    BY <1>1, <1>2, <2>1, <2>2, NothingDelivered DEF BridgeTyped
  <2>3. CASE Attached(b) /\ UNCHANGED cut
    <3>1. /\ st'[b] = "open" /\ \A c \in Bridges \ {b} : st'[c] = st[c]
          /\ chan' = chan \union {b} /\ cut' = cut
      BY <2>3 DEF Attached, BridgeTyped
    <3> QED
      BY <1>1, <1>2, <2>1, <3>1, NothingDelivered DEF BridgeTyped
  <2>4. CASE NotAttached(b)
    <3>1. /\ st'[b] = "gone" /\ \A c \in Bridges \ {b} : st'[c] = st[c]
          /\ chan' = chan /\ cut' = cut \union {b}
      BY <2>4 DEF NotAttached, BridgeTyped
    <3> QED
      BY <1>1, <1>2, <2>1, <3>1, NothingDelivered DEF BridgeTyped
  <2> QED
    BY <2>1, <2>2, <2>3, <2>4 DEF OpenForwardBridge
<1>8. ASSUME NEW b \in Bridges, ReadyRead(b) PROVE Downstream'
  <2>1. CASE UNCHANGED <<st, chan, reg, downGot, cut>>
    BY <1>1, <1>2, <1>8, <2>1, NothingDelivered DEF ReadyRead, BridgeTyped
  <2>2. CASE srv[b] = "ended" /\ CloseBridges({b})
    BY <1>8, <2>2, ClosedDelivered DEF ReadyRead
  <2> QED
    BY <1>8, <2>1, <2>2 DEF ReadyRead
<1>9. ASSUME NEW b \in Bridges, SocketDisconnected(b) PROVE Downstream'
  BY <1>9, ClosedDelivered DEF SocketDisconnected
<1>10. CASE PostedClose
  <2>1. /\ posted # <<>> /\ posted' = Tail(posted)
        /\ \A i \in DOMAIN posted' : \E j \in DOMAIN posted : posted'[i] = posted[j]
    BY <1>10, TailOfPosted DEF PostedClose
  <2>2. CASE UNCHANGED <<st, chan, reg, downGot, cut>>
    BY <1>1, <1>2, <1>10, <2>1, <2>2, NothingDelivered DEF PostedClose, BridgeTyped
  <2>3. CASE Head(posted)[2] \in Open /\ CloseBridges({Head(posted)[2]})
    <3> DEFINE b == Head(posted)[2]
    <3>1. 1 \in DOMAIN posted /\ posted[1] = <<"close", b>> /\ b \in Bridges
      <4>1. Head(posted) \in {<<"stop">>, <<"delete">>} \union ({"close"} \X Bridges)
        BY <2>1 DEF BridgeTyped
      <4>2. Head(posted)[1] = "close"
        BY <1>10 DEF PostedClose
      <4>3. Head(posted) \in {"close"} \X Bridges
        BY <4>1, <4>2
      <4> QED
        BY <2>1, <4>3, TailOfPosted
    <3>2. b \in closing /\ srv[b] = "ended"
      BY <3>1 DEF Downstream, Delivered
    <3> HIDE DEF b
    <3> QED
      BY <1>10, <2>1, <2>3, <3>2, ClosedDelivered DEF PostedClose, b
  <2> QED
    BY <1>10, <2>2, <2>3 DEF PostedClose
<1>11. CASE Stop
  <2>1. /\ posted # <<>> /\ posted' = Append(Tail(posted), <<"delete">>)
        /\ UNCHANGED <<closing, peer, srv, downSent, downIn>>
        /\ chan' = chan \ Open /\ cut \subseteq cut'
    BY <1>11 DEF Stop
  <2>2. \A i \in DOMAIN posted' :
          posted'[i] = <<"delete">> \/ \E j \in DOMAIN posted : posted'[i] = posted[j]
    <3>1. \A i \in DOMAIN posted' :
            posted'[i] = <<"delete">> \/ \E j \in DOMAIN Tail(posted) : posted'[i] = Tail(posted)[j]
      BY <2>1, TailOfPosted, AppendedToPosted
    <3> QED
      BY <2>1, <3>1, TailOfPosted
  <2>3. ASSUME NEW b \in Bridges PROVE Delivered(b)'
    <3>1. b \notin chan'
      BY <1>2, <2>1 DEF Open
    <3>2. ASSUME NEW i \in DOMAIN posted', posted'[i] = <<"close", b>> PROVE b \in closing'
      <4>1. posted'[i] # <<"delete">>
        BY <3>2
      <4>2. PICK j \in DOMAIN posted : posted'[i] = posted[j]
        BY <2>2, <4>1
      <4> QED
        BY <2>1, <3>2, <4>2 DEF Downstream, Delivered
    <3>3. st'[b] = "gone" /\ b \notin cut' => downGot'[b] = downSent[b]
      <4>1. /\ st[b] \in {"waiting", "handshake", "open"} => b \in cut'
            /\ st'[b] = "gone" => st[b] # "none"
        BY <1>11 DEF Stop
      <4>2. b \notin Open => downGot'[b] = downGot[b]
        BY <1>11 DEF Stop, Received
      <4> QED
        BY <2>1, <4>1, <4>2 DEF Downstream, Delivered, BridgeTyped, Open
    <3> QED
      BY <2>1, <3>1, <3>2, <3>3 DEF Downstream, Delivered
  <2> QED
    BY <2>3 DEF Downstream
<1>12. CASE Delete
  <2>1. \A i \in DOMAIN posted' : \E j \in DOMAIN posted : posted'[i] = posted[j]
    BY <1>12, TailOfPosted DEF Delete
  <2> QED
    BY <1>1, <1>2, <1>12, <2>1, NothingDelivered DEF Delete, BridgeTyped
<1>13. CASE PostStop
  <2>1. \A i \in DOMAIN posted' :
          posted'[i] = <<"stop">> \/ \E j \in DOMAIN posted : posted'[i] = posted[j]
    BY <1>13, AppendedToPosted DEF PostStop, BridgeTyped
  <2>2. \A i \in DOMAIN posted' : posted'[i][1] = "close" =>
          \E j \in DOMAIN posted : posted'[i] = posted[j]
    BY <2>1
  <2> QED
    BY <1>1, <1>2, <1>13, <2>2, NothingDelivered DEF PostStop, BridgeTyped
<1>14. CASE UNCHANGED bridgeVars
  BY <1>1, <1>2, <1>14, NothingDelivered DEF bridgeVars, BridgeTyped
<1> QED
  BY <1>3, <1>4, <1>5, <1>6, <1>7, <1>8, <1>9, <1>10, <1>11, <1>12, <1>13, <1>14,
     ServerDelivered, EndDelivered
     DEF BridgeNext, PeerStep, PostedStep, SocketStep, LoopStep

(* A bridge that ends because the server has ended its channel has given   *)
(* its client all the server sent, for any number of connections and items:*)
(* the deferred close comes behind the data, and closeBridge flushes.      *)
THEOREM ResponsesComplete == BridgeSpec => []ResponseIsComplete
<1>1. BridgeInit => Downstream
  BY DEF BridgeInit, Downstream, Delivered
<1>2. Downstream => ResponseIsComplete
  BY DEF Downstream, Delivered, ResponseIsComplete
<1> QED
  BY <1>1, <1>2, TypedInit, TypedNext, DownstreamNext, PTL DEF BridgeSpec

-----------------------------------------------------------------------------
(* The deferred closes: posted once, for a bridge that was registered; one *)
(* that finds its bridge freed was overtaken by a socket's event or a stop.*)
CloseOf(b) == <<"close", b>>
Once(s, x) == \A i, j \in DOMAIN s : s[i] = x /\ s[j] = x => i = j
Within(s, x) == \E i \in DOMAIN s : s[i] = x
Overtaken(b) == peer[b] = "left" \/ sess # "listening" \/ upRead[b] > 0

Deferral(b) ==
  /\ b \in reg => st[b] = "open"
  /\ b \in closing => st[b] \in {"open", "gone"}
  /\ Within(posted, CloseOf(b)) => b \in closing
  /\ Once(posted, CloseOf(b))
  /\ Within(posted, CloseOf(b)) /\ st[b] = "gone" => Overtaken(b)
  /\ b \in stray => Overtaken(b)

Deferrals == \A b \in Bridges : Deferral(b)

(* What happens once in a sequence happens at most once in what is left    *)
(* of it, and not when it was the first.                                   *)
LEMMA OnceInTail ==
  ASSUME NEW S, NEW s \in Seq(S), s # <<>>, NEW x
  PROVE  /\ Once(s, x) => Once(Tail(s), x)
         /\ Within(Tail(s), x) => Within(s, x)
         /\ Once(s, x) /\ Head(s) = x => ~Within(Tail(s), x)
<1>1. Len(s) \in Nat \ {0} /\ DOMAIN s = 1 .. Len(s)
  BY EmptySeq, LenProperties
<1>2. /\ DOMAIN Tail(s) = 1 .. Len(s) - 1 /\ Head(s) = s[1]
      /\ \A i \in 1 .. Len(s) - 1 : Tail(s)[i] = s[i + 1]
  BY <1>1, HeadTailProperties, LenProperties
<1>3. ASSUME NEW i \in DOMAIN Tail(s)
      PROVE  i \in Int /\ i + 1 \in DOMAIN s /\ Tail(s)[i] = s[i + 1] /\ i + 1 # 1
  BY <1>1, <1>2
<1>4. ASSUME NEW i \in DOMAIN Tail(s), NEW j \in DOMAIN Tail(s), Tail(s)[i] = x, Tail(s)[j] = x,
             Once(s, x)
      PROVE  i = j
  <2>1. i + 1 = j + 1
    BY <1>3, <1>4 DEF Once
  <2> QED
    BY <1>3, <2>1
<1>5. ASSUME NEW i \in DOMAIN Tail(s), Tail(s)[i] = x, Once(s, x)
      PROVE  Head(s) # x
  <2>1. 1 \in DOMAIN s
    BY <1>1
  <2> QED
    BY <1>2, <1>3, <1>5, <2>1 DEF Once
<1> QED
  BY <1>3, <1>4, <1>5 DEF Once, Within

(* Behind the others it is posted once if it is not there.                 *)
LEMMA OnceAppended ==
  ASSUME NEW S, NEW s \in Seq(S), NEW y \in S, NEW x
  PROVE  /\ Once(s, x) /\ (x = y => ~Within(s, x)) => Once(Append(s, y), x)
         /\ Within(Append(s, y), x) => x = y \/ Within(s, x)
<1>1. Len(s) \in Nat /\ DOMAIN s = 1 .. Len(s) /\ DOMAIN Append(s, y) = 1 .. Len(s) + 1
  BY AppendProperties, LenProperties
<1>2. Append(s, y)[Len(s) + 1] = y /\ \A i \in 1 .. Len(s) : Append(s, y)[i] = s[i]
  BY AppendProperties
<1>3. \A i \in DOMAIN Append(s, y) :
        \/ i = Len(s) + 1 /\ Append(s, y)[i] = y
        \/ i \in DOMAIN s /\ Append(s, y)[i] = s[i]
  <2>1. \A i \in DOMAIN Append(s, y) : i = Len(s) + 1 \/ i \in DOMAIN s
    BY <1>1
  <2> QED
    BY <1>1, <1>2, <2>1
<1> QED
  BY <1>3 DEF Once, Within

(* A step that defers no close and runs none.                              *)
LEMMA NothingDeferred ==
  ASSUME Deferrals, UNCHANGED closing, stray' \subseteq stray,
         \A b \in Bridges :
           /\ Within(posted', CloseOf(b)) => Within(posted, CloseOf(b))
           /\ Once(posted, CloseOf(b)) => Once(posted', CloseOf(b))
           /\ Overtaken(b) => Overtaken(b)'
           /\ b \in reg' => st'[b] = "open"
           /\ st[b] \in {"open", "gone"} => st'[b] \in {"open", "gone"}
           /\ st'[b] = "gone" => st[b] = "gone" \/ b \notin closing \/ Overtaken(b)'
  PROVE  Deferrals'
<1> SUFFICES ASSUME NEW b \in Bridges PROVE Deferral(b)'
  BY DEF Deferrals
<1>1. Deferral(b)
  BY DEF Deferrals
<1>2. CloseOf(b)' = CloseOf(b)
  BY DEF CloseOf
<1> QED
  BY <1>1, <1>2 DEF Deferral, Within, Once

(* The bridge's other side is there, or is not: no close was deferred.     *)
LEMMA OpenedNotDeferred ==
  ASSUME BridgeTyped, BridgeTyped', Deferrals, NEW b \in Bridges, st[b] \notin {"open", "gone"},
         UNCHANGED <<posted, closing, stray, peer, sess>>,
         \A c \in Bridges : upRead[c] > 0 => upRead'[c] > 0,
         \/ Attached(b)
         \/ NotAttached(b)
         \/ UNCHANGED <<st, reg>>
         \/ UNCHANGED reg /\ st' = [st EXCEPT ![b] = "gone"]
         \/ UNCHANGED reg /\ st' = [st EXCEPT ![b] = "waiting"]
         \/ UNCHANGED reg /\ st' = [st EXCEPT ![b] = "handshake"]
  PROVE  Deferrals'
<1>1. b \notin closing /\ b \notin reg
  BY DEF Deferrals, Deferral
<1>2. \A c \in Bridges \ {b} : st'[c] = st[c] /\ (c \in reg' => c \in reg)
  <2>1. \/ st' = st
        \/ \E x \in {"open", "gone", "waiting", "handshake"} : st' = [st EXCEPT ![b] = x]
    BY DEF Attached, NotAttached
  <2>2. \A c \in Bridges \ {b} : st'[c] = st[c]
    <3>1. DOMAIN st = Bridges
      BY DEF BridgeTyped
    <3> QED
      BY <2>1, <3>1
  <2>3. reg' = reg \/ reg' = reg \union {b}
    BY DEF Attached, NotAttached, AttachToLoop
  <2> QED
    BY <2>2, <2>3
<1>3. b \in reg' => st'[b] = "open"
  BY <1>1 DEF Attached, NotAttached, AttachToLoop, BridgeTyped
<1>4. \A c \in Bridges : Overtaken(c) => Overtaken(c)'
  BY DEF Overtaken
<1>5. \A c \in Bridges : /\ c \in reg' => st'[c] = "open"
                         /\ st[c] \in {"open", "gone"} => st'[c] \in {"open", "gone"}
                         /\ st'[c] = "gone" => st[c] = "gone" \/ c \notin closing
  BY <1>1, <1>2, <1>3 DEF Deferrals, Deferral
<1> QED
  BY <1>4, <1>5, NothingDeferred

(* Bridges whose client is gone, or that have been read from, are closed.  *)
LEMMA OvertakenByClose ==
  ASSUME BridgeTyped, Deferrals, NEW bs \in SUBSET Open, CloseBridges(bs),
         UNCHANGED <<posted, closing, stray, peer, sess>>,
         \A c \in Bridges : upRead[c] > 0 => upRead'[c] > 0,
         \A b \in bs : peer[b] = "left" \/ upRead'[b] > 0
  PROVE  Deferrals'
<1>1. \A c \in Bridges : Overtaken(c) => Overtaken(c)'
  BY DEF Overtaken
<1>2. \A c \in bs : st'[c] = "gone" /\ Overtaken(c)' /\ c \notin reg'
  BY Closed DEF Overtaken, CloseBridges
<1>3. \A c \in Bridges \ bs : st'[c] = st[c] /\ (c \in reg' => c \in reg)
  BY Closed DEF CloseBridges
<1>4. \A c \in Bridges : /\ c \in reg' => st'[c] = "open"
                         /\ st[c] \in {"open", "gone"} => st'[c] \in {"open", "gone"}
                         /\ st'[c] = "gone" => st[c] = "gone" \/ Overtaken(c)'
  BY <1>2, <1>3 DEF Deferrals, Deferral
<1> QED
  BY <1>1, <1>4, NothingDeferred

(* scheduleClose: the first end of a channel defers the close.             *)
LEMMA DeferredOnce ==
  ASSUME BridgeTyped, Deferrals, NEW b \in Bridges, ChannelEnd(b)
  PROVE  Deferrals'
<1>1. /\ b \in reg /\ UNCHANGED <<sess, st, reg, peer, upRead, stray>>
      /\ closing' = closing \union {b} /\ st[b] = "open"
  BY DEF ChannelEnd, ScheduleClose, pipe, Deferrals, Deferral
<1>2. CASE b \in closing
  <2>1. UNCHANGED <<posted, closing>>
    BY <1>2 DEF ChannelEnd, ScheduleClose
  <2> QED
    BY <1>1, <2>1 DEF Deferrals, Deferral, Overtaken
<1>3. CASE b \notin closing
  <2>1. posted' = Append(posted, CloseOf(b)) /\ ~Within(posted, CloseOf(b))
    BY <1>3 DEF ChannelEnd, ScheduleClose, CloseOf, Deferrals, Deferral
  <2>2. CloseOf(b) \in {<<"stop">>, <<"delete">>} \union ({"close"} \X Bridges)
    BY DEF CloseOf
  <2>3. ASSUME NEW c \in Bridges
        PROVE  Deferral(c)'
    <3>1. CloseOf(c) = CloseOf(b) => c = b
      BY DEF CloseOf
    <3>2. /\ Once(posted, CloseOf(c)) => Once(posted', CloseOf(c))
          /\ Within(posted', CloseOf(c)) => c = b \/ Within(posted, CloseOf(c))
      <4> DEFINE S == {<<"stop">>, <<"delete">>} \union ({"close"} \X Bridges)
      <4>1. posted \in Seq(S) /\ CloseOf(b) \in S
        BY <2>2 DEF BridgeTyped
      <4> HIDE DEF S
      <4>2. /\ Once(posted, CloseOf(c)) /\ (CloseOf(c) = CloseOf(b) => ~Within(posted, CloseOf(c)))
                 => Once(Append(posted, CloseOf(b)), CloseOf(c))
            /\ Within(Append(posted, CloseOf(b)), CloseOf(c))
                 => CloseOf(c) = CloseOf(b) \/ Within(posted, CloseOf(c))
        BY <4>1, OnceAppended
      <4> QED
        BY <2>1, <3>1, <4>2
    <3>3. Deferral(c)
      BY DEF Deferrals
    <3>4. CloseOf(c)' = CloseOf(c)
      BY DEF CloseOf
    <3> QED
      BY <1>1, <3>2, <3>3, <3>4 DEF Deferral, Overtaken
  <2> QED
    BY <2>3 DEF Deferrals
<1> QED
  BY <1>2, <1>3

(* The posted close runs; if it finds its bridge freed, it was overtaken.  *)
LEMMA DeferredRuns ==
  ASSUME BridgeTyped, Deferrals, PostedClose
  PROVE  Deferrals'
<1> DEFINE b == Head(posted)[2]
<1>1. /\ posted # <<>> /\ posted' = Tail(posted)
      /\ posted \in Seq({<<"stop">>, <<"delete">>} \union ({"close"} \X Bridges))
      /\ UNCHANGED <<sess, closing, peer, upRead>>
  BY DEF PostedClose, BridgeTyped
<1>2. Head(posted) = CloseOf(b) /\ b \in Bridges
  <2>1. Head(posted) \in {<<"stop">>, <<"delete">>} \union ({"close"} \X Bridges)
    BY <1>1, TailOfPosted DEF BridgeTyped
  <2>2. Head(posted)[1] = "close"
    BY DEF PostedClose
  <2>3. Head(posted) \in {"close"} \X Bridges
    BY <2>1, <2>2
  <2> QED
    BY <2>3 DEF CloseOf
<1>3. Within(posted, CloseOf(b)) /\ b \in closing
  <2>1. 1 \in DOMAIN posted /\ posted[1] = Head(posted)
    BY <1>1, TailOfPosted
  <2>2. Within(posted, CloseOf(b))
    BY <1>2, <2>1 DEF Within
  <2> QED
    BY <1>2, <2>2 DEF Deferrals, Deferral
<1>4. \/ b \in Open /\ CloseBridges({b}) /\ UNCHANGED stray
      \/ b \notin Open /\ stray' \subseteq stray \union {b} /\ UNCHANGED <<st, reg>>
  BY DEF PostedClose
<1> HIDE DEF b
<1>5. ASSUME NEW c \in Bridges
      PROVE  /\ Once(posted', CloseOf(c))
             /\ Within(posted', CloseOf(c)) => Within(posted, CloseOf(c))
             /\ ~Within(posted', CloseOf(b))
  BY <1>1, <1>2, OnceInTail DEF Deferrals, Deferral
<1>6. ASSUME NEW c \in Bridges
      PROVE  Deferral(c)'
  <2>1. Deferral(c) /\ CloseOf(c)' = CloseOf(c) /\ (Overtaken(c) => Overtaken(c)')
    BY <1>1 DEF Deferrals, Overtaken, CloseOf
  <2>2. CASE b \in Open /\ CloseBridges({b}) /\ UNCHANGED stray
    <3>1. c = b => st'[c] = "gone" /\ c \notin reg'
      BY <1>2, <2>2, Closed DEF CloseBridges
    <3>2. c # b => st'[c] = st[c] /\ (c \in reg' => c \in reg)
      BY <1>2, <2>2, Closed DEF CloseBridges
    <3> QED
      BY <1>1, <1>5, <2>1, <2>2, <3>1, <3>2 DEF Deferral
  <2>3. CASE b \notin Open /\ stray' \subseteq stray \union {b} /\ UNCHANGED <<st, reg>>
    <3>1. Overtaken(b)
      BY <1>2, <1>3, <2>3 DEF Deferrals, Deferral, Open
    <3> QED
      BY <1>1, <1>5, <2>1, <2>3, <3>1 DEF Deferral
  <2> QED
    BY <1>4, <2>2, <2>3
<1> QED
  BY <1>6 DEF Deferrals

(* Every step defers a close at most once, or overtakes it.                *)
LEMMA DeferralsNext == BridgeTyped /\ Deferrals /\ [BridgeNext]_bridgeVars => Deferrals'
<1> SUFFICES ASSUME BridgeTyped, Deferrals, [BridgeNext]_bridgeVars PROVE Deferrals'
  OBVIOUS
<1>1. BridgeTyped'
  BY TypedNext
<1>2. \A b \in Bridges : b \in reg => st[b] = "open"
  BY DEF Deferrals, Deferral
<1> USE DEF pipe
<1>3. ASSUME NEW b \in Bridges,
             ClientSends(b) \/ ServerSends(b) \/ ServerEnds(b) \/ ChannelData(b)
      PROVE  Deferrals'
  <2>1. UNCHANGED <<sess, posted, st, reg, closing, peer, upRead, stray>>
    BY <1>3 DEF ClientSends, ServerSends, ServerEnds, ChannelData
  <2> QED
    BY <2>1 DEF Deferrals, Deferral, Overtaken
<1>4. ASSUME NEW b \in Bridges, ClientLeaves(b) PROVE Deferrals'
  <2>1. /\ UNCHANGED <<sess, posted, st, reg, closing, upRead, stray>>
        /\ \A c \in Bridges : peer[c] = "left" => peer'[c] = "left"
    BY <1>4 DEF ClientLeaves, BridgeTyped
  <2> QED
    BY <2>1 DEF Deferrals, Deferral, Overtaken
<1>5. ASSUME NEW b \in Bridges, Arrive(b) \/ AcceptSocks(b) \/ HandshakeDisconnected(b)
      PROVE  Deferrals'
  <2>1. /\ UNCHANGED <<posted, closing, stray, peer, sess, reg, upRead>>
        /\ st[b] \notin {"open", "gone"}
        /\ st' \in {[st EXCEPT ![b] = "waiting"], [st EXCEPT ![b] = "handshake"],
                    [st EXCEPT ![b] = "gone"]}
    BY <1>5 DEF Arrive, AcceptSocks, HandshakeDisconnected
  <2> QED
    BY <1>1, <2>1, OpenedNotDeferred
<1>6. ASSUME NEW b \in Bridges, AcceptLocal(b) \/ AcceptRemote(b) \/ AcceptAgent(b)
      PROVE  Deferrals'
  <2>1. /\ UNCHANGED <<posted, closing, stray, peer, sess, upRead>>
        /\ st[b] \notin {"open", "gone"} /\ (Attached(b) \/ NotAttached(b))
    BY <1>6 DEF AcceptLocal, AcceptRemote, AcceptAgent, OpenForwardBridge
  <2> QED
    BY <1>1, <2>1, OpenedNotDeferred
<1>7. ASSUME NEW b \in Bridges, HandshakeReadyRead(b) PROVE Deferrals'
  <2>1. /\ UNCHANGED <<posted, closing, stray, peer, sess>> /\ st[b] \notin {"open", "gone"}
        /\ upRead' = [upRead EXCEPT ![b] = upSent[b]] /\ upRead[b] < upSent[b]
    BY <1>7 DEF HandshakeReadyRead
  <2>2. Attached(b) \/ NotAttached(b) \/ UNCHANGED <<st, reg>>
    BY <1>7 DEF HandshakeReadyRead, OpenForwardBridge
  <2>3. \A c \in Bridges : upRead[c] > 0 => upRead'[c] > 0
    BY <2>1 DEF BridgeTyped
  <2> QED
    BY <1>1, <2>1, <2>2, <2>3, OpenedNotDeferred
<1>8. ASSUME NEW b \in Bridges, ReadyRead(b) PROVE Deferrals'
  <2>1. /\ UNCHANGED <<posted, closing, stray, peer, sess>> /\ b \in Open
        /\ upRead' = [upRead EXCEPT ![b] = upSent[b]] /\ upRead[b] < upSent[b]
    BY <1>8 DEF ReadyRead
  <2>2. upRead'[b] > 0 /\ \A c \in Bridges : upRead[c] > 0 => upRead'[c] > 0
    BY <2>1 DEF BridgeTyped, Open
  <2>3. CASE UNCHANGED <<st, reg>>
    BY <2>1, <2>2, <2>3 DEF Deferrals, Deferral, Overtaken
  <2>4. CASE CloseBridges({b})
    BY <2>1, <2>2, <2>4, OvertakenByClose
  <2> QED
    BY <1>8, <2>3, <2>4 DEF ReadyRead
<1>9. ASSUME NEW b \in Bridges, SocketDisconnected(b) PROVE Deferrals'
  BY <1>9, OvertakenByClose DEF SocketDisconnected
<1>10. CASE PostStop
  <2> DEFINE S == {<<"stop">>, <<"delete">>} \union ({"close"} \X Bridges)
  <2>1. /\ UNCHANGED <<sess, st, reg, closing, peer, upRead, stray>>
        /\ posted' = Append(posted, <<"stop">>)
    BY <1>10 DEF PostStop
  <2>2. posted \in Seq(S) /\ <<"stop">> \in S
    BY DEF BridgeTyped
  <2> HIDE DEF S
  <2>3. ASSUME NEW b \in Bridges
        PROVE  /\ Within(posted', CloseOf(b)) => Within(posted, CloseOf(b))
               /\ Once(posted, CloseOf(b)) => Once(posted', CloseOf(b))
    <3>1. CloseOf(b) # <<"stop">>
      BY DEF CloseOf
    <3> QED
      BY <2>1, <2>2, <3>1, OnceAppended
  <2> QED
    BY <1>2, <2>1, <2>3, NothingDeferred DEF Overtaken
<1>11. CASE Stop
  <2> DEFINE S == {<<"stop">>, <<"delete">>} \union ({"close"} \X Bridges)
             rest == Tail(posted)
  <2>1. /\ UNCHANGED <<closing, stray>> /\ sess' = "stopped" /\ posted # <<>>
        /\ posted' = Append(rest, <<"delete">>) /\ reg' = reg \ Open
        /\ st' = [b \in Bridges |-> IF st[b] = "none" THEN "none" ELSE "gone"]
    BY <1>11 DEF Stop
  <2>2. posted \in Seq(S) /\ <<"delete">> \in S /\ rest \in Seq(S)
    BY <2>1, TailOfPosted DEF BridgeTyped
  <2> HIDE DEF S
  <2>3. ASSUME NEW b \in Bridges
        PROVE  /\ Within(posted', CloseOf(b)) => Within(posted, CloseOf(b))
               /\ Once(posted, CloseOf(b)) => Once(posted', CloseOf(b))
    <3>1. CloseOf(b) # <<"delete">>
      BY DEF CloseOf
    <3>2. /\ Within(rest, CloseOf(b)) => Within(posted, CloseOf(b))
          /\ Once(posted, CloseOf(b)) => Once(rest, CloseOf(b))
      BY <2>1, <2>2, OnceInTail
    <3> HIDE DEF rest
    <3>3. /\ Within(Append(rest, <<"delete">>), CloseOf(b)) => Within(rest, CloseOf(b))
          /\ Once(rest, CloseOf(b)) => Once(Append(rest, <<"delete">>), CloseOf(b))
      BY <2>2, <3>1, OnceAppended
    <3> QED
      BY <2>1, <3>2, <3>3
  <2>4. \A b \in Bridges : /\ Overtaken(b)' /\ b \notin reg'
                           /\ st[b] \in {"open", "gone"} => st'[b] \in {"open", "gone"}
    BY <1>2, <2>1 DEF Overtaken, Open
  <2> QED
    BY <2>1, <2>3, <2>4, NothingDeferred
<1>12. CASE Delete
  <2>1. /\ UNCHANGED <<st, reg, closing, peer, upRead, stray>> /\ sess' = "deleted"
        /\ posted # <<>> /\ posted' = Tail(posted)
    BY <1>12 DEF Delete
  <2>2. ASSUME NEW b \in Bridges
        PROVE  /\ Within(posted', CloseOf(b)) => Within(posted, CloseOf(b))
               /\ Once(posted, CloseOf(b)) => Once(posted', CloseOf(b))
    BY <2>1, OnceInTail DEF BridgeTyped
  <2> QED
    BY <1>2, <2>1, <2>2, NothingDeferred DEF Overtaken
<1>13. CASE UNCHANGED bridgeVars
  BY <1>13 DEF bridgeVars, Deferrals, Deferral, Overtaken
<1> QED
  BY <1>3, <1>4, <1>5, <1>6, <1>7, <1>8, <1>9, <1>10, <1>11, <1>12, <1>13,
     DeferredOnce, DeferredRuns
     DEF BridgeNext, PeerStep, PostedStep, SocketStep, LoopStep

(* Both ends of a channel ask for the deferred close, but it is posted     *)
(* once; that it then finds its bridge freed takes a client that left or   *)
(* whose data was read, or a stop (ITunnelSession, scheduleClose).         *)
THEOREM ClosedOnce == BridgeSpec => []OneDeferredClose
<1>1. BridgeInit => Deferrals
  BY DEF BridgeInit, Deferrals, Deferral, Within, Once
<1>2. Deferrals => OneDeferredClose
  BY DEF Deferrals, Deferral, Once, Overtaken, CloseOf, OneDeferredClose
<1> QED
  BY <1>1, <1>2, TypedInit, TypedNext, DeferralsNext, PTL DEF BridgeSpec

-----------------------------------------------------------------------------
(***************************************************************************)
(* TunnelList.                                                             *)
(***************************************************************************)

States == {"on", "off"}

(* The variables have the types the proofs rest on.                        *)
Typed ==
  /\ bound \in Sessions \union {NoSession} /\ conn \subseteq Sessions
  /\ dialog \in Tunnels \union {NoTunnel}
  /\ store \in [Tunnels -> Seq(States)] /\ rows \in [Tunnels -> Seq(States)]
  /\ shown \in [Tunnels -> Statuses] /\ waiters \in [Tunnels -> Nat]
  /\ running \in [Sessions -> SUBSET Tunnels]
  /\ inbox \in [Sessions -> Seq(Slot)] /\ signals \in [Sessions -> Seq(Signal)]

(* As long as nothing about a tunnel has outlived a change of tab, it is   *)
(* stored once, listed once and only by the list of its own session, and   *)
(* no other session runs it or has been told to.                           *)
Starts(q, t) == \E i \in DOMAIN q : q[i] = <<"start", t>>
AtHome(t) ==
  t \notin astray =>
    /\ Len(store[t]) <= 1 /\ Len(rows[t]) <= 1 /\ (rows[t] # <<>> => Home[t] = bound)
    /\ \A s \in Sessions \ {Home[t]} : t \notin running[s] /\ ~Starts(inbox[s], t)

(* What the signals of a worker say of a tunnel that does not run any more *)
(* ends with one that corrects it; so does what the list has shown of it.  *)
Claims(t) == {<<t, "Starting">>, <<t, "Listening">>}
Corrects(t) == {<<"disconnected">>, <<t, "Off">>, <<t, "Error">>}
Corrected(q, t) == \E i \in DOMAIN q : q[i] \in Corrects(t)
Followed(q, t) ==
  \A i \in DOMAIN q : q[i] \in Claims(t) => \E j \in DOMAIN q : j > i /\ q[j] \in Corrects(t)
Told(t) ==
  /\ rows[t] = <<>> => shown[t] = "Off"
  /\ \A s \in Sessions : t \in running[s] \/ Followed(signals[s], t)
  /\ bound # NoSession /\ shown[t] \in {"Starting", "Listening"} =>
       t \in running[bound] \/ Corrected(signals[bound], t)

IInv == Typed /\ \A t \in Tunnels : AtHome(t) /\ Told(t)
-----------------------------------------------------------------------------
(* What signals say.                                                       *)
LEMMA Tells ==
  ASSUME NEW t
  PROVE  /\ \A x \in Claims(t) : x \notin Corrects(t)
         /\ <<"connected">> \notin Claims(t) /\ <<"connected">> \notin Corrects(t)
         /\ <<"disconnected">> \in Corrects(t)
         /\ <<t, "Off">> \in Corrects(t) /\ <<t, "Error">> \in Corrects(t)
         /\ \A u : u # t => \A x : <<u, x>> \notin Claims(t) /\ <<u, x>> \notin Corrects(t)
         /\ \A x : <<t, x>> \in Claims(t) <=> x \in {"Starting", "Listening"}
<1>1. \A x \in Claims(t) : x \notin Corrects(t)
  BY DEF Claims, Corrects
<1>2. <<"connected">> \notin Claims(t) /\ <<"connected">> \notin Corrects(t)
  BY DEF Claims, Corrects
<1>3. /\ <<"disconnected">> \in Corrects(t)
      /\ <<t, "Off">> \in Corrects(t) /\ <<t, "Error">> \in Corrects(t)
  BY DEF Corrects
<1>4. ASSUME NEW u, u # t, NEW x
      PROVE  <<u, x>> \notin Claims(t) /\ <<u, x>> \notin Corrects(t)
  BY <1>4 DEF Claims, Corrects
<1>5. \A x : <<t, x>> \in Claims(t) <=> x \in {"Starting", "Listening"}
  BY DEF Claims
<1> QED
  BY <1>1, <1>2, <1>3, <1>4, <1>5

(* Signals and slots that are taken.                                       *)
LEMMA Taken ==
  ASSUME NEW S, NEW q \in Seq(S), q # <<>>
  PROVE  /\ Tail(q) \in Seq(S) /\ Head(q) \in S
         /\ DOMAIN q = 1 .. Len(q) /\ Len(q) \in Nat \ {0} /\ DOMAIN Tail(q) = 1 .. Len(q) - 1
         /\ \A i \in 1 .. Len(q) - 1 : Tail(q)[i] = q[i + 1]
         /\ Head(q) = q[1]
<1>1. /\ Len(q) \in Nat \ {0} /\ DOMAIN q = 1 .. Len(q) /\ Head(q) = q[1]
      /\ Tail(q) \in Seq(S) /\ Head(q) \in S /\ Len(Tail(q)) = Len(q) - 1
      /\ \A i \in 1 .. Len(Tail(q)) : Tail(q)[i] = q[i + 1]
  BY LenProperties, EmptySeq, HeadTailProperties
<1>2. DOMAIN Tail(q) = 1 .. Len(q) - 1
  BY <1>1, LenProperties
<1> QED
  BY <1>1, <1>2

LEMMA SignalTaken ==
  ASSUME NEW q \in Seq(Signal), q # <<>>, NEW t
  PROVE  /\ Followed(q, t) => Followed(Tail(q), t)
         /\ Followed(q, t) /\ Head(q) \in Claims(t) => Corrected(Tail(q), t)
         /\ Corrected(q, t) /\ Head(q) \notin Corrects(t) => Corrected(Tail(q), t)
<1> DEFINE r == Tail(q)
<1>1. /\ DOMAIN q = 1 .. Len(q) /\ Len(q) \in Nat \ {0} /\ DOMAIN r = 1 .. Len(q) - 1
      /\ \A i \in 1 .. Len(q) - 1 : r[i] = q[i + 1]
      /\ Head(q) = q[1]
  BY Taken
<1> HIDE DEF r
<1>2. \A j \in DOMAIN q : j > 1 => j - 1 \in DOMAIN r /\ r[j - 1] = q[j]
  BY <1>1
<1>3. ASSUME Followed(q, t)
      PROVE  Followed(r, t)
  <2> SUFFICES ASSUME NEW i \in DOMAIN r, r[i] \in Claims(t)
               PROVE  \E j \in DOMAIN r : j > i /\ r[j] \in Corrects(t)
    BY DEF Followed
  <2>1. i + 1 \in DOMAIN q /\ q[i + 1] \in Claims(t) /\ i \in Nat \ {0}
    BY <1>1
  <2>2. PICK j \in DOMAIN q : j > i + 1 /\ q[j] \in Corrects(t)
    BY <1>3, <2>1 DEF Followed
  <2>3. j - 1 \in DOMAIN r /\ r[j - 1] = q[j] /\ j - 1 > i
    BY <1>1, <1>2, <2>1, <2>2
  <2> QED
    BY <2>2, <2>3
<1>4. ASSUME Followed(q, t), Head(q) \in Claims(t)
      PROVE  Corrected(r, t)
  <2>1. 1 \in DOMAIN q /\ q[1] \in Claims(t)
    BY <1>1, <1>4
  <2>2. PICK j \in DOMAIN q : j > 1 /\ q[j] \in Corrects(t)
    BY <1>4, <2>1 DEF Followed
  <2> QED
    BY <1>2, <2>2 DEF Corrected
<1>5. ASSUME Corrected(q, t), Head(q) \notin Corrects(t)
      PROVE  Corrected(r, t)
  <2>1. PICK j \in DOMAIN q : q[j] \in Corrects(t)
    BY <1>5 DEF Corrected
  <2>2. j > 1
    BY <1>1, <1>5, <2>1
  <2> QED
    BY <1>2, <2>1, <2>2 DEF Corrected
<1> QED
  BY <1>3, <1>4, <1>5 DEF r

(* Signals that are posted behind others: a correction at the end corrects *)
(* all that comes before it.                                               *)
LEMMA SignalsPosted ==
  ASSUME NEW q \in Seq(Signal), NEW e \in Seq(Signal), NEW t
  PROVE  /\ q \o e \in Seq(Signal)
         /\ Corrected(q, t) \/ Corrected(e, t) => Corrected(q \o e, t)
         /\ Followed(q, t) /\ Followed(e, t) => Followed(q \o e, t)
         /\ e # <<>> /\ e[Len(e)] \in Corrects(t) => Corrected(q \o e, t) /\ Followed(q \o e, t)
<1> DEFINE r == q \o e
<1>1. /\ DOMAIN q = 1 .. Len(q) /\ Len(q) \in Nat /\ DOMAIN e = 1 .. Len(e) /\ Len(e) \in Nat
      /\ e # <<>> => Len(e) > 0
  BY LenProperties, EmptySeq
<1>2. /\ r \in Seq(Signal) /\ DOMAIN r = 1 .. Len(q) + Len(e)
      /\ \A i \in 1 .. Len(q) + Len(e) : r[i] = IF i <= Len(q) THEN q[i] ELSE e[i - Len(q)]
  BY ConcatProperties, LenProperties
<1> HIDE DEF r
<1>3. \A i \in DOMAIN q : i \in DOMAIN r /\ r[i] = q[i]
  BY <1>1, <1>2
<1>4. \A i \in DOMAIN e : Len(q) + i \in DOMAIN r /\ r[Len(q) + i] = e[i]
  <2> SUFFICES ASSUME NEW i \in DOMAIN e
               PROVE  Len(q) + i \in DOMAIN r /\ r[Len(q) + i] = e[i]
    OBVIOUS
  <2>1. Len(q) + i \in 1 .. Len(q) + Len(e) /\ ~(Len(q) + i <= Len(q)) /\ (Len(q) + i) - Len(q) = i
    BY <1>1
  <2> QED
    BY <1>2, <2>1
<1>5. \A i \in DOMAIN r : i \in DOMAIN q \/ (i - Len(q) \in DOMAIN e /\ r[i] = e[i - Len(q)])
  BY <1>1, <1>2
<1>6. Corrected(q, t) \/ Corrected(e, t) => Corrected(r, t)
  BY <1>3, <1>4 DEF Corrected
<1>7. ASSUME Followed(q, t), Followed(e, t)
      PROVE  Followed(r, t)
  <2> SUFFICES ASSUME NEW i \in DOMAIN r, r[i] \in Claims(t)
               PROVE  \E j \in DOMAIN r : j > i /\ r[j] \in Corrects(t)
    BY DEF Followed
  <2>1. CASE i \in DOMAIN q
    BY <1>3, <1>7, <2>1 DEF Followed
  <2>2. CASE i - Len(q) \in DOMAIN e /\ r[i] = e[i - Len(q)]
    <3>1. PICK j \in DOMAIN e : j > i - Len(q) /\ e[j] \in Corrects(t)
      BY <1>7, <2>2 DEF Followed
    <3>2. Len(q) + j \in DOMAIN r /\ r[Len(q) + j] = e[j] /\ Len(q) + j > i
      BY <1>1, <1>2, <1>4, <3>1
    <3> QED
      BY <3>1, <3>2
  <2> QED
    BY <1>5, <2>1, <2>2
<1>8. ASSUME e # <<>>, e[Len(e)] \in Corrects(t)
      PROVE  Corrected(r, t) /\ Followed(r, t)
  <2>1. Len(e) \in DOMAIN e
    BY <1>1, <1>8
  <2>2. Len(q) + Len(e) \in DOMAIN r /\ r[Len(q) + Len(e)] \in Corrects(t)
    BY <1>4, <1>8, <2>1
  <2>3. \A i \in DOMAIN r : i # Len(q) + Len(e) => Len(q) + Len(e) > i
    BY <1>1, <1>2
  <2>4. r[Len(q) + Len(e)] \notin Claims(t)
    BY <2>2, Tells
  <2> QED
    BY <2>2, <2>3, <2>4 DEF Corrected, Followed
<1> QED
  BY <1>2, <1>6, <1>7, <1>8 DEF r

(* Slots that are posted and taken.                                        *)
LEMMA SlotsPosted ==
  ASSUME NEW q \in Seq(Slot), NEW e \in Seq(Slot), NEW t
  PROVE  /\ q \o e \in Seq(Slot)
         /\ Starts(q \o e, t) => Starts(q, t) \/ Starts(e, t)
<1>1. /\ DOMAIN q = 1 .. Len(q) /\ Len(q) \in Nat /\ DOMAIN e = 1 .. Len(e) /\ Len(e) \in Nat
  BY LenProperties
<1>2. /\ q \o e \in Seq(Slot) /\ DOMAIN (q \o e) = 1 .. Len(q) + Len(e)
      /\ \A i \in 1 .. Len(q) + Len(e) : (q \o e)[i] = IF i <= Len(q) THEN q[i] ELSE e[i - Len(q)]
  BY ConcatProperties, LenProperties
<1>3. \A i \in DOMAIN (q \o e) : \/ i \in DOMAIN q /\ (q \o e)[i] = q[i]
                                 \/ i - Len(q) \in DOMAIN e /\ (q \o e)[i] = e[i - Len(q)]
  BY <1>1, <1>2
<1> QED
  BY <1>2, <1>3 DEF Starts

LEMMA SlotTaken ==
  ASSUME NEW q \in Seq(Slot), q # <<>>, NEW t
  PROVE  /\ Tail(q) \in Seq(Slot) /\ Head(q) \in Slot
         /\ Starts(Tail(q), t) => Starts(q, t)
         /\ Head(q) = <<"start", t>> => Starts(q, t)
<1>1. /\ Tail(q) \in Seq(Slot) /\ Head(q) \in Slot
      /\ DOMAIN q = 1 .. Len(q) /\ Len(q) \in Nat \ {0} /\ DOMAIN Tail(q) = 1 .. Len(q) - 1
      /\ \A i \in 1 .. Len(q) - 1 : Tail(q)[i] = q[i + 1]
      /\ Head(q) = q[1]
  BY Taken
<1>2. \A i \in DOMAIN Tail(q) : i + 1 \in DOMAIN q /\ Tail(q)[i] = q[i + 1]
  BY <1>1
<1>3. 1 \in DOMAIN q
  BY <1>1
<1> QED
  BY <1>1, <1>2, <1>3 DEF Starts

(* A finite set has its elements in some order.                            *)
LEMMA InSomeOrder ==
  ASSUME NEW S, IsFiniteSet(S)
  PROVE  SetToSeq(S) \in Seq(S)
<1> DEFINE n == Cardinality(S)
<1>1. n \in Nat /\ ExistsBijection(1 .. n, S)
  BY FS_CardinalityType
<1>2. PICK f \in Bijection(1 .. n, S) : TRUE
  BY <1>1 DEF ExistsBijection
<1>3. f \in [1 .. n -> S] /\ IsInjective(f)
  BY <1>2 DEF Bijection, Injection, IsInjective
<1> HIDE DEF n
<1>4. SetToSeq(S) \in [1 .. n -> S]
  BY <1>3 DEF SetToSeq, n
<1> QED
  BY <1>1, <1>4

LEMMA OffSignals ==
  ASSUME NEW ts \in SUBSET Tunnels
  PROVE  /\ Off(ts) \in Seq(Signal)
         /\ \A i \in DOMAIN Off(ts) : \E u \in ts : Off(ts)[i] = <<u, "Off">>
<1> DEFINE q == SetToSeq(ts)
<1>1. IsFiniteSet(ts)
  BY TunnelsAssumption, FS_Subset
<1>2. q \in Seq(ts)
  BY <1>1, InSomeOrder
<1>3. Off(ts) = [i \in DOMAIN q |-> <<q[i], "Off">>]
  BY DEF Off
<1> HIDE DEF q
<1>4. DOMAIN q = 1 .. Len(q) /\ Len(q) \in Nat /\ \A i \in DOMAIN q : q[i] \in ts
  BY <1>2, LenProperties, ElementOfSeq
<1>5. \A i \in DOMAIN q : <<q[i], "Off">> \in Signal
  BY <1>4 DEF Signal, Statuses
<1>6. Off(ts) \in Seq(Signal)
  BY <1>3, <1>4, <1>5
<1> QED
  BY <1>3, <1>4, <1>6

LEMMA EnabledFinite ==
  ASSUME NEW defs, NEW ts \in SUBSET Tunnels
  PROVE  /\ IsFiniteSet(EnabledOf(defs, ts))
         /\ \A d \in EnabledOf(defs, ts) : d[1] \in ts /\ defs[d[1]] # <<>>
<1>1. MaxCopies \in Nat
  BY ReadsAssumption
<1>2. IsFiniteSet(1 .. MaxCopies) /\ IsFiniteSet(ts)
  BY <1>1, FS_Interval, FS_Subset, TunnelsAssumption
<1>3. IsFiniteSet(ts \X (1 .. MaxCopies))
  BY <1>2, FS_Product
<1>4. EnabledOf(defs, ts) \in SUBSET (ts \X (1 .. MaxCopies))
  BY DEF EnabledOf
<1>5. \A d \in EnabledOf(defs, ts) :
        d[1] \in ts /\ d[2] \in 1 .. MaxCopies /\ d[2] <= Len(defs[d[1]])
  BY DEF EnabledOf
<1>6. ASSUME NEW d \in EnabledOf(defs, ts)
      PROVE  defs[d[1]] # <<>>
  <2>1. d[2] \in Nat \ {0} /\ d[2] <= Len(defs[d[1]])
    BY <1>1, <1>5
  <2>2. Len(<<>>) = 0
    OBVIOUS
  <2> QED
    BY <2>1, <2>2
<1> QED
  BY <1>3, <1>4, <1>5, <1>6, FS_Subset

-----------------------------------------------------------------------------
(* The helpers of the handlers.                                            *)

(* The tunnels of a session and of its connection; slots that are posted.  *)
LEMMA ReadsCounted ==
  ASSUME waiters \in [Tunnels -> Nat], NEW defs, IsFiniteSet(defs), ReadSecrets(defs)
  PROVE  waiters' \in [Tunnels -> Nat]
<1>1. waiters' = [t \in Tunnels |-> waiters[t] + Cardinality({d \in defs : d[1] = t})]
  BY DEF ReadSecrets
<1>2. \A t \in Tunnels : Cardinality({d \in defs : d[1] = t}) \in Nat
  BY FS_Subset, FS_CardinalityType
<1> QED
  BY <1>1, <1>2

LEMMA SlotsPostedTo ==
  ASSUME inbox \in [Sessions -> Seq(Slot)], NEW s \in Sessions, NEW e \in Seq(Slot), Post(s, e)
  PROVE  /\ inbox' \in [Sessions -> Seq(Slot)]
         /\ \A u \in Sessions, t \in Tunnels :
              Starts(inbox'[u], t) => Starts(inbox[u], t) \/ (u = s /\ Starts(e, t))
<1>1. inbox' = [inbox EXCEPT ![s] = inbox[s] \o e]
  BY DEF Post
<1>2. inbox[s] \o e \in Seq(Slot)
  BY SlotsPosted
<1>3. \A t : Starts(inbox[s] \o e, t) => Starts(inbox[s], t) \/ Starts(e, t)
  BY SlotsPosted
<1> QED
  BY <1>1, <1>2, <1>3

LEMMA OneSlot ==
  ASSUME NEW op \in {"start", "stop"}, NEW t \in Tunnels
  PROVE  /\ <<<<op, t>>>> \in Seq(Slot)
         /\ \A u : Starts(<<<<op, t>>>>, u) => u = t /\ op = "start"
<1> DEFINE x == <<op, t>>
<1>1. x \in Slot
  BY DEF Slot
<1>2. \A u : x = <<"start", u>> => u = t /\ op = "start"
  OBVIOUS
<1> HIDE DEF x
<1>3. <<x>> \in Seq(Slot) /\ DOMAIN <<x>> = {1} /\ <<x>>[1] = x
  BY <1>1
<1> QED
  BY <1>2, <1>3 DEF Starts, x

LEMMA RowWritten ==
  ASSUME NEW r \in Seq(States), NEW def \in States
  PROVE  LET w == <<def>> \o IF r = <<>> THEN <<>> ELSE Tail(r)
         IN  /\ w \in Seq(States) /\ w # <<>>
             /\ Len(r) <= 1 => Len(w) <= 1
<1> DEFINE rest == IF r = <<>> THEN <<>> ELSE Tail(r)
<1>1. rest \in Seq(States) /\ (Len(r) <= 1 => Len(rest) = 0)
  <2>1. CASE r = <<>>
    BY <2>1
  <2>2. CASE r # <<>>
    <3>1. rest = Tail(r)
      BY <2>2
    <3>2. Len(r) \in Nat \ {0}
      BY <2>2, LenProperties, EmptySeq
    <3>3. Tail(r) \in Seq(States) /\ Len(Tail(r)) = Len(r) - 1
      BY <2>2, HeadTailProperties
    <3> QED
      BY <3>1, <3>2, <3>3
  <2> QED
    BY <2>1, <2>2
<1>2. <<def>> \in Seq(States) /\ Len(<<def>>) = 1
  OBVIOUS
<1> DEFINE one == <<def>>
<1> HIDE DEF rest, one
<1>3. /\ one \o rest \in Seq(States) /\ Len(one \o rest) = 1 + Len(rest) /\ Len(rest) \in Nat
  BY <1>1, <1>2, ConcatProperties, LenProperties DEF one
<1>4. one \o rest # <<>>
  BY <1>3, EmptySeq
<1> QED
  BY <1>1, <1>3, <1>4 DEF rest, one

LEMMA TunnelsLoaded ==
  ASSUME Typed, NEW s
  PROVE  /\ LoadForConnection(s) \in [Tunnels -> Seq(States)]
         /\ \A t \in Tunnels : LoadForConnection(s)[t] # <<>> => Home[t] = s
         /\ \A t \in Tunnels : Len(store[t]) <= 1 => Len(LoadForConnection(s)[t]) <= 1
<1>1. <<>> \in Seq(States) /\ Len(<<>>) = 0
  OBVIOUS
<1> QED
  BY <1>1 DEF LoadForConnection, Typed

(* What is written to the store of the tunnels that are at home.           *)
LEMMA Persisted ==
  ASSUME Typed, NEW model \in [Tunnels -> Seq(States)], PersistAll(model)
  PROVE  /\ store' \in [Tunnels -> Seq(States)]
         /\ \A t \in Tunnels :
              Len(store[t]) <= 1 /\ Len(model[t]) <= 1 /\ (model[t] # <<>> => Home[t] = bound)
                => Len(store'[t]) <= 1
<1> DEFINE left(t) == IF Home[t] = bound THEN <<>> ELSE store[t]
<1>1. store' = [t \in Tunnels |-> left(t) \o model[t]]
  BY DEF PersistAll, Save
<1>2. ASSUME NEW t \in Tunnels
      PROVE  /\ left(t) \in Seq(States) /\ left(t) \o model[t] \in Seq(States)
             /\ Len(left(t) \o model[t]) = Len(left(t)) + Len(model[t])
             /\ Len(left(t)) \in Nat /\ Len(model[t]) \in Nat
             /\ Home[t] = bound => Len(left(t)) = 0
             /\ Home[t] # bound => Len(left(t)) = Len(store[t])
             /\ model[t] = <<>> => Len(model[t]) = 0
  <2>1. <<>> \in Seq(States) /\ Len(<<>>) = 0
    OBVIOUS
  <2>2. left(t) \in Seq(States) /\ model[t] \in Seq(States)
    BY <2>1 DEF Typed
  <2> QED
    BY <2>1, <2>2, ConcatProperties, LenProperties
<1> HIDE DEF left
<1> QED
  BY <1>1, <1>2

LEMMA Upserted ==
  ASSUME Typed, NEW t \in Tunnels, NEW def \in States, rows' = Upsert(t, def), PersistAll(rows')
  PROVE  /\ rows' \in [Tunnels -> Seq(States)] /\ store' \in [Tunnels -> Seq(States)]
         /\ rows'[t] # <<>> /\ \A u \in Tunnels \ {t} : rows'[u] = rows[u]
         /\ \A u \in Tunnels :
              /\ Len(store[u]) <= 1 /\ Len(rows[u]) <= 1 /\ (rows[u] # <<>> => Home[u] = bound)
              /\ u = t => Home[t] = bound
              => /\ Len(store'[u]) <= 1 /\ Len(rows'[u]) <= 1
                 /\ rows'[u] # <<>> => Home[u] = bound
<1> DEFINE w == <<def>> \o IF rows[t] = <<>> THEN <<>> ELSE Tail(rows[t])
<1>1. rows \in [Tunnels -> Seq(States)] /\ rows[t] \in Seq(States)
  BY DEF Typed
<1>2. w \in Seq(States) /\ w # <<>> /\ (Len(rows[t]) <= 1 => Len(w) <= 1)
  BY <1>1, RowWritten
<1>3. rows' = [rows EXCEPT ![t] = w]
  BY DEF Upsert
<1> HIDE DEF w
<1>4. /\ rows' \in [Tunnels -> Seq(States)]
      /\ rows'[t] = w /\ \A u \in Tunnels \ {t} : rows'[u] = rows[u]
  BY <1>1, <1>2, <1>3
<1>5. /\ store' \in [Tunnels -> Seq(States)]
      /\ \A u \in Tunnels :
           Len(store[u]) <= 1 /\ Len(rows'[u]) <= 1 /\ (rows'[u] # <<>> => Home[u] = bound)
             => Len(store'[u]) <= 1
  BY <1>4, Persisted
<1> QED
  BY <1>2, <1>4, <1>5

LEMMA SecretsAsked ==
  ASSUME Typed, NEW t \in Tunnels, StartTunnelWithSecrets(t)
  PROVE  /\ waiters' \in [Tunnels -> Nat] /\ inbox' \in [Sessions -> Seq(Slot)]
         /\ \A s \in Sessions, u \in Tunnels :
              Starts(inbox'[s], u) => Starts(inbox[s], u) \/ (s = bound /\ u = t)
<1>1. waiters \in [Tunnels -> Nat] /\ inbox \in [Sessions -> Seq(Slot)]
  BY DEF Typed
<1>2. CASE ~IsSessionConnected
  BY <1>1, <1>2 DEF StartTunnelWithSecrets, reads
<1>3. CASE IsSessionConnected /\ t \in Auth
  <2>1. ReadSecrets({<<t, 1>>}) /\ inbox' = inbox
    BY <1>3 DEF StartTunnelWithSecrets
  <2>2. IsFiniteSet({<<t, 1>>})
    BY FS_Singleton
  <2> QED
    BY <1>1, <2>1, <2>2, ReadsCounted
<1>4. CASE IsSessionConnected /\ t \notin Auth
  <2>1. Post(bound, <<<<"start", t>>>>) /\ waiters' = waiters
    BY <1>4 DEF StartTunnelWithSecrets, reads
  <2>2. bound \in Sessions
    BY <1>4 DEF IsSessionConnected, Typed
  <2>3. <<<<"start", t>>>> \in Seq(Slot) /\ \A u : Starts(<<<<"start", t>>>>, u) => u = t
    BY OneSlot
  <2> QED
    BY <1>1, <2>1, <2>2, <2>3, SlotsPostedTo
<1> QED
  BY <1>2, <1>3, <1>4

-----------------------------------------------------------------------------
(* The user's steps.                                                       *)

(* What the list has shown stays true as long as neither it, nor the       *)
(* worker, nor the signals change.                                         *)
LEMMA StillTold ==
  ASSUME NEW t \in Tunnels, Told(t), UNCHANGED <<bound, running, signals>>,
         shown'[t] \in {shown[t], "Off"}, rows'[t] = <<>> => shown'[t] = "Off"
  PROVE  Told(t)'
<1>1. ASSUME bound' # NoSession, shown'[t] \in {"Starting", "Listening"}
      PROVE  bound # NoSession /\ shown[t] \in {"Starting", "Listening"}
  BY <1>1
<1> QED
  BY <1>1 DEF Told

LEMMA SelectTabKeeps ==
  ASSUME IInv, NEW s \in Sessions, SelectTab(s)
  PROVE  IInv'
<1>1. Typed /\ \A t \in Tunnels : AtHome(t) /\ Told(t)
  BY DEF IInv
<1>2. /\ bound' = s /\ rows' = LoadForConnection(s) /\ shown' = [t \in Tunnels |-> "Off"]
      /\ UNCHANGED <<store, conn, dialog, running, inbox, signals, astray>>
      /\ ReadSecrets(EnabledAuth(rows')) \/ waiters' = waiters
  BY DEF SelectTab, worker, reads, ClearRuntimeStatuses
<1>3. waiters' \in [Tunnels -> Nat]
  <2>1. CASE ReadSecrets(EnabledAuth(rows'))
    <3>1. IsFiniteSet(EnabledAuth(rows'))
      BY AuthAssumption, EnabledFinite DEF EnabledAuth
    <3> QED
      BY <1>1, <2>1, <3>1, ReadsCounted DEF Typed
  <2> QED
    BY <1>1, <1>2, <2>1 DEF Typed
<1>4. /\ rows' \in [Tunnels -> Seq(States)]
      /\ \A t \in Tunnels : rows'[t] # <<>> => Home[t] = s
      /\ \A t \in Tunnels : Len(store[t]) <= 1 => Len(rows'[t]) <= 1
  BY <1>1, <1>2, TunnelsLoaded
<1>5. shown' \in [Tunnels -> Statuses] /\ \A t \in Tunnels : shown'[t] = "Off"
  BY <1>2 DEF Statuses
<1>6. Typed'
  BY <1>1, <1>2, <1>3, <1>4, <1>5 DEF Typed
<1>7. ASSUME NEW t \in Tunnels
      PROVE  AtHome(t)' /\ Told(t)'
  <2>1. AtHome(t)'
    BY <1>1, <1>2, <1>4 DEF AtHome
  <2>2. Told(t)'
    BY <1>1, <1>2, <1>5 DEF Told
  <2> QED
    BY <2>1, <2>2
<1> QED
  BY <1>6, <1>7 DEF IInv

LEMMA ToggleOffKeeps ==
  ASSUME IInv, NEW t \in Tunnels, ToggleOff(t)
  PROVE  IInv'
<1>1. Typed /\ \A u \in Tunnels : AtHome(u) /\ Told(u)
  BY DEF IInv
<1>2. /\ rows[t] # <<>> /\ bound \in Sessions
      /\ rows' = Upsert(t, "off") /\ PersistAll(rows')
      /\ Post(bound, <<<<"stop", t>>>>)
      /\ UNCHANGED <<bound, shown, conn, dialog, waiters, running, signals, astray>>
  BY <1>1 DEF ToggleOff, reads, IsSessionConnected, Typed
<1>3. /\ inbox' \in [Sessions -> Seq(Slot)]
      /\ \A s \in Sessions, u \in Tunnels : Starts(inbox'[s], u) => Starts(inbox[s], u)
  <2>1. /\ <<<<"stop", t>>>> \in Seq(Slot)
        /\ \A u : ~Starts(<<<<"stop", t>>>>, u)
    BY OneSlot
  <2> QED
    BY <1>1, <1>2, <2>1, SlotsPostedTo DEF Typed
<1>4. "off" \in States
  BY DEF States
<1>5. /\ rows' \in [Tunnels -> Seq(States)] /\ store' \in [Tunnels -> Seq(States)]
      /\ rows'[t] # <<>> /\ \A u \in Tunnels \ {t} : rows'[u] = rows[u]
      /\ \A u \in Tunnels :
           /\ Len(store[u]) <= 1 /\ Len(rows[u]) <= 1 /\ (rows[u] # <<>> => Home[u] = bound)
           /\ u = t => Home[t] = bound
           => /\ Len(store'[u]) <= 1 /\ Len(rows'[u]) <= 1
              /\ rows'[u] # <<>> => Home[u] = bound
  BY <1>1, <1>2, <1>4, Upserted
<1>6. Typed'
  BY <1>1, <1>2, <1>3, <1>5 DEF Typed
<1>7. ASSUME NEW u \in Tunnels
      PROVE  AtHome(u)' /\ Told(u)'
  <2>1. AtHome(u)'
    BY <1>1, <1>2, <1>3, <1>5 DEF AtHome
  <2>2. rows'[u] = <<>> => shown[u] = "Off"
    BY <1>1, <1>5 DEF Told
  <2>3. Told(u)'
    BY <1>1, <1>2, <2>2, StillTold
  <2> QED
    BY <2>1, <2>3
<1> QED
  BY <1>6, <1>7 DEF IInv

LEMMA ToggleOnKeeps ==
  ASSUME IInv, NEW t \in Tunnels, ToggleOn(t)
  PROVE  IInv'
<1>1. Typed /\ \A u \in Tunnels : AtHome(u) /\ Told(u)
  BY DEF IInv
<1>2. /\ rows[t] # <<>> /\ rows' = Upsert(t, "on") /\ PersistAll(rows')
      /\ StartTunnelWithSecrets(t)
      /\ UNCHANGED <<bound, shown, conn, dialog, running, signals, astray>>
  BY DEF ToggleOn
<1>3. /\ waiters' \in [Tunnels -> Nat] /\ inbox' \in [Sessions -> Seq(Slot)]
      /\ \A s \in Sessions, u \in Tunnels :
           Starts(inbox'[s], u) => Starts(inbox[s], u) \/ (s = bound /\ u = t)
  BY <1>1, <1>2, SecretsAsked
<1>4. "on" \in States
  BY DEF States
<1>5. /\ rows' \in [Tunnels -> Seq(States)] /\ store' \in [Tunnels -> Seq(States)]
      /\ rows'[t] # <<>> /\ \A u \in Tunnels \ {t} : rows'[u] = rows[u]
      /\ \A u \in Tunnels :
           /\ Len(store[u]) <= 1 /\ Len(rows[u]) <= 1 /\ (rows[u] # <<>> => Home[u] = bound)
           /\ u = t => Home[t] = bound
           => /\ Len(store'[u]) <= 1 /\ Len(rows'[u]) <= 1
              /\ rows'[u] # <<>> => Home[u] = bound
  BY <1>1, <1>2, <1>4, Upserted
<1>6. Typed'
  BY <1>1, <1>2, <1>3, <1>5 DEF Typed
<1>7. ASSUME NEW u \in Tunnels
      PROVE  AtHome(u)' /\ Told(u)'
  <2>1. u = t /\ t \notin astray => Home[t] = bound
    BY <1>1, <1>2 DEF AtHome
  <2>2. AtHome(u)'
    BY <1>1, <1>2, <1>3, <1>5, <2>1 DEF AtHome
  <2>3. rows'[u] = <<>> => shown[u] = "Off"
    BY <1>1, <1>5 DEF Told
  <2>4. Told(u)'
    BY <1>1, <1>2, <2>3, StillTold
  <2> QED
    BY <2>2, <2>4
<1> QED
  BY <1>6, <1>7 DEF IInv

LEMMA DeleteSelectedKeeps ==
  ASSUME IInv, NEW t \in Tunnels, DeleteSelected(t)
  PROVE  IInv'
<1>1. Typed /\ \A u \in Tunnels : AtHome(u) /\ Told(u)
  BY DEF IInv
<1>2. /\ rows[t] # <<>> /\ rows' = RemoveById(t) /\ PersistAll(rows')
      /\ shown' = [shown EXCEPT ![t] = "Off"]
      /\ UNCHANGED <<bound, conn, dialog, waiters, running, signals, astray>>
  BY DEF DeleteSelected, reads
<1>3. /\ inbox' \in [Sessions -> Seq(Slot)]
      /\ \A s \in Sessions, u \in Tunnels : Starts(inbox'[s], u) => Starts(inbox[s], u)
  <2>1. CASE IsSessionConnected
    <3>1. bound \in Sessions /\ Post(bound, <<<<"stop", t>>>>)
      BY <1>1, <2>1 DEF DeleteSelected, IsSessionConnected, Typed
    <3>2. /\ <<<<"stop", t>>>> \in Seq(Slot)
          /\ \A u : ~Starts(<<<<"stop", t>>>>, u)
      BY OneSlot
    <3> QED
      BY <1>1, <3>1, <3>2, SlotsPostedTo DEF Typed
  <2>2. CASE ~IsSessionConnected
    BY <1>1, <2>2 DEF DeleteSelected, Typed
  <2> QED
    BY <2>1, <2>2
<1>4. rows[t] \in Seq(States) /\ rows \in [Tunnels -> Seq(States)]
  BY <1>1 DEF Typed
<1>5. /\ Tail(rows[t]) \in Seq(States) /\ Len(Tail(rows[t])) = Len(rows[t]) - 1
      /\ Len(rows[t]) \in Nat
  BY <1>2, <1>4, HeadTailProperties, LenProperties
<1>6. /\ rows' \in [Tunnels -> Seq(States)]
      /\ rows'[t] = Tail(rows[t]) /\ \A u \in Tunnels \ {t} : rows'[u] = rows[u]
  BY <1>2, <1>4, <1>5 DEF RemoveById
<1>7. /\ store' \in [Tunnels -> Seq(States)]
      /\ \A u \in Tunnels :
           Len(store[u]) <= 1 /\ Len(rows'[u]) <= 1 /\ (rows'[u] # <<>> => Home[u] = bound)
             => Len(store'[u]) <= 1
  BY <1>1, <1>2, <1>6, Persisted
<1>8. /\ shown' \in [Tunnels -> Statuses]
      /\ shown'[t] = "Off" /\ \A u \in Tunnels \ {t} : shown'[u] = shown[u]
  BY <1>1, <1>2 DEF Typed, Statuses
<1>9. Typed'
  BY <1>1, <1>2, <1>3, <1>6, <1>7, <1>8 DEF Typed
<1>10. ASSUME NEW u \in Tunnels
       PROVE  AtHome(u)' /\ Told(u)'
  <2>1. Len(rows[u]) <= 1 => Len(rows'[u]) <= 1
    BY <1>5, <1>6
  <2>2. u \notin astray => (rows'[u] # <<>> => Home[u] = bound)
    BY <1>1, <1>2, <1>6 DEF AtHome
  <2>3. AtHome(u)'
    BY <1>1, <1>2, <1>3, <1>7, <2>1, <2>2 DEF AtHome
  <2>4. rows'[u] = <<>> => shown'[u] = "Off"
    BY <1>1, <1>6, <1>8 DEF Told
  <2>5. shown'[u] \in {shown[u], "Off"}
    BY <1>8
  <2>6. Told(u)'
    BY <1>1, <1>2, <2>4, <2>5, StillTold
  <2> QED
    BY <2>3, <2>6
<1> QED
  BY <1>9, <1>10 DEF IInv

LEMMA OpenDialogKeeps ==
  ASSUME IInv, NEW t \in Tunnels, OpenDialog(t)
  PROVE  IInv'
<1>1. Typed /\ \A u \in Tunnels : AtHome(u) /\ Told(u)
  BY DEF IInv
<1>2. /\ dialog' = t
      /\ UNCHANGED <<bound, rows, shown, store, conn, waiters, running, inbox, signals, astray>>
  BY DEF OpenDialog, list, reads, worker
<1>3. Typed'
  BY <1>1, <1>2 DEF Typed
<1>4. ASSUME NEW u \in Tunnels
      PROVE  AtHome(u)' /\ Told(u)'
  <2>1. AtHome(u)'
    BY <1>1, <1>2 DEF AtHome
  <2>2. Told(u)'
    BY <1>1, <1>2 DEF Told
  <2> QED
    BY <2>1, <2>2
<1> QED
  BY <1>3, <1>4 DEF IInv

LEMMA AcceptDialogKeeps ==
  ASSUME IInv, NEW def \in States, AcceptDialog(def)
  PROVE  IInv'
<1>1. Typed /\ \A u \in Tunnels : AtHome(u) /\ Told(u)
  BY DEF IInv
<1>2. /\ dialog \in Tunnels /\ bound \in Sessions /\ dialog' = NoTunnel
      /\ rows' = Upsert(dialog, def) /\ PersistAll(rows')
      /\ astray' = IF Home[dialog] # bound THEN astray \union {dialog} ELSE astray
      /\ UNCHANGED <<bound, shown, conn, running, signals>>
  BY <1>1 DEF AcceptDialog, Typed
<1>3. /\ waiters' \in [Tunnels -> Nat] /\ inbox' \in [Sessions -> Seq(Slot)]
      /\ \A s \in Sessions, u \in Tunnels :
           Starts(inbox'[s], u) => Starts(inbox[s], u) \/ (s = bound /\ u = dialog)
  <2>1. \/ StartTunnelWithSecrets(dialog)
        \/ Post(bound, <<<<"start", dialog>>>>) /\ waiters' = waiters
        \/ waiters' = waiters /\ inbox' = inbox
    BY DEF AcceptDialog, reads
  <2>2. CASE StartTunnelWithSecrets(dialog)
    BY <1>1, <1>2, <2>2, SecretsAsked
  <2>3. CASE Post(bound, <<<<"start", dialog>>>>) /\ waiters' = waiters
    <3>1. /\ <<<<"start", dialog>>>> \in Seq(Slot)
          /\ \A u : Starts(<<<<"start", dialog>>>>, u) => u = dialog
      BY <1>2, OneSlot
    <3> QED
      BY <1>1, <1>2, <2>3, <3>1, SlotsPostedTo DEF Typed
  <2>4. CASE waiters' = waiters /\ inbox' = inbox
    BY <1>1, <2>4 DEF Typed
  <2> QED
    BY <2>1, <2>2, <2>3, <2>4
<1>4. /\ rows' \in [Tunnels -> Seq(States)] /\ store' \in [Tunnels -> Seq(States)]
      /\ rows'[dialog] # <<>> /\ \A u \in Tunnels \ {dialog} : rows'[u] = rows[u]
      /\ \A u \in Tunnels :
           /\ Len(store[u]) <= 1 /\ Len(rows[u]) <= 1 /\ (rows[u] # <<>> => Home[u] = bound)
           /\ u = dialog => Home[dialog] = bound
           => /\ Len(store'[u]) <= 1 /\ Len(rows'[u]) <= 1
              /\ rows'[u] # <<>> => Home[u] = bound
  BY <1>1, <1>2, Upserted
<1>5. Typed'
  BY <1>1, <1>2, <1>3, <1>4 DEF Typed
<1>6. ASSUME NEW u \in Tunnels
      PROVE  AtHome(u)' /\ Told(u)'
  <2>1. u \notin astray' => u \notin astray /\ (u = dialog => Home[dialog] = bound)
    BY <1>2
  <2>2. AtHome(u)'
    BY <1>1, <1>2, <1>3, <1>4, <2>1 DEF AtHome
  <2>3. rows'[u] = <<>> => shown[u] = "Off"
    BY <1>1, <1>4 DEF Told
  <2>4. Told(u)'
    BY <1>1, <1>2, <2>3, StillTold
  <2> QED
    BY <2>2, <2>4
<1> QED
  BY <1>5, <1>6 DEF IInv

-----------------------------------------------------------------------------
(* The keychain's answer.                                                  *)
LEMMA ReadFinishedKeeps ==
  ASSUME IInv, NEW t \in Tunnels, ReadFinished(t)
  PROVE  IInv'
<1> DEFINE e == [i \in 1 .. waiters[t] |-> <<"start", t>>]
<1>1. Typed /\ \A u \in Tunnels : AtHome(u) /\ Told(u)
  BY DEF IInv
<1>2. /\ waiters' = [u \in Tunnels |-> 0]
      /\ IF IsSessionConnected THEN Post(bound, e) ELSE UNCHANGED inbox
      /\ astray' = IF bound # Home[t] THEN astray \union {t} ELSE astray
      /\ UNCHANGED <<bound, rows, shown, store, conn, dialog, running, signals>>
  BY DEF ReadFinished, list
<1>3. e \in Seq(Slot) /\ \A u : Starts(e, u) => u = t
  <2>1. waiters[t] \in Nat /\ <<"start", t>> \in Slot
    BY <1>1 DEF Typed, Slot
  <2>2. e \in Seq(Slot)
    <3> DEFINE n == waiters[t]
               x == <<"start", t>>
    <3>1. n \in Nat /\ x \in Slot /\ e = [i \in 1 .. n |-> x]
      BY <2>1 DEF e
    <3> HIDE DEF n, x, e
    <3>2. e \in [1 .. n -> Slot]
      BY <3>1
    <3> QED
      BY <3>1, <3>2, SeqDef
  <2>3. \A i \in DOMAIN e : e[i] = <<"start", t>>
    OBVIOUS
  <2>4. \A u : <<"start", t>> = <<"start", u>> => u = t
    OBVIOUS
  <2> QED
    BY <2>2, <2>3, <2>4 DEF Starts
<1> HIDE DEF e
<1>4. /\ inbox' \in [Sessions -> Seq(Slot)]
      /\ \A s \in Sessions, u \in Tunnels :
           Starts(inbox'[s], u) => Starts(inbox[s], u) \/ (s = bound /\ u = t)
  <2>1. CASE IsSessionConnected
    <3>1. bound \in Sessions /\ inbox \in [Sessions -> Seq(Slot)]
      BY <1>1, <2>1 DEF IsSessionConnected, Typed
    <3> QED
      BY <1>2, <1>3, <2>1, <3>1, SlotsPostedTo
  <2>2. CASE ~IsSessionConnected
    BY <1>1, <1>2, <2>2 DEF Typed
  <2> QED
    BY <2>1, <2>2
<1>5. Typed'
  BY <1>1, <1>2, <1>4 DEF Typed
<1>6. ASSUME NEW u \in Tunnels
      PROVE  AtHome(u)' /\ Told(u)'
  <2>1. u \notin astray' => u \notin astray /\ (u = t => Home[t] = bound)
    BY <1>2
  <2>2. AtHome(u)'
    BY <1>1, <1>2, <1>4, <2>1 DEF AtHome
  <2>3. Told(u)'
    BY <1>1, <1>2 DEF Told
  <2> QED
    BY <2>2, <2>3
<1> QED
  BY <1>5, <1>6 DEF IInv

-----------------------------------------------------------------------------
(* The sessions' steps.                                                    *)

(* A session's signals when its worker posts some more: a tunnel that the  *)
(* worker goes on running needs no correction, any other one does.         *)
LEMMA ToldMore ==
  ASSUME Typed, NEW t \in Tunnels, Told(t), NEW s \in Sessions, NEW e \in Seq(Signal),
         signals' = [signals EXCEPT ![s] = signals[s] \o e],
         UNCHANGED <<bound, rows, shown>>,
         \A u \in Sessions \ {s} : running'[u] = running[u],
         \/ /\ t \in running[s] => t \in running'[s]
            /\ t \in running'[s] \/ Followed(e, t)
         \/ e # <<>> /\ e[Len(e)] \in Corrects(t)
  PROVE  Told(t)'
<1>1. signals \in [Sessions -> Seq(Signal)] /\ bound \in Sessions \union {NoSession}
  BY DEF Typed
<1>2. /\ signals'[s] = signals[s] \o e
      /\ \A u \in Sessions \ {s} : signals'[u] = signals[u]
  BY <1>1
<1>3. /\ Corrected(signals[s], t) => Corrected(signals'[s], t)
      /\ Followed(signals[s], t) /\ Followed(e, t) => Followed(signals'[s], t)
      /\ e # <<>> /\ e[Len(e)] \in Corrects(t)
           => Corrected(signals'[s], t) /\ Followed(signals'[s], t)
  BY <1>1, <1>2, SignalsPosted
<1>4. /\ \A u \in Sessions : t \in running[u] \/ Followed(signals[u], t)
      /\ bound # NoSession /\ shown[t] \in {"Starting", "Listening"} =>
           t \in running[bound] \/ Corrected(signals[bound], t)
      /\ rows[t] = <<>> => shown[t] = "Off"
  BY DEF Told
<1>5. \A u \in Sessions : t \in running'[u] \/ Followed(signals'[u], t)
  BY <1>2, <1>3, <1>4
<1>6. ASSUME bound' # NoSession, shown'[t] \in {"Starting", "Listening"}
      PROVE  t \in running'[bound'] \/ Corrected(signals'[bound'], t)
  <2>1. bound' = bound /\ bound \in Sessions /\ shown'[t] = shown[t]
    BY <1>1, <1>6
  <2>2. t \in running[bound] \/ Corrected(signals[bound], t)
    BY <1>4, <1>6, <2>1
  <2> QED
    BY <1>2, <1>3, <2>1, <2>2
<1>7. rows'[t] = <<>> => shown'[t] = "Off"
  BY <1>4
<1> QED
  BY <1>5, <1>6, <1>7 DEF Told

LEMMA ConnectKeeps ==
  ASSUME IInv, NEW s \in Sessions, Connect(s)
  PROVE  IInv'
<1> DEFINE e == <<<<"connected">>>>
<1>1. Typed /\ \A u \in Tunnels : AtHome(u) /\ Told(u)
  BY DEF IInv
<1>2. /\ signals' = [signals EXCEPT ![s] = Append(signals[s], <<"connected">>)]
      /\ UNCHANGED <<bound, rows, shown, store, conn, dialog, waiters, running, inbox, astray>>
  BY DEF Connect, list, reads
<1>3. <<"connected">> \in Signal /\ signals \in [Sessions -> Seq(Signal)]
  BY <1>1 DEF Signal, Typed
<1>4. e \in Seq(Signal) /\ DOMAIN e = {1} /\ e[1] = <<"connected">>
  BY <1>3
<1>5. \A t : Followed(e, t)
  BY <1>4, Tells DEF Followed
<1>6. Append(signals[s], <<"connected">>) = signals[s] \o e
  BY <1>3, AppendIsConcat
<1> HIDE DEF e
<1>7. signals' = [signals EXCEPT ![s] = signals[s] \o e]
  BY <1>2, <1>6
<1>8. signals[s] \o e \in Seq(Signal)
  BY <1>3, <1>4, ConcatProperties
<1>9. Typed'
  BY <1>1, <1>2, <1>3, <1>7, <1>8 DEF Typed
<1>10. ASSUME NEW u \in Tunnels
       PROVE  AtHome(u)' /\ Told(u)'
  <2>1. AtHome(u)'
    BY <1>1, <1>2 DEF AtHome
  <2>2. Told(u)'
    BY <1>1, <1>2, <1>4, <1>5, <1>7, ToldMore
  <2> QED
    BY <2>1, <2>2
<1> QED
  BY <1>9, <1>10 DEF IInv

LEMMA OnWorkerConnectedKeeps ==
  ASSUME IInv, NEW s \in Sessions, OnWorkerConnected(s)
  PROVE  IInv'
<1> DEFINE q == Enabled(s)
           e == [i \in DOMAIN q |-> <<"start", q[i][1]>>]
<1>1. Typed /\ \A u \in Tunnels : AtHome(u) /\ Told(u)
  BY DEF IInv
<1>2. /\ signals[s] # <<>> /\ Head(signals[s]) = <<"connected">>
      /\ signals' = [signals EXCEPT ![s] = Tail(signals[s])]
      /\ conn' = conn \union {s}
      /\ ReadSecrets(EnabledAuth(rows)) \/ waiters' = waiters
      /\ Post(s, e)
      /\ UNCHANGED <<bound, rows, shown, store, dialog, running, astray>>
  BY DEF OnWorkerConnected, list, reads
<1>3. waiters' \in [Tunnels -> Nat]
  <2>1. IsFiniteSet(EnabledAuth(rows))
    BY AuthAssumption, EnabledFinite DEF EnabledAuth
  <2> QED
    BY <1>1, <1>2, <2>1, ReadsCounted DEF Typed
<1>4. e \in Seq(Slot) /\ \A u : Starts(e, u) => Home[u] = s
  <2> DEFINE model == LoadForConnection(s)
             ts == Tunnels \ Auth
             D == EnabledOf(model, ts)
  <2>1. /\ IsFiniteSet(D)
        /\ \A d \in D : d[1] \in ts /\ model[d[1]] # <<>>
    BY EnabledFinite
  <2>2. \A d \in D : d[1] \in Tunnels /\ Home[d[1]] = s
    BY <1>1, <2>1, TunnelsLoaded
  <2>3. q \in Seq(D)
    BY <2>1, InSomeOrder DEF Enabled
  <2> HIDE DEF D, q
  <2>4. DOMAIN q = 1 .. Len(q) /\ Len(q) \in Nat /\ \A i \in DOMAIN q : q[i] \in D
    BY <2>3, LenProperties, ElementOfSeq
  <2>5. \A i \in DOMAIN q : <<"start", q[i][1]>> \in Slot /\ Home[q[i][1]] = s
    BY <2>2, <2>4 DEF Slot
  <2>6. e \in Seq(Slot)
    BY <2>4, <2>5
  <2>7. ASSUME NEW u, Starts(e, u)
        PROVE  Home[u] = s
    <3>1. PICK i \in DOMAIN q : <<"start", q[i][1]>> = <<"start", u>>
      BY <2>7 DEF Starts
    <3> QED
      BY <2>5, <3>1
  <2> QED
    BY <2>6, <2>7
<1> HIDE DEF e, q
<1>5. /\ inbox' \in [Sessions -> Seq(Slot)]
      /\ \A v \in Sessions, u \in Tunnels :
           Starts(inbox'[v], u) => Starts(inbox[v], u) \/ (v = s /\ Home[u] = s)
  <2>1. inbox \in [Sessions -> Seq(Slot)] /\ Post(s, e) /\ e \in Seq(Slot)
    BY <1>1, <1>2, <1>4 DEF Typed
  <2>2. /\ inbox' \in [Sessions -> Seq(Slot)]
        /\ \A v \in Sessions, u \in Tunnels :
             Starts(inbox'[v], u) => Starts(inbox[v], u) \/ (v = s /\ Starts(e, u))
    BY <2>1, SlotsPostedTo
  <2> QED
    BY <1>4, <2>2
<1>6. signals[s] \in Seq(Signal) /\ Tail(signals[s]) \in Seq(Signal)
  BY <1>1, <1>2, Taken DEF Typed
<1>7. /\ signals' \in [Sessions -> Seq(Signal)]
      /\ signals'[s] = Tail(signals[s]) /\ \A v \in Sessions \ {s} : signals'[v] = signals[v]
  BY <1>1, <1>2, <1>6 DEF Typed
<1>8. Typed'
  BY <1>1, <1>2, <1>3, <1>5, <1>7 DEF Typed
<1>9. ASSUME NEW u \in Tunnels
      PROVE  AtHome(u)' /\ Told(u)'
  <2>1. AtHome(u)'
    BY <1>1, <1>2, <1>5 DEF AtHome
  <2>2. /\ Followed(signals[s], u) => Followed(signals'[s], u)
        /\ Corrected(signals[s], u) => Corrected(signals'[s], u)
    BY <1>2, <1>6, <1>7, SignalTaken, Tells
  <2>3. \A v \in Sessions : /\ Followed(signals[v], u) => Followed(signals'[v], u)
                            /\ Corrected(signals[v], u) => Corrected(signals'[v], u)
    BY <1>7, <2>2
  <2>4. bound \in Sessions \union {NoSession}
    BY <1>1 DEF Typed
  <2>5. Told(u)'
    BY <1>1, <1>2, <2>3, <2>4 DEF Told
  <2> QED
    BY <2>1, <2>5
<1> QED
  BY <1>8, <1>9 DEF IInv

(* A session leaves the Connected state, and its worker may be let go of.  *)
LEMMA LeftConnected ==
  ASSUME IInv, NEW s \in Sessions, LeaveConnected(s),
         UNCHANGED <<bound, store, dialog, waiters, astray>>,
         running' \in [Sessions -> SUBSET Tunnels],
         \A u \in Sessions \ {s} : running'[u] = running[u],
         running'[s] \subseteq running[s]
  PROVE  IInv'
<1>1. Typed /\ \A u \in Tunnels : AtHome(u) /\ Told(u)
  BY DEF IInv
<1>2. /\ conn' = conn \ {s}
      /\ inbox' = [inbox EXCEPT ![s] = <<>>] /\ signals' = [signals EXCEPT ![s] = <<>>]
      /\ bound # s => UNCHANGED <<rows, shown>>
      /\ bound = s => /\ shown' = [t \in Tunnels |-> "Off"]
                      /\ rows' = rows \/ rows' = LoadForConnection(s)
  BY DEF LeaveConnected, ClearRuntimeStatuses
<1>3. /\ inbox' \in [Sessions -> Seq(Slot)] /\ signals' \in [Sessions -> Seq(Signal)]
      /\ inbox'[s] = <<>> /\ signals'[s] = <<>>
      /\ \A u \in Sessions \ {s} : inbox'[u] = inbox[u] /\ signals'[u] = signals[u]
  <2>1. <<>> \in Seq(Slot) /\ <<>> \in Seq(Signal)
    OBVIOUS
  <2> QED
    BY <1>1, <1>2, <2>1 DEF Typed
<1>4. /\ LoadForConnection(s) \in [Tunnels -> Seq(States)]
      /\ \A t \in Tunnels : LoadForConnection(s)[t] # <<>> => Home[t] = s
      /\ \A t \in Tunnels : Len(store[t]) <= 1 => Len(LoadForConnection(s)[t]) <= 1
  BY <1>1, TunnelsLoaded
<1>5. /\ rows' \in [Tunnels -> Seq(States)] /\ shown' \in [Tunnels -> Statuses]
      /\ bound = s => \A t \in Tunnels : shown'[t] = "Off"
  <2>1. CASE bound # s
    BY <1>1, <1>2, <2>1 DEF Typed
  <2>2. CASE bound = s
    BY <1>1, <1>2, <1>4, <2>2 DEF Typed, Statuses
  <2> QED
    BY <2>1, <2>2
<1>6. Typed'
  <2>1. bound' \in Sessions \union {NoSession} /\ conn' \subseteq Sessions
    BY <1>1, <1>2 DEF Typed
  <2>2. /\ dialog' \in Tunnels \union {NoTunnel}
        /\ store' \in [Tunnels -> Seq(States)] /\ waiters' \in [Tunnels -> Nat]
    BY <1>1 DEF Typed
  <2> QED
    BY <1>3, <1>5, <2>1, <2>2 DEF Typed
<1>7. ASSUME NEW u \in Tunnels
      PROVE  AtHome(u)' /\ Told(u)'
  <2>1. ~Starts(<<>>, u) /\ Followed(<<>>, u)
    BY DEF Starts, Followed
  <2>2. u \notin astray => /\ Len(rows'[u]) <= 1
                           /\ rows'[u] # <<>> => Home[u] = bound
    BY <1>1, <1>2, <1>4 DEF AtHome
  <2>3. AtHome(u)'
    <3>1. ASSUME NEW v \in Sessions \ {Home[u]}, Starts(inbox'[v], u)
          PROVE  Starts(inbox[v], u)
      BY <1>3, <2>1, <3>1
    <3>2. \A v \in Sessions : u \in running'[v] => u \in running[v]
      OBVIOUS
    <3> QED
      BY <1>1, <2>2, <3>1, <3>2 DEF AtHome
  <2>4. rows'[u] = <<>> => shown'[u] = "Off"
    BY <1>1, <1>2, <1>5 DEF Told
  <2>5. \A v \in Sessions : u \in running'[v] \/ Followed(signals'[v], u)
    BY <1>1, <1>3, <2>1 DEF Told
  <2>6. ASSUME bound' # NoSession, shown'[u] \in {"Starting", "Listening"}
        PROVE  u \in running'[bound'] \/ Corrected(signals'[bound'], u)
    <3>1. bound \in Sessions /\ bound # s
      BY <1>1, <1>5, <2>6 DEF Typed
    <3>2. u \in running[bound] \/ Corrected(signals[bound], u)
      BY <1>1, <1>2, <2>6, <3>1 DEF Told
    <3> QED
      BY <1>3, <3>1, <3>2
  <2>7. Told(u)'
    BY <2>4, <2>5, <2>6 DEF Told
  <2> QED
    BY <2>3, <2>7
<1> QED
  BY <1>6, <1>7 DEF IInv

LEMMA OnWorkerDisconnectedKeeps ==
  ASSUME IInv, NEW s \in Sessions, OnWorkerDisconnected(s)
  PROVE  IInv'
<1>1. /\ LeaveConnected(s) /\ running' = running
      /\ UNCHANGED <<bound, store, dialog, waiters, astray>>
  BY DEF OnWorkerDisconnected, reads
<1>2. running \in [Sessions -> SUBSET Tunnels]
  BY DEF IInv, Typed
<1> QED
  BY <1>1, <1>2, LeftConnected

LEMMA DisconnectTransportKeeps ==
  ASSUME IInv, NEW s \in Sessions, DisconnectTransport(s)
  PROVE  IInv'
<1>1. /\ LeaveConnected(s) /\ running' = [running EXCEPT ![s] = {}]
      /\ UNCHANGED <<bound, store, dialog, waiters, astray>>
  BY DEF DisconnectTransport, reads
<1>2. running \in [Sessions -> SUBSET Tunnels]
  BY DEF IInv, Typed
<1>3. /\ running' \in [Sessions -> SUBSET Tunnels] /\ running'[s] \subseteq running[s]
      /\ \A u \in Sessions \ {s} : running'[u] = running[u]
  BY <1>1, <1>2
<1> QED
  BY <1>1, <1>3, LeftConnected

(* The list shows what a signal says; the signals behind it correct it if  *)
(* it is not true.                                                         *)
LEMMA OnTunnelStatusKeeps ==
  ASSUME IInv, NEW s \in Sessions, OnTunnelStatus(s)
  PROVE  IInv'
<1> DEFINE x == Head(signals[s])
<1>1. Typed /\ \A u \in Tunnels : AtHome(u) /\ Told(u)
  BY DEF IInv
<1>2. /\ signals[s] # <<>> /\ Len(x) = 2
      /\ signals' = [signals EXCEPT ![s] = Tail(signals[s])]
      /\ IF bound = s THEN SetRuntimeStatus(x[1], x[2]) ELSE UNCHANGED shown
      /\ UNCHANGED <<bound, rows, store, conn, dialog, waiters, running, inbox, astray>>
  BY DEF OnTunnelStatus, reads
<1>3. /\ signals[s] \in Seq(Signal) /\ Tail(signals[s]) \in Seq(Signal) /\ x \in Signal
  BY <1>1, <1>2, Taken DEF Typed
<1>4. PICK y \in Tunnels, z \in Statuses : x = <<y, z>>
  BY <1>2, <1>3 DEF Signal
<1> HIDE DEF x
<1>5. /\ signals' \in [Sessions -> Seq(Signal)]
      /\ signals'[s] = Tail(signals[s]) /\ \A v \in Sessions \ {s} : signals'[v] = signals[v]
  BY <1>1, <1>2, <1>3 DEF Typed
<1>6. \/ shown' = shown
      \/ bound = s /\ rows[y] # <<>> /\ shown' = [shown EXCEPT ![y] = z]
  BY <1>2, <1>4 DEF SetRuntimeStatus
<1>7. shown' \in [Tunnels -> Statuses]
  BY <1>1, <1>6 DEF Typed
<1>8. Typed'
  BY <1>1, <1>2, <1>5, <1>7 DEF Typed
<1>9. ASSUME NEW u \in Tunnels
      PROVE  AtHome(u)' /\ Told(u)'
  <2>1. AtHome(u)'
    BY <1>1, <1>2 DEF AtHome
  <2>2. /\ Followed(signals[s], u) => Followed(signals'[s], u)
        /\ Followed(signals[s], u) /\ x \in Claims(u) => Corrected(signals'[s], u)
        /\ Corrected(signals[s], u) /\ x \notin Corrects(u) => Corrected(signals'[s], u)
    BY <1>2, <1>3, <1>5, SignalTaken DEF x
  <2>3. rows'[u] = <<>> => shown'[u] = "Off"
    BY <1>1, <1>2, <1>6 DEF Told, Typed
  <2>4. \A v \in Sessions : u \in running'[v] \/ Followed(signals'[v], u)
    BY <1>1, <1>2, <1>5, <2>2 DEF Told
  <2>5. ASSUME bound' # NoSession, shown'[u] \in {"Starting", "Listening"}
        PROVE  u \in running'[bound'] \/ Corrected(signals'[bound'], u)
    <3>1. bound' = bound /\ bound \in Sessions /\ running' = running
      BY <1>1, <1>2, <2>5 DEF Typed
    <3>2. shown[u] \in {"Starting", "Listening"}
            => u \in running[bound] \/ Corrected(signals[bound], u)
      BY <1>1, <2>5, <3>1 DEF Told
    <3>3. CASE bound # s
      BY <1>5, <1>6, <2>5, <3>1, <3>2, <3>3
    <3>4. CASE bound = s /\ shown' = [shown EXCEPT ![y] = z] /\ u = y
      <4>1. shown'[u] = z /\ x \in Claims(u)
        BY <1>1, <1>4, <2>5, <3>4, Tells DEF Typed
      <4>2. u \in running[bound] \/ Followed(signals[s], u)
        BY <1>1, <3>1, <3>4 DEF Told
      <4> QED
        BY <2>2, <3>1, <3>4, <4>1, <4>2
    <3>5. CASE bound = s /\ shown' = [shown EXCEPT ![y] = z] /\ u # y
      <4>1. shown'[u] = shown[u]
        BY <1>1, <3>5 DEF Typed
      <4>2. x \notin Corrects(u)
        BY <1>4, <3>5, Tells
      <4> QED
        BY <2>2, <2>5, <3>1, <3>2, <3>5, <4>1, <4>2
    <3>6. CASE bound = s /\ ~(rows[y] # <<>> /\ shown' = [shown EXCEPT ![y] = z])
      <4>1. shown' = shown /\ rows[y] = <<>>
        BY <1>2, <1>4, <3>6 DEF SetRuntimeStatus
      <4>2. shown[y] = "Off"
        BY <1>1, <4>1 DEF Told
      <4>3. u # y
        BY <2>5, <4>1, <4>2
      <4>4. x \notin Corrects(u)
        BY <1>4, <4>3, Tells
      <4> QED
        BY <2>2, <2>5, <3>1, <3>2, <3>6, <4>1, <4>4
    <3> QED
      BY <1>6, <3>3, <3>4, <3>5, <3>6
  <2>6. Told(u)'
    BY <2>3, <2>4, <2>5 DEF Told
  <2> QED
    BY <2>1, <2>6
<1> QED
  BY <1>8, <1>9 DEF IInv

-----------------------------------------------------------------------------
(* The worker's steps.                                                     *)

(* Signals that end with x.                                                *)
LEMMA EndsWith ==
  ASSUME NEW q \in Seq(Signal), NEW x \in Signal
  PROVE  /\ q \o <<x>> \in Seq(Signal) /\ q \o <<x>> # <<>>
         /\ (q \o <<x>>)[Len(q \o <<x>>)] = x
         /\ \A t : Followed(q, t) /\ x \notin Claims(t) => Followed(q \o <<x>>, t)
<1> DEFINE e == <<x>>
<1>1. e \in Seq(Signal) /\ Len(e) = 1 /\ DOMAIN e = {1} /\ e[1] = x
  OBVIOUS
<1> HIDE DEF e
<1>2. /\ q \o e \in Seq(Signal) /\ Len(q \o e) = Len(q) + 1 /\ Len(q) \in Nat
      /\ \A i \in 1 .. Len(q) + 1 : (q \o e)[i] = IF i <= Len(q) THEN q[i] ELSE e[i - Len(q)]
  BY <1>1, ConcatProperties, LenProperties
<1>3. q \o e # <<>> /\ (q \o e)[Len(q \o e)] = x
  <2>1. Len(q \o e) # 0 /\ Len(<<>>) = 0
    BY <1>2
  <2>2. Len(q) + 1 \in 1 .. Len(q) + 1 /\ ~(Len(q) + 1 <= Len(q)) /\ (Len(q) + 1) - Len(q) = 1
    BY <1>2
  <2> QED
    BY <1>1, <1>2, <2>1, <2>2
<1>4. \A t : x \notin Claims(t) => Followed(e, t)
  BY <1>1 DEF Followed
<1>5. \A t : Followed(q, t) /\ Followed(e, t) => Followed(q \o e, t)
  BY <1>1, SignalsPosted
<1> QED
  BY <1>2, <1>3, <1>4, <1>5 DEF e

(* What a worker posts when it starts t: it ends with the outcome and says *)
(* nothing of any other tunnel.                                            *)
LEMMA Outcome ==
  ASSUME NEW ts \in SUBSET Tunnels, NEW t \in Tunnels, NEW outcome \in Statuses, ts \subseteq {t}
  PROVE  LET e == Off(ts) \o <<<<t, "Starting">>>> \o <<<<t, outcome>>>>
         IN  /\ e \in Seq(Signal) /\ e # <<>> /\ e[Len(e)] = <<t, outcome>>
             /\ \A u : u # t => Followed(e, u)
<1> DEFINE o == Off(ts)
           p == o \o <<<<t, "Starting">>>>
<1>1. o \in Seq(Signal) /\ \A i \in DOMAIN o : \E u \in ts : o[i] = <<u, "Off">>
  BY OffSignals
<1>2. <<t, "Starting">> \in Signal /\ <<t, outcome>> \in Signal
  BY DEF Signal, Statuses
<1> HIDE DEF o
<1>3. ASSUME NEW u, u # t
      PROVE  Followed(o, u)
  <2>1. \A i \in DOMAIN o : o[i] = <<t, "Off">>
    BY <1>1
  <2>2. <<t, "Off">> \notin Claims(u)
    BY <1>3, Tells
  <2> QED
    BY <2>1, <2>2 DEF Followed
<1>4. p \in Seq(Signal) /\ \A u : u # t => Followed(p, u)
  BY <1>1, <1>2, <1>3, EndsWith, Tells
<1> HIDE DEF p
<1>5. /\ p \o <<<<t, outcome>>>> \in Seq(Signal) /\ p \o <<<<t, outcome>>>> # <<>>
      /\ (p \o <<<<t, outcome>>>>)[Len(p \o <<<<t, outcome>>>>)] = <<t, outcome>>
      /\ \A u : u # t => Followed(p \o <<<<t, outcome>>>>, u)
  BY <1>2, <1>4, EndsWith, Tells
<1> QED
  BY <1>5 DEF p, o

(* The worker takes a slot for t: it comes to run t only at home, and what *)
(* it posts ends with a correction if it does not run t.                   *)
LEMMA SlotServed ==
  ASSUME IInv, NEW s \in Sessions, NEW t \in Tunnels, NEW e \in Seq(Signal),
         inbox[s] # <<>>, Head(inbox[s])[2] = t,
         inbox' = [inbox EXCEPT ![s] = Tail(inbox[s])],
         signals' = [signals EXCEPT ![s] = signals[s] \o e],
         running' \in [Sessions -> SUBSET Tunnels],
         \A v \in Sessions \ {s} : running'[v] = running[v],
         \A u \in Tunnels \ {t} : (u \in running'[s] <=> u \in running[s]) /\ Followed(e, u),
         \/ t \in running'[s] /\ Head(inbox[s])[1] = "start"
         \/ (t \in running'[s] => t \in running[s]) /\ e # <<>> /\ e[Len(e)] \in Corrects(t),
         UNCHANGED <<bound, rows, shown, store, conn, dialog, waiters, astray>>
  PROVE  IInv'
<1>1. Typed /\ \A u \in Tunnels : AtHome(u) /\ Told(u)
  BY DEF IInv
<1>2. /\ inbox[s] \in Seq(Slot) /\ Tail(inbox[s]) \in Seq(Slot) /\ Head(inbox[s]) \in Slot
      /\ \A u : Starts(Tail(inbox[s]), u) => Starts(inbox[s], u)
      /\ Head(inbox[s]) = <<"start", t>> => Starts(inbox[s], t)
  BY <1>1, SlotTaken DEF Typed
<1>3. /\ inbox' \in [Sessions -> Seq(Slot)] /\ inbox'[s] = Tail(inbox[s])
      /\ \A v \in Sessions \ {s} : inbox'[v] = inbox[v]
  BY <1>1, <1>2 DEF Typed
<1>4. signals[s] \o e \in Seq(Signal)
  BY <1>1, ConcatProperties DEF Typed
<1>5. signals' \in [Sessions -> Seq(Signal)]
  BY <1>1, <1>4 DEF Typed
<1>6. Typed'
  BY <1>1, <1>3, <1>5 DEF Typed
<1>7. t \in running'[s] => t \in running[s] \/ Starts(inbox[s], t)
  <2>1. Head(inbox[s])[1] = "start" => Head(inbox[s]) = <<"start", t>>
    BY <1>2 DEF Slot
  <2> QED
    BY <1>2, <2>1
<1>8. ASSUME NEW u \in Tunnels
      PROVE  AtHome(u)' /\ Told(u)'
  <2>1. \A v \in Sessions : /\ u \in running'[v] => u \in running[v] \/ Starts(inbox[v], u)
                            /\ Starts(inbox'[v], u) => Starts(inbox[v], u)
    BY <1>2, <1>3, <1>7
  <2>2. AtHome(u)'
    BY <1>1, <2>1 DEF AtHome
  <2>3. \/ /\ u \in running[s] => u \in running'[s]
           /\ u \in running'[s] \/ Followed(e, u)
        \/ e # <<>> /\ e[Len(e)] \in Corrects(u)
    OBVIOUS
  <2>4. Told(u)'
    BY <1>1, <2>3, ToldMore
  <2> QED
    BY <2>2, <2>4
<1> QED
  BY <1>6, <1>8 DEF IInv

LEMMA StartTunnelKeeps ==
  ASSUME IInv, NEW s \in Sessions, StartTunnel(s)
  PROVE  IInv'
<1> DEFINE t == Head(inbox[s])[2]
           ts == running[s] \intersect {t}
           e(x) == Off(ts) \o <<<<t, "Starting">>>> \o <<<<t, x>>>>
<1>1. /\ inbox[s] # <<>> /\ Head(inbox[s])[1] = "start"
      /\ inbox' = [inbox EXCEPT ![s] = Tail(inbox[s])]
      /\ UNCHANGED <<bound, rows, shown, store, conn, dialog, waiters, astray>>
  BY DEF StartTunnel, list, reads
<1>2. running \in [Sessions -> SUBSET Tunnels] /\ inbox[s] \in Seq(Slot)
  BY DEF IInv, Typed
<1>3. Head(inbox[s]) \in Slot
  BY <1>1, <1>2, SlotTaken
<1>4. t \in Tunnels
  BY <1>3 DEF Slot
<1>5. CASE signals' = [signals EXCEPT ![s] = signals[s] \o <<<<t, "Error">>>>] /\ running' = running
  <2> DEFINE f == <<<<t, "Error">>>>
  <2>1. <<t, "Error">> \in Signal
    BY <1>4 DEF Signal, Statuses
  <2>2. /\ f \in Seq(Signal) /\ f # <<>> /\ f[Len(f)] = <<t, "Error">>
        /\ \A i \in DOMAIN f : f[i] = <<t, "Error">>
    BY <2>1
  <2>3. \A u : u # t => Followed(f, u)
    <3> HIDE DEF f, t
    <3>1. \A u : u # t => <<t, "Error">> \notin Claims(u)
      BY Tells
    <3> QED
      BY <2>2, <3>1 DEF Followed
  <2>4. f[Len(f)] \in Corrects(t)
    BY <2>2, Tells
  <2> HIDE DEF f, t
  <2> QED
    BY <1>1, <1>2, <1>4, <1>5, <2>2, <2>3, <2>4, SlotServed DEF f, t
<1>6. ASSUME NEW x \in ListenOutcomes,
             signals' = [signals EXCEPT ![s] = signals[s] \o e(x)],
             running' = [running EXCEPT ![s] = IF x = "Listening" THEN running[s] \union {t}
                                                                  ELSE running[s] \ {t}]
      PROVE  IInv'
  <2>1. x \in Statuses /\ x \in {"Listening", "Error"}
    BY DEF ListenOutcomes, Statuses
  <2>2. /\ e(x) \in Seq(Signal) /\ e(x) # <<>> /\ e(x)[Len(e(x))] = <<t, x>>
        /\ \A u : u # t => Followed(e(x), u)
    <3>1. ts \in SUBSET Tunnels /\ ts \subseteq {t}
      BY <1>2
    <3> HIDE DEF t, ts
    <3> QED
      BY <1>4, <2>1, <3>1, Outcome
  <2> DEFINE f == e(x)
  <2> HIDE DEF e, ts
  <2>3. /\ running' \in [Sessions -> SUBSET Tunnels]
        /\ \A v \in Sessions \ {s} : running'[v] = running[v]
        /\ running'[s] = IF x = "Listening" THEN running[s] \union {t} ELSE running[s] \ {t}
    BY <1>2, <1>4, <1>6
  <2>4. \/ t \in running'[s]
        \/ (t \in running'[s] => t \in running[s]) /\ f # <<>> /\ f[Len(f)] \in Corrects(t)
    <3>1. CASE x = "Listening"
      BY <2>3, <3>1
    <3>2. CASE x = "Error"
      <4>1. t \notin running'[s]
        BY <2>3, <3>2
      <4>2. <<t, x>> \in Corrects(t)
        BY <3>2, Tells
      <4> QED
        BY <2>2, <4>1, <4>2
    <3> QED
      BY <2>1, <3>1, <3>2
  <2>5. \A u \in Tunnels \ {t} : (u \in running'[s] <=> u \in running[s]) /\ Followed(f, u)
    BY <2>2, <2>3
  <2>6. f \in Seq(Signal) /\ signals' = [signals EXCEPT ![s] = signals[s] \o f]
    BY <1>6, <2>2
  <2> HIDE DEF f
  <2> QED
    BY <1>1, <1>4, <2>3, <2>4, <2>5, <2>6, SlotServed
<1>7. \/ signals' = [signals EXCEPT ![s] = signals[s] \o <<<<t, "Error">>>>] /\ running' = running
      \/ \E x \in ListenOutcomes :
           /\ signals' = [signals EXCEPT ![s] = signals[s] \o e(x)]
           /\ running' = [running EXCEPT ![s] = IF x = "Listening" THEN running[s] \union {t}
                                                                   ELSE running[s] \ {t}]
  BY DEF StartTunnel, Emits
<1> QED
  BY <1>5, <1>6, <1>7

LEMMA StopTunnelKeeps ==
  ASSUME IInv, NEW s \in Sessions, StopTunnel(s)
  PROVE  IInv'
<1> DEFINE t == Head(inbox[s])[2]
           f == <<<<t, "Off">>>>
<1>1. /\ inbox[s] # <<>>
      /\ inbox' = [inbox EXCEPT ![s] = Tail(inbox[s])]
      /\ running' = [running EXCEPT ![s] = running[s] \ {t}]
      /\ signals' = [signals EXCEPT ![s] = signals[s] \o f]
      /\ UNCHANGED <<bound, rows, shown, store, conn, dialog, waiters, astray>>
  BY DEF StopTunnel, Emits, list, reads
<1>2. running \in [Sessions -> SUBSET Tunnels] /\ inbox[s] \in Seq(Slot)
  BY DEF IInv, Typed
<1>3. Head(inbox[s]) \in Slot
  BY <1>1, <1>2, SlotTaken
<1>4. t \in Tunnels
  BY <1>3 DEF Slot
<1>5. <<t, "Off">> \in Signal
  BY <1>4 DEF Signal, Statuses
<1>6. /\ f \in Seq(Signal) /\ f # <<>> /\ f[Len(f)] = <<t, "Off">>
      /\ \A i \in DOMAIN f : f[i] = <<t, "Off">>
  BY <1>5
<1>7. \A u : u # t => Followed(f, u)
  <2> HIDE DEF f, t
  <2>1. \A u : u # t => <<t, "Off">> \notin Claims(u)
    BY Tells
  <2> QED
    BY <1>6, <2>1 DEF Followed
<1>8. f[Len(f)] \in Corrects(t)
  BY <1>6, Tells
<1> HIDE DEF f
<1>9. /\ running' \in [Sessions -> SUBSET Tunnels] /\ t \notin running'[s]
      /\ \A v \in Sessions \ {s} : running'[v] = running[v]
      /\ \A u \in Tunnels \ {t} : u \in running'[s] <=> u \in running[s]
  BY <1>1, <1>2
<1> QED
  BY <1>1, <1>4, <1>6, <1>7, <1>8, <1>9, SlotServed

LEMMA LostKeeps ==
  ASSUME IInv, NEW s \in Sessions, Lost(s)
  PROVE  IInv'
<1> DEFINE x == <<"disconnected">>
           e == Off(running[s]) \o <<x>>
<1>1. Typed /\ \A u \in Tunnels : AtHome(u) /\ Told(u)
  BY DEF IInv
<1>2. /\ running' = [running EXCEPT ![s] = {}]
      /\ signals' = [signals EXCEPT ![s] = signals[s] \o e]
      /\ UNCHANGED <<bound, rows, shown, store, conn, dialog, waiters, inbox, astray>>
  BY DEF Lost, Emits, list, reads
<1>3. /\ running \in [Sessions -> SUBSET Tunnels] /\ running[s] \in SUBSET Tunnels
      /\ signals \in [Sessions -> Seq(Signal)]
  BY <1>1 DEF Typed
<1>4. x \in Signal /\ Off(running[s]) \in Seq(Signal)
  BY <1>3, OffSignals DEF Signal
<1>5. e \in Seq(Signal) /\ e # <<>> /\ e[Len(e)] = x
  BY <1>4, EndsWith
<1>6. \A u : e[Len(e)] \in Corrects(u)
  BY <1>5, Tells
<1> HIDE DEF e
<1>7. signals[s] \o e \in Seq(Signal)
  BY <1>3, <1>5, ConcatProperties
<1>8. /\ running' \in [Sessions -> SUBSET Tunnels] /\ running'[s] = {}
      /\ \A v \in Sessions \ {s} : running'[v] = running[v]
      /\ signals' \in [Sessions -> Seq(Signal)]
  BY <1>2, <1>3, <1>7
<1>9. Typed'
  BY <1>1, <1>2, <1>8 DEF Typed
<1>10. ASSUME NEW u \in Tunnels
       PROVE  AtHome(u)' /\ Told(u)'
  <2>1. \A v \in Sessions : u \in running'[v] => u \in running[v]
    BY <1>8
  <2>2. AtHome(u)'
    BY <1>1, <1>2, <2>1 DEF AtHome
  <2>3. Told(u)'
    BY <1>1, <1>2, <1>5, <1>6, <1>8, ToldMore
  <2> QED
    BY <2>2, <2>3
<1> QED
  BY <1>9, <1>10 DEF IInv

-----------------------------------------------------------------------------
(* The theorems.                                                           *)
LEMMA InitEstablishes == Init => IInv
<1> SUFFICES ASSUME Init
             PROVE  IInv
  OBVIOUS
<1>1. /\ bound = NoSession /\ dialog = NoTunnel /\ conn = {}
      /\ store \in [Tunnels -> {<<"on">>, <<"off">>}]
      /\ rows = [t \in Tunnels |-> <<>>] /\ shown = [t \in Tunnels |-> "Off"]
      /\ waiters = [t \in Tunnels |-> 0]
      /\ running = [s \in Sessions |-> {}] /\ inbox = [s \in Sessions |-> <<>>]
      /\ signals = [s \in Sessions |-> <<>>]
  BY DEF Init
<1>2. /\ <<>> \in Seq(States) /\ <<>> \in Seq(Slot) /\ <<>> \in Seq(Signal) /\ Len(<<>>) = 0
      /\ "Off" \in Statuses
  BY DEF Statuses
<1>3. \A t \in Tunnels : store[t] \in Seq(States) /\ Len(store[t]) <= 1
  <2>1. /\ <<"on">> \in Seq(States) /\ <<"off">> \in Seq(States)
        /\ Len(<<"on">>) <= 1 /\ Len(<<"off">>) <= 1
    BY DEF States
  <2> QED
    BY <1>1, <2>1
<1>4. store \in [Tunnels -> Seq(States)] /\ rows \in [Tunnels -> Seq(States)]
  BY <1>1, <1>2, <1>3
<1>5. /\ running \in [Sessions -> SUBSET Tunnels] /\ waiters \in [Tunnels -> Nat]
      /\ inbox \in [Sessions -> Seq(Slot)] /\ signals \in [Sessions -> Seq(Signal)]
      /\ shown \in [Tunnels -> Statuses]
  BY <1>1, <1>2
<1>6. Typed
  BY <1>1, <1>4, <1>5 DEF Typed
<1>7. ASSUME NEW t \in Tunnels
      PROVE  AtHome(t) /\ Told(t)
  <2>1. ~Starts(<<>>, t) /\ Followed(<<>>, t)
    BY DEF Starts, Followed
  <2>2. \A s \in Sessions \ {Home[t]} : t \notin running[s] /\ ~Starts(inbox[s], t)
    BY <1>1, <2>1
  <2>3. Len(store[t]) <= 1 /\ Len(rows[t]) <= 1 /\ (rows[t] # <<>> => Home[t] = bound)
    <3>1. rows[t] = <<>>
      BY <1>1
    <3>2. Len(rows[t]) <= 1
      BY <3>1
    <3>3. Len(store[t]) <= 1
      BY <1>3
    <3> QED
      BY <3>1, <3>2, <3>3
  <2>4. AtHome(t)
    BY <2>2, <2>3 DEF AtHome
  <2>5. Told(t)
    BY <1>1, <2>1 DEF Told
  <2> QED
    BY <2>4, <2>5
<1> QED
  BY <1>6, <1>7 DEF IInv

(* The inductive invariant holds in every run, whatever the number of tabs *)
(* and tunnels, the connections they belong to, and the bounds.            *)
THEOREM Invariance == Spec => []IInv
<1>1. Init => IInv
  BY InitEstablishes
<1>2. IInv /\ [Next]_vars => IInv'
  <2> SUFFICES ASSUME IInv, [Next]_vars
               PROVE  IInv'
    OBVIOUS
  <2>1. ASSUME NEW t \in Tunnels,
               \/ ToggleOff(t) \/ ToggleOn(t) \/ DeleteSelected(t) \/ OpenDialog(t)
               \/ ReadFinished(t)
        PROVE  IInv'
    BY <2>1, ToggleOffKeeps, ToggleOnKeeps, DeleteSelectedKeeps, OpenDialogKeeps, ReadFinishedKeeps
  <2>2. ASSUME NEW s \in Sessions,
               \/ SelectTab(s) \/ Connect(s) \/ DisconnectTransport(s)
               \/ OnWorkerConnected(s) \/ OnWorkerDisconnected(s) \/ OnTunnelStatus(s)
        PROVE  IInv'
    BY <2>2, SelectTabKeeps, ConnectKeeps, DisconnectTransportKeeps,
       OnWorkerConnectedKeeps, OnWorkerDisconnectedKeeps, OnTunnelStatusKeeps
  <2>3. ASSUME NEW s \in Sessions, StartTunnel(s) \/ StopTunnel(s) \/ Lost(s)
        PROVE  IInv'
    BY <2>3, StartTunnelKeeps, StopTunnelKeeps, LostKeeps
  <2>4. ASSUME NEW def \in {"on", "off"}, AcceptDialog(def)
        PROVE  IInv'
    BY <2>4, AcceptDialogKeeps DEF States
  <2>5. CASE UNCHANGED vars
    <3>1. UNCHANGED <<bound, rows, shown, store, conn, dialog, waiters, running, inbox,
                      signals, astray>>
      BY <2>5 DEF vars, list, reads, worker
    <3>2. Typed'
      BY <3>1 DEF IInv, Typed
    <3>3. ASSUME NEW t \in Tunnels
          PROVE  AtHome(t)' /\ Told(t)'
      <4>1. AtHome(t)'
        BY <3>1 DEF IInv, AtHome
      <4>2. Told(t)'
        BY <3>1 DEF IInv, Told
      <4> QED
        BY <4>1, <4>2
    <3> QED
      BY <3>2, <3>3 DEF IInv
  <2> QED
    BY <2>1, <2>2, <2>3, <2>4, <2>5 DEF Next, User, Gui, Worker
<1> QED
  BY <1>1, <1>2, PTL DEF Spec

(* A tunnel runs through the session of another connection, or is stored   *)
(* twice, only if a keychain answer or an open dialog has outlived a       *)
(* change of tab.                                                          *)
THEOREM StraysAreExplained == Spec => []StrayOnlyByStaleAnswer
<1>1. IInv => StrayOnlyByStaleAnswer
  <2> SUFFICES ASSUME IInv, NEW t \in Tunnels, t \notin astray
               PROVE  /\ ~(Len(store[t]) > 1)
                      /\ ~\E s \in Sessions \ {Home[t]} : t \in running[s]
    BY DEF StrayOnlyByStaleAnswer
  <2>1. AtHome(t) /\ store[t] \in Seq(States)
    BY DEF IInv, Typed
  <2>2. Len(store[t]) <= 1 /\ Len(store[t]) \in Nat
    BY <2>1, LenProperties DEF AtHome
  <2> QED
    BY <2>1, <2>2 DEF AtHome
<1> QED
  BY <1>1, Invariance, PTL

(* While the list shows a tunnel as Starting or Listening, it runs, or the *)
(* signal that corrects what is shown is on its way.                       *)
THEOREM ListeningIsNoLie == Spec => []ListeningIsTrueOrCorrected
<1>1. IInv => ListeningIsTrueOrCorrected
  BY DEF IInv, Told, Corrected, Corrects, ListeningIsTrueOrCorrected
<1> QED
  BY <1>1, Invariance, PTL

-----------------------------------------------------------------------------
(***************************************************************************)
(* Connections.                                                            *)
(***************************************************************************)
-----------------------------------------------------------------------------
(* Types.                                                                  *)

Value == {None} \union (SecretKinds \X Nat)
Chain == [SecretKinds -> Value]
JobSet ==
  [op : {"write"}, id : Ids, kind : SecretKinds, value : Value]
    \union [op : {"delete", "read"}, id : Ids, kind : SecretKinds, value : {None}]
    \union [op : {"copy"}, id : Ids, kind : SecretKinds, value : Ids]

SecretsTyped ==
  /\ conns \in [Ids -> Forms \union {None}] /\ unused \subseteq Ids
  /\ keychain \in [Ids -> Chain]
  /\ kept \in [Ids -> Chain \union {Unknown}]
  /\ jobs \in Seq(JobSet)
  /\ editors \in [Editors ->
       [id : Ids, before : Forms, initialSave : BOOLEAN, fields : Chain] \union {None}]
  /\ sessions \in [Ids -> [target : Value, gateway : Value] \union {None}]
  /\ opening \in [id : Ids, gateway : Value, prompt : BOOLEAN] \union {None}
  /\ changes \in Nat

-----------------------------------------------------------------------------
(* What the jobs that wait come to.                                        *)

About(job, c, k) == job.op \in Writes /\ job.id = c /\ job.kind = k
Mentions(job, c) == job.id = c \/ (job.op = "copy" /\ job.value = c)
Copies(job, c, k) == job.op = "copy" /\ job.value = c /\ job.kind = k

\* After the first n of some jobs the keychain holds v for a secret of a
\* connection: the last of them that is about it leaves v, or none is and it
\* is there now.
Holds(chain, q, n, c, k, v) ==
  \/ chain[c][k] = v /\ \A i \in 1 .. n : ~About(q[i], c, k)
  \/ \E i \in 1 .. n : /\ About(q[i], c, k) /\ q[i].value = v
                       /\ \A j \in i + 1 .. n : ~About(q[j], c, k)

\* No copy of a secret of c waits.
Uncopied(q, c) == \A i \in DOMAIN q : q[i].op = "copy" => q[i].value # c

\* The jobs leave what the keychain is meant to hold of a secret: by
\* themselves, or by the one copy that is then still to be stored.
Promise(chain, q, c, k, v) ==
  \/ /\ \A i \in DOMAIN q : ~Copies(q[i], c, k)
     /\ Holds(chain, q, Len(q), c, k, v)
  \/ \E i \in DOMAIN q :
       /\ Copies(q[i], c, k)
       /\ \A j \in DOMAIN q : Copies(q[j], c, k) => j = i
       /\ Holds(chain, q, i, q[i].id, k, v)
       /\ Holds(chain, q, Len(q), c, k, None)

Promised ==
  \A c \in Ids, k \in SecretKinds :
    kept[c] # Unknown => Promise(keychain, jobs, c, k, kept[c][k])

\* Nothing is known yet of a connection that is not there yet.
Unborn ==
  \A c \in unused :
    /\ conns[c] = None /\ sessions[c] = None
    /\ keychain[c] = NoSecrets /\ kept[c] = NoSecrets
    /\ \A i \in DOMAIN jobs : ~Mentions(jobs[i], c)
    /\ opening # None => opening.id # c

\* What a connection does not use is not kept for it.
KeptFits ==
  \A c \in Ids, k \in SecretKinds :
    conns[c] # None /\ kept[c] # Unknown /\ k \notin KeptKinds(conns[c]) => kept[c][k] = None

\* At most one secret is being read, for the connection that is being opened.
OneRead ==
  /\ \A i \in DOMAIN jobs : jobs[i].op = "read" =>
       opening # None /\ ~opening.prompt /\ jobs[i].id = opening.id
  /\ \A i, j \in DOMAIN jobs : jobs[i].op = "read" /\ jobs[j].op = "read" => i = j

\* A secret that is read is one the connection uses, and it will be what the
\* keychain is meant to hold; and so has been that of the gateway.
ReadFits(chain, q, i, c, form, secrets, gateway) ==
  \/ /\ UsesGateway(form) /\ q[i].kind = GatewayKind(form)
     /\ Holds(chain, q, i, c, GatewayKind(form), secrets[GatewayKind(form)])
  \/ /\ q[i].kind = TargetKind(form)
     /\ Holds(chain, q, i, c, TargetKind(form), secrets[TargetKind(form)])
     /\ UsesGateway(form) => secrets[GatewayKind(form)] \in {None, gateway}

ReadsFit(chain, q, c, form, secrets, gateway) ==
  \A i \in DOMAIN q : q[i].op = "read" => ReadFits(chain, q, i, c, form, secrets, gateway)

OpeningFits ==
  LET c == opening.id
  IN  opening # None /\ c \notin overtaken /\ conns[c] # None /\ kept[c] # Unknown =>
        /\ Uncopied(jobs, c)
        /\ ReadsFit(keychain, jobs, c, conns[c], kept[c], opening.gateway)

ConnectionsIInv ==
  /\ SecretsTyped /\ Promised /\ Unborn /\ KeptFits /\ OneRead /\ OpeningFits /\ SessionsFollow

-----------------------------------------------------------------------------
(* Sets of positions.                                                      *)

LEMMA Ranks ==
  ASSUME NEW at, IsFiniteSet(at), at \subseteq Nat,
         NEW n \in 1 .. Cardinality(at)
  PROVE  \E i \in at : Cardinality({j \in at : j <= i}) = n
<1> DEFINE R(i) == {j \in at : j <= i}
           N == Cardinality(at)
           f == [i \in at |-> Cardinality(R(i))]
<1>1. N \in Nat
  BY FS_CardinalityType
<1>2. ASSUME NEW i \in at
      PROVE  IsFiniteSet(R(i)) /\ Cardinality(R(i)) \in 1 .. N
  <2>1. R(i) \in SUBSET at
    OBVIOUS
  <2>2. IsFiniteSet(R(i)) /\ Cardinality(R(i)) <= N
    BY <2>1, FS_Subset
  <2>3. i \in R(i)
    OBVIOUS
  <2>4. Cardinality(R(i)) \in Nat /\ Cardinality(R(i)) # 0
    BY <2>2, <2>3, FS_CardinalityType, FS_EmptySet
  <2> HIDE DEF R, N
  <2> QED
    BY <1>1, <2>2, <2>4
<1>3. ASSUME NEW i \in at, NEW k \in at, f[i] = f[k], i <= k
      PROVE  i = k
  <2>0. i \in Nat /\ k \in Nat /\ i <= k
    BY <1>3
  <2>1. R(i) \in SUBSET R(k) /\ IsFiniteSet(R(k)) /\ k \in R(k)
    <3>1. \A j \in at : j <= i => j <= k
      BY <2>0
    <3> HIDE DEF f
    <3> QED
      <4>1. R(i) \in SUBSET R(k)
        BY <3>1
      <4>2. k \in R(k)
        BY <2>0
      <4> QED
        BY <1>2, <4>1, <4>2, Zenon
  <2>2. R(k) = R(i)
    BY <1>3, <2>1, FS_Subset
  <2>3. k <= i
    BY <2>1, <2>2
  <2> QED
    BY <1>3, <2>3
<1>4. f \in [at -> 1 .. N]
  BY <1>2
<1>5. \A i, k \in at : f[i] = f[k] => i = k
  <2> HIDE DEF f
  <2> SUFFICES ASSUME NEW i \in at, NEW k \in at, f[i] = f[k] PROVE i = k
    OBVIOUS
  <2>1. i <= k \/ k <= i
    OBVIOUS
  <2> QED
    BY <1>3, <2>1
<1> HIDE DEF f
<1>6. f \in Injection(at, 1 .. N)
  <2> DEFINE T == 1 .. N
  <2>1. f \in [at -> T] /\ \A i, k \in at : f[i] = f[k] => i = k
    BY <1>4, <1>5
  <2> HIDE DEF T
  <2>2. f \in Injection(at, T)
    BY <2>1 DEF Injection, IsInjective
  <2> QED
    BY <2>2 DEF T
<1>7. IsFiniteSet(1 .. N) /\ Cardinality(1 .. N) = N
  BY <1>1, FS_Interval
<1>8. f \in Surjection(at, 1 .. N)
  BY <1>6, <1>7, FS_Injection
<1>9. PICK i \in at : f[i] = n
  BY <1>8 DEF Surjection
<1> QED
  BY <1>9 DEF f

(* A set of positions that is not empty has a last one.                    *)
LEMMA LastOne ==
  ASSUME NEW n \in Nat, NEW at, at \subseteq 1 .. n, at # {}
  PROVE  \E i \in at : \A j \in at : j <= i
<1>1. IsFiniteSet(at) /\ at \subseteq Nat
  <2>1. IsFiniteSet(1 .. n) /\ at \in SUBSET (1 .. n)
    BY FS_Interval
  <2>2. IsFiniteSet(at)
    BY <2>1, FS_Subset
  <2> QED
    BY <2>2
<1>2. Cardinality(at) \in Nat /\ Cardinality(at) # 0
  BY <1>1, FS_CardinalityType, FS_EmptySet
<1>3. Cardinality(at) \in 1 .. Cardinality(at)
  <2> DEFINE N == Cardinality(at)
  <2>1. N \in Nat /\ N # 0
    BY <1>2
  <2> HIDE DEF N
  <2>2. N \in 1 .. N
    BY <2>1
  <2> QED
    BY <2>2 DEF N
<1>4. PICK i \in at : Cardinality({j \in at : j <= i}) = Cardinality(at)
  BY <1>1, <1>3, Ranks
<1>5. {j \in at : j <= i} \in SUBSET at
  OBVIOUS
<1>6. {j \in at : j <= i} = at
  BY <1>1, <1>4, <1>5, FS_Subset
<1> QED
  BY <1>6

(* The entries at some positions.                                          *)
LEMMA PickFacts ==
  ASSUME NEW S, NEW s \in Seq(S), NEW at, at \subseteq DOMAIN s
  PROVE  /\ Pick(s, at) \in Seq(S)
         /\ DOMAIN Pick(s, at) = 1 .. Len(Pick(s, at))
         /\ Len(Pick(s, at)) \in Nat
         /\ \A n \in DOMAIN Pick(s, at) : \E i \in at : Pick(s, at)[n] = s[i]
         /\ \A i \in at : \E n \in DOMAIN Pick(s, at) : Pick(s, at)[n] = s[i]
<1> DEFINE R(i) == {j \in at : j <= i}
           N == Cardinality(at)
           C(n) == CHOOSE i \in at : Cardinality(R(i)) = n
           p == [n \in 1 .. N |-> s[C(n)]]
<1>1. Len(s) \in Nat /\ DOMAIN s = 1 .. Len(s)
  OBVIOUS
<1>2. IsFiniteSet(at) /\ at \subseteq Nat
  <2>1. IsFiniteSet(1 .. Len(s))
    BY <1>1, FS_Interval
  <2>2. at \in SUBSET (1 .. Len(s))
    BY <1>1
  <2> QED
    BY <1>1, <2>1, <2>2, FS_Subset
<1>3. N \in Nat
  BY <1>2, FS_CardinalityType
<1>4. ASSUME NEW n \in 1 .. N
      PROVE  C(n) \in at /\ Cardinality(R(C(n))) = n
  <2>1. \E i \in at : Cardinality(R(i)) = n
    BY <1>2, Ranks
  <2> QED
    BY <2>1
<1>5. ASSUME NEW i \in at
      PROVE  Cardinality(R(i)) \in 1 .. N
  <2>1. R(i) \in SUBSET at
    OBVIOUS
  <2>2. IsFiniteSet(R(i)) /\ Cardinality(R(i)) <= N
    BY <1>2, <2>1, FS_Subset
  <2>3. i \in R(i)
    BY <1>2
  <2>4. Cardinality(R(i)) \in Nat /\ Cardinality(R(i)) # 0
    BY <2>2, <2>3, FS_CardinalityType, FS_EmptySet
  <2> HIDE DEF R, N
  <2> QED
    BY <1>3, <2>2, <2>4
<1>6. ASSUME NEW i \in at
      PROVE  C(Cardinality(R(i))) = i
  <2> DEFINE k == C(Cardinality(R(i)))
  <2>1. k \in at /\ Cardinality(R(k)) = Cardinality(R(i))
    BY <1>4, <1>5
  <2> HIDE DEF k
  <2>2. ASSUME NEW a \in at, NEW b \in at, a <= b, Cardinality(R(a)) = Cardinality(R(b))
        PROVE  a = b
    <3>1. R(a) \in SUBSET R(b) /\ R(b) \in SUBSET at /\ b \in R(b)
      BY <1>2, <2>2
    <3>2. IsFiniteSet(R(b))
      BY <1>2, <3>1, FS_Subset
    <3>3. R(b) = R(a)
      BY <2>2, <3>1, <3>2, FS_Subset
    <3>4. b <= a
      BY <3>1, <3>3
    <3> QED
      BY <1>2, <2>2, <3>4
  <2>3. k <= i \/ i <= k
    BY <1>2, <2>1
  <2>4. k = i
    BY <2>1, <2>2, <2>3
  <2> QED
    BY <2>4 DEF k
<1>7. p = Pick(s, at)
  BY DEF Pick
<1> HIDE DEF C, R, N
<1>8. p \in Seq(S) /\ Len(p) = N /\ DOMAIN p = 1 .. N /\ \A n \in 1 .. N : p[n] = s[C(n)]
  <2>1. p \in [1 .. N -> S]
    BY <1>1, <1>4
  <2> QED
    BY <1>3, <2>1
<1> HIDE DEF p
<1>9. \A n \in DOMAIN p : \E i \in at : p[n] = s[i]
  BY <1>4, <1>8
<1>10. \A i \in at : \E n \in DOMAIN p : p[n] = s[i]
  <2> SUFFICES ASSUME NEW i \in at PROVE \E n \in DOMAIN p : p[n] = s[i]
    OBVIOUS
  <2>1. Cardinality(R(i)) \in DOMAIN p /\ p[Cardinality(R(i))] = s[i]
    BY <1>5, <1>6, <1>8
  <2> QED
    BY <2>1
<1> QED
  BY <1>3, <1>7, <1>8, <1>9, <1>10

-----------------------------------------------------------------------------
(* What the jobs that wait come to.                                        *)

(* The jobs of some kinds that come first, and the rest.                   *)
LEMMA FirstFacts ==
  ASSUME jobs \in Seq(JobSet), NEW ops, jobs # <<>>, Head(jobs).op \in ops
  PROVE  /\ First(ops) \in 1 .. Len(jobs)
         /\ \A i \in 1 .. First(ops) : jobs[i].op \in ops
         /\ Rest(ops) \in Seq(JobSet) /\ Len(Rest(ops)) = Len(jobs) - First(ops)
         /\ \A i \in 1 .. Len(jobs) - First(ops) : Rest(ops)[i] = jobs[First(ops) + i]
<1> DEFINE L == Len(jobs)
           Good(n) == \A i \in 1 .. n : jobs[i].op \in ops
           at == {n \in 1 .. L : Good(n)}
           Is(n) == Good(n) /\ (n = L \/ jobs[n + 1].op \notin ops)
<1>1. L \in Nat \ {0} /\ Head(jobs) = jobs[1]
  OBVIOUS
<1>2. 1 \in at
  BY <1>1
<1>3. PICK n \in at : \A j \in at : j <= n
  BY <1>1, <1>2, LastOne
<1>4. n = L \/ jobs[n + 1].op \notin ops
  <2> SUFFICES ASSUME n # L, jobs[n + 1].op \in ops PROVE FALSE
    OBVIOUS
  <2>1. n \in 1 .. L /\ Good(n)
    BY <1>3
  <2>2. n + 1 \in 1 .. L /\ Good(n + 1)
    BY <1>1, <2>1
  <2> QED
    BY <1>3, <2>1, <2>2
<1>5. \E m \in 1 .. L : Is(m)
  BY <1>3, <1>4
<1>6. First(ops) = CHOOSE m \in 1 .. L : Is(m)
  BY DEF First
<1> HIDE DEF Is
<1>7. First(ops) \in 1 .. L /\ Is(First(ops))
  BY <1>5, <1>6
<1>8. First(ops) \in 1 .. L /\ Good(First(ops))
  BY <1>7 DEF Is
<1> DEFINE f == First(ops)
<1>9. f \in 1 .. L /\ Rest(ops) = SubSeq(jobs, f + 1, L)
  BY <1>8 DEF Rest
<1> HIDE DEF f
<1>10. /\ SubSeq(jobs, f + 1, L) \in Seq(JobSet) /\ Len(SubSeq(jobs, f + 1, L)) = L - f
       /\ \A i \in 1 .. L - f : SubSeq(jobs, f + 1, L)[i] = jobs[f + i]
  <2>1. \A i \in f + 1 .. L : jobs[i] \in JobSet
    BY <1>1, <1>9
  <2>2. f + 1 \in 1 .. L + 1 /\ L \in f .. L
    BY <1>1, <1>9
  <2>3. Len(SubSeq(jobs, f + 1, L)) = L - f
    BY <1>1, <1>9, <2>2, SubSeqProperties
  <2>4. \A i \in 1 .. L - f : SubSeq(jobs, f + 1, L)[i] = jobs[f + i]
    BY <1>1, <1>9, <2>2, SubSeqProperties
  <2>5. SubSeq(jobs, f + 1, L) \in Seq(JobSet)
    BY <1>1, <1>9, <2>2, SubSeqProperties
  <2> QED
    BY <2>3, <2>4, <2>5
<1> QED
  BY <1>8, <1>9, <1>10 DEF f

(* Jobs that are not about a secret leave it alone.                        *)
LEMMA LeftAlone ==
  ASSUME NEW chain, NEW q, NEW n \in Nat, NEW m \in Nat, n <= m, NEW c, NEW k, NEW v,
         \A i \in n + 1 .. m : ~About(q[i], c, k), Holds(chain, q, n, c, k, v)
  PROVE  Holds(chain, q, m, c, k, v)
<1>1. CASE chain[c][k] = v /\ \A i \in 1 .. n : ~About(q[i], c, k)
  <2>1. \A i \in 1 .. m : i \in 1 .. n \/ i \in n + 1 .. m
    OBVIOUS
  <2> QED
    BY <1>1, <2>1 DEF Holds
<1>2. CASE \E i \in 1 .. n : /\ About(q[i], c, k) /\ q[i].value = v
                             /\ \A j \in i + 1 .. n : ~About(q[j], c, k)
  <2>1. PICK i \in 1 .. n : /\ About(q[i], c, k) /\ q[i].value = v
                            /\ \A j \in i + 1 .. n : ~About(q[j], c, k)
    BY <1>2
  <2>2. \A j \in i + 1 .. m : j \in i + 1 .. n \/ j \in n + 1 .. m
    BY <2>1
  <2>3. i \in 1 .. m /\ \A j \in i + 1 .. m : ~About(q[j], c, k)
    BY <2>1, <2>2
  <2> QED
    BY <2>1, <2>3 DEF Holds
<1> QED
  BY <1>1, <1>2 DEF Holds

(* Jobs that all leave the same in a secret leave that in it.              *)
LEMMA LeftWith ==
  ASSUME NEW chain, NEW q, NEW n \in Nat, NEW m \in Nat, NEW c, NEW k, NEW v,
         \A i \in n + 1 .. m : About(q[i], c, k) => q[i].value = v,
         \E i \in n + 1 .. m : About(q[i], c, k)
  PROVE  Holds(chain, q, m, c, k, v)
<1> DEFINE at == {i \in n + 1 .. m : About(q[i], c, k)}
<1>1. at \subseteq 1 .. m /\ at # {}
  OBVIOUS
<1>2. PICK i \in at : \A j \in at : j <= i
  BY <1>1, LastOne
<1>3. i \in n + 1 .. m /\ About(q[i], c, k) /\ q[i].value = v
  OBVIOUS
<1>4. ASSUME NEW j \in i + 1 .. m PROVE ~About(q[j], c, k)
  <2>1. j \in n + 1 .. m /\ ~(j <= i)
    BY <1>3
  <2> QED
    BY <1>2, <2>1
<1> QED
  BY <1>3, <1>4 DEF Holds

(* The keychain's writes leave what they were to leave.                    *)
LEMMA ResultHolds ==
  ASSUME NEW chain, NEW q \in Seq(JobSet), NEW n \in 1 .. Len(q),
         NEW c \in Ids, NEW k \in SecretKinds, NEW v, Holds(chain, q, n, c, k, v)
  PROVE  Result(chain, SubSeq(q, 1, n))[c][k] = v
<1> DEFINE js == SubSeq(q, 1, n)
           at == {i \in DOMAIN js : js[i].op \in Writes /\ js[i].id = c /\ js[i].kind = k}
           last == CHOOSE i \in at : \A j \in at : j <= i
<1>1. DOMAIN js = 1 .. n /\ \A i \in 1 .. n : js[i] = q[i]
  <2>1. \A i \in 1 .. n : q[i] \in JobSet
    OBVIOUS
  <2>2. Len(js) = n /\ js \in Seq(JobSet) /\ \A i \in 1 .. n : js[i] = q[1 + i - 1]
    BY <2>1, SubSeqProperties
  <2> QED
    BY <2>2
<1>2. Result(chain, js)[c][k] = IF at = {} THEN chain[c][k] ELSE js[last].value
  BY DEF Result
<1> HIDE DEF js
<1>3. at = {i \in 1 .. n : About(q[i], c, k)}
  BY <1>1 DEF About
<1>4. CASE \A i \in 1 .. n : ~About(q[i], c, k)
  <2>1. at = {} /\ chain[c][k] = v
    BY <1>3, <1>4 DEF Holds
  <2> QED
    BY <1>2, <2>1 DEF js
<1>5. CASE \E i \in 1 .. n : About(q[i], c, k)
  <2>1. PICK i \in 1 .. n : /\ About(q[i], c, k) /\ q[i].value = v
                            /\ \A j \in i + 1 .. n : ~About(q[j], c, k)
    BY <1>5 DEF Holds
  <2>2. i \in at /\ \A j \in at : j <= i
    BY <1>3, <2>1
  <2> HIDE DEF at
  <2>3. last \in at /\ \A j \in at : j <= last
    BY <2>2
  <2>4. at \subseteq 1 .. n
    BY <1>3
  <2> HIDE DEF last
  <2>5. last = i
    <3>1. last \in Nat /\ i \in Nat /\ last <= i /\ i <= last
      BY <2>2, <2>3, <2>4
    <3> QED
      BY <3>1
  <2>6. at # {}
    BY <2>2
  <2>7. Result(chain, js)[c][k] = js[i].value
    BY <1>2, <2>5, <2>6
  <2> QED
    BY <1>1, <2>1, <2>7 DEF js
<1> QED
  BY <1>4, <1>5

-----------------------------------------------------------------------------
(* A step takes the first n jobs, does them, and puts others at the end.   *)
Becomes(chain, q, n, chain2, q2) ==
  /\ n \in 0 .. Len(q) /\ Len(q2) >= Len(q) - n
  /\ \A i \in 1 .. Len(q) - n : q2[i] = q[i + n]
  /\ \A c \in Ids, k \in SecretKinds, v \in Value :
       Holds(chain, q, n, c, k, v) => chain2[c][k] = v

(* The jobs at the end.                                                    *)
New(q, n, q2) == Len(q) - n + 1 .. Len(q2)

(* What the jobs leave, the jobs that are left over leave.                 *)
LEMMA LeftOver ==
  ASSUME NEW chain, NEW chain2, NEW q \in Seq(JobSet), NEW q2 \in Seq(JobSet), NEW n,
         Becomes(chain, q, n, chain2, q2), NEW m \in n .. Len(q),
         NEW c \in Ids, NEW k \in SecretKinds, NEW v \in Value, Holds(chain, q, m, c, k, v)
  PROVE  Holds(chain2, q2, m - n, c, k, v)
<1>1. n \in 0 .. Len(q) /\ Len(q) \in Nat /\ m \in Nat /\ n <= m /\ m <= Len(q)
  BY DEF Becomes
<1>2. \A i \in 1 .. m - n : q2[i] = q[i + n]
  BY <1>1 DEF Becomes
<1>3. CASE \A i \in n + 1 .. m : ~About(q[i], c, k)
  <2>1. Holds(chain, q, n, c, k, v)
    <3>1. CASE chain[c][k] = v /\ \A i \in 1 .. m : ~About(q[i], c, k)
      BY <1>1, <3>1 DEF Holds
    <3>2. CASE \E i \in 1 .. m : /\ About(q[i], c, k) /\ q[i].value = v
                                 /\ \A j \in i + 1 .. m : ~About(q[j], c, k)
      <4>1. PICK i \in 1 .. m : /\ About(q[i], c, k) /\ q[i].value = v
                                /\ \A j \in i + 1 .. m : ~About(q[j], c, k)
        BY <3>2
      <4>2. i \in 1 .. n /\ \A j \in i + 1 .. n : j \in i + 1 .. m
        BY <1>1, <1>3, <4>1
      <4> QED
        BY <4>1, <4>2 DEF Holds
    <3> QED
      BY <3>1, <3>2 DEF Holds
  <2>2. chain2[c][k] = v
    BY <2>1 DEF Becomes
  <2>3. \A i \in 1 .. m - n : i + n \in n + 1 .. m
    BY <1>1
  <2> QED
    BY <1>2, <1>3, <2>2, <2>3 DEF Holds
<1>4. CASE \E i \in n + 1 .. m : About(q[i], c, k)
  <2>1. PICK i \in 1 .. m : /\ About(q[i], c, k) /\ q[i].value = v
                            /\ \A j \in i + 1 .. m : ~About(q[j], c, k)
    BY <1>1, <1>4 DEF Holds
  <2>2. i \in n + 1 .. m
    BY <1>1, <1>4, <2>1
  <2>3. i - n \in 1 .. m - n /\ (i - n) + n = i
    BY <1>1, <2>2
  <2>4. q2[i - n] = q[i]
    BY <1>2, <2>3
  <2>5. ASSUME NEW j \in (i - n) + 1 .. m - n PROVE ~About(q2[j], c, k)
    <3>1. j \in 1 .. m - n /\ j + n \in i + 1 .. m
      BY <1>1, <2>2
    <3> QED
      BY <1>2, <2>1, <3>1
  <2> QED
    BY <2>1, <2>3, <2>4, <2>5 DEF Holds
<1> QED
  BY <1>3, <1>4

(* The jobs after a step.                                                  *)
LEMMA After ==
  ASSUME NEW chain, NEW chain2, NEW q \in Seq(JobSet), NEW q2 \in Seq(JobSet), NEW n,
         Becomes(chain, q, n, chain2, q2), NEW i \in DOMAIN q2
  PROVE  \/ i + n \in DOMAIN q /\ i + n > n /\ q2[i] = q[i + n] /\ i \in 1 .. Len(q) - n
         \/ i \in New(q, n, q2)
<1>1. n \in 0 .. Len(q) /\ Len(q) \in Nat /\ Len(q2) \in Nat /\ i \in 1 .. Len(q2)
  BY DEF Becomes
<1>2. CASE i <= Len(q) - n
  <2>1. i \in 1 .. Len(q) - n /\ i + n \in 1 .. Len(q) /\ i + n > n
    BY <1>1, <1>2
  <2>2. q2[i] = q[i + n]
    BY <2>1 DEF Becomes
  <2> QED
    BY <2>1, <2>2
<1>3. CASE i > Len(q) - n
  BY <1>1, <1>3 DEF New
<1> QED
  BY <1>1, <1>2, <1>3

(* What is still to be done comes to the same while nothing about it is    *)
(* copied at once or asked for.                                            *)
LEMMA PromiseKept ==
  ASSUME NEW chain, NEW chain2, NEW q \in Seq(JobSet), NEW q2 \in Seq(JobSet), NEW n,
         Becomes(chain, q, n, chain2, q2),
         NEW c \in Ids, NEW k \in SecretKinds, NEW v \in Value, Promise(chain, q, c, k, v),
         \A i \in 1 .. n : ~Copies(q[i], c, k),
         \A i \in New(q, n, q2) : ~About(q2[i], c, k) /\ ~Copies(q2[i], c, k)
  PROVE  Promise(chain2, q2, c, k, v)
<1>1. n \in 0 .. Len(q) /\ Len(q) \in Nat /\ Len(q2) \in Nat /\ Len(q2) >= Len(q) - n
  BY DEF Becomes
<1>2. ASSUME NEW w \in Value, Holds(chain, q, Len(q), c, k, w)
      PROVE  Holds(chain2, q2, Len(q2), c, k, w)
  <2>0. Len(q) \in n .. Len(q)
    BY <1>1
  <2>1. Holds(chain2, q2, Len(q) - n, c, k, w)
    BY <1>2, <2>0, LeftOver
  <2>2. \A i \in (Len(q) - n) + 1 .. Len(q2) : ~About(q2[i], c, k)
    BY DEF New
  <2>3. Len(q) - n \in Nat
    BY <1>1
  <2> QED
    BY <1>1, <2>1, <2>2, <2>3, LeftAlone
<1>3. CASE (\A i \in DOMAIN q : ~Copies(q[i], c, k)) /\ Holds(chain, q, Len(q), c, k, v)
  <2>1. \A i \in DOMAIN q2 : ~Copies(q2[i], c, k)
    BY <1>3, After
  <2> QED
    BY <1>2, <1>3, <2>1 DEF Promise
<1>4. ASSUME NEW i \in DOMAIN q, Copies(q[i], c, k),
             \A j \in DOMAIN q : Copies(q[j], c, k) => j = i,
             Holds(chain, q, i, q[i].id, k, v), Holds(chain, q, Len(q), c, k, None)
      PROVE  Promise(chain2, q2, c, k, v)
  <2>1. i \in n + 1 .. Len(q)
    BY <1>1, <1>4
  <2>2. i - n \in DOMAIN q2 /\ i - n \in 1 .. Len(q) - n /\ (i - n) + n = i
    BY <1>1, <2>1
  <2>3. q2[i - n] = q[i]
    BY <2>2 DEF Becomes
  <2>4. \A j \in DOMAIN q2 : Copies(q2[j], c, k) => j = i - n
    <3>1. SUFFICES ASSUME NEW j \in DOMAIN q2, Copies(q2[j], c, k) PROVE j = i - n
      OBVIOUS
    <3>2. j + n \in DOMAIN q /\ q2[j] = q[j + n] /\ j \in Nat
      BY <3>1, After
    <3>3. j + n = i
      BY <1>4, <3>1, <3>2
    <3> QED
      BY <1>1, <3>2, <3>3
  <2>5. q[i] \in JobSet /\ q[i].op = "copy"
    BY <1>4 DEF Copies
  <2>6. q[i].id \in Ids
    BY <2>5 DEF JobSet
  <2>7. Holds(chain2, q2, i - n, q2[i - n].id, k, v)
    <3>1. i \in n .. Len(q)
      BY <1>1, <2>1
    <3> QED
      BY <1>4, <2>3, <2>6, <3>1, LeftOver
  <2>8. Holds(chain2, q2, Len(q2), c, k, None)
    BY <1>2, <1>4 DEF Value
  <2> QED
    BY <1>4, <2>2, <2>3, <2>4, <2>7, <2>8 DEF Promise
<1> QED
  BY <1>3, <1>4 DEF Promise

(* What is asked for a secret that is not being copied is kept, as long as *)
(* all that is asked is the same.                                          *)
LEMMA PromiseMade ==
  ASSUME NEW chain, NEW chain2, NEW q \in Seq(JobSet), NEW q2 \in Seq(JobSet), NEW n,
         Becomes(chain, q, n, chain2, q2),
         NEW c \in Ids, NEW k \in SecretKinds, NEW v \in Value, NEW w \in Value,
         \A i \in DOMAIN q : ~Copies(q[i], c, k), Holds(chain, q, Len(q), c, k, v),
         \A i \in New(q, n, q2) :
           ~Copies(q2[i], c, k) /\ (About(q2[i], c, k) => q2[i].value = w),
         w = v \/ \E i \in New(q, n, q2) : About(q2[i], c, k)
  PROVE  Promise(chain2, q2, c, k, w)
<1>1. n \in 0 .. Len(q) /\ Len(q) \in Nat /\ Len(q2) \in Nat /\ Len(q2) >= Len(q) - n
  BY DEF Becomes
<1>2. \A i \in DOMAIN q2 : ~Copies(q2[i], c, k)
  BY After
<1>3. CASE \E i \in New(q, n, q2) : About(q2[i], c, k)
  <2>1. Len(q) - n \in Nat
    BY <1>1
  <2>2. Holds(chain2, q2, Len(q2), c, k, w)
    BY <1>1, <1>3, <2>1, LeftWith DEF New
  <2> QED
    BY <1>2, <2>2 DEF Promise
<1>4. CASE w = v /\ \A i \in New(q, n, q2) : ~About(q2[i], c, k)
  <2>0. Len(q) \in n .. Len(q)
    BY <1>1
  <2>1. Holds(chain2, q2, Len(q) - n, c, k, w)
    BY <1>4, <2>0, LeftOver
  <2>2. Len(q) - n \in Nat
    BY <1>1
  <2>3. Holds(chain2, q2, Len(q2), c, k, w)
    BY <1>1, <1>4, <2>1, <2>2, LeftAlone DEF New
  <2> QED
    BY <1>2, <2>3 DEF Promise
<1> QED
  BY <1>3, <1>4

-----------------------------------------------------------------------------
(* Kinds and values.                                                       *)

LEMMA KindFacts ==
  ASSUME NEW form
  PROVE  /\ TargetKind(form) \in {"password", "passphrase"}
         /\ GatewayKind(form) \in {"gatewayPassword", "gatewayPassphrase"}
         /\ TargetKind(form) \in SecretKinds /\ GatewayKind(form) \in SecretKinds
         /\ TargetKind(form) # GatewayKind(form)
BY DEF TargetKind, GatewayKind, SecretKinds

LEMMA SomeSecrets == NoSecrets \in Chain /\ None \in Value /\ \A k \in SecretKinds : NoSecrets[k] = None
BY DEF NoSecrets, Chain, Value

LEMMA Records ==
  /\ \A form \in Forms : form # None
  /\ \A c, gateway, prompt : Opening(c, gateway, prompt) # None
<1>1. ASSUME NEW form \in Forms PROVE form # None
  <2>1. form \in [auth : {"password", "key"}, save : BOOLEAN, gateway : {"none", "password", "key"}]
    BY FormsAssumption
  <2>2. "auth" \in DOMAIN form
    BY <2>1
  <2>3. "auth" \notin DOMAIN <<>>
    OBVIOUS
  <2> QED
    BY <2>2, <2>3 DEF None
<1>2. ASSUME NEW c, NEW gateway, NEW prompt PROVE Opening(c, gateway, prompt) # None
  <2>1. "id" \in DOMAIN Opening(c, gateway, prompt)
    BY DEF Opening
  <2>2. "id" \notin DOMAIN <<>>
    OBVIOUS
  <2> QED
    BY <2>1, <2>2 DEF None
<1> QED
  BY <1>1, <1>2

LEMMA JobTypes ==
  ASSUME NEW c \in Ids, NEW k \in SecretKinds
  PROVE  /\ \A v \in Value : Job("write", c, k, v) \in JobSet
         /\ Job("delete", c, k, None) \in JobSet /\ Job("read", c, k, None) \in JobSet
         /\ \A d \in Ids : Job("copy", c, k, d) \in JobSet
BY DEF Job, JobSet

-----------------------------------------------------------------------------
(* Steps that put jobs at the end, and those that take the first one.      *)

LEMMA Appends ==
  ASSUME NEW chain, NEW q \in Seq(JobSet), NEW r \in Seq(JobSet)
  PROVE  /\ q \o r \in Seq(JobSet) /\ Becomes(chain, q, 0, chain, q \o r)
         /\ Len(q \o r) = Len(q) + Len(r)
         /\ \A i \in New(q, 0, q \o r) : \E j \in DOMAIN r : (q \o r)[i] = r[j]
         /\ \A j \in DOMAIN r : \E i \in New(q, 0, q \o r) : (q \o r)[i] = r[j]
<1>1. /\ q \o r \in Seq(JobSet) /\ Len(q \o r) = Len(q) + Len(r)
      /\ Len(q) \in Nat /\ Len(r) \in Nat /\ DOMAIN r = 1 .. Len(r)
      /\ \A i \in 1 .. Len(q) + Len(r) :
           (q \o r)[i] = IF i <= Len(q) THEN q[i] ELSE r[i - Len(q)]
  OBVIOUS
<1> DEFINE t == q \o r
<1>2. t \in Seq(JobSet) /\ Len(t) = Len(q) + Len(r)
      /\ \A i \in 1 .. Len(q) + Len(r) : t[i] = IF i <= Len(q) THEN q[i] ELSE r[i - Len(q)]
  BY <1>1
<1> HIDE DEF t
<1>3. Becomes(chain, q, 0, chain, t)
  <2>1. \A c \in Ids, k \in SecretKinds, v \in Value : Holds(chain, q, 0, c, k, v) => chain[c][k] = v
    BY DEF Holds
  <2>2. 0 \in 0 .. Len(q) /\ Len(t) >= Len(q) - 0
    BY <1>1, <1>2
  <2>3. \A i \in 1 .. Len(q) - 0 : t[i] = q[i + 0]
    BY <1>1, <1>2
  <2> QED
    BY <2>1, <2>2, <2>3 DEF Becomes
<1>4. ASSUME NEW i \in New(q, 0, t) PROVE \E j \in DOMAIN r : t[i] = r[j]
  <2>1. i \in 1 .. Len(q) + Len(r) /\ ~(i <= Len(q)) /\ i - Len(q) \in 1 .. Len(r)
    BY <1>1, <1>2 DEF New
  <2> QED
    BY <1>1, <1>2, <2>1
<1>5. ASSUME NEW j \in DOMAIN r PROVE \E i \in New(q, 0, t) : t[i] = r[j]
  <2>1. /\ Len(q) + j \in 1 .. Len(q) + Len(r) /\ ~(Len(q) + j <= Len(q))
        /\ Len(q) + j \in New(q, 0, t) /\ (Len(q) + j) - Len(q) = j
    BY <1>1, <1>2 DEF New
  <2> QED
    BY <1>2, <2>1
<1> QED
  BY <1>2, <1>3, <1>4, <1>5 DEF t

(* A read leaves the keychain alone.                                       *)
LEMMA Reads ==
  ASSUME NEW chain, NEW q \in Seq(JobSet), q # <<>>, q[1].op = "read", NEW r \in Seq(JobSet),
         NEW t, t = Tail(q) \o r
  PROVE  /\ t \in Seq(JobSet) /\ Becomes(chain, q, 1, chain, t)
         /\ Len(t) = Len(q) - 1 + Len(r)
         /\ Tail(q) \in Seq(JobSet) /\ Len(Tail(q)) = Len(q) - 1
         /\ \A i \in 1 .. Len(q) - 1 : Tail(q)[i] = q[i + 1]
         /\ \A i \in New(q, 1, t) : \E j \in DOMAIN r : t[i] = r[j]
<1>1. /\ Tail(q) \in Seq(JobSet) /\ Len(Tail(q)) = Len(q) - 1 /\ Len(q) \in Nat \ {0}
      /\ \A i \in 1 .. Len(q) - 1 : Tail(q)[i] = q[i + 1]
  OBVIOUS
<1> DEFINE u == Tail(q)
<1>2. /\ u \in Seq(JobSet) /\ Len(u) = Len(q) - 1
      /\ \A i \in 1 .. Len(q) - 1 : u[i] = q[i + 1]
      /\ t = u \o r
  BY <1>1
<1> HIDE DEF u
<1>3. /\ t \in Seq(JobSet) /\ Len(t) = Len(u) + Len(r) /\ Len(r) \in Nat /\ DOMAIN r = 1 .. Len(r)
      /\ \A i \in 1 .. Len(u) + Len(r) : t[i] = IF i <= Len(u) THEN u[i] ELSE r[i - Len(u)]
  BY <1>2
<1>4. Becomes(chain, q, 1, chain, t)
  <2>1. ASSUME NEW c \in Ids, NEW k \in SecretKinds, NEW v \in Value, Holds(chain, q, 1, c, k, v)
        PROVE  chain[c][k] = v
    <3>1. \A i \in 1 .. 1 : ~About(q[i], c, k)
      BY DEF About, Writes
    <3> QED
      BY <2>1, <3>1 DEF Holds
  <2>2. 1 \in 0 .. Len(q) /\ Len(t) >= Len(q) - 1
    BY <1>1, <1>2, <1>3
  <2>3. \A i \in 1 .. Len(q) - 1 : t[i] = q[i + 1]
    BY <1>1, <1>2, <1>3
  <2> QED
    BY <2>1, <2>2, <2>3 DEF Becomes
<1>5. ASSUME NEW i \in New(q, 1, t) PROVE \E j \in DOMAIN r : t[i] = r[j]
  <2>1. i \in 1 .. Len(u) + Len(r) /\ ~(i <= Len(u)) /\ i - Len(u) \in 1 .. Len(r)
    BY <1>1, <1>2, <1>3 DEF New
  <2> QED
    BY <1>3, <2>1
<1> QED
  BY <1>1, <1>2, <1>3, <1>4, <1>5

-----------------------------------------------------------------------------
(* What a step keeps of each part of the invariant.                        *)

(* The connections that are not there yet are not touched.                 *)
LEMMA StillUnborn ==
  ASSUME SecretsTyped, Unborn, jobs' \in Seq(JobSet), keychain' \in [Ids -> Chain],
         NEW n, Becomes(keychain, jobs, n, keychain', jobs'), unused' \subseteq unused,
         \A c \in unused' :
           /\ conns'[c] = conns[c] /\ sessions'[c] = sessions[c] /\ kept'[c] = kept[c]
           /\ \A i \in New(jobs, n, jobs') : ~Mentions(jobs'[i], c)
           /\ opening' # None => opening'.id # c
  PROVE  Unborn'
<1> SUFFICES ASSUME NEW c \in unused'
             PROVE  /\ conns'[c] = None /\ sessions'[c] = None
                    /\ keychain'[c] = NoSecrets /\ kept'[c] = NoSecrets
                    /\ \A i \in DOMAIN jobs' : ~Mentions(jobs'[i], c)
                    /\ opening' # None => opening'.id # c
  BY DEF Unborn
<1>1. /\ conns[c] = None /\ sessions[c] = None /\ keychain[c] = NoSecrets /\ kept[c] = NoSecrets
      /\ \A i \in DOMAIN jobs : ~Mentions(jobs[i], c)
      /\ c \in Ids /\ jobs \in Seq(JobSet)
  BY DEF Unborn, SecretsTyped
<1>2. \A i \in DOMAIN jobs' : ~Mentions(jobs'[i], c)
  <2>1. SUFFICES ASSUME NEW i \in DOMAIN jobs' PROVE ~Mentions(jobs'[i], c)
    OBVIOUS
  <2>2. \/ i + n \in DOMAIN jobs /\ jobs'[i] = jobs[i + n]
        \/ i \in New(jobs, n, jobs')
    BY <1>1, After
  <2> QED
    BY <1>1, <2>2
<1>3. keychain'[c] = NoSecrets
  <2>1. ASSUME NEW k \in SecretKinds PROVE keychain'[c][k] = None
    <3>1. n \in 0 .. Len(jobs)
      BY DEF Becomes
    <3>2. \A i \in 1 .. n : ~About(jobs[i], c, k)
      BY <1>1, <3>1 DEF About, Mentions
    <3>3. Holds(keychain, jobs, n, c, k, None)
      BY <1>1, <3>2, SomeSecrets DEF Holds
    <3> QED
      BY <1>1, <3>3, SomeSecrets DEF Becomes
  <2>2. keychain'[c] \in Chain
    BY <1>1
  <2> QED
    BY <2>1, <2>2 DEF Chain, NoSecrets
<1> QED
  BY <1>1, <1>2, <1>3

(* The jobs of a step are about one connection at most, and come to what   *)
(* the keychain is then meant to hold for it.                              *)
LEMMA StillPromised ==
  ASSUME SecretsTyped, Promised, jobs' \in Seq(JobSet), NEW n,
         Becomes(keychain, jobs, n, keychain', jobs'),
         \A i \in 1 .. n : jobs[i].op # "copy",
         NEW c \in Ids, \A d \in Ids \ {c} : kept'[d] = kept[d],
         \A i \in New(jobs, n, jobs') :
           /\ jobs'[i].op # "copy" /\ (jobs'[i].op \in Writes => jobs'[i].id = c)
           /\ jobs'[i].op \in Writes /\ kept'[c] # Unknown => jobs'[i].value = kept'[c][jobs'[i].kind],
         kept'[c] # Unknown => kept[c] # Unknown /\ kept'[c] \in Chain,
         kept'[c] # Unknown =>
           \/ kept'[c] = kept[c] /\ \A i \in New(jobs, n, jobs') : jobs'[i].op \notin Writes
           \/ /\ Uncopied(jobs, c)
              /\ \A k \in SecretKinds :
                   \/ kept'[c][k] = kept[c][k]
                   \/ \E i \in New(jobs, n, jobs') : About(jobs'[i], c, k)
  PROVE  Promised'
<1> SUFFICES ASSUME NEW d \in Ids, NEW k \in SecretKinds, kept'[d] # Unknown
             PROVE  Promise(keychain', jobs', d, k, kept'[d][k])
  BY DEF Promised
<1>1. jobs \in Seq(JobSet) /\ kept \in [Ids -> Chain \union {Unknown}]
  BY DEF SecretsTyped
<1>2. n \in 0 .. Len(jobs) /\ Len(jobs) \in Nat
  BY <1>1 DEF Becomes
<1>3. \A i \in 1 .. n : ~Copies(jobs[i], d, k)
  BY DEF Copies
<1>4. \A i \in New(jobs, n, jobs') : ~Copies(jobs'[i], d, k)
  BY DEF Copies
<1>5. CASE d # c \/ (kept'[c] = kept[c] /\ \A i \in New(jobs, n, jobs') : jobs'[i].op \notin Writes)
  <2>1. kept'[d] = kept[d]
    BY <1>5
  <2>2. kept[d][k] \in Value /\ Promise(keychain, jobs, d, k, kept[d][k])
    BY <1>1, <2>1 DEF Chain, Promised
  <2>3. \A i \in New(jobs, n, jobs') : ~About(jobs'[i], d, k)
    BY <1>5 DEF About
  <2> HIDE DEF Promise
  <2>4. Promise(keychain', jobs', d, k, kept[d][k])
    BY <1>1, <1>3, <1>4, <2>2, <2>3, PromiseKept
  <2> QED
    BY <2>1, <2>4
<1>6. CASE /\ d = c /\ Uncopied(jobs, c)
           /\ \/ kept'[c][k] = kept[c][k]
              \/ \E i \in New(jobs, n, jobs') : About(jobs'[i], c, k)
  <2>1. kept[c] # Unknown /\ kept'[c][k] \in Value /\ kept[c][k] \in Value
    BY <1>1, <1>6 DEF Chain
  <2>2. \A i \in DOMAIN jobs : ~Copies(jobs[i], c, k)
    BY <1>6 DEF Uncopied, Copies
  <2>3. Holds(keychain, jobs, Len(jobs), c, k, kept[c][k])
    BY <2>1, <2>2 DEF Promised, Promise
  <2>4. \A i \in New(jobs, n, jobs') : About(jobs'[i], c, k) => jobs'[i].value = kept'[c][k]
    BY <1>6 DEF About
  <2>5. Promise(keychain', jobs', c, k, kept'[c][k])
    BY <1>1, <1>4, <1>6, <2>1, <2>2, <2>3, <2>4, PromiseMade
  <2> QED
    BY <1>6, <2>5
<1> QED
  BY <1>5, <1>6

(* What is being read goes on fitting while nothing else is read.          *)
LEMMA StillFits ==
  ASSUME NEW chain, NEW chain2, NEW q \in Seq(JobSet), NEW q2 \in Seq(JobSet), NEW n,
         Becomes(chain, q, n, chain2, q2), NEW c \in Ids, NEW form, NEW secrets \in Chain,
         NEW gateway, ReadsFit(chain, q, c, form, secrets, gateway),
         \A i \in New(q, n, q2) : q2[i].op # "read"
  PROVE  ReadsFit(chain2, q2, c, form, secrets, gateway)
<1> SUFFICES ASSUME NEW i \in DOMAIN q2, q2[i].op = "read"
             PROVE  ReadFits(chain2, q2, i, c, form, secrets, gateway)
  BY DEF ReadsFit
<1>1. i + n \in DOMAIN q /\ i + n > n /\ q2[i] = q[i + n] /\ i \in 1 .. Len(q) - n
  BY After
<1>2. ReadFits(chain, q, i + n, c, form, secrets, gateway)
  BY <1>1 DEF ReadsFit
<1>3. n \in 0 .. Len(q) /\ Len(q) \in Nat
  BY DEF Becomes
<1>4. i + n \in n .. Len(q) /\ (i + n) - n = i
  BY <1>1, <1>3
<1>5. \A k \in SecretKinds : secrets[k] \in Value
  BY DEF Chain
<1>6. \A k \in SecretKinds :
        Holds(chain, q, i + n, c, k, secrets[k]) => Holds(chain2, q2, i, c, k, secrets[k])
  BY <1>4, <1>5, LeftOver
<1> QED
  BY <1>1, <1>2, <1>6, KindFacts DEF ReadFits

LEMMA StillOpening ==
  ASSUME SecretsTyped, OneRead, OpeningFits, jobs' \in Seq(JobSet), NEW n,
         Becomes(keychain, jobs, n, keychain', jobs'),
         opening' = opening, overtaken \subseteq overtaken',
         \A i \in New(jobs, n, jobs') :
           /\ jobs'[i].op # "read"
           /\ opening # None /\ jobs'[i].op = "copy" => jobs'[i].value # opening.id,
         opening # None /\ opening.id \notin overtaken' /\ conns'[opening.id] # None =>
           /\ conns'[opening.id] = conns[opening.id]
           /\ kept'[opening.id] \in {kept[opening.id], Unknown}
  PROVE  OneRead' /\ OpeningFits'
<1>1. jobs \in Seq(JobSet) /\ kept \in [Ids -> Chain \union {Unknown}]
      /\ (opening # None => opening.id \in Ids) /\ Len(jobs) \in Nat /\ Len(jobs') \in Nat
      /\ n \in 0 .. Len(jobs)
  BY DEF SecretsTyped, Becomes
<1>2. \A i \in DOMAIN jobs' : jobs'[i].op = "read" =>
        i + n \in DOMAIN jobs /\ jobs'[i] = jobs[i + n] /\ i \in Nat
  BY <1>1, After
<1>3. OneRead'
  <2>1. \A i \in DOMAIN jobs' : jobs'[i].op = "read" =>
          opening' # None /\ ~opening'.prompt /\ jobs'[i].id = opening'.id
    BY <1>2 DEF OneRead
  <2>2. ASSUME NEW i \in DOMAIN jobs', NEW j \in DOMAIN jobs', jobs'[i].op = "read", jobs'[j].op = "read"
        PROVE  i = j
    <3>1. i + n = j + n /\ i \in Nat /\ j \in Nat
      BY <1>2, <2>2 DEF OneRead
    <3> QED
      BY <1>1, <3>1
  <2> QED
    BY <2>1, <2>2 DEF OneRead
<1>4. OpeningFits'
  <2> SUFFICES ASSUME opening # None, opening.id \notin overtaken', conns'[opening.id] # None,
                      kept'[opening.id] # Unknown
               PROVE  /\ Uncopied(jobs', opening.id)
                      /\ ReadsFit(keychain', jobs', opening.id, conns'[opening.id],
                                  kept'[opening.id], opening.gateway)
    BY DEF OpeningFits
  <2> DEFINE c == opening.id
  <2>1. c \in Ids /\ conns'[c] = conns[c] /\ kept'[c] = kept[c] /\ kept[c] \in Chain
    BY <1>1
  <2>2. Uncopied(jobs, c) /\ ReadsFit(keychain, jobs, c, conns[c], kept[c], opening.gateway)
    BY <2>1 DEF OpeningFits
  <2>3. Uncopied(jobs', c)
    BY <1>1, <2>2, After DEF Uncopied
  <2>4. ReadsFit(keychain', jobs', c, conns[c], kept[c], opening.gateway)
    BY <1>1, <2>1, <2>2, StillFits
  <2> QED
    BY <2>1, <2>3, <2>4
<1> QED
  BY <1>3, <1>4

-----------------------------------------------------------------------------
(* A connection is opened: the queue gets one read at most.                *)

Asks(queue, c, form, known) ==
  /\ jobs' \in Seq(JobSet) /\ Len(jobs') >= Len(queue)
  /\ \A i \in 1 .. Len(queue) : jobs'[i] = queue[i]
  /\ \A i \in Len(queue) + 1 .. Len(jobs') :
       jobs'[i].op = "read" /\ jobs'[i].id = c /\ jobs'[i].value = None
  /\ opening' \in [id : Ids, gateway : Value, prompt : BOOLEAN]
  /\ opening' # None /\ opening'.id = c
  /\ \A i \in DOMAIN jobs' : jobs'[i].op = "read" =>
       /\ i = Len(jobs') /\ ~opening'.prompt /\ jobs'[i].id = c
       /\ \/ UsesGateway(form) /\ jobs'[i].kind = GatewayKind(form)
          \/ /\ jobs'[i].kind = TargetKind(form)
             /\ UsesGateway(form) => opening'.gateway \in known

LEMMA OneMore ==
  ASSUME NEW q \in Seq(JobSet), NEW job \in JobSet
  PROVE  /\ q \o <<job>> \in Seq(JobSet) /\ Len(q \o <<job>>) = Len(q) + 1
         /\ \A i \in 1 .. Len(q) : (q \o <<job>>)[i] = q[i]
         /\ (q \o <<job>>)[Len(q) + 1] = job
OBVIOUS

LEMMA AsksTarget ==
  ASSUME NEW queue \in Seq(JobSet), \A i \in DOMAIN queue : queue[i].op # "read",
         NEW c \in Ids, NEW form \in Forms, NEW gateway \in Value,
         ReadTarget(c, form, gateway, queue)
  PROVE  Asks(queue, c, form, {gateway})
<1> DEFINE ask == form.auth = "password" /\ ~form.save
           job == Job("read", c, TargetKind(form), None)
<1>1. opening' = Opening(c, gateway, ask) /\ jobs' = IF ask THEN queue ELSE queue \o <<job>>
  BY DEF ReadTarget, ReadSecret
<1>2. /\ opening' \in [id : Ids, gateway : Value, prompt : BOOLEAN] /\ opening' # None
      /\ opening'.id = c /\ opening'.gateway = gateway /\ opening'.prompt = ask
  <2>1. ask \in BOOLEAN
    OBVIOUS
  <2> HIDE DEF ask
  <2>2. opening' # None
    BY <1>1, Records
  <2> QED
    BY <1>1, <2>1, <2>2 DEF Opening
<1>3. job \in JobSet /\ job.op = "read" /\ job.id = c /\ job.value = None /\ job.kind = TargetKind(form)
  <2>1. TargetKind(form) \in SecretKinds
    BY KindFacts
  <2> QED
    BY <2>1, JobTypes DEF Job
<1> HIDE DEF ask, job
<1>4. Len(queue) \in Nat /\ DOMAIN queue = 1 .. Len(queue)
  OBVIOUS
<1>5. CASE ask
  <2>1. jobs' = queue
    BY <1>1, <1>5
  <2>2. /\ jobs' \in Seq(JobSet) /\ Len(jobs') >= Len(queue)
        /\ \A i \in 1 .. Len(queue) : jobs'[i] = queue[i]
        /\ Len(queue) + 1 .. Len(jobs') = {}
        /\ \A i \in DOMAIN jobs' : jobs'[i].op # "read"
    BY <1>4, <2>1
  <2> QED
    BY <1>2, <2>2 DEF Asks
<1>6. CASE ~ask
  <2>1. /\ jobs' \in Seq(JobSet) /\ Len(jobs') = Len(queue) + 1
        /\ \A i \in 1 .. Len(queue) : jobs'[i] = queue[i]
        /\ jobs'[Len(queue) + 1] = job
    BY <1>1, <1>3, <1>6, OneMore
  <2>2. DOMAIN jobs' = 1 .. Len(queue) + 1
    BY <2>1
  <2>3. \A i \in DOMAIN jobs' : jobs'[i].op = "read" => i = Len(jobs') /\ jobs'[i] = job
    BY <1>4, <2>1, <2>2
  <2>4. \A i \in Len(queue) + 1 .. Len(jobs') : jobs'[i] = job
    BY <1>4, <2>1
  <2> QED
    BY <1>2, <1>3, <1>4, <1>6, <2>1, <2>3, <2>4 DEF Asks
<1> QED
  BY <1>5, <1>6

LEMMA Opens ==
  ASSUME NEW queue \in Seq(JobSet), \A i \in DOMAIN queue : queue[i].op # "read",
         NEW c \in Ids, NEW form \in Forms, OpenConnection(c, form, queue)
  PROVE  Asks(queue, c, form, {})
<1>1. CASE ~UsesGateway(form)
  <2>1. ReadTarget(c, form, None, queue)
    BY <1>1 DEF OpenConnection
  <2>2. Asks(queue, c, form, {None})
    BY <2>1, SomeSecrets, AsksTarget
  <2> QED
    BY <1>1, <2>2 DEF Asks
<1>2. CASE UsesGateway(form)
  <2> DEFINE job == Job("read", c, GatewayKind(form), None)
  <2>1. opening' = Opening(c, None, FALSE) /\ jobs' = queue \o <<job>>
    BY <1>2 DEF OpenConnection, ReadSecret
  <2>2. /\ opening' \in [id : Ids, gateway : Value, prompt : BOOLEAN] /\ opening' # None
        /\ opening'.id = c /\ opening'.prompt = FALSE
    <3>1. opening' # None
      BY <2>1, Records
    <3> QED
      BY <2>1, <3>1, SomeSecrets DEF Opening
  <2>3. job \in JobSet /\ job.op = "read" /\ job.id = c /\ job.value = None /\ job.kind = GatewayKind(form)
    <3>1. GatewayKind(form) \in SecretKinds
      BY KindFacts
    <3> QED
      BY <3>1, JobTypes DEF Job
  <2> HIDE DEF job
  <2>4. Len(queue) \in Nat /\ DOMAIN queue = 1 .. Len(queue)
    OBVIOUS
  <2>5. /\ jobs' \in Seq(JobSet) /\ Len(jobs') = Len(queue) + 1
        /\ \A i \in 1 .. Len(queue) : jobs'[i] = queue[i]
        /\ jobs'[Len(queue) + 1] = job
    BY <2>1, <2>3, OneMore
  <2>6. DOMAIN jobs' = 1 .. Len(queue) + 1
    BY <2>5
  <2>7. \A i \in DOMAIN jobs' : jobs'[i].op = "read" => i = Len(jobs') /\ jobs'[i] = job
    BY <2>4, <2>5, <2>6
  <2>8. \A i \in Len(queue) + 1 .. Len(jobs') : jobs'[i] = job
    BY <2>4, <2>5
  <2> QED
    BY <1>2, <2>2, <2>3, <2>4, <2>5, <2>7, <2>8 DEF Asks
<1> QED
  BY <1>1, <1>2

(* What is asked goes behind what a step has put at the end.               *)
LEMMA Longer ==
  ASSUME NEW chain, NEW chain2, NEW q \in Seq(JobSet), NEW r \in Seq(JobSet),
         NEW n, Becomes(chain, q, n, chain2, r),
         NEW c, NEW form, NEW known, Asks(r, c, form, known)
  PROVE  /\ Becomes(chain, q, n, chain2, jobs')
         /\ \A i \in New(q, n, jobs') :
              \/ i \in New(q, n, r) /\ jobs'[i] = r[i]
              \/ jobs'[i].op = "read" /\ jobs'[i].id = c /\ jobs'[i].value = None
         /\ \A i \in New(q, n, r) : i \in New(q, n, jobs') /\ jobs'[i] = r[i]
<1>1. /\ n \in 0 .. Len(q) /\ Len(r) >= Len(q) - n /\ Len(q) \in Nat /\ Len(r) \in Nat
      /\ Len(jobs') \in Nat /\ Len(jobs') >= Len(r)
      /\ \A i \in 1 .. Len(r) : jobs'[i] = r[i]
  BY DEF Becomes, Asks
<1>2. \A i \in 1 .. Len(q) - n : i \in 1 .. Len(r)
  BY <1>1
<1>3. Becomes(chain, q, n, chain2, jobs')
  <2>1. Len(jobs') >= Len(q) - n
    BY <1>1
  <2> QED
    BY <1>1, <1>2, <2>1 DEF Becomes
<1>4. ASSUME NEW i \in New(q, n, jobs')
      PROVE  \/ i \in New(q, n, r) /\ jobs'[i] = r[i]
             \/ jobs'[i].op = "read" /\ jobs'[i].id = c /\ jobs'[i].value = None
  <2>1. i \in Len(q) - n + 1 .. Len(jobs') /\ Len(q) - n \in Nat
    BY <1>1 DEF New
  <2>2. CASE i <= Len(r)
    BY <1>1, <2>1, <2>2 DEF New
  <2>3. CASE ~(i <= Len(r))
    <3>1. i \in Len(r) + 1 .. Len(jobs')
      BY <1>1, <2>1, <2>3
    <3> QED
      BY <3>1 DEF Asks
  <2> QED
    BY <2>2, <2>3
<1>5. \A i \in New(q, n, r) : i \in New(q, n, jobs') /\ jobs'[i] = r[i]
  BY <1>1 DEF New
<1> QED
  BY <1>3, <1>4, <1>5

LEMMA OnlyAsked ==
  ASSUME NEW chain, NEW q \in Seq(JobSet), NEW r \in Seq(JobSet), NEW n,
         Becomes(chain, q, n, chain, r), Len(r) = Len(q) - n,
         NEW c, NEW form, NEW known, Asks(r, c, form, known)
  PROVE  /\ Becomes(chain, q, n, chain, jobs')
         /\ \A i \in New(q, n, jobs') :
              jobs'[i].op = "read" /\ jobs'[i].id = c /\ jobs'[i].value = None
<1>1. Becomes(chain, q, n, chain, jobs')
  BY Longer
<1>2. New(q, n, jobs') = Len(r) + 1 .. Len(jobs')
  BY DEF New
<1>3. \A i \in New(q, n, jobs') :
        jobs'[i].op = "read" /\ jobs'[i].id = c /\ jobs'[i].value = None
  BY <1>2 DEF Asks
<1> QED
  BY <1>1, <1>3

LEMMA OpeningMade ==
  ASSUME SecretsTyped', Promised', NEW queue \in Seq(JobSet), NEW c \in Ids, NEW form \in Forms,
         NEW known, Asks(queue, c, form, known),
         c \notin overtaken' /\ conns'[c] # None /\ kept'[c] # Unknown =>
           /\ conns'[c] = form /\ Uncopied(jobs', c)
           /\ \A g \in known : UsesGateway(form) => kept'[c][GatewayKind(form)] \in {None, g}
  PROVE  OneRead' /\ OpeningFits'
<1>1. OneRead'
  BY DEF Asks, OneRead
<1>2. OpeningFits'
  <2> SUFFICES ASSUME c \notin overtaken', conns'[c] # None, kept'[c] # Unknown
               PROVE  /\ Uncopied(jobs', c)
                      /\ ReadsFit(keychain', jobs', c, form, kept'[c], opening'.gateway)
    BY DEF Asks, OpeningFits
  <2> SUFFICES ASSUME NEW i \in DOMAIN jobs', jobs'[i].op = "read"
               PROVE  ReadFits(keychain', jobs', i, c, form, kept'[c], opening'.gateway)
    BY DEF ReadsFit
  <2>1. /\ i = Len(jobs')
        /\ \/ UsesGateway(form) /\ jobs'[i].kind = GatewayKind(form)
           \/ /\ jobs'[i].kind = TargetKind(form)
              /\ UsesGateway(form) => opening'.gateway \in known
    BY DEF Asks
  <2>2. ASSUME NEW k \in SecretKinds PROVE Holds(keychain', jobs', i, c, k, kept'[c][k])
    <3>1. Promise(keychain', jobs', c, k, kept'[c][k])
      BY DEF Promised
    <3>2. \A j \in DOMAIN jobs' : ~Copies(jobs'[j], c, k)
      BY DEF Uncopied, Copies
    <3> QED
      BY <2>1, <3>1, <3>2 DEF Promise
  <2> QED
    BY <2>1, <2>2, KindFacts DEF ReadFits
<1> QED
  BY <1>1, <1>2

-----------------------------------------------------------------------------
(* A read is finished.                                                     *)

LEMMA ReadStarts ==
  ASSUME ConnectionsIInv, NEW c \in Ids, ReadDone(c)
  PROVE  /\ jobs \in Seq(JobSet) /\ jobs # <<>> /\ Head(jobs) = jobs[1] /\ 1 \in DOMAIN jobs
         /\ jobs[1].op = "read" /\ jobs[1].kind \in SecretKinds
         /\ opening # None /\ opening.id = c /\ ~opening.prompt /\ c \notin unused
         /\ keychain[c][jobs[1].kind] \in Value /\ opening.gateway \in Value
         /\ Tail(jobs) \in Seq(JobSet) /\ Becomes(keychain, jobs, 1, keychain, Tail(jobs))
         /\ New(jobs, 1, Tail(jobs)) = {} /\ Len(Tail(jobs)) = Len(jobs) - 1
         /\ \A i \in DOMAIN Tail(jobs) : Tail(jobs)[i].op # "read"
         /\ Uncopied(jobs, c) => Uncopied(Tail(jobs), c)
<1>1. /\ jobs \in Seq(JobSet) /\ jobs # <<>> /\ Head(jobs) = jobs[1] /\ 1 \in DOMAIN jobs
      /\ jobs[1].op = "read" /\ jobs[1].id = c /\ Len(jobs) \in Nat \ {0}
  BY DEF ReadDone, JobDone, ConnectionsIInv, SecretsTyped
<1>2. jobs[1] \in JobSet
  BY <1>1
<1>3. jobs[1].kind \in SecretKinds
  BY <1>2 DEF JobSet
<1>4. opening # None /\ opening.id = c /\ ~opening.prompt
  BY <1>1 DEF ConnectionsIInv, OneRead
<1>5. c \notin unused
  BY <1>4 DEF ConnectionsIInv, Unborn
<1>6. keychain[c][jobs[1].kind] \in Value /\ opening.gateway \in Value
  BY <1>3, <1>4 DEF ConnectionsIInv, SecretsTyped, Chain
<1> DEFINE t == Tail(jobs)
<1>7. t = t \o <<>> /\ <<>> \in Seq(JobSet)
  BY <1>1
<1>8. /\ t \in Seq(JobSet) /\ Becomes(keychain, jobs, 1, keychain, t)
      /\ Len(t) = Len(jobs) - 1 /\ \A i \in 1 .. Len(jobs) - 1 : t[i] = jobs[i + 1]
  <2>1. Len(<<>>) = 0
    OBVIOUS
  <2> QED
    BY <1>1, <1>7, <2>1, Reads
<1> HIDE DEF t
<1>9. New(jobs, 1, t) = {}
  BY <1>1, <1>8 DEF New
<1>10. \A i \in DOMAIN t : t[i] = jobs[i + 1] /\ i + 1 \in DOMAIN jobs /\ i + 1 # 1
  BY <1>1, <1>8
<1>11. \A i \in DOMAIN t : t[i].op # "read"
  BY <1>1, <1>10 DEF ConnectionsIInv, OneRead
<1>12. Uncopied(jobs, c) => Uncopied(t, c)
  BY <1>10 DEF Uncopied
<1> QED
  BY <1>1, <1>3, <1>4, <1>5, <1>6, <1>8, <1>9, <1>11, <1>12 DEF t

(* What is read is what the keychain is meant to hold.                     *)
LEMMA ReadIsKept ==
  ASSUME ConnectionsIInv, NEW c \in Ids, ReadDone(c),
         c \notin overtaken, conns[c] # None, kept[c] # Unknown
  PROVE  LET k == jobs[1].kind
         IN  /\ Uncopied(jobs, c)
             /\ k \in {"gatewayPassword", "gatewayPassphrase"} =>
                  /\ k = GatewayKind(conns[c]) /\ keychain[c][k] = kept[c][k]
             /\ k \in {"password", "passphrase"} =>
                  /\ k = TargetKind(conns[c]) /\ keychain[c][k] = kept[c][k]
                  /\ UsesGateway(conns[c]) =>
                       kept[c][GatewayKind(conns[c])] \in {None, opening.gateway}
<1> DEFINE k == jobs[1].kind
           form == conns[c]
<1>1. /\ opening # None /\ opening.id = c /\ 1 \in DOMAIN jobs /\ jobs[1].op = "read"
      /\ k \in SecretKinds
  BY ReadStarts
<1>2. Uncopied(jobs, c) /\ ReadsFit(keychain, jobs, c, form, kept[c], opening.gateway)
  BY <1>1 DEF ConnectionsIInv, OpeningFits
<1>3. ReadFits(keychain, jobs, 1, c, form, kept[c], opening.gateway)
  BY <1>1, <1>2 DEF ReadsFit
<1>4. ASSUME Holds(keychain, jobs, 1, c, k, kept[c][k]) PROVE keychain[c][k] = kept[c][k]
  <2>1. \A i \in 1 .. 1 : ~About(jobs[i], c, k)
    BY <1>1 DEF About, Writes
  <2> QED
    BY <1>4, <2>1 DEF Holds
<1> QED
  BY <1>1, <1>2, <1>3, <1>4, KindFacts DEF ReadFits

-----------------------------------------------------------------------------
(* Steps that leave the connections, the keychain and its jobs alone.      *)

LEMMA Nothing ==
  ASSUME NEW chain, NEW q \in Seq(JobSet)
  PROVE  Becomes(chain, q, 0, chain, q) /\ New(q, 0, q) = {}
<1>1. \A c \in Ids, k \in SecretKinds, v \in Value : Holds(chain, q, 0, c, k, v) => chain[c][k] = v
  BY DEF Holds
<1>2. Len(q) \in Nat /\ New(q, 0, q) = {}
  BY DEF New
<1> QED
  BY <1>1, <1>2 DEF Becomes

LEMMA JobsAlone ==
  ASSUME ConnectionsIInv, SecretsTyped', SessionsFollow',
         UNCHANGED <<conns, unused, keychain, jobs, kept>>, overtaken \subseteq overtaken',
         \/ opening' = opening
         \/ opening # None /\ opening.prompt /\ opening' = None,
         \A c \in unused : sessions'[c] = sessions[c]
  PROVE  ConnectionsIInv'
<1>1. /\ Promised /\ Unborn /\ KeptFits /\ OneRead /\ OpeningFits /\ SecretsTyped
      /\ jobs \in Seq(JobSet) /\ keychain \in [Ids -> Chain]
  BY DEF ConnectionsIInv, SecretsTyped
<1>2. Promised' /\ KeptFits'
  BY <1>1 DEF Promised, KeptFits
<1>3. Becomes(keychain, jobs, 0, keychain', jobs') /\ New(jobs, 0, jobs') = {}
  BY <1>1, Nothing
<1>4. Unborn'
  <2>1. opening' # None => opening' = opening
    OBVIOUS
  <2>2. \A c \in unused' : opening' # None => opening'.id # c
    BY <1>1, <2>1 DEF Unborn
  <2> QED
    BY <1>1, <1>3, <2>2, StillUnborn
<1>5. OneRead' /\ OpeningFits'
  <2>1. CASE opening' = opening
    BY <1>1, <1>3, <2>1, StillOpening
  <2>2. CASE opening # None /\ opening.prompt /\ opening' = None
    BY <1>1, <2>2 DEF OneRead, OpeningFits
  <2> QED
    BY <2>1, <2>2
<1> QED
  BY <1>2, <1>4, <1>5 DEF ConnectionsIInv

LEMMA LoadKeeps ==
  ASSUME ConnectionsIInv, NEW e \in Editors, NEW c \in Ids, Load(e, c)
  PROVE  ConnectionsIInv'
<1>1. conns[c] \in Forms /\ conns[c].save \in BOOLEAN
  BY FormsAssumption DEF Load, ConnectionsIInv, SecretsTyped
<1>2. Loaded(c, conns[c]) \in [id : Ids, before : Forms, initialSave : BOOLEAN, fields : Chain]
  BY <1>1, SomeSecrets DEF Loaded
<1>3. SecretsTyped'
  BY <1>2 DEF Load, seen, ConnectionsIInv, SecretsTyped
<1> QED
  BY <1>3, JobsAlone DEF Load, seen, ConnectionsIInv, SessionsFollow

LEMMA EditorLeft ==
  ASSUME ConnectionsIInv, NEW e \in Editors, Leave(e) \/ SaveFails(e)
  PROVE  ConnectionsIInv'
<1>1. /\ editors' = [editors EXCEPT ![e] = None]
      /\ UNCHANGED <<conns, unused, keychain, jobs, sessions, opening, changes, seen>>
  BY DEF Leave, SaveFails
<1>2. SecretsTyped'
  BY <1>1 DEF seen, ConnectionsIInv, SecretsTyped
<1> QED
  BY <1>1, <1>2, JobsAlone DEF seen, ConnectionsIInv, SessionsFollow

LEMMA CloseSessionKeeps ==
  ASSUME ConnectionsIInv, NEW c \in Ids, CloseSession(c)
  PROVE  ConnectionsIInv'
<1>1. SecretsTyped'
  BY DEF CloseSession, seen, ConnectionsIInv, SecretsTyped
<1>2. /\ sessions \in [Ids -> [target : Value, gateway : Value] \union {None}]
      /\ sessions' = [sessions EXCEPT ![c] = None]
  BY DEF CloseSession, ConnectionsIInv, SecretsTyped
<1>3. SessionsFollow'
  BY <1>2 DEF CloseSession, seen, ConnectionsIInv, SessionsFollow
<1>4. \A d \in unused : sessions'[d] = sessions[d]
  BY <1>2 DEF ConnectionsIInv, Unborn, SecretsTyped
<1> QED
  BY <1>1, <1>3, <1>4, JobsAlone DEF CloseSession, seen

LEMMA PromptCancelledKeeps ==
  ASSUME ConnectionsIInv, PromptCancelled
  PROVE  ConnectionsIInv'
<1>1. SecretsTyped'
  BY DEF PromptCancelled, seen, ConnectionsIInv, SecretsTyped
<1>2. SessionsFollow'
  BY DEF PromptCancelled, seen, ConnectionsIInv, SessionsFollow
<1> QED
  BY <1>1, <1>2, JobsAlone DEF PromptCancelled, Prompting, seen

LEMMA PromptAnsweredKeeps ==
  ASSUME ConnectionsIInv, PromptAnswered
  PROVE  ConnectionsIInv'
<1> DEFINE c == opening.id
           v == <<"password", changes'>>
<1>1. opening # None /\ opening.prompt /\ c \in Ids /\ opening.gateway \in Value
      /\ c \notin unused
  BY DEF PromptAnswered, Prompting, ConnectionsIInv, SecretsTyped, Unborn
<1>2. changes' \in Nat /\ v \in Value
  BY DEF PromptAnswered, Change, ConnectionsIInv, SecretsTyped, Value, SecretKinds
<1>3. /\ sessions \in [Ids -> [target : Value, gateway : Value] \union {None}]
      /\ sessions' = [sessions EXCEPT ![c] = [target |-> v, gateway |-> opening.gateway]]
  BY DEF PromptAnswered, FinishConnect, ConnectionsIInv, SecretsTyped
<1> HIDE DEF c, v
<1>4. sessions' \in [Ids -> [target : Value, gateway : Value] \union {None}]
      /\ \A d \in Ids \ {c} : sessions'[d] = sessions[d]
  BY <1>1, <1>2, <1>3
<1>5. SecretsTyped'
  BY <1>2, <1>4 DEF PromptAnswered, ConnectionsIInv, SecretsTyped
<1>6. /\ UNCHANGED <<conns, unused, keychain, jobs, kept>> /\ overtaken' = overtaken \union {c}
      /\ opening' = None /\ unused \subseteq Ids
  BY DEF PromptAnswered, ConnectionsIInv, SecretsTyped, c
<1>7. SessionsFollow'
  BY <1>4, <1>6 DEF ConnectionsIInv, SessionsFollow
<1> QED
  BY <1>1, <1>4, <1>5, <1>6, <1>7, JobsAlone

-----------------------------------------------------------------------------
(* The keychain's jobs are done.                                           *)

LEMMA ResultTypes ==
  ASSUME NEW chain \in [Ids -> Chain], NEW q \in Seq(JobSet)
  PROVE  Result(chain, q) \in [Ids -> Chain]
<1> DEFINE at(c, k) == {i \in DOMAIN q : q[i].op \in Writes /\ q[i].id = c /\ q[i].kind = k}
           last(c, k) == CHOOSE i \in at(c, k) : \A j \in at(c, k) : j <= i
           value(c, k) == IF at(c, k) = {} THEN chain[c][k] ELSE q[last(c, k)].value
<1>1. ASSUME NEW c \in Ids, NEW k \in SecretKinds PROVE value(c, k) \in Value
  <2>1. CASE at(c, k) = {}
    BY <2>1 DEF Chain
  <2>2. CASE at(c, k) # {}
    <3>1. at(c, k) \subseteq 1 .. Len(q) /\ Len(q) \in Nat
      OBVIOUS
    <3>2. \E i \in at(c, k) : \A j \in at(c, k) : j <= i
      BY <2>2, <3>1, LastOne
    <3>3. last(c, k) \in at(c, k)
      BY <3>2
    <3>4. \A i \in at(c, k) : q[i].value \in Value
      <4>1. SUFFICES ASSUME NEW i \in DOMAIN q, q[i].op \in Writes PROVE q[i].value \in Value
        OBVIOUS
      <4>2. q[i] \in JobSet
        OBVIOUS
      <4> QED
        BY <4>1, <4>2, SomeSecrets DEF JobSet, Writes
    <3> HIDE DEF at, last
    <3> QED
      BY <2>2, <3>3, <3>4
  <2> QED
    BY <2>1, <2>2
<1>2. Result(chain, q) = [c \in Ids |-> [k \in SecretKinds |-> value(c, k)]]
  BY DEF Result
<1> HIDE DEF value
<1> QED
  BY <1>1, <1>2 DEF Chain

LEMMA WritesDoneKeeps ==
  ASSUME ConnectionsIInv, WritesDone
  PROVE  ConnectionsIInv'
<1> DEFINE n == First(Writes)
<1>1. /\ SecretsTyped /\ Promised /\ Unborn /\ KeptFits /\ OneRead /\ OpeningFits /\ SessionsFollow
      /\ jobs \in Seq(JobSet) /\ keychain \in [Ids -> Chain]
  BY DEF ConnectionsIInv, SecretsTyped
<1>2. jobs # <<>> /\ Head(jobs).op \in Writes
  BY DEF WritesDone, JobDone, Writes
<1>3. /\ n \in 1 .. Len(jobs) /\ \A i \in 1 .. n : jobs[i].op \in Writes
      /\ jobs' \in Seq(JobSet) /\ Len(jobs') = Len(jobs) - n
      /\ \A i \in 1 .. Len(jobs) - n : jobs'[i] = jobs[n + i]
  BY <1>1, <1>2, FirstFacts DEF WritesDone
<1>4. /\ keychain' = Result(keychain, SubSeq(jobs, 1, n))
      /\ UNCHANGED <<conns, unused, editors, sessions, opening, changes, kept, overtaken>>
  BY DEF WritesDone, seen
<1> HIDE DEF n
<1>5. Len(jobs) \in Nat /\ n \in 0 .. Len(jobs)
  BY <1>1, <1>3
<1>6. keychain' \in [Ids -> Chain]
  <2>1. \A i \in 1 .. n : jobs[i] \in JobSet
    BY <1>1, <1>3
  <2>2. SubSeq(jobs, 1, n) \in Seq(JobSet)
    BY <1>3, <2>1, SubSeqProperties
  <2> QED
    BY <1>1, <1>4, <2>2, ResultTypes
<1>7. Becomes(keychain, jobs, n, keychain', jobs') /\ New(jobs, n, jobs') = {}
  <2>1. \A c \in Ids, k \in SecretKinds, v \in Value :
          Holds(keychain, jobs, n, c, k, v) => keychain'[c][k] = v
    BY <1>1, <1>3, <1>4, ResultHolds
  <2>2. \A i \in 1 .. Len(jobs) - n : jobs'[i] = jobs[i + n]
    BY <1>3, <1>5
  <2>3. New(jobs, n, jobs') = {}
    BY <1>3, <1>5 DEF New
  <2> QED
    BY <1>3, <1>5, <2>1, <2>2, <2>3 DEF Becomes
<1>8. SecretsTyped'
  BY <1>1, <1>3, <1>4, <1>6 DEF SecretsTyped
<1>9. Promised'
  <2>1. \A i \in 1 .. n : jobs[i].op # "copy"
    BY <1>3 DEF Writes
  <2>2. jobs[1] \in JobSet
    BY <1>1, <1>3
  <2>3. PICK c \in Ids : TRUE
    BY <2>2 DEF JobSet
  <2>4. kept'[c] # Unknown => kept[c] # Unknown /\ kept'[c] \in Chain
    BY <1>1, <1>4 DEF SecretsTyped
  <2> QED
    BY <1>1, <1>3, <1>4, <1>7, <2>1, <2>4, StillPromised
<1>10. Unborn'
  BY <1>1, <1>3, <1>4, <1>6, <1>7, StillUnborn DEF Unborn
<1>11. OneRead' /\ OpeningFits'
  BY <1>1, <1>3, <1>4, <1>7, StillOpening
<1>12. KeptFits' /\ SessionsFollow'
  BY <1>1, <1>4 DEF KeptFits, SessionsFollow
<1> QED
  BY <1>8, <1>9, <1>10, <1>11, <1>12 DEF ConnectionsIInv

(* The copies that come first are read, and what is there is to be stored. *)
Stored(i, w) ==
  /\ w.op = "write" /\ w.id = jobs[i].value /\ w.kind = jobs[i].kind
  /\ w.value = keychain[jobs[i].id][jobs[i].kind] /\ w.value # None

LEMMA Copied ==
  ASSUME SecretsTyped, CopiesRead
  PROVE  LET n == First({"copy"})
         IN  /\ n \in 1 .. Len(jobs) /\ \A i \in 1 .. n : jobs[i].op = "copy"
             /\ jobs' \in Seq(JobSet)
             /\ Becomes(keychain, jobs, n, keychain, jobs')
             /\ \A m \in New(jobs, n, jobs') : \E i \in 1 .. n : Stored(i, jobs'[m])
             /\ \A i \in 1 .. n : keychain[jobs[i].id][jobs[i].kind] # None =>
                  \E m \in New(jobs, n, jobs') : Stored(i, jobs'[m])
<1> DEFINE n == First({"copy"})
           Read(j) == keychain[j.id][j.kind]
           at == {i \in 1 .. n : Read(jobs[i]) # None}
           found == Pick(jobs, at)
           w == [i \in DOMAIN found |-> Job("write", found[i].value, found[i].kind, Read(found[i]))]
           rest == Rest({"copy"})
<1>0. jobs \in Seq(JobSet)
  BY DEF SecretsTyped
<1>1. jobs \in Seq(JobSet) /\ jobs # <<>> /\ Head(jobs).op \in {"copy"} /\ keychain \in [Ids -> Chain]
  <2>1. JobDone("copy")
    BY Zenon DEF CopiesRead
  <2> QED
    BY <2>1 DEF JobDone, SecretsTyped
<1>2. jobs' = rest \o w
  BY Zenon DEF CopiesRead
<1>3. /\ n \in 1 .. Len(jobs) /\ \A i \in 1 .. n : jobs[i].op = "copy"
      /\ rest \in Seq(JobSet) /\ Len(rest) = Len(jobs) - n
      /\ \A i \in 1 .. Len(jobs) - n : rest[i] = jobs[n + i]
  BY <1>1, FirstFacts
<1> HIDE DEF n, rest
<1>4. Len(jobs) \in Nat /\ n \in 0 .. Len(jobs) /\ DOMAIN jobs = 1 .. Len(jobs)
  BY <1>1, <1>3
<1>5. ASSUME NEW i \in 1 .. n
      PROVE  /\ jobs[i] \in JobSet /\ jobs[i].id \in Ids /\ jobs[i].kind \in SecretKinds
             /\ jobs[i].value \in Ids /\ Read(jobs[i]) \in Value
  <2>1. jobs[i] \in JobSet /\ jobs[i].op = "copy"
    BY <1>1, <1>3, <1>4
  <2>2. jobs[i].id \in Ids /\ jobs[i].kind \in SecretKinds /\ jobs[i].value \in Ids
    BY <2>1 DEF JobSet
  <2> QED
    BY <1>1, <2>1, <2>2 DEF Chain
<1>6. at \subseteq DOMAIN jobs
  BY <1>3, <1>4
<1>7. /\ found \in Seq(JobSet) /\ DOMAIN found = 1 .. Len(found) /\ Len(found) \in Nat
      /\ \A m \in DOMAIN found : \E i \in at : found[m] = jobs[i]
      /\ \A i \in at : \E m \in DOMAIN found : found[m] = jobs[i]
  <2> HIDE DEF at
  <2> QED
    BY <1>0, <1>6, PickFacts
<1> HIDE DEF found
<1>8. ASSUME NEW m \in DOMAIN found, NEW i \in at, found[m] = jobs[i]
      PROVE  w[m] \in JobSet /\ Stored(i, w[m])
  <2>1. w[m] = Job("write", jobs[i].value, jobs[i].kind, Read(jobs[i])) /\ i \in 1 .. n
    BY <1>8
  <2> QED
    BY <1>5, <1>8, <2>1, JobTypes DEF Stored, Job
<1>9. /\ w \in Seq(JobSet) /\ Len(w) = Len(found) /\ DOMAIN w = DOMAIN found
      /\ \A m \in DOMAIN w : \E i \in 1 .. n : Stored(i, w[m])
      /\ \A i \in at : \E m \in DOMAIN w : Stored(i, w[m])
  <2>1. \A m \in DOMAIN found : w[m] \in JobSet /\ \E i \in 1 .. n : Stored(i, w[m])
    BY <1>7, <1>8
  <2>2. \A i \in at : \E m \in DOMAIN found : Stored(i, w[m])
    BY <1>7, <1>8
  <2>3. DOMAIN w = 1 .. Len(found)
    BY <1>7
  <2> HIDE DEF w
  <2>4. w \in [1 .. Len(found) -> JobSet]
    <3>1. w = [m \in DOMAIN found |-> w[m]]
      BY DEF w
    <3> QED
      BY <1>7, <2>1, <3>1
  <2>5. w \in Seq(JobSet) /\ Len(w) = Len(found)
    BY <1>7, <2>4
  <2> QED
    BY <1>7, <2>1, <2>2, <2>3, <2>5
<1> HIDE DEF w
<1>10. /\ jobs' \in Seq(JobSet) /\ Len(jobs') = Len(rest) + Len(w) /\ Len(w) \in Nat
       /\ \A i \in 1 .. Len(rest) + Len(w) : jobs'[i] = IF i <= Len(rest) THEN rest[i] ELSE w[i - Len(rest)]
  <2>1. rest \in Seq(JobSet) /\ w \in Seq(JobSet)
    BY <1>3, <1>9
  <2> QED
    BY <1>2, <2>1
<1>11. Becomes(keychain, jobs, n, keychain, jobs')
  <2>1. ASSUME NEW c \in Ids, NEW k \in SecretKinds, NEW v \in Value, Holds(keychain, jobs, n, c, k, v)
        PROVE  keychain[c][k] = v
    <3>1. \A i \in 1 .. n : ~About(jobs[i], c, k)
      BY <1>3 DEF About, Writes
    <3> QED
      BY <2>1, <3>1 DEF Holds
  <2>2. Len(jobs') >= Len(jobs) - n
    BY <1>3, <1>4, <1>10
  <2>3. \A i \in 1 .. Len(jobs) - n : jobs'[i] = jobs[i + n]
    <3> SUFFICES ASSUME NEW i \in 1 .. Len(jobs) - n PROVE jobs'[i] = jobs[i + n]
      OBVIOUS
    <3>1. rest[i] = jobs[n + i] /\ i \in 1 .. Len(rest) /\ Len(rest) \in Nat
      BY <1>3, <1>4
    <3>2. i \in 1 .. Len(rest) + Len(w) /\ i <= Len(rest) /\ n + i = i + n
      BY <1>4, <1>10, <3>1
    <3> QED
      BY <1>10, <3>1, <3>2
  <2> QED
    BY <1>4, <2>1, <2>2, <2>3 DEF Becomes
<1>12. \A m \in New(jobs, n, jobs') : m - Len(rest) \in DOMAIN w /\ jobs'[m] = w[m - Len(rest)]
  <2> SUFFICES ASSUME NEW m \in New(jobs, n, jobs')
               PROVE  m - Len(rest) \in DOMAIN w /\ jobs'[m] = w[m - Len(rest)]
    OBVIOUS
  <2>1. m \in 1 .. Len(rest) + Len(w) /\ ~(m <= Len(rest)) /\ m - Len(rest) \in 1 .. Len(w)
    BY <1>3, <1>4, <1>10 DEF New
  <2> QED
    BY <1>7, <1>9, <1>10, <2>1
<1>13. \A l \in DOMAIN w : Len(rest) + l \in New(jobs, n, jobs') /\ jobs'[Len(rest) + l] = w[l]
  <2> SUFFICES ASSUME NEW l \in DOMAIN w
               PROVE  Len(rest) + l \in New(jobs, n, jobs') /\ jobs'[Len(rest) + l] = w[l]
    OBVIOUS
  <2>1. /\ l \in 1 .. Len(w) /\ Len(rest) + l \in 1 .. Len(rest) + Len(w)
        /\ ~(Len(rest) + l <= Len(rest)) /\ (Len(rest) + l) - Len(rest) = l
    BY <1>3, <1>4, <1>7, <1>9, <1>10
  <2>2. jobs'[Len(rest) + l] = w[l]
    BY <1>10, <2>1
  <2>3. Len(rest) + l \in Len(jobs) - n + 1 .. Len(jobs')
    BY <1>3, <1>4, <1>10, <2>1
  <2> QED
    BY <2>2, <2>3 DEF New
<1>14. \A m \in New(jobs, n, jobs') : \E i \in 1 .. n : Stored(i, jobs'[m])
  BY <1>9, <1>12
<1>15. \A i \in 1 .. n : Read(jobs[i]) # None => \E m \in New(jobs, n, jobs') : Stored(i, jobs'[m])
  BY <1>9, <1>13
<1> QED
  BY <1>3, <1>10, <1>11, <1>14, <1>15 DEF n

LEMMA CopiesReadKeeps ==
  ASSUME ConnectionsIInv, CopiesRead
  PROVE  ConnectionsIInv'
<1> DEFINE n == First({"copy"})
<1>1. /\ SecretsTyped /\ Promised /\ Unborn /\ KeptFits /\ OneRead /\ OpeningFits /\ SessionsFollow
      /\ jobs \in Seq(JobSet) /\ keychain \in [Ids -> Chain]
      /\ kept \in [Ids -> Chain \union {Unknown}]
  BY DEF ConnectionsIInv, SecretsTyped
<1>2. /\ n \in 1 .. Len(jobs) /\ \A i \in 1 .. n : jobs[i].op = "copy"
      /\ jobs' \in Seq(JobSet)
      /\ Becomes(keychain, jobs, n, keychain, jobs')
      /\ \A m \in New(jobs, n, jobs') : \E i \in 1 .. n : Stored(i, jobs'[m])
      /\ \A i \in 1 .. n : keychain[jobs[i].id][jobs[i].kind] # None =>
           \E m \in New(jobs, n, jobs') : Stored(i, jobs'[m])
  BY <1>1, Copied
<1>3. UNCHANGED <<conns, unused, keychain, editors, sessions, opening, changes, kept, overtaken>>
  BY Zenon DEF CopiesRead, seen
<1> HIDE DEF n
<1>4. Len(jobs) \in Nat /\ n \in 0 .. Len(jobs) /\ DOMAIN jobs = 1 .. Len(jobs) /\ Len(jobs') \in Nat
      /\ Len(jobs') >= Len(jobs) - n /\ n \in Nat
  BY <1>1, <1>2 DEF Becomes
<1>5. SecretsTyped'
  BY <1>1, <1>2, <1>3 DEF SecretsTyped
<1>6. Promised'
  <2> SUFFICES ASSUME NEW c \in Ids, NEW k \in SecretKinds, kept[c] # Unknown
               PROVE  Promise(keychain, jobs', c, k, kept[c][k])
    BY <1>3 DEF Promised
  <2> DEFINE v == kept[c][k]
  <2>1. v \in Value /\ Promise(keychain, jobs, c, k, v)
    BY <1>1 DEF Promised, Chain
  <2> HIDE DEF v
  <2>2. \A m \in New(jobs, n, jobs') : ~Copies(jobs'[m], c, k)
    BY <1>2 DEF Stored, Copies
  <2>3. \A m \in New(jobs, n, jobs') : \A i \in 1 .. n :
          Stored(i, jobs'[m]) /\ About(jobs'[m], c, k) => Copies(jobs[i], c, k)
    BY <1>2 DEF Stored, About, Copies
  <2>4. CASE \A i \in 1 .. n : ~Copies(jobs[i], c, k)
    <3>1. \A m \in New(jobs, n, jobs') : ~About(jobs'[m], c, k)
      BY <1>2, <2>3, <2>4
    <3> HIDE DEF Promise
    <3>2. Promise(keychain, jobs', c, k, v)
      BY <1>1, <1>2, <2>1, <2>2, <2>4, <3>1, PromiseKept
    <3> QED
      BY <3>2 DEF v
  <2>5. ASSUME NEW i \in 1 .. n, Copies(jobs[i], c, k)
        PROVE  Promise(keychain, jobs', c, k, v)
    <3>1. i \in DOMAIN jobs
      BY <1>4
    <3>2. /\ \A j \in DOMAIN jobs : Copies(jobs[j], c, k) => j = i
          /\ Holds(keychain, jobs, i, jobs[i].id, k, v)
          /\ Holds(keychain, jobs, Len(jobs), c, k, None)
      BY <2>1, <2>5, <3>1 DEF Promise
    <3>3. keychain[jobs[i].id][jobs[i].kind] = v
      <4>1. \A j \in 1 .. i : j \in 1 .. n
        BY <1>4
      <4>2. \A j \in 1 .. i : ~About(jobs[j], jobs[i].id, k)
        BY <1>2, <4>1 DEF About, Writes
      <4> QED
        BY <2>5, <3>2, <4>2 DEF Holds, Copies
    <3>4. \A m \in DOMAIN jobs' : ~Copies(jobs'[m], c, k)
      <4> SUFFICES ASSUME NEW m \in DOMAIN jobs', Copies(jobs'[m], c, k) PROVE FALSE
        OBVIOUS
      <4>1. m + n \in DOMAIN jobs /\ m + n > n /\ jobs'[m] = jobs[m + n]
        BY <1>1, <1>2, <2>2, After
      <4>2. m + n = i
        BY <3>2, <4>1
      <4> QED
        BY <1>4, <4>1, <4>2
    <3>5. \A m \in New(jobs, n, jobs') : About(jobs'[m], c, k) => jobs'[m].value = v /\ v # None
      <4> SUFFICES ASSUME NEW m \in New(jobs, n, jobs'), About(jobs'[m], c, k)
                   PROVE  jobs'[m].value = v /\ v # None
        OBVIOUS
      <4>1. PICK j \in 1 .. n : Stored(j, jobs'[m])
        BY <1>2
      <4>2. j \in DOMAIN jobs /\ Copies(jobs[j], c, k)
        BY <1>4, <2>3, <4>1
      <4>3. j = i
        BY <3>2, <4>2
      <4> QED
        BY <3>3, <4>1, <4>3 DEF Stored
    <3>6. Len(jobs) - n \in Nat /\ New(jobs, n, jobs') = (Len(jobs) - n) + 1 .. Len(jobs')
      BY <1>4 DEF New
    <3>7. Holds(keychain, jobs', Len(jobs'), c, k, v)
      <4>1. CASE v # None
        <5>1. PICK m \in New(jobs, n, jobs') : Stored(i, jobs'[m])
          BY <1>2, <3>3, <4>1
        <5>2. About(jobs'[m], c, k)
          BY <2>5, <5>1 DEF Stored, About, Copies, Writes
        <5> QED
          BY <1>4, <3>5, <3>6, <5>2, LeftWith
      <4>2. CASE v = None
        <5>1. \A m \in New(jobs, n, jobs') : ~About(jobs'[m], c, k)
          BY <3>5, <4>2
        <5>2. Len(jobs) \in n .. Len(jobs)
          BY <1>4
        <5>3. Holds(keychain, jobs', Len(jobs) - n, c, k, v)
          BY <1>1, <1>2, <2>1, <3>2, <4>2, <5>2, LeftOver
        <5> QED
          BY <1>4, <3>6, <5>1, <5>3, LeftAlone
      <4> QED
        BY <4>1, <4>2
    <3> QED
      BY <3>4, <3>7 DEF Promise
  <2> QED
    BY <2>4, <2>5 DEF v
<1>7. Unborn'
  <2>1. \A c \in unused : \A m \in New(jobs, n, jobs') : ~Mentions(jobs'[m], c)
    <3> SUFFICES ASSUME NEW c \in unused, NEW m \in New(jobs, n, jobs') PROVE ~Mentions(jobs'[m], c)
      OBVIOUS
    <3>1. PICK i \in 1 .. n : Stored(i, jobs'[m])
      BY <1>2
    <3>2. i \in DOMAIN jobs /\ jobs[i].op = "copy"
      BY <1>2, <1>4
    <3>3. jobs[i].value # c
      BY <1>1, <3>2 DEF Unborn, Mentions
    <3> QED
      BY <3>1, <3>3 DEF Stored, Mentions
  <2> QED
    BY <1>1, <1>2, <1>3, <2>1, StillUnborn DEF Unborn
<1>8. OneRead' /\ OpeningFits'
  <2>1. \A m \in New(jobs, n, jobs') : jobs'[m].op # "read" /\ jobs'[m].op # "copy"
    BY <1>2 DEF Stored
  <2> QED
    BY <1>1, <1>2, <1>3, <2>1, StillOpening
<1>9. KeptFits' /\ SessionsFollow'
  BY <1>1, <1>3 DEF KeptFits, SessionsFollow
<1> QED
  BY <1>5, <1>6, <1>7, <1>8, <1>9 DEF ConnectionsIInv

-----------------------------------------------------------------------------
(* Reads.                                                                  *)

LEMMA UserOpensKeeps ==
  ASSUME ConnectionsIInv, NEW c \in Ids, UserOpens(c)
  PROVE  ConnectionsIInv'
<1> DEFINE form == conns[c]
<1>1. /\ SecretsTyped /\ Promised /\ Unborn /\ KeptFits /\ OneRead /\ OpeningFits /\ SessionsFollow
      /\ jobs \in Seq(JobSet) /\ keychain \in [Ids -> Chain]
      /\ kept \in [Ids -> Chain \union {Unknown}] /\ changes \in Nat /\ unused \subseteq Ids
  BY DEF ConnectionsIInv, SecretsTyped
<1>2. /\ opening = None /\ form # None /\ OpenConnection(c, form, jobs)
      /\ overtaken' = IF CopyPending(c) THEN overtaken \union {c} ELSE overtaken
      /\ UNCHANGED <<conns, unused, keychain, editors, sessions, kept>> /\ changes' = changes + 1
  BY DEF UserOpens, Change
<1>3. form \in Forms /\ c \notin unused
  BY <1>1, <1>2 DEF SecretsTyped, Unborn
<1>4. \A i \in DOMAIN jobs : jobs[i].op # "read"
  BY <1>1, <1>2 DEF OneRead
<1> HIDE DEF form
<1>5. Asks(jobs, c, form, {})
  BY <1>1, <1>2, <1>3, <1>4, Opens
<1>6. /\ Becomes(keychain, jobs, 0, keychain, jobs')
      /\ \A i \in New(jobs, 0, jobs') :
           jobs'[i].op = "read" /\ jobs'[i].id = c /\ jobs'[i].value = None
  <2>1. Becomes(keychain, jobs, 0, keychain, jobs) /\ Len(jobs) = Len(jobs) - 0
    BY <1>1, Nothing
  <2>2. Becomes(keychain, jobs, 0, keychain, jobs')
    BY <1>1, <1>5, <2>1, OnlyAsked
  <2>3. \A i \in New(jobs, 0, jobs') :
          jobs'[i].op = "read" /\ jobs'[i].id = c /\ jobs'[i].value = None
    BY <1>1, <1>5, <2>1, OnlyAsked
  <2> QED
    BY <2>2, <2>3
<1>7. jobs' \in Seq(JobSet) /\ opening' \in [id : Ids, gateway : Value, prompt : BOOLEAN]
      /\ opening'.id = c
  BY <1>5 DEF Asks
<1>8. SecretsTyped'
  BY <1>1, <1>2, <1>7 DEF SecretsTyped
<1>9. Promised'
  <2>1. \A i \in New(jobs, 0, jobs') : jobs'[i].op # "copy" /\ jobs'[i].op \notin Writes
    BY <1>6 DEF Writes
  <2>2. kept'[c] # Unknown => kept[c] # Unknown /\ kept'[c] \in Chain /\ kept'[c] = kept[c]
    BY <1>1, <1>2
  <2>3. \A i \in 1 .. 0 : jobs[i].op # "copy"
    OBVIOUS
  <2> QED
    BY <1>1, <1>2, <1>6, <1>7, <2>1, <2>2, <2>3, StillPromised
<1>10. Unborn'
  <2>1. \A d \in unused : d # c
    BY <1>3
  <2>2. \A d \in unused : \A i \in New(jobs, 0, jobs') : ~Mentions(jobs'[i], d)
    BY <1>6, <2>1 DEF Mentions
  <2> QED
    BY <1>1, <1>2, <1>6, <1>7, <2>1, <2>2, StillUnborn
<1>11. OneRead' /\ OpeningFits'
  <2>1. c \notin overtaken' => Uncopied(jobs', c)
    <3> SUFFICES ASSUME ~CopyPending(c) PROVE Uncopied(jobs', c)
      BY <1>2
    <3>1. \A i \in DOMAIN jobs' : (i \in DOMAIN jobs /\ jobs'[i] = jobs[i]) \/ jobs'[i].op = "read"
      <4> SUFFICES ASSUME NEW i \in DOMAIN jobs'
                   PROVE  (i \in DOMAIN jobs /\ jobs'[i] = jobs[i]) \/ jobs'[i].op = "read"
        OBVIOUS
      <4>1. i + 0 = i
        BY <1>7
      <4> QED
        BY <1>1, <1>6, <1>7, <4>1, After
    <3> QED
      BY <3>1 DEF CopyPending, Uncopied
  <2>2. conns'[c] = form
    BY <1>2 DEF form
  <2> QED
    BY <1>1, <1>3, <1>5, <1>8, <1>9, <2>1, <2>2, OpeningMade
<1>12. KeptFits' /\ SessionsFollow'
  BY <1>1, <1>2 DEF KeptFits, SessionsFollow
<1> QED
  BY <1>8, <1>9, <1>10, <1>11, <1>12 DEF ConnectionsIInv

LEMMA GatewayReadKeeps ==
  ASSUME ConnectionsIInv, NEW c \in Ids, NEW gateway \in Value, ReadDone(c),
         conns[c] # None, ReadTarget(c, conns[c], gateway, Tail(jobs)),
         UNCHANGED sessions, overtaken \subseteq overtaken',
         c \notin overtaken' /\ kept[c] # Unknown =>
           (UsesGateway(conns[c]) => kept[c][GatewayKind(conns[c])] = gateway)
  PROVE  ConnectionsIInv'
<1> DEFINE form == conns[c]
           t == Tail(jobs)
<1>1. /\ SecretsTyped /\ Promised /\ Unborn /\ KeptFits /\ OneRead /\ OpeningFits /\ SessionsFollow
      /\ jobs \in Seq(JobSet) /\ keychain \in [Ids -> Chain]
      /\ kept \in [Ids -> Chain \union {Unknown}] /\ unused \subseteq Ids
  BY DEF ConnectionsIInv, SecretsTyped
<1>2. UNCHANGED <<conns, unused, keychain, editors, changes, kept, sessions>>
  BY DEF ReadDone
<1>3. form \in Forms
  BY <1>1 DEF SecretsTyped
<1>4. /\ t \in Seq(JobSet) /\ Becomes(keychain, jobs, 1, keychain, t) /\ Len(t) = Len(jobs) - 1
      /\ \A i \in DOMAIN t : t[i].op # "read"
      /\ c \notin unused /\ jobs[1].op = "read"
  BY ReadStarts
<1>5. c \notin overtaken' /\ kept[c] # Unknown => Uncopied(jobs, c)
  BY ReadIsKept
<1> HIDE DEF form, t
<1>6. Asks(t, c, form, {gateway})
  BY <1>3, <1>4, AsksTarget DEF form, t
<1>7. /\ Becomes(keychain, jobs, 1, keychain, jobs')
      /\ \A i \in New(jobs, 1, jobs') :
           jobs'[i].op = "read" /\ jobs'[i].id = c /\ jobs'[i].value = None
  <2>1. Becomes(keychain, jobs, 1, keychain, t) /\ Len(t) = Len(jobs) - 1 /\ t \in Seq(JobSet)
    BY <1>1, <1>4
  <2>2. Becomes(keychain, jobs, 1, keychain, jobs')
    BY <1>1, <1>6, <2>1, OnlyAsked
  <2>3. \A i \in New(jobs, 1, jobs') :
          jobs'[i].op = "read" /\ jobs'[i].id = c /\ jobs'[i].value = None
    BY <1>1, <1>6, <2>1, OnlyAsked
  <2> QED
    BY <2>2, <2>3
<1>8. jobs' \in Seq(JobSet) /\ opening' \in [id : Ids, gateway : Value, prompt : BOOLEAN]
      /\ opening'.id = c
  BY <1>6 DEF Asks
<1>9. SecretsTyped'
  BY <1>1, <1>2, <1>8 DEF SecretsTyped
<1>10. Promised'
  <2>1. \A i \in New(jobs, 1, jobs') : jobs'[i].op # "copy" /\ jobs'[i].op \notin Writes
    BY <1>7 DEF Writes
  <2>2. kept'[c] # Unknown => kept[c] # Unknown /\ kept'[c] \in Chain /\ kept'[c] = kept[c]
    BY <1>1, <1>2
  <2>3. \A i \in 1 .. 1 : jobs[i].op # "copy"
    BY <1>4
  <2> QED
    BY <1>1, <1>2, <1>7, <1>8, <2>1, <2>2, <2>3, StillPromised
<1>11. Unborn'
  <2>1. \A d \in unused : d # c
    BY <1>4
  <2>2. \A d \in unused : \A i \in New(jobs, 1, jobs') : ~Mentions(jobs'[i], d)
    BY <1>7, <2>1 DEF Mentions
  <2> QED
    BY <1>1, <1>2, <1>7, <1>8, <2>1, <2>2, StillUnborn
<1>12. OneRead' /\ OpeningFits'
  <2>1. c \notin overtaken' /\ kept[c] # Unknown => Uncopied(jobs', c)
    <3> SUFFICES ASSUME Uncopied(jobs, c) PROVE Uncopied(jobs', c)
      BY <1>5
    <3>1. \A i \in DOMAIN jobs' :
            (i + 1 \in DOMAIN jobs /\ jobs'[i] = jobs[i + 1]) \/ jobs'[i].op = "read"
      BY <1>1, <1>7, <1>8, After
    <3> QED
      BY <3>1 DEF Uncopied
  <2>2. conns'[c] = form /\ kept'[c] = kept[c]
    BY <1>2 DEF form
  <2>3. c \notin overtaken' /\ conns'[c] # None /\ kept'[c] # Unknown =>
          /\ conns'[c] = form /\ Uncopied(jobs', c)
          /\ \A g \in {gateway} : UsesGateway(form) => kept'[c][GatewayKind(form)] \in {None, g}
    BY <2>1, <2>2 DEF form
  <2> QED
    BY <1>3, <1>4, <1>6, <1>9, <1>10, <2>3, OpeningMade
<1>13. KeptFits' /\ SessionsFollow'
  BY <1>1, <1>2 DEF KeptFits, SessionsFollow
<1> QED
  BY <1>9, <1>10, <1>11, <1>12, <1>13 DEF ConnectionsIInv

(* The last read of an opening: a session, a prompt, or nothing at all.    *)
LEMMA LastRead ==
  ASSUME ConnectionsIInv, NEW c \in Ids, ReadDone(c), jobs' = Tail(jobs),
         opening' \in {None, [opening EXCEPT !.prompt = TRUE]}, overtaken \subseteq overtaken',
         \/ UNCHANGED sessions
         \/ \E target \in Value :
              /\ FinishConnect(c, target, opening.gateway)
              /\ c \notin overtaken' /\ conns[c] # None /\ kept[c] # Unknown =>
                   /\ kept[c][TargetKind(conns[c])] = target
                   /\ UsesGateway(conns[c]) =>
                        kept[c][GatewayKind(conns[c])] \in {None, opening.gateway}
  PROVE  ConnectionsIInv'
<1>1. /\ SecretsTyped /\ Promised /\ Unborn /\ KeptFits /\ OneRead /\ OpeningFits /\ SessionsFollow
      /\ jobs \in Seq(JobSet) /\ keychain \in [Ids -> Chain]
      /\ kept \in [Ids -> Chain \union {Unknown}] /\ unused \subseteq Ids
      /\ sessions \in [Ids -> [target : Value, gateway : Value] \union {None}]
      /\ opening \in [id : Ids, gateway : Value, prompt : BOOLEAN] \union {None}
  BY DEF ConnectionsIInv, SecretsTyped
<1>2. UNCHANGED <<conns, unused, keychain, editors, changes, kept>>
  BY DEF ReadDone
<1>3. /\ jobs' \in Seq(JobSet) /\ Becomes(keychain, jobs, 1, keychain', jobs')
      /\ New(jobs, 1, jobs') = {} /\ \A i \in DOMAIN jobs' : jobs'[i].op # "read"
      /\ c \notin unused /\ jobs[1].op = "read" /\ opening # None /\ opening.id = c
      /\ opening.gateway \in Value /\ (Uncopied(jobs, c) => Uncopied(jobs', c))
  BY <1>2, ReadStarts
<1>4. /\ opening' \in [id : Ids, gateway : Value, prompt : BOOLEAN] \union {None}
      /\ opening' # None => opening'.id = c
  BY <1>1, <1>3
<1>5. /\ sessions' \in [Ids -> [target : Value, gateway : Value] \union {None}]
      /\ \A d \in Ids \ {c} : sessions'[d] = sessions[d]
  <2>1. CASE UNCHANGED sessions
    BY <1>1, <2>1
  <2>2. ASSUME NEW target \in Value, FinishConnect(c, target, opening.gateway)
        PROVE  <1>5!:
    BY <1>1, <1>3, <2>2 DEF FinishConnect
  <2> QED
    BY <2>1, <2>2
<1>6. SecretsTyped'
  BY <1>1, <1>2, <1>3, <1>4, <1>5 DEF SecretsTyped
<1>7. Promised'
  <2>1. kept'[c] # Unknown => kept[c] # Unknown /\ kept'[c] \in Chain /\ kept'[c] = kept[c]
    BY <1>1, <1>2
  <2>2. \A i \in 1 .. 1 : jobs[i].op # "copy"
    BY <1>3
  <2> QED
    BY <1>1, <1>2, <1>3, <2>1, <2>2, StillPromised
<1>8. Unborn'
  <2>1. \A d \in unused : d # c
    BY <1>3
  <2> QED
    BY <1>1, <1>2, <1>3, <1>4, <1>5, <2>1, StillUnborn
<1>9. OneRead' /\ OpeningFits'
  <2>1. OneRead'
    BY <1>3 DEF OneRead
  <2>2. c \notin overtaken' /\ conns[c] # None /\ kept[c] # Unknown => Uncopied(jobs', c)
    BY <1>3, ReadIsKept
  <2>3. OpeningFits'
    BY <1>2, <1>3, <1>4, <2>2 DEF OpeningFits, ReadsFit
  <2> QED
    BY <2>1, <2>3
<1>10. KeptFits'
  BY <1>1, <1>2 DEF KeptFits
<1>11. SessionsFollow'
  <2>1. CASE UNCHANGED sessions
    BY <1>1, <1>2, <2>1 DEF SessionsFollow
  <2>2. ASSUME NEW target \in Value, FinishConnect(c, target, opening.gateway),
               c \notin overtaken' /\ conns[c] # None /\ kept[c] # Unknown =>
                 /\ kept[c][TargetKind(conns[c])] = target
                 /\ UsesGateway(conns[c]) =>
                      kept[c][GatewayKind(conns[c])] \in {None, opening.gateway}
        PROVE  SessionsFollow'
    <3>1. sessions'[c] = [target |-> target, gateway |-> opening.gateway]
      BY <1>1, <2>2 DEF FinishConnect
    <3>2. sessions'[c].target = target /\ sessions'[c].gateway = opening.gateway
      BY <3>1
    <3> SUFFICES ASSUME NEW d \in Ids \ overtaken', sessions'[d] # None, conns'[d] # None,
                        kept'[d] # Unknown
                 PROVE  /\ kept'[d][TargetKind(conns'[d])] \in {None, sessions'[d].target}
                        /\ UsesGateway(conns'[d]) =>
                             kept'[d][GatewayKind(conns'[d])] \in {None, sessions'[d].gateway}
      BY DEF SessionsFollow
    <3>3. CASE d = c
      BY <1>2, <2>2, <3>2, <3>3
    <3>4. CASE d # c
      BY <1>1, <1>2, <1>5, <3>4 DEF SessionsFollow
    <3> QED
      BY <3>3, <3>4
  <2> QED
    BY <2>1, <2>2
<1> QED
  BY <1>6, <1>7, <1>8, <1>9, <1>10, <1>11 DEF ConnectionsIInv

LEMMA ReadKeeps ==
  ASSUME ConnectionsIInv, NEW c \in Ids,
         GatewayRead(c) \/ TargetRead(c) \/ ReadFails(c) \/ ReadOfDeleted(c)
  PROVE  ConnectionsIInv'
<1>1. ReadDone(c)
  BY DEF GatewayRead, TargetRead, ReadFails, ReadOfDeleted
<1> DEFINE k == Head(jobs).kind
           secret == keychain[c][k]
<1>2. /\ Head(jobs) = jobs[1] /\ secret \in Value /\ k \in SecretKinds
      /\ opening # None /\ opening.id = c
  BY <1>1, ReadStarts
<1>3. c \notin overtaken /\ conns[c] # None /\ kept[c] # Unknown =>
        /\ k \in {"gatewayPassword", "gatewayPassphrase"} =>
             k = GatewayKind(conns[c]) /\ secret = kept[c][k]
        /\ k \in {"password", "passphrase"} =>
             /\ k = TargetKind(conns[c]) /\ secret = kept[c][k]
             /\ UsesGateway(conns[c]) =>
                  kept[c][GatewayKind(conns[c])] \in {None, opening.gateway}
  BY <1>1, <1>2, ReadIsKept
<1>4. CASE GatewayRead(c)
  <2>1. /\ conns[c] # None /\ k \in {"gatewayPassword", "gatewayPassphrase"}
        /\ ReadTarget(c, conns[c], secret, Tail(jobs))
        /\ UNCHANGED <<sessions, overtaken>>
    BY <1>4 DEF GatewayRead
  <2> HIDE DEF secret, k
  <2>2. c \notin overtaken' /\ kept[c] # Unknown =>
          (UsesGateway(conns[c]) => kept[c][GatewayKind(conns[c])] = secret)
    BY <1>3, <2>1
  <2> QED
    BY <1>1, <1>2, <2>1, <2>2, GatewayReadKeeps
<1>5. CASE TargetRead(c)
  <2>1. /\ conns[c] # None /\ k \in {"password", "passphrase"} /\ jobs' = Tail(jobs)
        /\ UNCHANGED overtaken
        /\ \/ opening' = [opening EXCEPT !.prompt = TRUE] /\ UNCHANGED sessions
           \/ opening' = None /\ FinishConnect(c, secret, opening.gateway)
    BY <1>5 DEF TargetRead
  <2> HIDE DEF secret, k
  <2>2. c \notin overtaken' /\ conns[c] # None /\ kept[c] # Unknown =>
          /\ kept[c][TargetKind(conns[c])] = secret
          /\ UsesGateway(conns[c]) =>
               kept[c][GatewayKind(conns[c])] \in {None, opening.gateway}
    BY <1>3, <2>1
  <2>3. opening' \in {None, [opening EXCEPT !.prompt = TRUE]} /\ overtaken \subseteq overtaken'
    BY <2>1
  <2> QED
    BY <1>1, <1>2, <2>1, <2>2, <2>3, LastRead
<1>6. CASE ReadOfDeleted(c)
  <2>1. /\ jobs' = Tail(jobs) /\ opening' \in {None, [opening EXCEPT !.prompt = TRUE]}
        /\ UNCHANGED sessions /\ overtaken \subseteq overtaken'
    BY <1>6 DEF ReadOfDeleted
  <2> QED
    BY <1>1, <2>1, LastRead
<1>7. CASE ReadFails(c)
  <2>1. conns[c] # None /\ overtaken' = overtaken \union {c}
    BY <1>7 DEF ReadFails
  <2>2. \/ ReadTarget(c, conns[c], None, Tail(jobs)) /\ UNCHANGED sessions
        \/ jobs' = Tail(jobs) /\ opening' = None /\ FinishConnect(c, None, opening.gateway)
        \/ jobs' = Tail(jobs) /\ opening' = None /\ UNCHANGED sessions
    BY <1>7 DEF ReadFails
  <2>3. CASE ReadTarget(c, conns[c], None, Tail(jobs)) /\ UNCHANGED sessions
    BY <1>1, <2>1, <2>3, SomeSecrets, GatewayReadKeeps
  <2>4. CASE jobs' = Tail(jobs) /\ opening' = None /\ FinishConnect(c, None, opening.gateway)
    BY <1>1, <2>1, <2>4, SomeSecrets, LastRead
  <2>5. CASE jobs' = Tail(jobs) /\ opening' = None /\ UNCHANGED sessions
    BY <1>1, <2>1, <2>5, LastRead
  <2> QED
    BY <2>2, <2>3, <2>4, <2>5
<1> QED
  BY <1>4, <1>5, <1>6, <1>7

-----------------------------------------------------------------------------
(* The keychain is told what to hold for a connection.                     *)

(* The jobs are about one connection, and leave what is wanted for it.     *)
AllFor(p, c, want) ==
  /\ p \in Seq(JobSet)
  /\ \A j \in DOMAIN p : p[j].op \in Writes /\ p[j].id = c /\ p[j].value = want[p[j].kind]
HasKind(p, k) == \E j \in DOMAIN p : p[j].kind = k

LEMMA NoJob == ASSUME NEW c, NEW want PROVE AllFor(<<>>, c, want)
BY DEF AllFor

LEMMA JoinedJobs ==
  ASSUME NEW c, NEW want, NEW p, NEW r, AllFor(p, c, want), AllFor(r, c, want)
  PROVE  /\ AllFor(p \o r, c, want)
         /\ \A k : HasKind(p, k) \/ HasKind(r, k) => HasKind(p \o r, k)
<1> DEFINE t == p \o r
<1>1. p \in Seq(JobSet) /\ r \in Seq(JobSet)
  BY DEF AllFor
<1>2. /\ t \in Seq(JobSet) /\ DOMAIN t = 1 .. Len(p) + Len(r)
      /\ Len(p) \in Nat /\ Len(r) \in Nat /\ DOMAIN p = 1 .. Len(p) /\ DOMAIN r = 1 .. Len(r)
      /\ \A i \in 1 .. Len(p) + Len(r) : t[i] = IF i <= Len(p) THEN p[i] ELSE r[i - Len(p)]
  BY <1>1
<1> HIDE DEF t
<1>3. \A i \in DOMAIN t : (\E j \in DOMAIN p : t[i] = p[j]) \/ (\E j \in DOMAIN r : t[i] = r[j])
  <2> SUFFICES ASSUME NEW i \in DOMAIN t
               PROVE  (\E j \in DOMAIN p : t[i] = p[j]) \/ (\E j \in DOMAIN r : t[i] = r[j])
    OBVIOUS
  <2>1. CASE i <= Len(p)
    BY <1>2, <2>1
  <2>2. CASE ~(i <= Len(p))
    <3>1. i - Len(p) \in DOMAIN r /\ t[i] = r[i - Len(p)]
      BY <1>2, <2>2
    <3> QED
      BY <3>1
  <2> QED
    BY <2>1, <2>2
<1>4. AllFor(t, c, want)
  BY <1>2, <1>3 DEF AllFor
<1>5. \A j \in DOMAIN p : j \in DOMAIN t /\ t[j] = p[j]
  BY <1>2
<1>6. \A j \in DOMAIN r : Len(p) + j \in DOMAIN t /\ t[Len(p) + j] = r[j]
  <2> SUFFICES ASSUME NEW j \in DOMAIN r PROVE Len(p) + j \in DOMAIN t /\ t[Len(p) + j] = r[j]
    OBVIOUS
  <2>1. Len(p) + j \in DOMAIN t /\ ~(Len(p) + j <= Len(p)) /\ (Len(p) + j) - Len(p) = j
    BY <1>2
  <2> QED
    BY <1>2, <2>1
<1>7. \A k : HasKind(p, k) \/ HasKind(r, k) => HasKind(t, k)
  BY <1>5, <1>6 DEF HasKind
<1> QED
  BY <1>4, <1>7 DEF t

LEMMA OneJob ==
  ASSUME NEW c, NEW want, NEW job \in JobSet, job.op \in Writes, job.id = c, job.value = want[job.kind]
  PROVE  AllFor(<<job>>, c, want) /\ HasKind(<<job>>, job.kind)
<1>1. <<job>> \in Seq(JobSet) /\ DOMAIN <<job>> = {1} /\ <<job>>[1] = job
  OBVIOUS
<1> QED
  BY <1>1 DEF AllFor, HasKind

LEMMA DeleteJob ==
  ASSUME NEW c \in Ids, NEW want, NEW k \in SecretKinds, want[k] = None
  PROVE  AllFor(DeleteSecret(c, k), c, want) /\ HasKind(DeleteSecret(c, k), k)
<1> DEFINE job == Job("delete", c, k, None)
<1>1. /\ job \in JobSet /\ job.op = "delete" /\ job.id = c /\ job.kind = k /\ job.value = None
  BY JobTypes DEF Job
<1> HIDE DEF job
<1>2. AllFor(<<job>>, c, want) /\ HasKind(<<job>>, k)
  BY <1>1, OneJob DEF Writes
<1> QED
  BY <1>2 DEF DeleteSecret, job

LEMMA StoreJob ==
  ASSUME NEW c \in Ids, NEW want, NEW k \in SecretKinds, NEW fields \in Chain,
         fields[k] # None => want[k] = fields[k]
  PROVE  /\ AllFor(StoreIfProvided(c, k, fields), c, want)
         /\ fields[k] # None => HasKind(StoreIfProvided(c, k, fields), k)
<1> DEFINE job == Job("write", c, k, fields[k])
<1>1. fields[k] \in Value
  BY DEF Chain
<1>2. /\ job \in JobSet /\ job.op = "write" /\ job.id = c /\ job.kind = k /\ job.value = fields[k]
  BY <1>1, JobTypes DEF Job
<1>3. CASE fields[k] = None
  BY <1>3, NoJob DEF StoreIfProvided
<1>4. CASE fields[k] # None
  <2> HIDE DEF job
  <2>1. AllFor(<<job>>, c, want) /\ HasKind(<<job>>, k)
    BY <1>2, <1>4, OneJob DEF Writes
  <2>2. StoreIfProvided(c, k, fields) = <<job>>
    BY <1>4 DEF StoreIfProvided, StoreSecret, job
  <2> QED
    BY <2>1, <2>2
<1> QED
  BY <1>3, <1>4

(* What the editors hand over is what is wanted of each kind.              *)
SecretsWanted(want, form, fields) ==
  \A k \in SecretKinds :
    /\ k \notin KeptKinds(form) => want[k] = None
    /\ k \in KeptKinds(form) /\ fields[k] # None => want[k] = fields[k]

LEMMA TargetKept ==
  ASSUME NEW form \in Forms
  PROVE  /\ form.auth \in {"password", "key"}
         /\ "password" \in KeptKinds(form) <=> form.auth = "password" /\ form.save
         /\ "passphrase" \in KeptKinds(form) <=> form.auth # "password"
BY FormsAssumption, KindFacts DEF KeptKinds, TargetKind, GatewayKind

LEMMA TargetPersisted ==
  ASSUME NEW c \in Ids, NEW form \in Forms, NEW before \in Forms \union {None},
         NEW fields \in Chain, NEW want, SecretsWanted(want, form, fields)
  PROVE  LET p == PersistTarget(c, before, form, fields)
         IN  /\ AllFor(p, c, want)
             /\ \A k \in {"password", "passphrase"} :
                  IF k \in KeptKinds(form) THEN fields[k] # None => HasKind(p, k)
                  ELSE before # None => HasKind(p, k)
<1> DEFINE isEdit == before # None
           other == IF form.auth = "password" THEN "passphrase" ELSE "password"
           a == IF isEdit /\ before.auth # form.auth THEN DeleteSecret(c, TargetKind(before)) ELSE <<>>
           b == IF form.auth = "password"
                THEN IF form.save THEN StoreIfProvided(c, "password", fields) ELSE DeleteSecret(c, "password")
                ELSE StoreIfProvided(c, "passphrase", fields)
           d == IF isEdit THEN DeleteSecret(c, other) ELSE <<>>
<1>1. /\ form.auth \in {"password", "key"} /\ other \in SecretKinds /\ other \notin KeptKinds(form)
      /\ "password" \in SecretKinds /\ "passphrase" \in SecretKinds
  BY TargetKept DEF SecretKinds
<1>2. PersistTarget(c, before, form, fields) = a \o (b \o d)
  <2>1. CASE form.auth = "password"
    BY <2>1 DEF PersistTarget
  <2>2. CASE form.auth # "password"
    BY <2>2 DEF PersistTarget
  <2> QED
    BY <2>1, <2>2
<1>3. AllFor(a, c, want)
  <2>1. CASE isEdit /\ before.auth # form.auth
    <3>1. before.auth \in {"password", "key"}
      BY <2>1, TargetKept
    <3>2. TargetKind(before) = other
      BY <1>1, <2>1, <3>1 DEF TargetKind
    <3>3. AllFor(DeleteSecret(c, other), c, want)
      BY <1>1, DeleteJob DEF SecretsWanted
    <3> QED
      BY <2>1, <3>2, <3>3
  <2>2. CASE ~(isEdit /\ before.auth # form.auth)
    BY <2>2, NoJob
  <2> QED
    BY <2>1, <2>2
<1>4. AllFor(d, c, want) /\ (isEdit => HasKind(d, other))
  <2>1. AllFor(DeleteSecret(c, other), c, want) /\ HasKind(DeleteSecret(c, other), other)
    BY <1>1, DeleteJob DEF SecretsWanted
  <2> HIDE DEF other
  <2> QED
    BY <2>1, NoJob
<1>5. /\ AllFor(b, c, want)
      /\ form.auth = "password" =>
           IF form.save THEN fields["password"] # None => HasKind(b, "password")
           ELSE HasKind(b, "password")
      /\ form.auth # "password" => (fields["passphrase"] # None => HasKind(b, "passphrase"))
  <2>1. CASE form.auth = "password" /\ form.save
    <3>1. fields["password"] # None => want["password"] = fields["password"]
      BY <1>1, <2>1, TargetKept DEF SecretsWanted
    <3>2. b = StoreIfProvided(c, "password", fields)
      BY <2>1
    <3> QED
      BY <1>1, <2>1, <3>1, <3>2, StoreJob
  <2>2. CASE form.auth = "password" /\ ~form.save
    <3>1. want["password"] = None
      BY <1>1, <2>2, TargetKept DEF SecretsWanted
    <3>2. b = DeleteSecret(c, "password")
      BY <2>2
    <3> QED
      BY <1>1, <2>2, <3>1, <3>2, DeleteJob
  <2>3. CASE form.auth # "password"
    <3>1. fields["passphrase"] # None => want["passphrase"] = fields["passphrase"]
      BY <1>1, <2>3, TargetKept DEF SecretsWanted
    <3>2. b = StoreIfProvided(c, "passphrase", fields)
      BY <2>3
    <3> QED
      BY <1>1, <2>3, <3>1, <3>2, StoreJob
  <2> QED
    BY <2>1, <2>2, <2>3
<1> HIDE DEF a, b, d
<1>6. /\ AllFor(b \o d, c, want)
      /\ \A k : HasKind(b, k) \/ HasKind(d, k) => HasKind(b \o d, k)
  BY <1>4, <1>5, JoinedJobs
<1>7. /\ AllFor(a \o (b \o d), c, want)
      /\ \A k : HasKind(b \o d, k) => HasKind(a \o (b \o d), k)
  BY <1>3, <1>6, JoinedJobs
<1>8. /\ HasKind(b, "password") => HasKind(a \o (b \o d), "password")
      /\ HasKind(b, "passphrase") => HasKind(a \o (b \o d), "passphrase")
      /\ isEdit => HasKind(a \o (b \o d), other)
  BY <1>4, <1>6, <1>7
<1> DEFINE p == a \o (b \o d)
<1> HIDE DEF p
<1>9. /\ HasKind(b, "password") => HasKind(p, "password")
      /\ HasKind(b, "passphrase") => HasKind(p, "passphrase")
      /\ isEdit => HasKind(p, other)
      /\ AllFor(p, c, want) /\ PersistTarget(c, before, form, fields) = p
  BY <1>2, <1>7, <1>8 DEF p
<1>10. \A k \in {"password", "passphrase"} :
         IF k \in KeptKinds(form) THEN fields[k] # None => HasKind(p, k)
         ELSE before # None => HasKind(p, k)
  BY <1>5, <1>9, TargetKept
<1> QED
  BY <1>9, <1>10

LEMMA GatewayPersisted ==
  ASSUME NEW c \in Ids, NEW form \in Forms, NEW fields \in Chain, NEW want,
         SecretsWanted(want, form, fields)
  PROVE  LET p == PersistGateway(c, form, fields)
         IN  /\ AllFor(p, c, want)
             /\ \A k \in {"gatewayPassword", "gatewayPassphrase"} :
                  k \in KeptKinds(form) => (fields[k] # None => HasKind(p, k))
             /\ \A k \in {"gatewayPassword", "gatewayPassphrase"} :
                  k \notin KeptKinds(form) => HasKind(p, k)
<1> DEFINE p == PersistGateway(c, form, fields)
           one == "gatewayPassword"
           two == "gatewayPassphrase"
           S(k) == StoreIfProvided(c, k, fields)
           D(k) == DeleteSecret(c, k)
<1>1. /\ form.gateway \in {"none", "password", "key"} /\ one \in SecretKinds /\ two \in SecretKinds
      /\ one \in KeptKinds(form) <=> form.gateway = "password"
      /\ two \in KeptKinds(form) <=> form.gateway = "key"
  BY FormsAssumption DEF KeptKinds, TargetKind, GatewayKind, UsesGateway, SecretKinds
<1>2. /\ form.gateway = "none" => p = D(one) \o D(two)
      /\ form.gateway = "password" => p = S(one) \o D(two)
      /\ form.gateway = "key" => p = S(two) \o D(one)
  BY DEF PersistGateway
<1>3. \A k \in {one, two} : k \notin KeptKinds(form) => AllFor(D(k), c, want) /\ HasKind(D(k), k)
  BY <1>1, DeleteJob DEF SecretsWanted
<1>4. \A k \in {one, two} : k \in KeptKinds(form) =>
        AllFor(S(k), c, want) /\ (fields[k] # None => HasKind(S(k), k))
  BY <1>1, StoreJob DEF SecretsWanted
<1> HIDE DEF S, D, p
<1>5. CASE form.gateway = "none"
  <2>1. p = D(one) \o D(two) /\ AllFor(D(one), c, want) /\ AllFor(D(two), c, want)
        /\ HasKind(D(one), one) /\ HasKind(D(two), two)
    BY <1>1, <1>2, <1>3, <1>5
  <2>2. AllFor(p, c, want) /\ HasKind(p, one) /\ HasKind(p, two)
    BY <2>1, JoinedJobs
  <2> QED
    BY <2>2 DEF p
<1>6. CASE form.gateway = "password"
  <2>1. p = S(one) \o D(two) /\ AllFor(S(one), c, want) /\ AllFor(D(two), c, want)
        /\ (fields[one] # None => HasKind(S(one), one)) /\ HasKind(D(two), two)
    BY <1>1, <1>2, <1>3, <1>4, <1>6
  <2>2. AllFor(p, c, want) /\ (fields[one] # None => HasKind(p, one)) /\ HasKind(p, two)
    BY <2>1, JoinedJobs
  <2> QED
    BY <1>1, <1>6, <2>2 DEF p
<1>7. CASE form.gateway = "key"
  <2>1. p = S(two) \o D(one) /\ AllFor(S(two), c, want) /\ AllFor(D(one), c, want)
        /\ (fields[two] # None => HasKind(S(two), two)) /\ HasKind(D(one), one)
    BY <1>1, <1>2, <1>3, <1>4, <1>7
  <2>2. AllFor(p, c, want) /\ (fields[two] # None => HasKind(p, two)) /\ HasKind(p, one)
    BY <2>1, JoinedJobs
  <2> QED
    BY <1>1, <1>7, <2>2 DEF p
<1> QED
  BY <1>1, <1>5, <1>6, <1>7

LEMMA SecretsPersisted ==
  ASSUME NEW c \in Ids, NEW form \in Forms, NEW before \in Forms \union {None},
         NEW fields \in Chain, NEW want, SecretsWanted(want, form, fields)
  PROVE  LET p == PersistSecrets(c, before, form, fields)
         IN  /\ AllFor(p, c, want)
             /\ \A k \in SecretKinds :
                  IF k \in KeptKinds(form) THEN fields[k] # None => HasKind(p, k)
                  ELSE before # None => HasKind(p, k)
<1> DEFINE a == PersistTarget(c, before, form, fields)
           b == PersistGateway(c, form, fields)
<1>1. /\ AllFor(a, c, want)
      /\ \A k \in {"password", "passphrase"} :
           IF k \in KeptKinds(form) THEN fields[k] # None => HasKind(a, k)
           ELSE before # None => HasKind(a, k)
  BY TargetPersisted
<1>2. /\ AllFor(b, c, want)
      /\ \A k \in {"gatewayPassword", "gatewayPassphrase"} :
           k \in KeptKinds(form) => (fields[k] # None => HasKind(b, k))
      /\ \A k \in {"gatewayPassword", "gatewayPassphrase"} :
           k \notin KeptKinds(form) => HasKind(b, k)
  BY GatewayPersisted
<1>3. PersistSecrets(c, before, form, fields) = a \o b
  BY DEF PersistSecrets
<1> HIDE DEF a, b
<1>4. AllFor(a \o b, c, want) /\ \A k : HasKind(a, k) \/ HasKind(b, k) => HasKind(a \o b, k)
  BY <1>1, <1>2, JoinedJobs
<1>5. \A k \in SecretKinds : k \in {"password", "passphrase"} \/ k \in {"gatewayPassword", "gatewayPassphrase"}
  BY DEF SecretKinds
<1> QED
  BY <1>1, <1>2, <1>3, <1>4, <1>5

LEMMA AllDeleted ==
  ASSUME NEW c \in Ids
  PROVE  /\ AllFor(DeleteAllSecrets(c), c, NoSecrets)
         /\ \A k \in SecretKinds : HasKind(DeleteAllSecrets(c), k)
<1> DEFINE D(k) == DeleteSecret(c, k)
           a == "password"
           b == "passphrase"
           d == "gatewayPassword"
           e == "gatewayPassphrase"
<1>1. \A k \in SecretKinds : AllFor(D(k), c, NoSecrets) /\ HasKind(D(k), k)
  BY SomeSecrets, DeleteJob
<1>2. SecretKinds = {a, b, d, e}
  BY DEF SecretKinds
<1>3. DeleteAllSecrets(c) = ((D(a) \o D(b)) \o D(d)) \o D(e)
  BY DEF DeleteAllSecrets
<1> HIDE DEF D
<1>4. AllFor(D(a) \o D(b), c, NoSecrets) /\ HasKind(D(a) \o D(b), a) /\ HasKind(D(a) \o D(b), b)
  BY <1>1, <1>2, JoinedJobs
<1> DEFINE f == D(a) \o D(b)
<1>5. AllFor(f, c, NoSecrets) /\ HasKind(f, a) /\ HasKind(f, b)
  BY <1>4
<1> HIDE DEF f
<1>6. AllFor(f \o D(d), c, NoSecrets) /\ \A k \in {a, b, d} : HasKind(f \o D(d), k)
  BY <1>1, <1>2, <1>5, JoinedJobs
<1> DEFINE g == f \o D(d)
<1>7. AllFor(g, c, NoSecrets) /\ \A k \in {a, b, d} : HasKind(g, k)
  BY <1>6
<1> HIDE DEF g
<1>8. AllFor(g \o D(e), c, NoSecrets) /\ \A k \in {a, b, d, e} : HasKind(g \o D(e), k)
  BY <1>1, <1>2, <1>7, JoinedJobs
<1> QED
  BY <1>2, <1>3, <1>8 DEF f, g

(* The jobs at the end of a queue tell the keychain what is wanted.        *)
Orders(q, c, want) ==
  /\ q \in Seq(JobSet) /\ Becomes(keychain, jobs, 0, keychain, q)
  /\ \A i \in New(jobs, 0, q) :
       /\ q[i].op # "copy" /\ q[i].id = c
       /\ q[i].op \in Writes => q[i].value = want[q[i].kind]
Ordered(q, c, k) == \E i \in New(jobs, 0, q) : About(q[i], c, k)

LEMMA Ordering ==
  ASSUME SecretsTyped, NEW c, NEW want, NEW p, AllFor(p, c, want)
  PROVE  /\ Orders(jobs \o p, c, want)
         /\ \A i \in New(jobs, 0, jobs \o p) : (jobs \o p)[i].op # "read"
         /\ \A k : HasKind(p, k) => Ordered(jobs \o p, c, k)
<1> DEFINE q == jobs \o p
<1>1. jobs \in Seq(JobSet) /\ p \in Seq(JobSet)
  BY DEF SecretsTyped, AllFor
<1>2. /\ q \in Seq(JobSet) /\ Becomes(keychain, jobs, 0, keychain, q)
      /\ \A i \in New(jobs, 0, q) : \E j \in DOMAIN p : q[i] = p[j]
      /\ \A j \in DOMAIN p : \E i \in New(jobs, 0, q) : q[i] = p[j]
  BY <1>1, Appends
<1> HIDE DEF q
<1>3. \A j \in DOMAIN p :
        /\ p[j].op # "copy" /\ p[j].op # "read" /\ p[j].op \in Writes
        /\ p[j].id = c /\ p[j].value = want[p[j].kind]
  BY DEF AllFor, Writes
<1>4. Orders(q, c, want)
  BY <1>2, <1>3 DEF Orders
<1>5. \A i \in New(jobs, 0, q) : q[i].op # "read"
  BY <1>2, <1>3
<1>6. \A k : HasKind(p, k) => Ordered(q, c, k)
  BY <1>2, <1>3 DEF HasKind, Ordered, About
<1> QED
  BY <1>4, <1>5, <1>6 DEF q

LEMMA KeychainTold ==
  ASSUME SecretsTyped, Promised, keychain' = keychain,
         NEW c \in Ids, NEW want \in Chain, Orders(jobs', c, want),
         NEW secrets, Keep(c, secrets),
         kept[c] # Unknown =>
           secrets = want /\ \A k \in SecretKinds : want[k] = kept[c][k] \/ Ordered(jobs', c, k)
  PROVE  /\ Promised' /\ kept' \in [Ids -> Chain \union {Unknown}]
         /\ \A d \in Ids \ {c} : kept'[d] = kept[d]
         /\ kept'[c] # Unknown => kept[c] # Unknown /\ Uncopied(jobs, c) /\ kept'[c] = want
<1>1. kept \in [Ids -> Chain \union {Unknown}]
  BY DEF SecretsTyped
<1>2. kept' = [kept EXCEPT ![c] = IF CopyPending(c) \/ kept[c] = Unknown THEN Unknown ELSE secrets]
  BY DEF Keep
<1>3. ~CopyPending(c) => Uncopied(jobs, c)
  BY DEF CopyPending, Uncopied
<1>4. /\ \A d \in Ids \ {c} : kept'[d] = kept[d]
      /\ kept'[c] # Unknown => kept[c] # Unknown /\ Uncopied(jobs, c) /\ kept'[c] = want
  BY <1>1, <1>2, <1>3
<1>5. kept' \in [Ids -> Chain \union {Unknown}]
  BY <1>1, <1>2
<1>6. Promised'
  <2>1. \A i \in 1 .. 0 : jobs[i].op # "copy"
    OBVIOUS
  <2>2. kept'[c] # Unknown => kept[c] # Unknown /\ kept'[c] \in Chain
    BY <1>4
  <2>3. \A i \in New(jobs, 0, jobs') :
          /\ jobs'[i].op # "copy" /\ (jobs'[i].op \in Writes => jobs'[i].id = c)
          /\ jobs'[i].op \in Writes /\ kept'[c] # Unknown => jobs'[i].value = kept'[c][jobs'[i].kind]
    BY <1>4 DEF Orders
  <2>4. kept'[c] # Unknown =>
          /\ Uncopied(jobs, c)
          /\ \A k \in SecretKinds :
               \/ kept'[c][k] = kept[c][k]
               \/ \E i \in New(jobs, 0, jobs') : About(jobs'[i], c, k)
    BY <1>4 DEF Ordered
  <2>5. jobs' \in Seq(JobSet) /\ Becomes(keychain, jobs, 0, keychain', jobs')
    BY DEF Orders
  <2> QED
    BY <1>4, <2>1, <2>2, <2>3, <2>4, <2>5, StillPromised
<1> QED
  BY <1>4, <1>5, <1>6

(* What the user enters.                                                   *)
LEMMA Entered ==
  ASSUME NEW old \in Chain, NEW form, NEW fields \in Filled(old, form), changes \in Nat
  PROVE  fields \in Chain
<1>1. PICK new : fields = [k \in SecretKinds |-> IF k \in new THEN <<k, changes + 1>> ELSE old[k]]
  BY DEF Filled
<1>2. \A k \in SecretKinds : <<k, changes + 1>> \in Value /\ old[k] \in Value
  BY DEF Value, Chain
<1> QED
  BY <1>1, <1>2 DEF Chain

(* What is wanted for a connection when it is saved.                       *)
Want(c, form, fields) ==
  [k \in SecretKinds |->
     IF k \notin KeptKinds(form) THEN None
     ELSE IF fields[k] # None THEN fields[k]
     ELSE IF kept[c] = Unknown THEN None ELSE kept[c][k]]

LEMMA Wants ==
  ASSUME kept \in [Ids -> Chain \union {Unknown}], NEW c \in Ids, NEW form, NEW fields \in Chain
  PROVE  /\ Want(c, form, fields) \in Chain /\ SecretsWanted(Want(c, form, fields), form, fields)
         /\ kept[c] # Unknown => Intended(c, form, fields) = Want(c, form, fields)
<1>1. \A k \in SecretKinds : fields[k] \in Value /\ (kept[c] # Unknown => kept[c][k] \in Value)
  BY DEF Chain
<1>2. Want(c, form, fields) \in Chain
  BY <1>1, SomeSecrets DEF Want, Chain
<1>3. SecretsWanted(Want(c, form, fields), form, fields)
  BY DEF Want, SecretsWanted
<1>4. kept[c] # Unknown => Intended(c, form, fields) = Want(c, form, fields)
  BY DEF Want, Intended
<1> QED
  BY <1>2, <1>3, <1>4

(* A connection is saved: what it is to have is asked for, and more of it  *)
(* deleted when it is not new.                                             *)
Saves(q, c, before, form, fields) ==
  /\ Orders(q, c, Want(c, form, fields))
  /\ \A k \in SecretKinds :
       (IF k \in KeptKinds(form) THEN fields[k] # None ELSE before # None) => Ordered(q, c, k)

LEMMA SecretsOrdered ==
  ASSUME SecretsTyped, NEW c \in Ids, NEW form \in Forms, NEW before \in Forms \union {None},
         NEW fields \in Chain
  PROVE  LET q == jobs \o PersistSecrets(c, before, form, fields)
         IN  /\ Saves(q, c, before, form, fields)
             /\ \A i \in New(jobs, 0, q) : q[i].op # "read"
<1> DEFINE p == PersistSecrets(c, before, form, fields)
           want == Want(c, form, fields)
<1>1. kept \in [Ids -> Chain \union {Unknown}]
  BY DEF SecretsTyped
<1>2. SecretsWanted(want, form, fields)
  BY <1>1, Wants
<1> HIDE DEF want
<1>3. /\ AllFor(p, c, want)
      /\ \A k \in SecretKinds :
           IF k \in KeptKinds(form) THEN fields[k] # None => HasKind(p, k)
           ELSE before # None => HasKind(p, k)
  BY <1>2, SecretsPersisted
<1> HIDE DEF p
<1>4. /\ Orders(jobs \o p, c, want)
      /\ \A i \in New(jobs, 0, jobs \o p) : (jobs \o p)[i].op # "read"
      /\ \A k : HasKind(p, k) => Ordered(jobs \o p, c, k)
  BY <1>3, Ordering
<1>5. Saves(jobs \o p, c, before, form, fields)
  BY <1>3, <1>4 DEF Saves, want
<1> QED
  BY <1>4, <1>5 DEF p

LEMMA Saved ==
  ASSUME SecretsTyped, Promised, keychain' = keychain,
         NEW c \in Ids, NEW form \in Forms, NEW before \in Forms \union {None}, NEW fields \in Chain,
         before # None \/ kept[c] = NoSecrets,
         Saves(jobs', c, before, form, fields), Keep(c, Intended(c, form, fields))
  PROVE  /\ Promised' /\ kept' \in [Ids -> Chain \union {Unknown}]
         /\ \A d \in Ids \ {c} : kept'[d] = kept[d]
         /\ kept'[c] # Unknown =>
              kept[c] # Unknown /\ Uncopied(jobs, c) /\ kept'[c] = Want(c, form, fields)
<1> DEFINE want == Want(c, form, fields)
<1>0. kept \in [Ids -> Chain \union {Unknown}]
  BY DEF SecretsTyped
<1>1. /\ want \in Chain /\ SecretsWanted(want, form, fields)
      /\ kept[c] # Unknown => Intended(c, form, fields) = want
  BY <1>0, Wants
<1>2. ASSUME kept[c] # Unknown, NEW k \in SecretKinds, k \in KeptKinds(form), fields[k] = None
      PROVE  want[k] = kept[c][k]
  BY <1>2 DEF Want
<1>3. /\ Orders(jobs', c, want)
      /\ \A k \in SecretKinds :
           (IF k \in KeptKinds(form) THEN fields[k] # None ELSE before # None) => Ordered(jobs', c, k)
  BY DEF Saves
<1> HIDE DEF want
<1>4. kept[c] # Unknown =>
        /\ Intended(c, form, fields) = want
        /\ \A k \in SecretKinds : want[k] = kept[c][k] \/ Ordered(jobs', c, k)
  <2> SUFFICES ASSUME kept[c] # Unknown, NEW k \in SecretKinds
               PROVE  want[k] = kept[c][k] \/ Ordered(jobs', c, k)
    BY <1>1
  <2>1. CASE k \in KeptKinds(form)
    BY <1>2, <1>3, <2>1
  <2>2. CASE k \notin KeptKinds(form)
    BY <1>1, <1>3, <2>2, SomeSecrets DEF SecretsWanted
  <2> QED
    BY <2>1, <2>2
<1>5. /\ Promised' /\ kept' \in [Ids -> Chain \union {Unknown}]
      /\ \A d \in Ids \ {c} : kept'[d] = kept[d]
      /\ kept'[c] # Unknown => kept[c] # Unknown /\ Uncopied(jobs, c) /\ kept'[c] = want
  BY <1>1, <1>3, <1>4, KeychainTold
<1> QED
  BY <1>5 DEF want

LEMMA OthersNotMentioned ==
  ASSUME NEW q, NEW c, NEW want, Orders(q, c, want), NEW d, d # c,
         NEW i \in New(jobs, 0, q)
  PROVE  ~Mentions(q[i], d)
BY DEF Orders, Mentions

-----------------------------------------------------------------------------
(* Connections are saved.                                                  *)

(* What is kept after a save fits the form.                                *)
LEMMA WantFits ==
  ASSUME NEW c, NEW form, NEW fields, NEW k \in SecretKinds, k \notin KeptKinds(form)
  PROVE  Want(c, form, fields)[k] = None
BY DEF Want

LEMMA SavedSession ==
  ASSUME SecretsTyped, KeptFits, SessionsFollow, NEW c \in Ids, NEW form \in Forms,
         NEW fields \in Chain, c \notin overtaken, sessions[c] # None, conns[c] # None,
         kept[c] # Unknown, EditSideEffects(c, form, fields)
  PROVE  LET want == Want(c, form, fields)
         IN  /\ want[TargetKind(form)] \in {None, sessions'[c].target}
             /\ UsesGateway(form) => want[GatewayKind(form)] \in {None, sessions'[c].gateway}
<1> DEFINE T == TargetKind(form)
           G == GatewayKind(form)
           old == conns[c]
<1>1. T \in SecretKinds /\ G \in SecretKinds
  BY KindFacts
<1>2. /\ kept[c][TargetKind(old)] \in {None, sessions[c].target}
      /\ UsesGateway(old) => kept[c][GatewayKind(old)] \in {None, sessions[c].gateway}
  BY DEF SessionsFollow
<1>3. kept[c][T] \in {None, sessions[c].target}
  <2>1. CASE T = TargetKind(old)
    BY <1>2, <2>1
  <2>2. CASE T # TargetKind(old)
    <3>1. T \notin KeptKinds(old)
      BY <2>2, KindFacts DEF KeptKinds, TargetKind, GatewayKind
    <3> QED
      BY <1>1, <3>1 DEF KeptFits
  <2> QED
    BY <2>1, <2>2
<1>4. kept[c][G] \in {None, sessions[c].gateway}
  <2>1. CASE UsesGateway(old) /\ G = GatewayKind(old)
    BY <1>2, <2>1
  <2>2. CASE ~(UsesGateway(old) /\ G = GatewayKind(old))
    <3>1. G \notin KeptKinds(old)
      BY <2>2 DEF KeptKinds, TargetKind, GatewayKind
    <3> QED
      BY <1>1, <3>1 DEF KeptFits
  <2> QED
    BY <2>1, <2>2
<1>5. sessions[c] \in [target : Value, gateway : Value]
  BY DEF SecretsTyped
<1>6. /\ sessions'[c].target = IF fields[T] # None THEN fields[T] ELSE sessions[c].target
      /\ sessions'[c].gateway = IF UsesGateway(form) /\ fields[G] # None THEN fields[G]
                                ELSE sessions[c].gateway
  <2>1. sessions \in [Ids -> [target : Value, gateway : Value] \union {None}]
    BY DEF SecretsTyped
  <2> QED
    BY <1>5, <2>1 DEF EditSideEffects
<1>7. /\ Want(c, form, fields)[T] \in {None, fields[T], kept[c][T]}
      /\ fields[T] # None => Want(c, form, fields)[T] \in {None, fields[T]}
      /\ Want(c, form, fields)[G] \in {None, fields[G], kept[c][G]}
      /\ fields[G] # None => Want(c, form, fields)[G] \in {None, fields[G]}
  BY <1>1 DEF Want
<1> HIDE DEF T, G
<1>8. Want(c, form, fields)[T] \in {None, sessions'[c].target}
  BY <1>3, <1>6, <1>7
<1>9. UsesGateway(form) => Want(c, form, fields)[G] \in {None, sessions'[c].gateway}
  BY <1>4, <1>6, <1>7
<1> QED
  BY <1>8, <1>9 DEF T, G

LEMMA SaveEditKeeps ==
  ASSUME ConnectionsIInv, NEW e \in Editors, NEW form \in Forms, SaveEdit(e, form)
  PROVE  ConnectionsIInv'
<1>1. /\ SecretsTyped /\ Promised /\ Unborn /\ KeptFits /\ OneRead /\ OpeningFits /\ SessionsFollow
      /\ jobs \in Seq(JobSet) /\ keychain \in [Ids -> Chain]
      /\ kept \in [Ids -> Chain \union {Unknown}] /\ changes \in Nat
      /\ conns \in [Ids -> Forms \union {None}] /\ unused \subseteq Ids
      /\ sessions \in [Ids -> [target : Value, gateway : Value] \union {None}]
  BY DEF ConnectionsIInv, SecretsTyped
<1>2. /\ editors \in [Editors ->
           [id : Ids, before : Forms, initialSave : BOOLEAN, fields : Chain] \union {None}]
      /\ editors[e] \in [id : Ids, before : Forms, initialSave : BOOLEAN, fields : Chain]
  BY <1>1 DEF SecretsTyped, SaveEdit
<1> DEFINE id == editors[e].id
           row == editors[e].before
<1>3. PICK c \in Ids : c = id
  BY <1>2
<1>4. PICK before \in Forms : before = row
  BY <1>2
<1>5. PICK fields \in Filled(editors[e].fields, form) :
        /\ Change
        /\ jobs' = jobs \o PersistSecrets(id, row, form, fields)
        /\ Keep(id, Intended(id, form, fields))
        /\ EditSideEffects(id, form, fields)
        /\ editors' = [editors EXCEPT ![e] =
             IF e = "dialog" THEN None ELSE [@ EXCEPT !.before = form, !.fields = fields]]
  BY Zenon DEF SaveEdit
<1>6. /\ jobs' = jobs \o PersistSecrets(c, before, form, fields)
      /\ Keep(c, Intended(c, form, fields)) /\ EditSideEffects(c, form, fields)
  <2> HIDE DEF id, row
  <2> QED
    BY <1>3, <1>4, <1>5
<1>7. /\ conns[c] # None /\ conns' = [conns EXCEPT ![c] = form]
      /\ overtaken' = IF opening # None /\ opening.id = c THEN overtaken \union {c} ELSE overtaken
      /\ unused' = unused /\ keychain' = keychain /\ opening' = opening
  <2>1. /\ conns[id] # None /\ conns' = [conns EXCEPT ![id] = form]
        /\ overtaken' = IF opening # None /\ opening.id = id THEN overtaken \union {id} ELSE overtaken
        /\ unused' = unused /\ keychain' = keychain /\ opening' = opening
    BY DEF SaveEdit, Persist
  <2> QED
    BY <1>3, <2>1
<1> HIDE DEF id, row
<1>8. /\ c \in Ids /\ before \in Forms /\ before # None /\ fields \in Chain /\ changes' \in Nat
      /\ c \notin unused
  <2>1. editors[e].fields \in Chain
    BY <1>2
  <2> QED
    BY <1>1, <1>2, <1>7, <1>5, <2>1, Entered, Records DEF Change, Unborn
<1>9. editors' \in [Editors ->
         [id : Ids, before : Forms, initialSave : BOOLEAN, fields : Chain] \union {None}]
  BY <1>2, <1>8, <1>5
<1>10. sessions' \in [Ids -> [target : Value, gateway : Value] \union {None}]
      /\ \A d \in Ids \ {c} : sessions'[d] = sessions[d]
  <2>1. \A k \in SecretKinds : fields[k] \in Value
    BY <1>8 DEF Chain
  <2>2. TargetKind(form) \in SecretKinds /\ GatewayKind(form) \in SecretKinds
    BY KindFacts
  <2>3. CASE sessions[c] = None
    BY <1>1, <1>6, <2>3 DEF EditSideEffects
  <2>4. CASE sessions[c] # None
    <3> DEFINE s == [sessions[c] EXCEPT
            !.target = IF fields[TargetKind(form)] # None THEN fields[TargetKind(form)] ELSE @,
            !.gateway = IF UsesGateway(form) /\ fields[GatewayKind(form)] # None
                        THEN fields[GatewayKind(form)] ELSE @]
    <3>1. sessions[c] \in [target : Value, gateway : Value]
      BY <1>1, <1>8, <2>4
    <3>2. s \in [target : Value, gateway : Value]
      BY <2>1, <2>2, <3>1
    <3>3. sessions' = [sessions EXCEPT ![c] = s]
      BY <1>1, <1>6, <1>8, <2>4 DEF EditSideEffects
    <3> HIDE DEF s
    <3> QED
      BY <1>1, <1>8, <3>2, <3>3
  <2> QED
    BY <2>3, <2>4
<1>11. Saves(jobs', c, before, form, fields) /\ \A i \in New(jobs, 0, jobs') : jobs'[i].op # "read"
  <2> DEFINE q == jobs \o PersistSecrets(c, before, form, fields)
  <2>1. Saves(q, c, before, form, fields) /\ \A i \in New(jobs, 0, q) : q[i].op # "read"
    BY <1>1, <1>8, SecretsOrdered
  <2>2. jobs' = q
    BY <1>6
  <2> HIDE DEF q
  <2> QED
    BY <2>1, <2>2
<1>12. /\ Orders(jobs', c, Want(c, form, fields))
      /\ jobs' \in Seq(JobSet) /\ Becomes(keychain, jobs, 0, keychain, jobs')
      /\ \A i \in New(jobs, 0, jobs') : jobs'[i].op # "copy"
  BY <1>11 DEF Saves, Orders
<1>13. /\ Promised' /\ kept' \in [Ids -> Chain \union {Unknown}]
       /\ \A d \in Ids \ {c} : kept'[d] = kept[d]
       /\ kept'[c] # Unknown =>
            kept[c] # Unknown /\ Uncopied(jobs, c) /\ kept'[c] = Want(c, form, fields)
  BY <1>1, <1>6, <1>7, <1>8, <1>11, Saved
<1>14. conns' \in [Ids -> Forms \union {None}] /\ conns'[c] = form
       /\ \A d \in Ids \ {c} : conns'[d] = conns[d]
  BY <1>1, <1>7, <1>8
<1>15. opening \in [id : Ids, gateway : Value, prompt : BOOLEAN] \union {None}
  BY <1>1 DEF SecretsTyped
<1>16. SecretsTyped'
  BY <1>1, <1>7, <1>8, <1>9, <1>10, <1>12, <1>13, <1>14, <1>15 DEF SecretsTyped
<1>17. Unborn'
  <2>1. \A d \in unused' : d # c /\ d \in Ids
    BY <1>1, <1>7, <1>8
  <2>2. \A d \in unused' : \A i \in New(jobs, 0, jobs') : ~Mentions(jobs'[i], d)
    BY <1>12, <2>1, OthersNotMentioned
  <2>3. \A d \in unused' : opening' # None => opening'.id # d
    BY <1>1, <1>7 DEF Unborn
  <2>4. /\ Becomes(keychain, jobs, 0, keychain', jobs') /\ keychain' \in [Ids -> Chain]
        /\ unused' \subseteq unused
    BY <1>1, <1>7, <1>12
  <2>5. \A d \in unused' : conns'[d] = conns[d] /\ sessions'[d] = sessions[d] /\ kept'[d] = kept[d]
    BY <1>10, <1>13, <1>14, <2>1
  <2> QED
    BY <1>1, <1>12, <2>2, <2>3, <2>4, <2>5, StillUnborn
<1>18. KeptFits'
  BY <1>1, <1>13, <1>14, WantFits DEF KeptFits
<1>19. OneRead' /\ OpeningFits'
  <2>1. \A i \in New(jobs, 0, jobs') : jobs'[i].op # "read" /\ jobs'[i].op # "copy"
    BY <1>11, <1>12
  <2>2. opening # None /\ opening.id \notin overtaken' =>
          /\ conns'[opening.id] = conns[opening.id]
          /\ kept'[opening.id] = kept[opening.id]
    BY <1>7, <1>13, <1>14, <1>15
  <2>3. overtaken \subseteq overtaken'
    BY <1>7
  <2> QED
    BY <1>1, <1>7, <1>12, <2>1, <2>2, <2>3, StillOpening
<1>20. SessionsFollow'
  <2> SUFFICES ASSUME NEW d \in Ids, d \notin overtaken', sessions'[d] # None, conns'[d] # None,
                      kept'[d] # Unknown
               PROVE  /\ kept'[d][TargetKind(conns'[d])] \in {None, sessions'[d].target}
                      /\ UsesGateway(conns'[d]) =>
                           kept'[d][GatewayKind(conns'[d])] \in {None, sessions'[d].gateway}
    BY DEF SessionsFollow
  <2>1. d \notin overtaken
    BY <1>7
  <2>2. CASE d # c
    BY <1>1, <1>10, <1>13, <1>14, <2>1, <2>2 DEF SessionsFollow
  <2>3. CASE d = c
    <3>1. sessions[c] # None
      BY <1>6, <2>3 DEF EditSideEffects
    <3>2. /\ Want(c, form, fields)[TargetKind(form)] \in {None, sessions'[c].target}
          /\ UsesGateway(form) => Want(c, form, fields)[GatewayKind(form)] \in {None, sessions'[c].gateway}
      BY <1>1, <1>6, <1>7, <1>8, <1>13, <2>1, <2>3, <3>1, SavedSession
    <3> QED
      BY <1>13, <1>14, <2>3, <3>2
  <2> QED
    BY <2>2, <2>3
<1> QED
  BY <1>13, <1>16, <1>17, <1>18, <1>19, <1>20 DEF ConnectionsIInv

-----------------------------------------------------------------------------
(* Connections come and go.                                                *)

(* What is there before a connection is added.                             *)
LEMMA NewOne ==
  ASSUME ConnectionsIInv, NEW c \in Ids, NEW form \in Forms, Add(c, form)
  PROVE  /\ c \in unused /\ unused' = unused \ {c} /\ conns[c] = None /\ sessions[c] = None
         /\ kept[c] = NoSecrets /\ kept[c] # Unknown /\ keychain[c] = NoSecrets /\ Uncopied(jobs, c)
         /\ \A i \in DOMAIN jobs : ~Mentions(jobs[i], c)
         /\ (opening # None => opening.id # c)
         /\ keychain' = keychain /\ overtaken' = overtaken /\ changes' \in Nat
         /\ conns' \in [Ids -> Forms \union {None}] /\ conns'[c] = form /\ unused' \subseteq Ids
         /\ \A d \in Ids \ {c} : conns'[d] = conns[d]
<1>1. /\ Unborn /\ changes \in Nat /\ conns \in [Ids -> Forms \union {None}] /\ unused \subseteq Ids
  BY DEF ConnectionsIInv, SecretsTyped
<1>2. /\ c \in unused /\ unused' = unused \ {c} /\ keychain' = keychain /\ overtaken' = overtaken
      /\ conns' = [conns EXCEPT ![c] = form] /\ changes' = changes + 1
  BY DEF Add, Persist, Change
<1>3. /\ conns[c] = None /\ sessions[c] = None /\ kept[c] = NoSecrets /\ keychain[c] = NoSecrets
      /\ \A i \in DOMAIN jobs : ~Mentions(jobs[i], c)
      /\ (opening # None => opening.id # c)
  BY <1>1, <1>2 DEF Unborn
<1>4. Uncopied(jobs, c)
  BY <1>3 DEF Uncopied, Mentions
<1>5. NoSecrets # Unknown
  <2>1. "password" \in DOMAIN NoSecrets /\ "passphrase" \in DOMAIN NoSecrets
    BY DEF NoSecrets, SecretKinds
  <2>2. DOMAIN Unknown = {1}
    BY DEF Unknown
  <2> QED
    BY <2>1, <2>2
<1>6. /\ conns' \in [Ids -> Forms \union {None}] /\ conns'[c] = form
      /\ \A d \in Ids \ {c} : conns'[d] = conns[d]
  BY <1>1, <1>2
<1>7. changes' \in Nat /\ unused' \subseteq Ids
  BY <1>1, <1>2
<1> QED
  BY <1>2, <1>3, <1>4, <1>5, <1>6, <1>7

(* What a connection that is not there yet does not mention is not         *)
(* mentioned once another has been added.                                  *)
LEMMA NewOneUnborn ==
  ASSUME ConnectionsIInv, NEW c \in Ids, NEW form \in Forms, Add(c, form),
         jobs' \in Seq(JobSet), Becomes(keychain, jobs, 0, keychain, jobs'),
         \A i \in New(jobs, 0, jobs') : \A d \in unused \ {c} : ~Mentions(jobs'[i], d),
         \A d \in Ids \ {c} : kept'[d] = kept[d] /\ sessions'[d] = sessions[d],
         opening' # None => opening' = opening \/ opening'.id = c
  PROVE  Unborn'
<1>1. /\ SecretsTyped /\ Unborn /\ keychain \in [Ids -> Chain] /\ unused \subseteq Ids
  BY DEF ConnectionsIInv, SecretsTyped
<1>2. /\ unused' = unused \ {c} /\ keychain' = keychain
      /\ \A d \in Ids \ {c} : conns'[d] = conns[d]
  BY NewOne
<1>3. \A d \in unused' : d \in unused \ {c} /\ d \in Ids \ {c}
  BY <1>1, <1>2
<1>4. \A d \in unused' : opening' # None => opening'.id # d
  BY <1>1, <1>2 DEF Unborn
<1>5. \A d \in unused' :
        /\ conns'[d] = conns[d] /\ sessions'[d] = sessions[d] /\ kept'[d] = kept[d]
        /\ \A i \in New(jobs, 0, jobs') : ~Mentions(jobs'[i], d)
        /\ opening' # None => opening'.id # d
  BY <1>2, <1>3, <1>4
<1>6. keychain' \in [Ids -> Chain] /\ unused' \subseteq unused
      /\ Becomes(keychain, jobs, 0, keychain', jobs')
  BY <1>1, <1>2
<1> QED
  BY <1>1, <1>5, <1>6, StillUnborn

(* A connection that is added without any secret.                          *)
LEMMA AddedKeeps ==
  ASSUME ConnectionsIInv, NEW c \in Ids, NEW form \in Forms, Add(c, form),
         UNCHANGED <<jobs, editors, sessions, opening, kept>>
  PROVE  ConnectionsIInv'
<1>0. form \in Forms /\ Add(c, form)
  OBVIOUS
<1>1. /\ SecretsTyped /\ Promised /\ Unborn /\ KeptFits /\ OneRead /\ OpeningFits /\ SessionsFollow
      /\ jobs \in Seq(JobSet)
  BY DEF ConnectionsIInv, SecretsTyped
<1>2. UNCHANGED <<jobs, editors, sessions, opening, kept>>
  OBVIOUS
<1>3. /\ kept[c] = NoSecrets /\ sessions[c] = None /\ (opening # None => opening.id # c)
      /\ keychain' = keychain /\ overtaken' = overtaken /\ changes' \in Nat
      /\ conns' \in [Ids -> Forms \union {None}] /\ unused' \subseteq Ids
      /\ \A d \in Ids \ {c} : conns'[d] = conns[d]
  BY <1>0, NewOne
<1>4. SecretsTyped'
  BY <1>1, <1>2, <1>3 DEF SecretsTyped
<1>5. Promised'
  BY <1>1, <1>2, <1>3 DEF Promised
<1>6. Becomes(keychain, jobs, 0, keychain, jobs') /\ New(jobs, 0, jobs') = {}
  BY <1>1, <1>2, Nothing
<1>7. Unborn'
  BY <1>0, <1>1, <1>2, <1>6, NewOneUnborn
<1>8. KeptFits'
  BY <1>1, <1>2, <1>3, SomeSecrets DEF KeptFits
<1>9. OneRead' /\ OpeningFits'
  <2>1. opening # None => opening.id \in Ids
    BY <1>1 DEF SecretsTyped
  <2> QED
    BY <1>1, <1>2, <1>3, <1>6, <2>1, StillOpening
<1>10. SessionsFollow'
  BY <1>1, <1>2, <1>3 DEF SessionsFollow
<1> QED
  BY <1>4, <1>5, <1>7, <1>8, <1>9, <1>10 DEF ConnectionsIInv

LEMMA ImportKeeps ==
  ASSUME ConnectionsIInv, NEW c \in Ids, Import(c)
  PROVE  ConnectionsIInv'
<1>1. Imported \in Forms
  BY FormsAssumption
<1> QED
  BY <1>1, AddedKeeps DEF Import

LEMMA DuplicateOfTabKeeps ==
  ASSUME ConnectionsIInv, NEW c \in Ids, NEW copy \in Ids, DuplicateOfTab(c, copy)
  PROVE  ConnectionsIInv'
<1>1. conns[c] \in Forms
  BY DEF ConnectionsIInv, SecretsTyped, DuplicateOfTab
<1> QED
  BY <1>1, AddedKeeps DEF DuplicateOfTab

(* A connection that is created: what is common to both ways.              *)
LEMMA CreatedKeeps ==
  ASSUME ConnectionsIInv, NEW c \in Ids, NEW form \in Forms, NEW fields \in Filled(NoSecrets, form),
         Create(c, form, fields), Saves(jobs', c, None, form, fields),
         editors' \in [Editors ->
           [id : Ids, before : Forms, initialSave : BOOLEAN, fields : Chain] \union {None}],
         sessions' \in [Ids -> [target : Value, gateway : Value] \union {None}],
         \A d \in Ids \ {c} : sessions'[d] = sessions[d],
         opening' \in [id : Ids, gateway : Value, prompt : BOOLEAN] \union {None},
         opening' # None => opening' = opening \/ opening'.id = c
  PROVE  /\ SecretsTyped' /\ Promised' /\ Unborn' /\ KeptFits'
         /\ kept'[c] # Unknown => Uncopied(jobs', c) /\ kept'[c] = Want(c, form, fields)
         /\ \A d \in Ids \ {c} : kept'[d] = kept[d]
<1>1. /\ SecretsTyped /\ Promised /\ KeptFits /\ changes \in Nat
      /\ kept \in [Ids -> Chain \union {Unknown}] /\ keychain \in [Ids -> Chain]
      /\ jobs \in Seq(JobSet)
  BY DEF ConnectionsIInv, SecretsTyped
<1>2. Add(c, form) /\ Keep(c, Intended(c, form, fields))
  BY DEF Create
<1>3. /\ kept[c] = NoSecrets /\ keychain' = keychain /\ changes' \in Nat /\ unused' \subseteq Ids
      /\ conns' \in [Ids -> Forms \union {None}] /\ conns'[c] = form
      /\ \A d \in Ids \ {c} : conns'[d] = conns[d]
  BY <1>2, NewOne
<1>4. fields \in Chain
  BY <1>1, SomeSecrets, Entered
<1>5. Orders(jobs', c, Want(c, form, fields))
  BY DEF Saves
<1>6. /\ jobs' \in Seq(JobSet) /\ Becomes(keychain, jobs, 0, keychain, jobs')
      /\ \A i \in New(jobs, 0, jobs') : jobs'[i].op # "copy"
  BY <1>5 DEF Orders
<1>7. /\ Promised' /\ kept' \in [Ids -> Chain \union {Unknown}]
      /\ \A d \in Ids \ {c} : kept'[d] = kept[d]
      /\ kept'[c] # Unknown =>
           kept[c] # Unknown /\ Uncopied(jobs, c) /\ kept'[c] = Want(c, form, fields)
  BY <1>1, <1>2, <1>3, <1>4, Saved
<1>8. SecretsTyped'
  BY <1>1, <1>3, <1>6, <1>7 DEF SecretsTyped
<1>9. Unborn'
  <2>1. \A i \in New(jobs, 0, jobs') : \A d \in unused \ {c} : ~Mentions(jobs'[i], d)
    BY <1>5, OthersNotMentioned
  <2> QED
    BY <1>2, <1>6, <1>7, <2>1, NewOneUnborn
<1>10. KeptFits'
  BY <1>1, <1>3, <1>7, WantFits DEF KeptFits
<1>11. Uncopied(jobs, c) => Uncopied(jobs', c)
  BY <1>1, <1>6, After DEF Uncopied
<1> QED
  BY <1>7, <1>8, <1>9, <1>10, <1>11

LEMMA CreateConnectionKeeps ==
  ASSUME ConnectionsIInv, NEW c \in Ids, NEW form \in Forms, CreateConnection(c, form)
  PROVE  ConnectionsIInv'
<1>1. /\ SecretsTyped /\ OneRead /\ OpeningFits /\ SessionsFollow /\ changes \in Nat
      /\ jobs \in Seq(JobSet)
      /\ editors \in [Editors ->
           [id : Ids, before : Forms, initialSave : BOOLEAN, fields : Chain] \union {None}]
      /\ sessions \in [Ids -> [target : Value, gateway : Value] \union {None}]
      /\ opening \in [id : Ids, gateway : Value, prompt : BOOLEAN] \union {None}
  BY DEF ConnectionsIInv, SecretsTyped
<1>2. PICK fields \in Filled(NoSecrets, form) :
        /\ Create(c, form, fields) /\ jobs' = jobs \o PersistSecrets(c, None, form, fields)
        /\ \/ UNCHANGED editors
           \/ editors' = [editors EXCEPT !["manager"] = Loaded(c, form)]
        /\ UNCHANGED <<sessions, opening>>
  BY Zenon DEF CreateConnection
<1>3. fields \in Chain
  BY <1>1, SomeSecrets, Entered
<1>4. Saves(jobs', c, None, form, fields) /\ \A i \in New(jobs, 0, jobs') : jobs'[i].op # "read"
  <2> DEFINE q == jobs \o PersistSecrets(c, None, form, fields)
  <2>1. Saves(q, c, None, form, fields) /\ \A i \in New(jobs, 0, q) : q[i].op # "read"
    BY <1>1, <1>3, SecretsOrdered
  <2>2. jobs' = q
    BY <1>2
  <2> HIDE DEF q
  <2> QED
    BY <2>1, <2>2
<1>5. editors' \in [Editors ->
         [id : Ids, before : Forms, initialSave : BOOLEAN, fields : Chain] \union {None}]
  <2>1. form.save \in BOOLEAN
    BY FormsAssumption
  <2>2. Loaded(c, form) \in [id : Ids, before : Forms, initialSave : BOOLEAN, fields : Chain]
    BY <2>1, SomeSecrets DEF Loaded
  <2> QED
    BY <1>1, <1>2, <2>2
<1>6. /\ SecretsTyped' /\ Promised' /\ Unborn' /\ KeptFits'
      /\ \A d \in Ids \ {c} : kept'[d] = kept[d]
  BY <1>1, <1>2, <1>4, <1>5, CreatedKeeps
<1>7. /\ sessions[c] = None /\ overtaken' = overtaken /\ keychain' = keychain
      /\ (opening # None => opening.id # c)
      /\ \A d \in Ids \ {c} : conns'[d] = conns[d]
  BY <1>2, NewOne DEF Create
<1>8. /\ jobs' \in Seq(JobSet) /\ Becomes(keychain, jobs, 0, keychain, jobs')
      /\ \A i \in New(jobs, 0, jobs') : jobs'[i].op # "copy"
  BY <1>4 DEF Saves, Orders
<1>9. OneRead' /\ OpeningFits'
  <2>1. opening # None => opening.id \in Ids \ {c}
    BY <1>1, <1>7
  <2>2. opening # None =>
          conns'[opening.id] = conns[opening.id] /\ kept'[opening.id] = kept[opening.id]
    BY <1>6, <1>7, <2>1
  <2>3. \A i \in New(jobs, 0, jobs') :
          /\ jobs'[i].op # "read"
          /\ opening # None /\ jobs'[i].op = "copy" => jobs'[i].value # opening.id
    BY <1>4, <1>8
  <2>4. /\ opening' = opening /\ overtaken \subseteq overtaken' /\ jobs' \in Seq(JobSet)
        /\ Becomes(keychain, jobs, 0, keychain', jobs')
    BY <1>2, <1>7, <1>8
  <2> QED
    BY <1>1, <2>2, <2>3, <2>4, StillOpening
<1>10. SessionsFollow'
  BY <1>1, <1>2, <1>6, <1>7 DEF SessionsFollow
<1> QED
  BY <1>6, <1>9, <1>10 DEF ConnectionsIInv

LEMMA SavesLonger ==
  ASSUME jobs \in Seq(JobSet), NEW q, NEW c, NEW before, NEW form, NEW fields,
         Saves(q, c, before, form, fields), Asks(q, c, form, {})
  PROVE  Saves(jobs', c, before, form, fields)
<1> DEFINE want == Want(c, form, fields)
<1>1. /\ q \in Seq(JobSet) /\ Becomes(keychain, jobs, 0, keychain, q)
      /\ \A i \in New(jobs, 0, q) :
           /\ q[i].op # "copy" /\ q[i].id = c
           /\ q[i].op \in Writes => q[i].value = want[q[i].kind]
  BY DEF Saves, Orders
<1> HIDE DEF want
<1>2. Becomes(keychain, jobs, 0, keychain, jobs')
  BY <1>1, Longer
<1>3. \A i \in New(jobs, 0, jobs') :
        \/ i \in New(jobs, 0, q) /\ jobs'[i] = q[i]
        \/ jobs'[i].op = "read" /\ jobs'[i].id = c
  BY <1>1, Longer
<1>4. \A i \in New(jobs, 0, q) : i \in New(jobs, 0, jobs') /\ jobs'[i] = q[i]
  BY <1>1, Longer
<1>5. jobs' \in Seq(JobSet)
  BY DEF Asks
<1>6. Orders(jobs', c, want)
  BY <1>1, <1>2, <1>3, <1>5 DEF Orders, Writes
<1>7. \A k : Ordered(q, c, k) => Ordered(jobs', c, k)
  BY <1>4 DEF Ordered
<1> QED
  BY <1>6, <1>7 DEF Saves, want

LEMMA CreateAndConnectKeeps ==
  ASSUME ConnectionsIInv, NEW c \in Ids, NEW form \in Forms, CreateAndConnect(c, form)
  PROVE  ConnectionsIInv'
<1>1. /\ SecretsTyped /\ OneRead /\ OpeningFits /\ SessionsFollow /\ changes \in Nat
      /\ jobs \in Seq(JobSet)
      /\ editors \in [Editors ->
           [id : Ids, before : Forms, initialSave : BOOLEAN, fields : Chain] \union {None}]
      /\ sessions \in [Ids -> [target : Value, gateway : Value] \union {None}]
  BY DEF ConnectionsIInv, SecretsTyped
<1>2. PICK fields \in Filled(NoSecrets, form) :
        /\ Create(c, form, fields)
        /\ LET queue == jobs \o PersistSecrets(c, None, form, fields)
           IN  IF form.auth = "password" /\ fields["password"] # None
               THEN /\ FinishConnect(c, fields["password"],
                         IF UsesGateway(form) THEN fields[GatewayKind(form)] ELSE None)
                    /\ jobs' = queue /\ UNCHANGED opening
               ELSE OpenConnection(c, form, queue) /\ UNCHANGED sessions
  BY Zenon DEF CreateAndConnect
<1>3. opening = None /\ editors' = editors
  BY DEF CreateAndConnect
<1>4. fields \in Chain
  BY <1>1, SomeSecrets, Entered
<1>5. PICK q : q = jobs \o PersistSecrets(c, None, form, fields)
  OBVIOUS
<1>6. Saves(q, c, None, form, fields) /\ \A i \in New(jobs, 0, q) : q[i].op # "read"
  <2> DEFINE r == jobs \o PersistSecrets(c, None, form, fields)
  <2>1. Saves(r, c, None, form, fields) /\ \A i \in New(jobs, 0, r) : r[i].op # "read"
    BY <1>1, <1>4, SecretsOrdered
  <2>2. q = r
    BY <1>5
  <2> HIDE DEF r
  <2> QED
    BY <2>1, <2>2
<1>7. /\ sessions[c] = None /\ overtaken' = overtaken /\ keychain' = keychain
      /\ kept[c] = NoSecrets /\ conns'[c] = form
      /\ \A d \in Ids \ {c} : conns'[d] = conns[d]
  BY <1>2, NewOne DEF Create
<1>8. \A i \in DOMAIN q : q[i].op # "read"
  <2>1. q \in Seq(JobSet) /\ Becomes(keychain, jobs, 0, keychain, q)
    BY <1>6 DEF Saves, Orders
  <2>2. \A i \in DOMAIN jobs : jobs[i].op # "read"
    BY <1>1, <1>3 DEF OneRead
  <2> QED
    BY <1>1, <1>6, <2>1, <2>2, After
<1>9. CASE form.auth = "password" /\ fields["password"] # None
  <2> DEFINE gateway == IF UsesGateway(form) THEN fields[GatewayKind(form)] ELSE None
  <2>1. /\ sessions' = [sessions EXCEPT ![c] = [target |-> fields["password"], gateway |-> gateway]]
        /\ jobs' = q /\ opening' = opening
    BY <1>2, <1>5, <1>9 DEF FinishConnect
  <2>2. fields["password"] \in Value /\ gateway \in Value
    BY <1>4, SomeSecrets, KindFacts DEF Chain, SecretKinds
  <2> HIDE DEF gateway
  <2>3. /\ sessions' \in [Ids -> [target : Value, gateway : Value] \union {None}]
        /\ \A d \in Ids \ {c} : sessions'[d] = sessions[d]
        /\ sessions'[c].target = fields["password"] /\ sessions'[c].gateway = gateway
    BY <1>1, <2>1, <2>2
  <2>4. Saves(jobs', c, None, form, fields)
    BY <1>6, <2>1
  <2>5. opening' \in [id : Ids, gateway : Value, prompt : BOOLEAN] \union {None}
    BY <1>3, <2>1
  <2>6. editors' \in [Editors ->
           [id : Ids, before : Forms, initialSave : BOOLEAN, fields : Chain] \union {None}]
    BY <1>1, <1>3
  <2>7. /\ SecretsTyped' /\ Promised' /\ Unborn' /\ KeptFits'
        /\ kept'[c] # Unknown => kept'[c] = Want(c, form, fields)
        /\ \A d \in Ids \ {c} : kept'[d] = kept[d]
    BY <1>2, <2>1, <2>3, <2>4, <2>5, <2>6, CreatedKeeps
  <2>8. OneRead' /\ OpeningFits'
    BY <1>3, <1>8, <2>1 DEF OneRead, OpeningFits
  <2>9. ASSUME kept'[c] # Unknown
        PROVE  /\ kept'[c][TargetKind(form)] \in {None, sessions'[c].target}
               /\ UsesGateway(form) => kept'[c][GatewayKind(form)] \in {None, sessions'[c].gateway}
    <3>1. TargetKind(form) = "password" /\ "password" \in SecretKinds /\ GatewayKind(form) \in SecretKinds
      BY <1>9, KindFacts DEF TargetKind, SecretKinds
    <3>2. \A k \in SecretKinds : Want(c, form, fields)[k] \in {None, fields[k], kept[c][k]}
      BY DEF Want
    <3>3. fields["password"] # None => Want(c, form, fields)["password"] \in {None, fields["password"]}
      BY <3>1 DEF Want
    <3>4. UsesGateway(form) => gateway = fields[GatewayKind(form)]
      BY DEF gateway
    <3> QED
      BY <1>7, <1>9, <2>3, <2>7, <2>9, <3>1, <3>2, <3>3, <3>4, SomeSecrets
  <2>10. SessionsFollow'
    BY <1>1, <1>7, <2>3, <2>7, <2>9 DEF SessionsFollow
  <2> QED
    BY <2>7, <2>8, <2>10 DEF ConnectionsIInv
<1>10. CASE ~(form.auth = "password" /\ fields["password"] # None)
  <2>1. OpenConnection(c, form, q) /\ sessions' = sessions
    BY <1>2, <1>5, <1>10
  <2>2. q \in Seq(JobSet)
    BY <1>6 DEF Saves, Orders
  <2>3. Asks(q, c, form, {})
    BY <1>8, <2>1, <2>2, Opens
  <2>4. Saves(jobs', c, None, form, fields)
    BY <1>1, <1>6, <2>3, SavesLonger
  <2>5. opening' \in [id : Ids, gateway : Value, prompt : BOOLEAN] /\ opening'.id = c
    BY <2>3 DEF Asks
  <2>6. /\ SecretsTyped' /\ Promised' /\ Unborn' /\ KeptFits'
        /\ kept'[c] # Unknown => Uncopied(jobs', c)
        /\ \A d \in Ids \ {c} : kept'[d] = kept[d]
    BY <1>1, <1>2, <1>3, <2>1, <2>4, <2>5, CreatedKeeps
  <2>7. OneRead' /\ OpeningFits'
    BY <1>7, <2>2, <2>3, <2>6, OpeningMade
  <2>8. SessionsFollow'
    BY <1>1, <1>7, <2>1, <2>6 DEF SessionsFollow
  <2> QED
    BY <2>6, <2>7, <2>8 DEF ConnectionsIInv
<1> QED
  BY <1>9, <1>10

LEMMA DeleteConnectionKeeps ==
  ASSUME ConnectionsIInv, NEW c \in Ids, DeleteConnection(c)
  PROVE  ConnectionsIInv'
<1>1. /\ SecretsTyped /\ Promised /\ Unborn /\ KeptFits /\ OneRead /\ OpeningFits /\ SessionsFollow
      /\ jobs \in Seq(JobSet) /\ keychain \in [Ids -> Chain] /\ changes \in Nat
      /\ conns \in [Ids -> Forms \union {None}] /\ unused \subseteq Ids
      /\ editors \in [Editors ->
           [id : Ids, before : Forms, initialSave : BOOLEAN, fields : Chain] \union {None}]
      /\ opening \in [id : Ids, gateway : Value, prompt : BOOLEAN] \union {None}
  BY DEF ConnectionsIInv, SecretsTyped
<1>2. /\ conns[c] # None /\ conns' = [conns EXCEPT ![c] = None] /\ changes' = changes + 1
      /\ jobs' = jobs \o DeleteAllSecrets(c) /\ Keep(c, NoSecrets)
      /\ (editors' = editors \/ editors' = [editors EXCEPT !["manager"] = None])
      /\ UNCHANGED <<unused, keychain, sessions, opening, overtaken>>
  BY DEF DeleteConnection, RemoveConnection, Persist, Change
<1>3. AllFor(DeleteAllSecrets(c), c, NoSecrets) /\ \A k \in SecretKinds : HasKind(DeleteAllSecrets(c), k)
  BY AllDeleted
<1>4. /\ Orders(jobs', c, NoSecrets) /\ \A i \in New(jobs, 0, jobs') : jobs'[i].op # "read"
      /\ \A k \in SecretKinds : Ordered(jobs', c, k)
  <2> DEFINE q == jobs \o DeleteAllSecrets(c)
  <2>1. /\ Orders(q, c, NoSecrets) /\ \A i \in New(jobs, 0, q) : q[i].op # "read"
        /\ \A k \in SecretKinds : Ordered(q, c, k)
    BY <1>1, <1>3, Ordering
  <2>2. jobs' = q
    BY <1>2
  <2> HIDE DEF q
  <2> QED
    BY <2>1, <2>2
<1>5. /\ jobs' \in Seq(JobSet) /\ Becomes(keychain, jobs, 0, keychain', jobs')
      /\ \A i \in New(jobs, 0, jobs') : jobs'[i].op # "copy"
  BY <1>2, <1>4 DEF Orders
<1>6. /\ Promised' /\ kept' \in [Ids -> Chain \union {Unknown}]
      /\ \A d \in Ids \ {c} : kept'[d] = kept[d]
      /\ kept'[c] # Unknown => kept'[c] = NoSecrets
  BY <1>1, <1>2, <1>4, SomeSecrets, KeychainTold
<1>7. /\ conns' \in [Ids -> Forms \union {None}] /\ conns'[c] = None
      /\ \A d \in Ids \ {c} : conns'[d] = conns[d]
  BY <1>1, <1>2
<1>8. SecretsTyped'
  <2>1. editors' \in [Editors ->
          [id : Ids, before : Forms, initialSave : BOOLEAN, fields : Chain] \union {None}]
    BY <1>1, <1>2
  <2>2. changes' \in Nat
    BY <1>1, <1>2
  <2>3. UNCHANGED <<unused, keychain, sessions, opening>>
    BY <1>2
  <2> QED
    BY <1>1, <1>5, <1>6, <1>7, <2>1, <2>2, <2>3 DEF SecretsTyped
<1>9. Unborn'
  <2>1. \A d \in unused' : d \in Ids \ {c}
    BY <1>1, <1>2 DEF Unborn
  <2>2. \A d \in unused' : \A i \in New(jobs, 0, jobs') : ~Mentions(jobs'[i], d)
    BY <1>4, <2>1, OthersNotMentioned
  <2>3. \A d \in unused' : opening' # None => opening'.id # d
    BY <1>1, <1>2 DEF Unborn
  <2>4. \A d \in unused' : conns'[d] = conns[d] /\ sessions'[d] = sessions[d] /\ kept'[d] = kept[d]
    BY <1>2, <1>6, <1>7, <2>1
  <2>5. keychain' \in [Ids -> Chain] /\ unused' \subseteq unused
    BY <1>1, <1>2
  <2> QED
    BY <1>1, <1>5, <2>2, <2>3, <2>4, <2>5, StillUnborn
<1>10. KeptFits'
  BY <1>1, <1>6, <1>7 DEF KeptFits
<1>11. OneRead' /\ OpeningFits'
  <2>1. \A i \in New(jobs, 0, jobs') :
          /\ jobs'[i].op # "read"
          /\ opening # None /\ jobs'[i].op = "copy" => jobs'[i].value # opening.id
    BY <1>4, <1>5
  <2>2. opening # None /\ conns'[opening.id] # None =>
          conns'[opening.id] = conns[opening.id] /\ kept'[opening.id] = kept[opening.id]
    BY <1>1, <1>6, <1>7
  <2>3. opening' = opening /\ overtaken \subseteq overtaken'
    BY <1>2
  <2> QED
    BY <1>1, <1>5, <2>1, <2>2, <2>3, StillOpening
<1>12. SessionsFollow'
  BY <1>1, <1>2, <1>6, <1>7 DEF SessionsFollow
<1> QED
  BY <1>6, <1>8, <1>9, <1>10, <1>11, <1>12 DEF ConnectionsIInv

LEMMA DeleteConnectionOfTabKeeps ==
  ASSUME ConnectionsIInv, NEW c \in Ids, DeleteConnectionOfTab(c)
  PROVE  ConnectionsIInv'
<1>1. /\ SecretsTyped /\ Promised /\ Unborn /\ KeptFits /\ OneRead /\ OpeningFits /\ SessionsFollow
      /\ jobs \in Seq(JobSet) /\ keychain \in [Ids -> Chain] /\ changes \in Nat
      /\ conns \in [Ids -> Forms \union {None}] /\ unused \subseteq Ids
      /\ kept \in [Ids -> Chain \union {Unknown}]
      /\ sessions \in [Ids -> [target : Value, gateway : Value] \union {None}]
      /\ opening \in [id : Ids, gateway : Value, prompt : BOOLEAN] \union {None}
  BY DEF ConnectionsIInv, SecretsTyped
<1>2. /\ conns[c] # None /\ conns' = [conns EXCEPT ![c] = None] /\ changes' = changes + 1
      /\ sessions' = [sessions EXCEPT ![c] = None] /\ kept' = [kept EXCEPT ![c] = Unknown]
      /\ UNCHANGED <<unused, keychain, jobs, editors, opening, overtaken>>
  BY DEF DeleteConnectionOfTab, RemoveConnection, Persist, Change
<1>3. /\ conns' \in [Ids -> Forms \union {None}] /\ conns'[c] = None /\ changes' \in Nat
      /\ kept' \in [Ids -> Chain \union {Unknown}] /\ kept'[c] = Unknown
      /\ sessions' \in [Ids -> [target : Value, gateway : Value] \union {None}] /\ sessions'[c] = None
  BY <1>1, <1>2
<1>4. \A d \in Ids \ {c} : conns'[d] = conns[d] /\ kept'[d] = kept[d] /\ sessions'[d] = sessions[d]
  BY <1>1, <1>2
<1>5. SecretsTyped'
  BY <1>1, <1>2, <1>3 DEF SecretsTyped
<1>6. Promised'
  BY <1>1, <1>2, <1>3, <1>4 DEF Promised
<1>7. Becomes(keychain, jobs, 0, keychain', jobs') /\ New(jobs, 0, jobs') = {}
  BY <1>1, <1>2, Nothing
<1>8. Unborn'
  BY <1>1, <1>2, <1>4 DEF Unborn
<1>9. KeptFits'
  BY <1>1, <1>3, <1>4 DEF KeptFits
<1>10. OneRead' /\ OpeningFits'
  <2>1. opening # None /\ conns'[opening.id] # None =>
          conns'[opening.id] = conns[opening.id] /\ kept'[opening.id] = kept[opening.id]
    BY <1>1, <1>3, <1>4
  <2> QED
    BY <1>1, <1>2, <1>7, <2>1, StillOpening
<1>11. SessionsFollow'
  BY <1>1, <1>2, <1>3, <1>4 DEF SessionsFollow
<1> QED
  BY <1>5, <1>6, <1>8, <1>9, <1>10, <1>11 DEF ConnectionsIInv

(* The copies that are asked for.                                          *)
FourAdded(q, a, b, d, e, t) ==
  /\ t \in Seq(JobSet) /\ Len(t) = Len(q) + 4
  /\ \A i \in 1 .. Len(q) : t[i] = q[i]
  /\ t[Len(q) + 1] = a /\ t[Len(q) + 2] = b /\ t[Len(q) + 3] = d /\ t[Len(q) + 4] = e

LEMMA FourMore ==
  ASSUME NEW q \in Seq(JobSet), NEW a \in JobSet, NEW b \in JobSet, NEW d \in JobSet, NEW e \in JobSet,
         NEW t, t = q \o <<a>> \o <<b>> \o <<d>> \o <<e>>
  PROVE  FourAdded(q, a, b, d, e, t)
<1>1. PICK q1 \in Seq(JobSet) : q1 = q \o <<a>>
  BY OneMore
<1>2. PICK q2 \in Seq(JobSet) : q2 = q1 \o <<b>>
  BY OneMore
<1>3. PICK q3 \in Seq(JobSet) : q3 = q2 \o <<d>>
  BY OneMore
<1>4. PICK q4 \in Seq(JobSet) : q4 = q3 \o <<e>>
  BY OneMore
<1>5. Len(q1) = Len(q) + 1 /\ (\A i \in 1 .. Len(q) : q1[i] = q[i]) /\ q1[Len(q) + 1] = a
  BY <1>1, OneMore
<1>6. Len(q2) = Len(q1) + 1 /\ (\A i \in 1 .. Len(q1) : q2[i] = q1[i]) /\ q2[Len(q1) + 1] = b
  BY <1>2, OneMore
<1>7. Len(q3) = Len(q2) + 1 /\ (\A i \in 1 .. Len(q2) : q3[i] = q2[i]) /\ q3[Len(q2) + 1] = d
  BY <1>3, OneMore
<1>8. Len(q4) = Len(q3) + 1 /\ (\A i \in 1 .. Len(q3) : q4[i] = q3[i]) /\ q4[Len(q3) + 1] = e
  BY <1>4, OneMore
<1>9. t = q4
  BY <1>1, <1>2, <1>3, <1>4
<1>10. PICK l \in Nat : l = Len(q)
  OBVIOUS
<1>11. Len(q1) = l + 1 /\ Len(q2) = l + 2 /\ Len(q3) = l + 3 /\ Len(q4) = l + 4
  BY <1>5, <1>6, <1>7, <1>8, <1>10
<1>12. /\ \A i \in 1 .. l : q4[i] = q[i]
       /\ q4[l + 1] = a /\ q4[l + 2] = b /\ q4[l + 3] = d /\ q4[l + 4] = e
  <2>1. /\ \A i \in 1 .. l : q1[i] = q[i]
        /\ \A i \in 1 .. l + 1 : q2[i] = q1[i]
        /\ \A i \in 1 .. l + 2 : q3[i] = q2[i]
        /\ \A i \in 1 .. l + 3 : q4[i] = q3[i]
        /\ q1[l + 1] = a /\ q2[l + 2] = b /\ q3[l + 3] = d /\ q4[l + 4] = e
    BY <1>5, <1>6, <1>7, <1>8, <1>10, <1>11
  <2> QED
    BY <2>1
<1>13. /\ q4 \in Seq(JobSet) /\ Len(q4) = l + 4
       /\ \A i \in 1 .. l : q4[i] = q[i]
       /\ q4[l + 1] = a /\ q4[l + 2] = b /\ q4[l + 3] = d /\ q4[l + 4] = e
  BY <1>4, <1>11, <1>12
<1> QED
  BY <1>9, <1>10, <1>13, Zenon DEF FourAdded

AskCopies(c, copy) ==
  LET Copy(k) == <<Job("copy", c, k, copy)>>
  IN  jobs' = jobs \o Copy("password") \o Copy("passphrase")
                   \o Copy("gatewayPassword") \o Copy("gatewayPassphrase")

LEMMA CopiesAsked ==
  ASSUME jobs \in Seq(JobSet), NEW c \in Ids, NEW copy \in Ids, AskCopies(c, copy)
  PROVE  /\ jobs' \in Seq(JobSet) /\ Becomes(keychain, jobs, 0, keychain, jobs')
         /\ \A i \in New(jobs, 0, jobs') : jobs'[i].op = "copy" /\ jobs'[i].id = c /\ jobs'[i].value = copy
         /\ \A k \in SecretKinds : \E i \in New(jobs, 0, jobs') : jobs'[i].kind = k
         /\ \A i, j \in New(jobs, 0, jobs') : jobs'[i].kind = jobs'[j].kind => i = j
<1> DEFINE J(k) == Job("copy", c, k, copy)
           L == Len(jobs)
           a == J("password")
           b == J("passphrase")
           d == J("gatewayPassword")
           e == J("gatewayPassphrase")
<1>1. \A k \in SecretKinds : J(k) \in JobSet /\ J(k).op = "copy" /\ J(k).id = c /\ J(k).value = copy /\ J(k).kind = k
  BY JobTypes DEF Job
<1>2. jobs' = jobs \o <<a>> \o <<b>> \o <<d>> \o <<e>>
  BY DEF AskCopies
<1> HIDE DEF J
<1>3. SecretKinds = {"password", "passphrase", "gatewayPassword", "gatewayPassphrase"}
  BY DEF SecretKinds
<1>4. /\ jobs' \in Seq(JobSet) /\ Len(jobs') = L + 4
      /\ \A i \in 1 .. L : jobs'[i] = jobs[i]
      /\ jobs'[L + 1] = a /\ jobs'[L + 2] = b /\ jobs'[L + 3] = d /\ jobs'[L + 4] = e
  <2>1. a \in JobSet /\ b \in JobSet /\ d \in JobSet /\ e \in JobSet
    BY <1>1, <1>3
  <2> HIDE DEF a, b, d, e
  <2> QED
    <3>1. FourAdded(jobs, a, b, d, e, jobs')
      BY <1>2, <2>1, FourMore, Zenon
    <3> QED
      BY <3>1, Zenon DEF FourAdded
<1>5. /\ L \in Nat /\ New(jobs, 0, jobs') = L + 1 .. L + 4
      /\ \A i \in New(jobs, 0, jobs') : i = L + 1 \/ i = L + 2 \/ i = L + 3 \/ i = L + 4
      /\ \A i \in {L + 1, L + 2, L + 3, L + 4} : i \in New(jobs, 0, jobs')
  <2>1. New(jobs, 0, jobs') = L + 1 .. L + 4 /\ L \in Nat
    BY <1>4 DEF New
  <2> HIDE DEF L
  <2> QED
    BY <2>1
<1>6. Becomes(keychain, jobs, 0, keychain, jobs')
  <2>1. \A id \in Ids, k \in SecretKinds, v \in Value :
          Holds(keychain, jobs, 0, id, k, v) => keychain[id][k] = v
    BY DEF Holds
  <2>2. 0 \in 0 .. L /\ Len(jobs') >= L - 0 /\ \A i \in 1 .. L - 0 : jobs'[i] = jobs[i + 0]
    <3>1. Len(jobs') = L + 4 /\ L \in Nat /\ \A i \in 1 .. L : jobs'[i] = jobs[i]
      BY <1>4, <1>5
    <3> HIDE DEF L
    <3> QED
      BY <3>1
  <2> QED
    BY <2>1, <2>2 DEF Becomes
<1>7. \A i \in New(jobs, 0, jobs') : jobs'[i].op = "copy" /\ jobs'[i].id = c /\ jobs'[i].value = copy
  <2> SUFFICES ASSUME NEW i \in New(jobs, 0, jobs')
               PROVE  jobs'[i].op = "copy" /\ jobs'[i].id = c /\ jobs'[i].value = copy
    OBVIOUS
  <2>1. jobs'[i] \in {a, b, d, e}
    BY <1>4, <1>5
  <2> HIDE DEF a, b, d, e
  <2>2. \A j \in {a, b, d, e} : j.op = "copy" /\ j.id = c /\ j.value = copy
    BY <1>1, <1>3 DEF a, b, d, e
  <2> QED
    BY <2>1, <2>2
<1>8. /\ jobs'[L + 1].kind = "password" /\ jobs'[L + 2].kind = "passphrase"
      /\ jobs'[L + 3].kind = "gatewayPassword" /\ jobs'[L + 4].kind = "gatewayPassphrase"
  BY <1>1, <1>3, <1>4
<1>9. \A k \in SecretKinds : \E i \in New(jobs, 0, jobs') : jobs'[i].kind = k
  BY <1>3, <1>5, <1>8
<1>10. \A i, j \in New(jobs, 0, jobs') : jobs'[i].kind = jobs'[j].kind => i = j
  <2> HIDE DEF L
  <2> QED
    BY <1>5, <1>8
<1> QED
  BY <1>4, <1>6, <1>7, <1>9, <1>10

LEMMA DuplicateKeeps ==
  ASSUME ConnectionsIInv, NEW c \in Ids, NEW copy \in Ids, Duplicate(c, copy)
  PROVE  ConnectionsIInv'
<1> DEFINE form == conns[c]
<1>1. /\ SecretsTyped /\ Promised /\ Unborn /\ KeptFits /\ OneRead /\ OpeningFits /\ SessionsFollow
      /\ jobs \in Seq(JobSet) /\ keychain \in [Ids -> Chain]
      /\ conns \in [Ids -> Forms \union {None}] /\ kept \in [Ids -> Chain \union {Unknown}]
      /\ editors \in [Editors ->
           [id : Ids, before : Forms, initialSave : BOOLEAN, fields : Chain] \union {None}]
      /\ opening \in [id : Ids, gateway : Value, prompt : BOOLEAN] \union {None}
  BY DEF ConnectionsIInv, SecretsTyped
<1>2. /\ conns[c] # None /\ Add(copy, form)
      /\ kept' = [kept EXCEPT ![copy] = IF CopyPending(c) THEN Unknown ELSE kept[c]]
      /\ (editors' = editors \/ editors' = [editors EXCEPT !["manager"] = Loaded(copy, form)])
      /\ sessions' = sessions /\ opening' = opening
  BY DEF Duplicate
<1>3. /\ jobs' \in Seq(JobSet) /\ Becomes(keychain, jobs, 0, keychain, jobs')
      /\ \A i \in New(jobs, 0, jobs') : jobs'[i].op = "copy" /\ jobs'[i].id = c /\ jobs'[i].value = copy
      /\ \A k \in SecretKinds : \E i \in New(jobs, 0, jobs') : jobs'[i].kind = k
      /\ \A i, j \in New(jobs, 0, jobs') : jobs'[i].kind = jobs'[j].kind => i = j
  <2>1. AskCopies(c, copy)
    BY Zenon DEF Duplicate, AskCopies
  <2> QED
    BY <1>1, <2>1, CopiesAsked
<1>4. form \in Forms
  BY <1>1, <1>2
<1>5. /\ conns[copy] = None /\ sessions[copy] = None /\ keychain[copy] = NoSecrets
      /\ kept[copy] = NoSecrets /\ Uncopied(jobs, copy)
      /\ \A i \in DOMAIN jobs : ~Mentions(jobs[i], copy)
      /\ (opening # None => opening.id # copy)
      /\ keychain' = keychain /\ overtaken' = overtaken /\ changes' \in Nat
      /\ conns' \in [Ids -> Forms \union {None}] /\ conns'[copy] = form /\ unused' \subseteq Ids
      /\ \A d \in Ids \ {copy} : conns'[d] = conns[d]
  BY <1>2, <1>4, NewOne
<1>6. /\ kept' \in [Ids -> Chain \union {Unknown}]
      /\ kept'[copy] # Unknown => kept'[copy] = kept[c] /\ kept[c] # Unknown /\ Uncopied(jobs, c)
      /\ \A d \in Ids \ {copy} : kept'[d] = kept[d]
  BY <1>1, <1>2 DEF CopyPending, Uncopied
<1>7. c # copy /\ DOMAIN jobs = 1 .. Len(jobs) /\ Len(jobs) \in Nat /\ Len(jobs') \in Nat
  BY <1>1, <1>2, <1>3, <1>5
<1>8. SecretsTyped'
  <2>1. form.save \in BOOLEAN
    BY <1>4, FormsAssumption
  <2>2. Loaded(copy, form) \in [id : Ids, before : Forms, initialSave : BOOLEAN, fields : Chain]
    BY <1>4, <2>1, SomeSecrets DEF Loaded
  <2> HIDE DEF form
  <2>3. editors' \in [Editors ->
          [id : Ids, before : Forms, initialSave : BOOLEAN, fields : Chain] \union {None}]
    BY <1>1, <1>2, <2>2
  <2> QED
    BY <1>1, <1>2, <1>3, <1>5, <1>6, <2>3 DEF SecretsTyped
<1>9. ASSUME NEW d \in Ids \ {copy}, NEW k \in SecretKinds, kept'[d] # Unknown
      PROVE  Promise(keychain', jobs', d, k, kept'[d][k])
  <2>1. kept'[d] = kept[d] /\ kept[d][k] \in Value /\ Promise(keychain, jobs, d, k, kept[d][k])
    BY <1>1, <1>6, <1>9 DEF Promised, Chain
  <2>2. \A i \in New(jobs, 0, jobs') : ~About(jobs'[i], d, k) /\ ~Copies(jobs'[i], d, k)
    BY <1>3 DEF About, Copies, Writes
  <2>3. \A i \in 1 .. 0 : ~Copies(jobs[i], d, k)
    OBVIOUS
  <2>4. Promise(keychain, jobs', d, k, kept[d][k])
    BY <1>1, <1>3, <2>1, <2>2, <2>3, PromiseKept
  <2> QED
    BY <1>5, <2>1, <2>4
<1>10. ASSUME NEW k \in SecretKinds, kept'[copy] # Unknown
       PROVE  Promise(keychain', jobs', copy, k, kept'[copy][k])
  <2> DEFINE v == kept[c][k]
  <2>1. kept'[copy][k] = v /\ v \in Value /\ Uncopied(jobs, c) /\ Promise(keychain, jobs, c, k, v)
    BY <1>1, <1>6, <1>10 DEF Promised, Chain
  <2> HIDE DEF v
  <2>2. \A i \in DOMAIN jobs : ~Copies(jobs[i], c, k)
    BY <2>1 DEF Uncopied, Copies
  <2>3. Holds(keychain, jobs, Len(jobs), c, k, v)
    BY <2>1, <2>2 DEF Promise
  <2>4. Len(jobs) \in 0 .. Len(jobs) /\ Len(jobs) - 0 = Len(jobs)
    BY <1>7
  <2>5. Holds(keychain, jobs', Len(jobs), c, k, v)
    <3>1. Holds(keychain, jobs', Len(jobs) - 0, c, k, v)
      BY <1>1, <1>3, <2>1, <2>3, <2>4, LeftOver
    <3> QED
      BY <2>4, <3>1
  <2>6. \A i \in New(jobs, 0, jobs') : \A d : ~About(jobs'[i], d, k)
    BY <1>3 DEF About, Writes
  <2>7. PICK m \in New(jobs, 0, jobs') : jobs'[m].kind = k
    BY <1>3
  <2>8. /\ New(jobs, 0, jobs') = Len(jobs) + 1 .. Len(jobs')
        /\ m \in Nat /\ Len(jobs) <= m /\ m \in DOMAIN jobs'
        /\ \A i \in Len(jobs) + 1 .. m : i \in New(jobs, 0, jobs')
    BY <1>3, <1>7 DEF New
  <2>9. Holds(keychain, jobs', m, c, k, v)
    BY <1>7, <2>5, <2>6, <2>8, LeftAlone
  <2>10. Copies(jobs'[m], copy, k) /\ jobs'[m].id = c
    BY <1>3, <2>7 DEF Copies
  <2>11. ASSUME NEW j \in DOMAIN jobs', Copies(jobs'[j], copy, k) PROVE j = m
    <3>1. \/ j + 0 \in DOMAIN jobs /\ jobs'[j] = jobs[j + 0]
          \/ j \in New(jobs, 0, jobs')
      BY <1>1, <1>3, After
    <3>2. j \in New(jobs, 0, jobs')
      BY <1>5, <2>11, <3>1 DEF Copies, Mentions
    <3> QED
      BY <1>3, <2>7, <2>11, <3>2 DEF Copies
  <2>12. Holds(keychain, jobs', Len(jobs'), copy, k, None)
    <3>1. \A i \in DOMAIN jobs' : ~About(jobs'[i], copy, k)
      <4> SUFFICES ASSUME NEW i \in DOMAIN jobs' PROVE ~About(jobs'[i], copy, k)
        OBVIOUS
      <4>1. \/ i + 0 \in DOMAIN jobs /\ jobs'[i] = jobs[i + 0]
            \/ i \in New(jobs, 0, jobs')
        BY <1>1, <1>3, After
      <4> QED
        BY <1>5, <2>6, <4>1 DEF About, Mentions
    <3>2. DOMAIN jobs' = 1 .. Len(jobs')
      BY <1>3
    <3> QED
      BY <1>5, <3>1, <3>2, SomeSecrets DEF Holds
  <2> QED
    BY <1>5, <2>1, <2>8, <2>9, <2>10, <2>11, <2>12 DEF Promise
<1>11. Promised'
  BY <1>9, <1>10 DEF Promised
<1>12. Unborn'
  <2>1. \A d \in unused \ {copy} : d # c
    BY <1>1, <1>2 DEF Unborn
  <2>2. \A i \in New(jobs, 0, jobs') : \A d \in unused \ {copy} : ~Mentions(jobs'[i], d)
    BY <1>3, <2>1 DEF Mentions
  <2> QED
    BY <1>2, <1>3, <1>4, <1>6, <2>2, NewOneUnborn
<1>13. KeptFits'
  BY <1>1, <1>2, <1>5, <1>6 DEF KeptFits
<1>14. OneRead' /\ OpeningFits'
  <2>1. \A i \in New(jobs, 0, jobs') :
          /\ jobs'[i].op # "read"
          /\ opening # None /\ jobs'[i].op = "copy" => jobs'[i].value # opening.id
    BY <1>3, <1>5
  <2>2. opening # None =>
          conns'[opening.id] = conns[opening.id] /\ kept'[opening.id] = kept[opening.id]
    BY <1>1, <1>5, <1>6
  <2>3. /\ opening' = opening /\ overtaken \subseteq overtaken'
        /\ Becomes(keychain, jobs, 0, keychain', jobs')
    BY <1>2, <1>3, <1>5
  <2> QED
    BY <1>1, <1>3, <2>1, <2>2, <2>3, StillOpening
<1>15. SessionsFollow'
  BY <1>1, <1>2, <1>5, <1>6 DEF SessionsFollow
<1> QED
  BY <1>8, <1>11, <1>12, <1>13, <1>14, <1>15 DEF ConnectionsIInv

-----------------------------------------------------------------------------
(* The invariant.                                                          *)

LEMMA FirstSecrets == ConnectionsInit => ConnectionsIInv
<1> SUFFICES ASSUME ConnectionsInit PROVE ConnectionsIInv
  OBVIOUS
<1>1. /\ conns = Created /\ unused = {c \in Ids : Created[c] = None}
      /\ kept = [c \in Ids |-> IF c \in unused THEN NoSecrets
                    ELSE [k \in SecretKinds |-> IF k \in KeptKinds(Created[c]) THEN <<k, 1>> ELSE None]]
      /\ keychain = kept /\ jobs = <<>> /\ changes = 1
      /\ editors = [e \in Editors |-> None]
      /\ sessions = [c \in Ids |-> None] /\ opening = None
      /\ overtaken = {}
  BY DEF ConnectionsInit
<1>2. kept \in [Ids -> Chain]
  <2>1. \A k \in SecretKinds : <<k, 1>> \in Value /\ None \in Value
    BY DEF Value
  <2>2. \A c \in Ids : [k \in SecretKinds |-> IF k \in KeptKinds(Created[c]) THEN <<k, 1>> ELSE None] \in Chain
    BY <2>1 DEF Chain
  <2> QED
    BY <1>1, <2>2, SomeSecrets
<1>3. conns \in [Ids -> Forms \union {None}] /\ unused \subseteq Ids
  BY <1>1, FormsAssumption
<1>4. jobs \in Seq(JobSet) /\ DOMAIN jobs = {} /\ Len(jobs) = 0
  BY <1>1
<1>5. SecretsTyped
  BY <1>1, <1>2, <1>3, <1>4 DEF SecretsTyped
<1>6. Promised
  <2> SUFFICES ASSUME NEW c \in Ids, NEW k \in SecretKinds
               PROVE  Promise(keychain, jobs, c, k, kept[c][k])
    BY DEF Promised
  <2>1. Holds(keychain, jobs, 0, c, k, kept[c][k])
    BY <1>1 DEF Holds
  <2> QED
    BY <1>4, <2>1 DEF Promise
<1>7. Unborn
  BY <1>1, <1>3, <1>4 DEF Unborn
<1>8. KeptFits
  BY <1>1, <1>3, SomeSecrets DEF KeptFits
<1>9. OneRead /\ OpeningFits
  BY <1>1, <1>4 DEF OneRead, OpeningFits
<1>10. SessionsFollow
  BY <1>1 DEF SessionsFollow
<1> QED
  BY <1>5, <1>6, <1>7, <1>8, <1>9, <1>10 DEF ConnectionsIInv

LEMMA EverySecretStep ==
  ASSUME ConnectionsIInv, [ConnectionsNext]_connectionsVars
  PROVE  ConnectionsIInv'
<1>1. CASE UNCHANGED connectionsVars
  <2>1. /\ UNCHANGED <<conns, unused, keychain, jobs, editors, sessions, opening, changes, kept, overtaken>>
    BY <1>1 DEF connectionsVars, seen
  <2> QED
    BY <2>1 DEF ConnectionsIInv, SecretsTyped, Promised, Unborn, KeptFits, OneRead, OpeningFits,
                SessionsFollow
<1>2. CASE WritesDone
  BY <1>2, WritesDoneKeeps
<1>3. CASE CopiesRead
  BY <1>3, CopiesReadKeeps
<1>4. CASE PromptAnswered
  BY <1>4, PromptAnsweredKeeps
<1>5. CASE PromptCancelled
  BY <1>5, PromptCancelledKeeps
<1>6. ASSUME NEW c \in Ids,
             \/ UserOpens(c) \/ GatewayRead(c) \/ TargetRead(c) \/ ReadFails(c) \/ ReadOfDeleted(c)
             \/ CloseSession(c) \/ Import(c) \/ DeleteConnection(c) \/ DeleteConnectionOfTab(c)
      PROVE  ConnectionsIInv'
  <2>1. CASE UserOpens(c)
    BY <2>1, UserOpensKeeps
  <2>2. CASE GatewayRead(c) \/ TargetRead(c) \/ ReadFails(c) \/ ReadOfDeleted(c)
    BY <2>2, ReadKeeps
  <2>3. CASE CloseSession(c)
    BY <2>3, CloseSessionKeeps
  <2>4. CASE Import(c)
    BY <2>4, ImportKeeps
  <2>5. CASE DeleteConnection(c)
    BY <2>5, DeleteConnectionKeeps
  <2>6. CASE DeleteConnectionOfTab(c)
    BY <2>6, DeleteConnectionOfTabKeeps
  <2> QED
    BY <1>6, <2>1, <2>2, <2>3, <2>4, <2>5, <2>6
<1>7. ASSUME NEW c \in Ids, NEW form \in Forms, CreateConnection(c, form) \/ CreateAndConnect(c, form)
      PROVE  ConnectionsIInv'
  BY <1>7, CreateConnectionKeeps, CreateAndConnectKeeps
<1>8. ASSUME NEW c \in Ids, NEW copy \in Ids, Duplicate(c, copy) \/ DuplicateOfTab(c, copy)
      PROVE  ConnectionsIInv'
  BY <1>8, DuplicateKeeps, DuplicateOfTabKeeps
<1>9. ASSUME NEW e \in Editors, Leave(e) \/ SaveFails(e) PROVE ConnectionsIInv'
  BY <1>9, EditorLeft
<1>10. ASSUME NEW e \in Editors, NEW c \in Ids, Load(e, c) PROVE ConnectionsIInv'
  BY <1>10, LoadKeeps
<1>11. ASSUME NEW e \in Editors, NEW form \in Forms, SaveEdit(e, form) PROVE ConnectionsIInv'
  BY <1>11, SaveEditKeeps
<1> QED
  BY <1>1, <1>2, <1>3, <1>4, <1>5, <1>6, <1>7, <1>8, <1>9, <1>10, <1>11 DEF ConnectionsNext

LEMMA SecretsAlways == ConnectionsSpec => []ConnectionsIInv
BY FirstSecrets, EverySecretStep, PTL DEF ConnectionsSpec

-----------------------------------------------------------------------------
(* The theorems.                                                           *)

(* Once the jobs of the keychain are done, it holds for each connection    *)
(* the last secrets the user gave for the ways it authenticates, and       *)
(* nothing else: PersistSecrets, the copies of a duplicate and what is     *)
(* deleted, in whatever order the two editors save.                        *)
THEOREM SecretsArrive == ConnectionsSpec => []KeychainFollows
<1>1. ConnectionsIInv => KeychainFollows
  <2> SUFFICES ASSUME ConnectionsIInv, jobs = <<>>, NEW c \in Ids, kept[c] # Unknown
               PROVE  kept[c] = keychain[c]
    BY DEF KeychainFollows
  <2>1. keychain \in [Ids -> Chain] /\ kept \in [Ids -> Chain \union {Unknown}] /\ Promised
    BY DEF ConnectionsIInv, SecretsTyped
  <2>2. kept[c] \in Chain /\ keychain[c] \in Chain
    BY <2>1
  <2>3. ASSUME NEW k \in SecretKinds PROVE kept[c][k] = keychain[c][k]
    <3>1. Promise(keychain, jobs, c, k, kept[c][k])
      BY <2>1 DEF Promised
    <3>2. DOMAIN jobs = {} /\ Len(jobs) = 0
      OBVIOUS
    <3>3. Holds(keychain, jobs, 0, c, k, kept[c][k])
      BY <3>1, <3>2 DEF Promise
    <3> QED
      BY <3>3 DEF Holds
  <2> QED
    BY <2>2, <2>3 DEF Chain
<1> QED
  BY <1>1, SecretsAlways, PTL

(* A session that is open reconnects with the secrets the keychain is      *)
(* meant to hold for its connection, while the jobs that store them still  *)
(* wait: openConnectionById and emitEditSideEffects.                       *)
THEOREM SessionsHaveTheSecrets == ConnectionsSpec => []SessionsFollow
<1>1. ConnectionsIInv => SessionsFollow
  BY DEF ConnectionsIInv
<1> QED
  BY <1>1, SecretsAlways, PTL
=============================================================================
