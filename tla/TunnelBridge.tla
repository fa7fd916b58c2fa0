---------------------------- MODULE TunnelBridge ----------------------------
(***************************************************************************)
(* One running tunnel of the SSH worker and its bridges: the byte pipes    *)
(* between a socket and an SSH channel that local, dynamic (SOCKS5) and    *)
(* remote tunnels and the agent forwarding share.  Everything here runs on *)
(* the worker's thread, one event at a time: socket notifiers, callbacks   *)
(* of the SSH I/O loop, and events posted to the thread's queue, of which  *)
(* the close of a bridge is one, since a bridge may not be freed inside a  *)
(* callback.  The peers (the client on the socket's side, the server on    *)
(* the channel's) send, stop reading and go away when they like.           *)
(*                                                                         *)
(* Upstream is socket to channel, downstream is channel to socket.  Items  *)
(* are numbered per direction; the first ones of a SOCKS client are its    *)
(* handshake.  Sockets are Qt's buffered sockets: write() takes all it is  *)
(* given, a closed peer is noticed by the disconnected signal.             *)
(***************************************************************************)
EXTENDS Integers, Sequences, FiniteSets, SequencesExt

CONSTANTS MaxBridges, \* the connections made while the tunnel runs
          Kinds,      \* the kinds of tunnel to explore
          MaxUp,      \* items a socket's peer sends after its handshake
          MaxDown     \* data items a channel's peer sends

ASSUME KindsAssumption == Kinds \subseteq {"local", "dynamic", "remote", "agent"}
ASSUME BoundsAssumption == {MaxBridges, MaxUp, MaxDown} \subseteq Nat \ {0}

Bridges == 1 .. MaxBridges

VARIABLES
  kind,      \* the kind of the tunnel
  sess,      \* its ITunnelSession: "listening", "stopped" (deleteLater posted), "deleted"
  posted,    \* the thread's posted events: <<"close", b>>, <<"stop">>, <<"delete">>
  st,        \* "none", "waiting" (to be accepted), "handshake", "open", "gone"
  chan,      \* the bridges whose SSH channel exists
  reg,       \* the bridges whose channel callbacks are registered with the loop
  closing,   \* closePending of each bridge
  peer,      \* the socket's peer: "there", "left"
  srv,       \* the channel's peer: "open", "eof" (sent), "ended" (EOF dispatched)
  upSent,    \* items the socket's peer has sent
  upRead,    \* items read from the socket
  upGot,     \* the items the channel's peer has got, in order
  downSent,  \* items the channel's peer has sent
  downIn,    \* items handed to the socket
  downGot,   \* items the socket's peer has got for sure when the socket closes
  cut,       \* the bridges a peer, a stop or the close timeout has cut short
  stray      \* bridges whose posted close ran when they were already freed

pipe == <<upSent, upRead, upGot, downSent, downIn, downGot>>
bridgeVars == <<kind, sess, posted, st, chan, reg, closing, peer, srv, pipe, cut, stray>>

Open == {b \in Bridges : st[b] = "open"}

\* The handshake of a SOCKS client: its methods, then its request.
HandshakeItems == IF kind = "dynamic" THEN 2 ELSE 0
Ended(b) == peer[b] = "left" \/ srv[b] # "open"

BridgeTypeOK ==
  /\ kind \in Kinds
  /\ sess \in {"listening", "stopped", "deleted"}
  /\ posted \in Seq({<<"stop">>, <<"delete">>} \union ({"close"} \X Bridges))
  /\ st \in [Bridges -> {"none", "waiting", "handshake", "open", "gone"}]
  /\ {chan, reg, closing, cut, stray} \subseteq SUBSET Bridges
  /\ peer \in [Bridges -> {"there", "left"}]
  /\ srv \in [Bridges -> {"open", "eof", "ended"}]
  /\ {upSent, upRead} \subseteq [Bridges -> 0 .. MaxUp + 2]
  /\ upGot \in [Bridges -> Seq(1 .. MaxUp + 2)]
  /\ {downSent, downIn, downGot} \subseteq [Bridges -> 0 .. MaxDown]

BridgeInit ==
  /\ kind \in Kinds
  /\ sess = "listening"
  /\ posted = <<>>
  /\ st = [b \in Bridges |-> "none"]
  /\ chan = {} /\ reg = {} /\ closing = {} /\ cut = {} /\ stray = {}
  /\ peer = [b \in Bridges |-> "there"]
  /\ srv = [b \in Bridges |-> "open"]
  /\ upSent = [b \in Bridges |-> 0]
  /\ upRead = [b \in Bridges |-> 0]
  /\ upGot = [b \in Bridges |-> <<>>]
  /\ downSent = [b \in Bridges |-> 0]
  /\ downIn = [b \in Bridges |-> 0]
  /\ downGot = [b \in Bridges |-> 0]

-----------------------------------------------------------------------------
(* The peers.                                                              *)

\* A client connects to the listening socket, or the server opens a channel.
Arrive(b) ==
  /\ st[b] = "none" /\ sess = "listening"
  /\ \A c \in 1 .. b - 1 : st[c] # "none"
  /\ st' = [st EXCEPT ![b] = "waiting"]
  /\ UNCHANGED <<kind, sess, posted, chan, reg, closing, peer, srv, pipe, cut, stray>>

ClientSends(b) ==
  /\ st[b] \in {"waiting", "handshake", "open"} /\ peer[b] = "there"
  /\ kind \in {"remote", "agent"} => st[b] = "open"
  /\ upSent[b] < MaxUp + HandshakeItems
  /\ upSent' = [upSent EXCEPT ![b] = @ + 1]
  /\ UNCHANGED <<kind, sess, posted, st, chan, reg, closing, peer, srv, upRead, upGot,
                 downSent, downIn, downGot, cut, stray>>

ClientLeaves(b) ==
  /\ st[b] \in {"handshake", "open"} /\ peer[b] = "there"
  /\ peer' = [peer EXCEPT ![b] = "left"]
  /\ cut' = cut \union {b}
  /\ UNCHANGED <<kind, sess, posted, st, chan, reg, closing, srv, pipe, stray>>

ServerSends(b) ==
  /\ b \in chan /\ srv[b] = "open" /\ downSent[b] < MaxDown
  /\ downSent' = [downSent EXCEPT ![b] = @ + 1]
  /\ UNCHANGED <<kind, sess, posted, st, chan, reg, closing, peer, srv, upSent, upRead,
                 upGot, downIn, downGot, cut, stray>>

ServerEnds(b) ==
  /\ b \in chan /\ srv[b] = "open"
  /\ srv' = [srv EXCEPT ![b] = "eof"]
  /\ UNCHANGED <<kind, sess, posted, st, chan, reg, closing, peer, pipe, cut, stray>>

\* The user stops the tunnel, or the session ends: a slot posted to the worker.
PostStop ==
  /\ sess = "listening" /\ <<"stop">> \notin ToSet(posted)
  /\ posted' = Append(posted, <<"stop">>)
  /\ UNCHANGED <<kind, sess, st, chan, reg, closing, peer, srv, pipe, cut, stray>>

-----------------------------------------------------------------------------
(* Opening a bridge.                                                       *)

AttachToLoop(b) == reg' = reg \union {b}

\* The channel opens, its callbacks are registered, the bridge joins the list.
Attached(b) ==
  /\ st' = [st EXCEPT ![b] = "open"]
  /\ chan' = chan \union {b}
  /\ AttachToLoop(b)

\* The channel cannot be opened (or is closed again when its callbacks cannot
\* be registered, or the local socket cannot be reached): the caller drops the
\* socket and the channel.
NotAttached(b) ==
  /\ st' = [st EXCEPT ![b] = "gone"]
  /\ cut' = cut \union {b}
  /\ UNCHANGED <<chan, reg>>

\* openForwardBridge of each kind of tunnel blocks until the other side is there.
OpenForwardBridge(b) ==
  \/ Attached(b) /\ UNCHANGED cut
  \/ NotAttached(b)

\* onNewTcpConnection and onNewLocalConnection: the socket waits, the channel is opened.
AcceptLocal(b) ==
  /\ kind = "local" /\ st[b] = "waiting" /\ sess = "listening"
  /\ OpenForwardBridge(b)
  /\ UNCHANGED <<kind, sess, posted, closing, peer, srv, pipe, stray>>

\* acceptRemoteForwards, from the loop's idle handler: the channel waits, the
\* local socket is connected.
AcceptRemote(b) ==
  /\ kind = "remote" /\ st[b] = "waiting" /\ sess = "listening"
  /\ OpenForwardBridge(b)
  /\ UNCHANGED <<kind, sess, posted, closing, peer, srv, pipe, stray>>

\* handleAuthAgentOpen: the same, inside the callback that asks for the channel.
AcceptAgent(b) ==
  /\ kind = "agent" /\ st[b] = "waiting" /\ sess = "listening"
  /\ OpenForwardBridge(b)
  /\ UNCHANGED <<kind, sess, posted, closing, peer, srv, pipe, stray>>

\* onNewConnection of a dynamic tunnel: the client becomes a PendingClient.
AcceptSocks(b) ==
  /\ st[b] = "waiting" /\ sess = "listening" /\ kind = "dynamic"
  /\ st' = [st EXCEPT ![b] = "handshake"]
  /\ UNCHANGED <<kind, sess, posted, chan, reg, closing, peer, srv, pipe, cut, stray>>

\* Socks5Handshake::process with all that has come: it may wait for more, be
\* done, or refuse the version, the method, the credentials or the command.
HandshakeOutcomes(items) ==
  {"refused"} \union {IF items < HandshakeItems THEN "more" ELSE "done"}

\* onHandshakeReadyRead, with finishHandshake when it is done: what was read
\* beyond the request goes with the handshake's buffer.
HandshakeReadyRead(b) ==
  /\ st[b] = "handshake" /\ upRead[b] < upSent[b]
  /\ upRead' = [upRead EXCEPT ![b] = upSent[b]]
  /\ \E outcome \in HandshakeOutcomes(upSent[b]) :
       \/ outcome = "more" /\ UNCHANGED <<st, chan, reg, cut>>
       \/ outcome = "done" /\ OpenForwardBridge(b)
       \/ outcome = "refused" /\ NotAttached(b)
  /\ UNCHANGED <<kind, sess, posted, closing, peer, srv, upSent, upGot, downSent,
                 downIn, downGot, stray>>

\* onHandshakeDisconnected: abortPending.
HandshakeDisconnected(b) ==
  /\ st[b] = "handshake" /\ peer[b] = "left" /\ upRead[b] = upSent[b]
  /\ st' = [st EXCEPT ![b] = "gone"]
  /\ UNCHANGED <<kind, sess, posted, chan, reg, closing, peer, srv, pipe, cut, stray>>

-----------------------------------------------------------------------------
(* The open bridge.                                                        *)

ReceivedAfterAbort(bs) == downGot

\* What the clients of the bridges in bs, which read in time, have got in the end.
Received(bs) == [b \in Bridges |-> IF b \in bs /\ peer[b] = "there"
                                   THEN downIn[b] ELSE downGot[b]]

\* TunnelBridgeIo::closeBridge of the bridges in bs: the callbacks are
\* unregistered, the socket is flushed and closed gracefully (at most a second
\* for a client that reads late), the channel is closed and freed.
CloseBridges(bs) ==
  /\ st' = [b \in Bridges |-> IF b \in bs THEN "gone" ELSE st[b]]
  /\ chan' = chan \ bs
  /\ reg' = reg \ bs
  /\ \E late \in SUBSET bs :
       /\ downGot' = Received(bs \ late)
       /\ cut' = cut \union late

WriteHandshakeToo(b) ==
  \E n \in 0 .. upSent[b] :
    upGot' = [upGot EXCEPT ![b] = @ \o [i \in 1 .. n |-> i]]

\* writeSocketToChannel: the channel takes as many items as its window allows;
\* on SSH_AGAIN the rest of what readAll returned is dropped.
WriteToChannel(b) ==
  \E n \in 0 .. upSent[b] - upRead[b] :
    upGot' = [upGot EXCEPT ![b] = @ \o [i \in 1 .. n |-> upRead[b] + i]]

\* onBridgeSocketReadyRead.  The channel refuses once its peer has ended it.
ReadyRead(b) ==
  /\ b \in Open /\ upRead[b] < upSent[b]
  /\ upRead' = [upRead EXCEPT ![b] = upSent[b]]
  /\ \/ /\ WriteToChannel(b)
        /\ UNCHANGED <<st, chan, reg, downGot, cut>>
     \/ /\ srv[b] = "ended"
        /\ CloseBridges({b})
        /\ UNCHANGED upGot
  /\ UNCHANGED <<kind, sess, posted, closing, peer, srv, upSent, downSent, downIn, stray>>

\* onBridgeSocketDisconnected, after what the client sent has been read.
SocketDisconnected(b) ==
  /\ b \in Open /\ peer[b] = "left" /\ upRead[b] = upSent[b]
  /\ CloseBridges({b})
  /\ UNCHANGED <<kind, sess, posted, closing, peer, srv, upSent, upRead, upGot, downSent, downIn, stray>>

\* TunnelBridgeChannelSink::onData.
ChannelData(b) ==
  /\ b \in reg /\ downIn[b] < downSent[b]
  /\ downIn' = [downIn EXCEPT ![b] = @ + 1]
  /\ UNCHANGED <<kind, sess, posted, st, chan, reg, closing, peer, srv, upSent, upRead,
                 upGot, downSent, downGot, cut, stray>>

ScheduleCloseAgain(b) ==
  /\ closing' = closing \union {b}
  /\ posted' = Append(posted, <<"close", b>>)
ScheduleCloseForgets(b) ==
  /\ closing' = closing \union {b}
  /\ UNCHANGED posted

\* scheduleClose, once per bridge.
ScheduleClose(b) ==
  IF b \in closing
  THEN UNCHANGED <<closing, posted>>
  ELSE /\ closing' = closing \union {b}
       /\ posted' = Append(posted, <<"close", b>>)

\* onEof, after the data that came before it, and onClose, which follows it.
ChannelEnd(b) ==
  /\ b \in reg /\ srv[b] # "open" /\ downIn[b] = downSent[b]
  /\ srv[b] = "ended" => b \in closing
  /\ srv' = [srv EXCEPT ![b] = "ended"]
  /\ ScheduleClose(b)
  /\ UNCHANGED <<kind, sess, st, chan, reg, peer, pipe, cut, stray>>

-----------------------------------------------------------------------------
(* The posted events.                                                      *)

\* The posted requestClose.  It captures the bridge and is guarded only by the
\* owner: of a bridge that another event has freed it reads freed memory.
PostedClose ==
  /\ posted # <<>> /\ Head(posted)[1] = "close"
  /\ posted' = Tail(posted)
  /\ LET b == Head(posted)[2] IN
       IF b \in Open
       THEN CloseBridges({b}) /\ UNCHANGED stray
       ELSE /\ stray' = IF sess = "deleted" THEN stray ELSE stray \union {b}
            /\ UNCHANGED <<st, chan, reg, downGot, cut>>
  /\ UNCHANGED <<kind, sess, closing, peer, srv, upSent, upRead, upGot, downSent,
                 downIn>>

\* ITunnelSession::stop: the clients in a handshake are aborted, the bridges
\* closed, the listener closed; then deleteLater.
Stop ==
  /\ posted # <<>> /\ Head(posted) = <<"stop">>
  /\ sess' = "stopped"
  /\ posted' = Append(Tail(posted), <<"delete">>)
  /\ \E late \in SUBSET Open : downGot' = Received(Open \ late)
  /\ chan' = chan \ Open
  /\ reg' = reg \ Open
  /\ cut' = cut \union {b \in Bridges : st[b] \in {"waiting", "handshake", "open"}}
  /\ st' = [b \in Bridges |-> IF st[b] = "none" THEN "none" ELSE "gone"]
  /\ UNCHANGED <<kind, closing, peer, srv, upSent, upRead, upGot, downSent, downIn,
                 stray>>

Delete ==
  /\ posted # <<>> /\ Head(posted) = <<"delete">>
  /\ posted' = Tail(posted)
  /\ sess' = "deleted"
  /\ UNCHANGED <<kind, st, chan, reg, closing, peer, srv, pipe, cut, stray>>

-----------------------------------------------------------------------------
PeerStep == \E b \in Bridges : \/ Arrive(b) \/ ClientSends(b) \/ ClientLeaves(b)
                               \/ ServerSends(b)
                               \/ ServerEnds(b)
SocketStep(b) == \/ AcceptLocal(b) \/ AcceptRemote(b) \/ AcceptAgent(b)
                 \/ AcceptSocks(b) \/ HandshakeReadyRead(b)
                 \/ HandshakeDisconnected(b) \/ ReadyRead(b) \/ SocketDisconnected(b)
LoopStep(b) == ChannelData(b) \/ ChannelEnd(b)
PostedStep == PostedClose \/ Stop \/ Delete

BridgeNext == PeerStep \/ PostStop \/ PostedStep \/ \E b \in Bridges : SocketStep(b) \/ LoopStep(b)

\* The event loop serves every socket, every channel and its posted events.
BridgeFairness ==
  /\ WF_bridgeVars(PostedStep)
  /\ \A b \in Bridges : WF_bridgeVars(SocketStep(b)) /\ WF_bridgeVars(LoopStep(b))

BridgeSpec == BridgeInit /\ [][BridgeNext]_bridgeVars /\ BridgeFairness

-----------------------------------------------------------------------------
(* Properties.                                                             *)

\* A bridge that ends because the server ended the channel has given the
\* client all the server sent before it (closeBridge closes the socket
\* gracefully; aborting it would lose the response that came with the EOF),
\* unless the client left, the tunnel was stopped or the client read too late.
ResponseIsComplete ==
  \A b \in Bridges : st[b] = "gone" /\ b \notin cut => downGot[b] = downSent[b]

\* At most one deferred close of a bridge is ever posted (EOF and close both
\* ask for it), so a stray one is only met when a socket event or a stop has
\* freed the bridge in between, never when the pipe ends by itself.
OneDeferredClose ==
  \A b \in Bridges :
    /\ \A i, j \in DOMAIN posted :
         posted[i] = <<"close", b>> /\ posted[j] = <<"close", b>> => i = j
    /\ b \in stray => peer[b] = "left" \/ sess # "listening" \/ upRead[b] > 0

\* What the server gets is data of the client in the order it was sent: no
\* item twice, none of the handshake, whatever the window dropped.
UpstreamInOrder ==
  \A b \in Bridges :
    \A i \in DOMAIN upGot[b] :
      /\ upGot[b][i] > HandshakeItems
      /\ i > 1 => upGot[b][i] > upGot[b][i - 1]

\* A bridge one of whose ends is gone is released, whatever the other end does.
EndedIsReleased == \A b \in Bridges : b \in Open /\ Ended(b) ~> b \notin Open
=============================================================================
