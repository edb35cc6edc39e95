--------------------------- MODULE ResponderProofs ---------------------------
(***************************************************************************)
(* Whatever the addresses, the tasks, the tokens and the random numbers,   *)
(* and for any messages: the state of a responder and its socket agree, it *)
(* speaks to an initiator exactly if there is one, and the initiator it    *)
(* ends up with has completed the handshake with the current object.       *)
(***************************************************************************)
EXTENDS ResponderAlone, SignalingProofs, TLAPS

-----------------------------------------------------------------------------
(* What a responder knows of its initiator.  Before the peer handshake it  *)
(* has not said anything and nobody was announced; in the handshake it has *)
(* greeted exactly if an initiator is connected; in state `task` the       *)
(* handshake is complete.  A session key that is in use is its own.        *)
OwnSession(r, peer) == peer.sess[1] = "session" /\ <<r, peer.n>> \in peer.sess[2]

Early(cn) == ~cn.used \/ cn.state \in {"ws-connecting", "server-handshake"}

Unspoken(peer) ==
  ~peer.connected /\ peer.out = 0 /\ peer.hs \in {"new", "token-sent"} /\ peer.cookie = NoCookie

Greeting_OK(peer) ==
  /\ peer.cookie = NoCookie
  /\ peer.connected <=> peer.hs \in {"key-sent", "auth-sent"}
  /\ ~peer.connected => peer.out = 0

Complete(r, peer, t) ==
  /\ peer.hs = "auth-received"
  /\ peer.cookie \notin {NoCookie, <<r, peer.n>>}
  /\ OwnSession(r, peer)
  /\ t \in OfferedTasks[r]

Partnered(r, cn, peer, t) ==
  /\ peer \in InitiatorObject
  /\ t \in TaskNames \cup {NoTask}
  /\ peer.hs = "auth-sent" => OwnSession(r, peer)
  /\ Early(cn) => t = NoTask /\ Unspoken(peer)
  /\ cn.used /\ cn.state = "peer-handshake" => t = NoTask /\ Greeting_OK(peer)
  /\ cn.state = "task" => Complete(r, peer, t)

PeerInv ==
  /\ task \in [Client -> TaskNames \cup {NoTask}]
  /\ initiator \in [Responders -> InitiatorObject]
  /\ \A r \in Responders : Partnered(r, conn[r], initiator[r], task[r])

Waiting(q) == q = <<>> \/ (q = <<Head(q)>> /\ IsPacket(Head(q)))

InboxInv == inbox = [c \in Client |-> inbox[c]] /\ \A r \in Responders : Waiting(inbox[r])

IInv == ConnInv /\ ServerInv /\ InboxInv /\ PeerInv

LEMMA Clients == Responders \subseteq Client
BY DEF Client

LEMMA Held ==
  ASSUME PeerInv, NEW r \in Responders
  PROVE  /\ initiator[r] \in InitiatorObject /\ Partnered(r, conn[r], initiator[r], task[r])
         /\ task = [task EXCEPT ![r] = task[r]] /\ initiator = [initiator EXCEPT ![r] = initiator[r]]
BY DEF PeerInv

(* Only entry r has changed.                                               *)
LEMMA PeerFrame ==
  ASSUME PeerInv, NEW r \in Responders, Apart(r), NEW peer, NEW t,
         initiator' = [initiator EXCEPT ![r] = peer], task' = [task EXCEPT ![r] = t],
         Partnered(r, conn'[r], peer, t)
  PROVE  PeerInv'
<1>1. peer \in InitiatorObject /\ t \in TaskNames \cup {NoTask}
  BY DEF Partnered
<1>2. /\ task' \in [Client -> TaskNames \cup {NoTask}]
      /\ initiator' \in [Responders -> InitiatorObject]
  BY <1>1, Clients DEF PeerInv
<1>3. ASSUME NEW q \in Responders PROVE Partnered(q, conn'[q], initiator'[q], task'[q])
  <2>1. CASE q = r
    <3>1. initiator'[q] = peer /\ task'[q] = t
      BY <2>1, Clients DEF PeerInv
    <3> QED BY <2>1, <3>1
  <2>2. CASE q # r
    <3>1. conn'[q] = conn[q] /\ initiator'[q] = initiator[q] /\ task'[q] = task[q]
      BY <2>2, Clients DEF PeerInv, Apart
    <3> QED BY <3>1 DEF PeerInv
  <2> QED BY <2>1, <2>2
<1> QED BY <1>2, <1>3 DEF PeerInv

(* A step that only concerns the connection, or ends it.                   *)
LEMMA PeerKept ==
  ASSUME PeerInv, NEW r \in Responders, Apart(r), UNCHANGED <<initiator, task>>,
         Early(conn'[r]) => Early(conn[r]),
         conn'[r].state \in {"peer-handshake", "task"} =>
           conn'[r].state = conn[r].state /\ conn'[r].used = conn[r].used
  PROVE  PeerInv'
<1>1. Partnered(r, conn[r], initiator[r], task[r])
  BY Held
<1>2. Partnered(r, conn'[r], initiator[r], task[r])
  BY <1>1 DEF Partnered
<1> QED BY <1>2, Held, PeerFrame

LEMMA InboxFrame ==
  ASSUME InboxInv, NEW r \in Responders, NEW q, Waiting(q), inbox' = [inbox EXCEPT ![r] = q]
  PROVE  InboxInv'
<1>1. inbox' = [c \in Client |-> inbox'[c]]
  BY Clients DEF InboxInv
<1>2. ASSUME NEW s \in Responders PROVE Waiting(inbox'[s])
  <2>1. CASE s = r
    BY <2>1, Clients DEF InboxInv
  <2>2. CASE s # r
    <3>1. inbox'[s] = inbox[s] /\ Waiting(inbox[s])
      BY <2>2, Clients DEF InboxInv
    <3> QED BY <3>1
  <2> QED BY <2>1, <2>2
<1> QED BY <1>1, <1>2 DEF InboxInv

LEMMA Emptied ==
  ASSUME InboxInv, NEW r \in Responders, inbox' = [inbox EXCEPT ![r] = <<>>]
  PROVE  InboxInv'
BY InboxFrame DEF Waiting

LEMMA InboxKept ==
  ASSUME InboxInv, inbox' = inbox
  PROVE  InboxInv'
BY DEF InboxInv

-----------------------------------------------------------------------------
(* Every step of a responder keeps the invariant, leaves the others alone  *)
(* and does not bring a connection back.                                   *)
GoodStep(r) == IInv' /\ Apart(r) /\ StaysDown(r)

LEMMA ConnectStep ==
  ASSUME IInv, NEW r \in Responders, Connect(r), UNCHANGED initiator
  PROVE  GoodStep(r)
<1>1. /\ ConnInv' /\ Apart(r) /\ conn'[r].used /\ conn'[r].state = "ws-connecting"
      /\ ~conn[r].used
  BY Clients, ConnectConn DEF IInv
<1>2. ServerInv' /\ InboxInv'
  BY Clients, ServerReset, InboxKept DEF IInv, Connect
<1>3. PeerInv'
  BY <1>1, PeerKept DEF IInv, Connect, Early
<1>4. StaysDown(r)
  BY <1>1 DEF StaysDown
<1> QED BY <1>1, <1>2, <1>3, <1>4 DEF GoodStep, IInv

LEMMA DisconnectStep ==
  ASSUME IInv, NEW r \in Responders, NEW unbind \in BOOLEAN, Disconnect(r, unbind),
         UNCHANGED initiator
  PROVE  GoodStep(r)
<1>1. ConnInv' /\ Apart(r) /\ conn'[r].state = "closed" /\ conn'[r].used = conn[r].used
  BY Clients, DisconnectConn DEF IInv
<1>2. ServerInv' /\ InboxInv'
  BY ServerKept, Emptied DEF IInv, Disconnect
<1>3. PeerInv'
  BY <1>1, PeerKept DEF IInv, Disconnect, Early
<1>4. StaysDown(r)
  BY <1>1 DEF StaysDown
<1> QED BY <1>1, <1>2, <1>3, <1>4 DEF GoodStep, IInv

LEMMA OnOpenStep ==
  ASSUME IInv, NEW r \in Responders, OnOpen(r), UNCHANGED inbox, UNCHANGED initiator
  PROVE  GoodStep(r)
<1>1. /\ ConnInv' /\ Apart(r) /\ conn'[r].state = "server-handshake"
      /\ conn'[r].used = conn[r].used /\ conn[r].state = "ws-connecting"
  BY Clients, OnOpenConn DEF IInv
<1>2. ServerInv' /\ InboxInv'
  BY ServerKept, InboxKept DEF IInv, OnOpen
<1>3. PeerInv'
  BY <1>1, PeerKept DEF IInv, OnOpen, Early
<1>4. StaysDown(r)
  BY <1>1 DEF StaysDown
<1> QED BY <1>1, <1>2, <1>3, <1>4 DEF GoodStep, IInv

(* The three ways in which a connection ends.                              *)
LEMMA ClosedStep ==
  ASSUME IInv, NEW r \in Responders, CloseEvent(r) \/ ServerCloses(r) \/ ConnectionLost(r),
         UNCHANGED initiator
  PROVE  GoodStep(r)
<1>1. PICK code \in CloseCode :
        /\ OnClose(r, code) /\ conn[r].socket # "none"
        /\ code = Handover => conn[r].socket = "closing"
  <2>1. CASE CloseEvent(r)
    <3>1. PICK code \in {conn[r].code, AbnormalClosure} : OnClose(r, code)
      BY <2>1 DEF CloseEvent
    <3>2. /\ conn[r].socket = "closing" /\ conn[r].code \in {0} \cup CloseCode
          /\ conn[r].code # 0
      BY <2>1, Clients DEF CloseEvent, IInv, ConnInv, Link, ConnRecord
    <3> QED BY <3>1, <3>2, Codes
  <2>2. CASE ServerCloses(r)
    BY <2>2 DEF ServerCloses, InboxInv, Waiting, IsPacket, IInv
  <2>3. CASE ConnectionLost(r)
    BY <2>3, Codes DEF ConnectionLost, AbnormalClosure, Handover
  <2> QED BY <2>1, <2>2, <2>3
<1>2. handover' = handover /\ srv' = srv /\ addr' = addr /\ task' = task
  BY DEF CloseEvent, ServerCloses, ConnectionLost
<1>3. /\ ConnInv' /\ Apart(r) /\ conn'[r].used = conn[r].used
      /\ conn'[r].state \in {conn[r].state, "closed"}
  BY <1>1, <1>2, Clients, OnCloseConn DEF IInv
<1>4. inbox' = inbox \/ inbox' = [inbox EXCEPT ![r] = <<>>]
  BY DEF CloseEvent, ServerCloses, ConnectionLost
<1>5. ServerInv' /\ InboxInv'
  BY <1>2, <1>4, ServerKept, Emptied, InboxKept DEF IInv
<1>6. PeerInv'
  BY <1>2, <1>3, PeerKept DEF IInv, Early
<1>7. StaysDown(r)
  BY <1>3 DEF StaysDown
<1> QED BY <1>3, <1>5, <1>6, <1>7 DEF GoodStep, IInv

-----------------------------------------------------------------------------
(* Handlers.  `m` is the message that is being dispatched.                 *)
Incoming(r, m) == Receives(r) /\ m = Head(inbox[r])

LEMMA Received ==
  ASSUME IInv, NEW r \in Responders, NEW m, Incoming(r, m)
  PROVE  /\ IsPacket(m) /\ m.type # "ws-close" /\ Tail(inbox[r]) = <<>>
         /\ conn[r].socket = "open" /\ conn[r].used
         /\ conn[r].state \in {"server-handshake", "peer-handshake", "task"}
         /\ m.csn \in Nat /\ m.cookie \in Name /\ m.cookie \in Cookie /\ m.cookie # NoCookie
<1>1. inbox[r] = <<m>> /\ IsPacket(m) /\ m.type # "ws-close"
  BY DEF Incoming, Receives, IInv, InboxInv, Waiting
<1>2. Tail(inbox[r]) = <<>>
  BY <1>1, SingleTail
<1>3. Link(conn[r], handover[r]) /\ conn[r].socket = "open"
  BY Clients DEF Incoming, Receives, IInv, ConnInv
<1>4. conn[r].used /\ conn[r].state \in {"server-handshake", "peer-handshake", "task"}
  BY <1>3 DEF Link
<1>5. m.csn \in Nat /\ m.cookie \in Name /\ m.cookie \in Cookie /\ m.cookie # NoCookie
  BY <1>1, NoCookieIsNoName DEF IsPacket, Cookie
<1> QED BY <1>1, <1>2, <1>3, <1>4, <1>5

LEMMA Consumed ==
  ASSUME IInv, NEW r \in Responders, NEW m, Incoming(r, m), Consume(r)
  PROVE  InboxInv'
<1>1. inbox' = [inbox EXCEPT ![r] = <<>>]
  BY Received DEF Consume
<1> QED BY <1>1, Emptied DEF IInv

(* A handler that leaves the connection alone or moves on in the handshake. *)
LEMMA HandlerStep ==
  ASSUME IInv, NEW r \in Responders, NEW m, Incoming(r, m), Consume(r), ServerInv',
         NEW state \in {conn[r].state, "peer-handshake", "task"},
         conn' = [conn EXCEPT ![r].state = state], handover' = handover,
         NEW peer, NEW t,
         initiator' = [initiator EXCEPT ![r] = peer], task' = [task EXCEPT ![r] = t],
         \A cn : cn.used /\ cn.state = state => Partnered(r, cn, peer, t)
  PROVE  GoodStep(r)
<1>1. /\ conn[r].socket = "open" /\ conn[r].used
      /\ conn[r].state \in {"server-handshake", "peer-handshake", "task"}
  BY Received
<1>2. conn[r] \in ConnRecord /\ conn \in [Client -> ConnRecord]
  BY Clients DEF IInv, ConnInv
<1>3. ConnInv' /\ Apart(r) /\ conn'[r].used /\ conn'[r].state = state
  <2>1. CASE state \in {"peer-handshake", "task"}
    BY <1>1, <2>1, Clients, AdvanceConn DEF IInv
  <2>2. CASE state = conn[r].state
    <3>1. [conn[r] EXCEPT !.state = state] = conn[r]
      BY <1>2, <2>2 DEF ConnRecord
    <3>2. conn' = conn
      BY <1>2, <3>1
    <3> QED BY <1>1, <2>2, <3>2 DEF IInv, ConnInv, Apart
  <2> QED BY <2>1, <2>2
<1>4. PeerInv'
  <2>1. Partnered(r, conn'[r], peer, t)
    BY <1>3
  <2> QED BY <1>3, <2>1, PeerFrame DEF IInv
<1>5. InboxInv'
  BY Consumed
<1>6. StaysDown(r)
  BY <1>1 DEF StaysDown
<1> QED BY <1>3, <1>4, <1>5, <1>6 DEF GoodStep, IInv

(* A handler that only changes the Initiator object.                       *)
LEMMA ObjectStep ==
  ASSUME IInv, NEW r \in Responders, NEW m, Incoming(r, m), Consume(r), ServerInv',
         UNCHANGED <<conn, handover, task>>, NEW peer,
         initiator' = [initiator EXCEPT ![r] = peer],
         \A cn : cn.used /\ cn.state = conn[r].state => Partnered(r, cn, peer, task[r])
  PROVE  GoodStep(r)
<1>1. conn' = [conn EXCEPT ![r].state = conn[r].state]
  <2>1. conn[r] \in ConnRecord /\ conn \in [Client -> ConnRecord]
    BY Clients DEF IInv, ConnInv
  <2>2. [conn[r] EXCEPT !.state = conn[r].state] = conn[r]
    BY <2>1 DEF ConnRecord
  <2> QED BY <2>1, <2>2
<1>2. task' = [task EXCEPT ![r] = task[r]]
  BY Held DEF IInv
<1> QED BY <1>1, <1>2, HandlerStep

(* One that does nothing to the initiator.                                 *)
LEMMA SilentStep ==
  ASSUME IInv, NEW r \in Responders, NEW m, Incoming(r, m), Consume(r), ServerInv',
         UNCHANGED <<conn, handover, task, initiator>>
  PROVE  GoodStep(r)
<1>1. Partnered(r, conn[r], initiator[r], task[r]) /\ conn[r].used
  BY Received, Held DEF IInv
<1>2. \A cn : cn.used /\ cn.state = conn[r].state => Partnered(r, cn, initiator[r], task[r])
  BY <1>1 DEF Partnered, Early
<1>3. initiator' = [initiator EXCEPT ![r] = initiator[r]]
  BY Held DEF IInv
<1> QED BY <1>2, <1>3, ObjectStep

(* A reset ends the instance, whatever was stored before it.               *)
LEMMA ResetStep ==
  ASSUME IInv, NEW r \in Responders, NEW m, Incoming(r, m), NEW reason \in CloseCode, NEW sent,
         Reset(r, reason, sent), NEW peer \in InitiatorObject, NEW t \in TaskNames \cup {NoTask},
         peer.hs = "auth-sent" => OwnSession(r, peer),
         initiator' = [initiator EXCEPT ![r] = peer], task' = [task EXCEPT ![r] = t]
  PROVE  GoodStep(r)
<1>1. ConnInv' /\ Apart(r) /\ conn'[r].state = "new" /\ conn'[r].used = conn[r].used
  BY Clients, ResetConn DEF IInv
<1>2. conn[r].used
  BY Received
<1>3. ServerInv' /\ InboxInv'
  BY Clients, ServerReset, Emptied DEF IInv, Reset
<1>4. Partnered(r, conn'[r], peer, t)
  BY <1>1, <1>2 DEF Partnered, Early
<1>5. PeerInv'
  BY <1>1, <1>4, PeerFrame DEF IInv
<1>6. StaysDown(r)
  BY <1>1 DEF StaysDown
<1> QED BY <1>1, <1>3, <1>5, <1>6 DEF GoodStep, IInv

LEMMA PlainReset ==
  ASSUME IInv, NEW r \in Responders, NEW m, Incoming(r, m), NEW reason \in CloseCode, NEW sent,
         ResetConnection(r, reason, sent), UNCHANGED initiator
  PROVE  GoodStep(r)
<1>1. /\ initiator[r] \in InitiatorObject /\ task[r] \in TaskNames \cup {NoTask}
      /\ initiator[r].hs = "auth-sent" => OwnSession(r, initiator[r])
      /\ initiator' = [initiator EXCEPT ![r] = initiator[r]]
      /\ task' = [task EXCEPT ![r] = task[r]]
  BY Held DEF IInv, Partnered, ResetConnection
<1> QED BY <1>1, ResetStep DEF ResetConnection

LEMMA AfterPeerHandoverStep ==
  ASSUME IInv, NEW r \in Responders, NEW m, Incoming(r, m), AfterPeerHandover(r),
         UNCHANGED initiator
  PROVE  GoodStep(r)
BY PlainReset, Codes DEF AfterPeerHandover

LEMMA ProtocolErrorStep ==
  ASSUME IInv, NEW r \in Responders, NEW m, Incoming(r, m), OnProtocolError(r)
  PROVE  GoodStep(r)
<1>1. CASE CloseOnError(r)
  <2> DEFINE close == SendClose(r, initiator[r], 1, ProtocolError)
             peer == [initiator[r] EXCEPT !.out = @ + Len(close)]
  <2>1. /\ initiator[r] \in InitiatorObject /\ task[r] \in TaskNames \cup {NoTask}
        /\ initiator[r].hs = "auth-sent" => OwnSession(r, initiator[r])
    BY Held DEF IInv, Partnered
  <2>2. Len(close) \in Nat
    BY CloseLength
  <2>3. /\ initiator' = [initiator EXCEPT ![r] = peer] /\ task' = [task EXCEPT ![r] = task[r]]
        /\ Reset(r, ClosingNormal, close)
    BY <1>1, Held DEF CloseOnError, ResetConnection, IInv
  <2> HIDE DEF close
  <2>4. peer \in InitiatorObject
    BY <2>1, <2>2 DEF InitiatorObject
  <2>5. peer.hs = initiator[r].hs /\ peer.sess = initiator[r].sess /\ peer.n = initiator[r].n
    BY <2>1 DEF InitiatorObject
  <2>6. peer.hs = "auth-sent" => OwnSession(r, peer)
    BY <2>1, <2>5 DEF OwnSession
  <2> HIDE DEF peer
  <2> QED BY <2>1, <2>3, <2>4, <2>6, ResetStep, Codes
<1>2. CASE ResetConnection(r, ProtocolError, <<>>) /\ UNCHANGED initiator
  BY <1>2, PlainReset, Codes
<1> QED BY <1>1, <1>2 DEF OnProtocolError

-----------------------------------------------------------------------------
(* Messages of the server.                                                 *)
LEMMA ServerChanges ==
  ASSUME IInv, NEW r \in Responders, NEW s \in ServerObject,
         srv' = [srv EXCEPT ![r] = s], addr' = addr
  PROVE  ServerInv'
<1>1. addr' = [addr EXCEPT ![r] = addr[r]] /\ addr[r] \in Address
  BY Clients DEF IInv, ServerInv
<1> QED BY <1>1, Clients, ServerFrame DEF IInv

LEMMA ServerHeld ==
  ASSUME IInv, NEW r \in Responders
  PROVE  srv[r] \in ServerObject /\ srv \in [Client -> ServerObject]
BY Clients DEF IInv, ServerInv

LEMMA ServerCsnStored ==
  ASSUME IInv, NEW r \in Responders, NEW m, Incoming(r, m), StoreServerCsn(r, m), addr' = addr
  PROVE  ServerInv'
<1> DEFINE s == [srv[r] EXCEPT !.in = m.csn]
<1>1. s \in ServerObject
  BY Received, ServerHeld DEF ServerObject
<1>2. srv' = [srv EXCEPT ![r] = s]
  BY DEF StoreServerCsn
<1> HIDE DEF s
<1> QED BY <1>1, <1>2, ServerChanges

LEMMA HandleServerHelloStep ==
  ASSUME IInv, NEW r \in Responders, NEW m, Incoming(r, m), HandleServerHello(r, m),
         UNCHANGED initiator
  PROVE  GoodStep(r)
<1> DEFINE hello == <<BuildPacket(r, srv[r], 0, Plain, "client-hello", NoTask)>>
           said == [srv[r] EXCEPT !.out = @ + Len(hello)]
           s == [said EXCEPT !.hs = "auth-sent", !.out = @ + 1, !.in = m.csn, !.cookie = m.cookie]
<1>1. m.csn \in Nat /\ m.cookie \in Cookie /\ srv[r] \in ServerObject
  BY Received, ServerHeld
<1>2. srv' = [srv EXCEPT ![r] = s]
  BY DEF HandleServerHello
<1>3. Len(hello) \in Nat
  OBVIOUS
<1> HIDE DEF hello
<1>4. said \in ServerObject
  BY <1>1, <1>3, ServerSends
<1> HIDE DEF said
<1>5. s \in ServerObject
  <2>1. said.out + 1 \in Nat /\ "auth-sent" \in {"new", "auth-sent", "done"}
    BY <1>4 DEF ServerObject
  <2> QED BY <1>1, <1>4, <2>1 DEF ServerObject
<1> HIDE DEF s
<1>6. ServerInv'
  BY <1>2, <1>5, ServerChanges DEF HandleServerHello
<1> QED BY <1>6, SilentStep DEF HandleServerHello

LEMMA ServerAuthUndecryptableStep ==
  ASSUME IInv, NEW r \in Responders, NEW m, Incoming(r, m), ServerAuthUndecryptable(r, m),
         UNCHANGED initiator
  PROVE  GoodStep(r)
<1>1. StoreServerCsn(r, m) /\ addr' = addr
  BY DEF ServerAuthUndecryptable, StoreServerCsn
<1>2. ServerInv'
  BY <1>1, ServerCsnStored
<1> QED BY <1>2, SilentStep DEF ServerAuthUndecryptable

LEMMA ServerNoticeStep ==
  ASSUME IInv, NEW r \in Responders, NEW m, Incoming(r, m), ServerNotice(r, m)
  PROVE  GoodStep(r)
<1>1. ServerInv'
  BY ServerCsnStored DEF ServerNotice
<1> QED BY <1>1, SilentStep DEF ServerNotice

LEMMA DiscardEarlyStep ==
  ASSUME IInv, NEW r \in Responders, NEW m, Incoming(r, m), DiscardEarly(r, m)
  PROVE  GoodStep(r)
<1>1. ServerInv'
  BY ServerKept DEF DiscardEarly, IInv
<1> QED BY <1>1, SilentStep DEF DiscardEarly

(* Greeting an initiator that is connected raises our number and leaves    *)
(* the object waiting for its key; nothing is said to one that is not.     *)
LEMMA GreetedOK ==
  ASSUME NEW r, NEW peer \in InitiatorObject, peer.cookie = NoCookie,
         peer.connected \/ (peer.hs \in {"new", "token-sent"} /\ peer.out = 0)
  PROVE  /\ Greeted(r, peer) \in InitiatorObject /\ Greeting_OK(Greeted(r, peer))
         /\ Greeted(r, peer).hs \notin {"auth-sent", "auth-received"}
<1>1. CASE ~peer.connected
  BY <1>1 DEF Greeted, Greeting_OK
<1>2. CASE peer.connected
  <2> DEFINE new == [peer EXCEPT !.out = @ + Len(Greeting(r, peer)), !.hs = "key-sent"]
  <2>1. Len(Greeting(r, peer)) \in Nat
    <3> DEFINE token == IF Tokens(r)
                        THEN <<BuildPacket(r, peer, 1, TokenKey(AuthToken[r]), "token", r)>>
                        ELSE <<>>
               next == [peer EXCEPT !.out = @ + Len(token)]
               key == BuildPacket(r, next, 1, PermanentKey(r), "key", <<r, peer.n>>)
    <3>1. Greeting(r, peer) = Append(token, key)
      BY <1>2 DEF Greeting
    <3>2. \A e, f : Len(Append(<<e>>, f)) = 2 /\ Len(Append(<<>>, f)) = 1
      OBVIOUS
    <3>3. (\E e : token = <<e>>) \/ token = <<>>
      OBVIOUS
    <3> HIDE DEF token, key
    <3> QED BY <3>1, <3>2, <3>3
  <2>2. Greeted(r, peer) = new
    BY <1>2 DEF Greeted
  <2>3. peer.out + Len(Greeting(r, peer)) \in Nat
    BY <2>1 DEF InitiatorObject
  <2>4. /\ new \in InitiatorObject /\ new.connected = peer.connected
        /\ new.cookie = peer.cookie /\ new.hs = "key-sent"
    BY <2>3 DEF InitiatorObject
  <2> HIDE DEF new
  <2> QED BY <1>2, <2>2, <2>4 DEF Greeting_OK
<1> QED BY <1>1, <1>2

LEMMA GreetedPartner ==
  ASSUME IInv, NEW r \in Responders, task[r] = NoTask,
         NEW peer \in InitiatorObject, peer.cookie = NoCookie,
         peer.connected \/ (peer.hs \in {"new", "token-sent"} /\ peer.out = 0)
  PROVE  \A cn : cn.used /\ cn.state = "peer-handshake" =>
           Partnered(r, cn, Greeted(r, peer), task[r])
BY GreetedOK DEF Partnered, Early

LEMMA ServerAuthHandledStep ==
  ASSUME IInv, NEW r \in Responders, NEW m, Incoming(r, m), ServerAuthHandled(r, m)
  PROVE  GoodStep(r)
<1> DEFINE peer == [initiator[r] EXCEPT !.connected = m.body.connected]
           s == [srv[r] EXCEPT !.hs = "done", !.in = m.csn]
<1>1. /\ conn[r].state = "server-handshake" /\ m.type = "server-auth"
      /\ m.dst \in Address
      /\ conn' = [conn EXCEPT ![r].state = "peer-handshake"]
      /\ addr' = [addr EXCEPT ![r] = m.dst]
      /\ Consume(r) /\ UNCHANGED <<handover, task>>
  BY Received DEF ServerAuthHandled, ServerAuthDone, ServerHandshake, AuthExpected, IsPacket
<1>2. /\ initiator' = [initiator EXCEPT ![r] = Greeted(r, peer)]
      /\ srv' = [srv EXCEPT ![r] = s]
  BY DEF ServerAuthHandled
<1>3. ServerInv'
  <2>1. s \in ServerObject
    BY Received, ServerHeld DEF ServerObject
  <2> HIDE DEF s
  <2> QED BY <1>1, <1>2, <2>1, Clients, ServerFrame DEF IInv
<1>4. initiator[r] \in InitiatorObject /\ Unspoken(initiator[r]) /\ task[r] = NoTask
  BY <1>1, Held DEF IInv, Partnered, Early
<1>5. /\ peer \in InitiatorObject /\ peer.cookie = NoCookie
      /\ peer.hs \in {"new", "token-sent"} /\ peer.out = 0
  <2>1. m.body.connected \in BOOLEAN
    BY <1>1, Received DEF IsPacket
  <2> QED BY <1>4, <2>1 DEF Unspoken, InitiatorObject
<1> HIDE DEF peer
<1>6. \A cn : cn.used /\ cn.state = "peer-handshake" =>
        Partnered(r, cn, Greeted(r, peer), task[r])
  BY <1>4, <1>5, GreetedPartner
<1>7. task' = [task EXCEPT ![r] = task[r]]
  BY <1>1, Held DEF IInv
<1> QED BY <1>1, <1>2, <1>3, <1>6, <1>7, HandlerStep

LEMMA HandleNewInitiatorStep ==
  ASSUME IInv, NEW r \in Responders, NEW m, Incoming(r, m), HandleNewInitiator(r, m)
  PROVE  GoodStep(r)
<1>1. CASE ResetConnection(r, ClosingNormal, <<>>) /\ UNCHANGED initiator
  BY <1>1, PlainReset, Codes
<1>2. ASSUME NEW start \in CsnStarts,
             initiator' = [initiator EXCEPT ![r] =
               Greeted(r, [NewInitiator(initiator[r].n + 1, start) EXCEPT !.connected = TRUE])],
             conn[r].state = "peer-handshake", StoreServerCsn(r, m), Consume(r),
             UNCHANGED <<conn, handover, task, addr>>
      PROVE  GoodStep(r)
  <2> DEFINE peer == [NewInitiator(initiator[r].n + 1, start) EXCEPT !.connected = TRUE]
  <2>1. initiator[r].n + 1 \in Nat \ {0} /\ task[r] = NoTask
    BY <1>2, Held, Received DEF IInv, Partnered, InitiatorObject
  <2>2. start \in Nat /\ NoKey \in Key /\ NoCookie \in Cookie
    BY ResponderAssumption DEF NoKey, Key, KeyKind, Cookie
  <2>3. peer \in InitiatorObject /\ peer.connected /\ peer.cookie = NoCookie
    BY <2>1, <2>2 DEF NewInitiator, InitiatorObject
  <2>4. initiator' = [initiator EXCEPT ![r] = Greeted(r, peer)]
    BY <1>2
  <2> HIDE DEF peer
  <2>5. \A cn : cn.used /\ cn.state = conn[r].state =>
          Partnered(r, cn, Greeted(r, peer), task[r])
    BY <1>2, <2>1, <2>3, GreetedPartner
  <2>6. ServerInv'
    BY <1>2, ServerCsnStored
  <2> QED BY <1>2, <2>4, <2>5, <2>6, ObjectStep
<1>3. CASE /\ ServerTells(r, m, "peer-handshake", "new-initiator")
           /\ StoreServerCsn(r, m) /\ Consume(r) /\ UNCHANGED <<conn, handover, task, addr>>
           /\ \E start \in CsnStarts :
                initiator' = [initiator EXCEPT ![r] =
                  Greeted(r, [NewInitiator(initiator[r].n + 1, start) EXCEPT !.connected = TRUE])]
  BY <1>2, <1>3 DEF ServerTells, ServerSays
<1> QED BY <1>1, <1>3 DEF HandleNewInitiator

LEMMA InitiatorLostStep ==
  ASSUME IInv, NEW r \in Responders, NEW m, Incoming(r, m), InitiatorLost(r, m)
  PROVE  GoodStep(r)
BY PlainReset, Codes DEF InitiatorLost

-----------------------------------------------------------------------------
(* Messages of the initiator.                                              *)
LEMMA InitiatorKeyStep ==
  ASSUME IInv, NEW r \in Responders, NEW m, Incoming(r, m), InitiatorKey(r, m)
  PROVE  GoodStep(r)
<1> DEFINE old == initiator[r]
           sess == SessionKey(<<r, old.n>>, m.body)
           peer == [old EXCEPT !.hs = "auth-sent", !.in = m.csn, !.out = @ + 1, !.sess = sess]
<1>1. /\ conn[r].state = "peer-handshake" /\ old.hs = "key-sent" /\ m.type = "key"
      /\ initiator' = [initiator EXCEPT ![r] = peer]
      /\ Consume(r) /\ UNCHANGED <<conn, srv, handover, task, addr>>
  BY DEF InitiatorKey, KeyArrived, FromInitiator
<1>2. /\ old \in InitiatorObject /\ Greeting_OK(old) /\ task[r] = NoTask
  BY <1>1, Held, Received DEF IInv, Partnered
<1> HIDE DEF old
<1>3. m.body \in Name /\ <<r, old.n>> \in Name
  BY <1>1, <1>2, Received, Clients DEF IsPacket, InitiatorObject, Name
<1>4. sess \in Key /\ sess[1] = "session" /\ <<r, old.n>> \in sess[2]
  <2>1. {<<r, old.n>>, m.body} \in SUBSET Name
    BY <1>3
  <2> QED BY <2>1 DEF SessionKey, Key, KeyKind
<1> HIDE DEF sess
<1>5. /\ peer \in InitiatorObject /\ peer.hs = "auth-sent" /\ peer.n = old.n
      /\ peer.sess = sess /\ peer.cookie = old.cookie /\ peer.connected = old.connected
  <2>1. old.out + 1 \in Nat /\ m.csn \in Nat
    BY <1>2, Received DEF InitiatorObject
  <2> QED BY <1>2, <1>4, <2>1 DEF InitiatorObject
<1> HIDE DEF peer
<1>6. OwnSession(r, peer) /\ Greeting_OK(peer)
  BY <1>1, <1>2, <1>4, <1>5 DEF OwnSession, Greeting_OK
<1>7. \A cn : cn.used /\ cn.state = conn[r].state => Partnered(r, cn, peer, task[r])
  BY <1>1, <1>2, <1>5, <1>6 DEF Partnered, Early
<1>8. ServerInv'
  BY <1>1, ServerKept DEF IInv
<1> QED BY <1>1, <1>7, <1>8, ObjectStep

LEMMA InitiatorAuthStep ==
  ASSUME IInv, NEW r \in Responders, NEW m, Incoming(r, m), InitiatorAuth(r, m)
  PROVE  GoodStep(r)
<1> DEFINE old == initiator[r]
           peer == [old EXCEPT !.hs = "auth-received", !.in = m.csn, !.cookie = m.cookie]
           t == m.body.task
<1>1. /\ conn[r].state = "peer-handshake" /\ old.hs = "auth-sent" /\ m.type = "auth"
      /\ t \in OfferedTasks[r] /\ m.cookie # <<r, old.n>>
      /\ initiator' = [initiator EXCEPT ![r] = peer]
      /\ task' = [task EXCEPT ![r] = t]
      /\ conn' = [conn EXCEPT ![r].state = "task"]
      /\ Consume(r) /\ UNCHANGED <<srv, handover, addr>>
  BY DEF InitiatorAuth, AuthArrived, AuthExpectedFrom, FromInitiator, OurCookie
<1>2. old \in InitiatorObject /\ OwnSession(r, old)
  BY <1>1, Held DEF IInv, Partnered
<1> HIDE DEF old
<1>3. t \in TaskNames
  BY <1>1, Received DEF IsPacket
<1> HIDE DEF t
<1>4. /\ peer \in InitiatorObject /\ peer.hs = "auth-received" /\ peer.n = old.n
      /\ peer.sess = old.sess /\ peer.cookie = m.cookie
  BY <1>2, Received DEF InitiatorObject
<1> HIDE DEF peer
<1>5. Complete(r, peer, t)
  BY <1>1, <1>2, <1>4, Received DEF Complete, OwnSession
<1>6. \A cn : cn.used /\ cn.state = "task" => Partnered(r, cn, peer, t)
  BY <1>3, <1>4, <1>5 DEF Partnered, Early
<1>7. ServerInv'
  BY <1>1, ServerKept DEF IInv
<1> QED BY <1>1, <1>6, <1>7, HandlerStep

LEMMA InvalidStep ==
  ASSUME IInv, NEW r \in Responders, NEW m, Incoming(r, m),
         InvalidNonceAt(r, m) \/ InvalidFromServer(r, m) \/ InvalidFromInitiator(r, m)
  PROVE  GoodStep(r)
BY ProtocolErrorStep DEF InvalidNonceAt, InvalidFromServer, InvalidFromInitiator

LEMMA AuthRepeatsOurCookieStep ==
  ASSUME IInv, NEW r \in Responders, NEW m, Incoming(r, m), AuthRepeatsOurCookie(r, m)
  PROVE  GoodStep(r)
<1>1. /\ m.type = "auth" /\ task' = [task EXCEPT ![r] = m.body.task]
      /\ Reset(r, ProtocolError, <<>>) /\ UNCHANGED initiator
  BY DEF AuthRepeatsOurCookie, AuthExpectedFrom
<1>2. m.body.task \in TaskNames
  BY <1>1, Received DEF IsPacket
<1>3. /\ initiator[r] \in InitiatorObject
      /\ initiator[r].hs = "auth-sent" => OwnSession(r, initiator[r])
      /\ initiator' = [initiator EXCEPT ![r] = initiator[r]]
  BY <1>1, Held DEF IInv, Partnered
<1> QED BY <1>1, <1>2, <1>3, Codes, ResetStep

-----------------------------------------------------------------------------
(* In state `task` the numbers of the initiator grow; the rest of it stays. *)
LEMMA StoredCsn ==
  ASSUME IInv, NEW r \in Responders, NEW m, Incoming(r, m), StoreInitiatorCsn(r, m)
  PROVE  LET peer == [initiator[r] EXCEPT !.in = m.csn]
         IN /\ peer \in InitiatorObject /\ initiator' = [initiator EXCEPT ![r] = peer]
            /\ Complete(r, initiator[r], task[r]) => Complete(r, peer, task[r])
            /\ peer.hs = initiator[r].hs
<1>1. initiator[r] \in InitiatorObject /\ m.csn \in Nat
  BY Received, Held DEF IInv
<1> QED BY <1>1 DEF StoreInitiatorCsn, InitiatorObject, Complete, OwnSession

LEMMA SentOne ==
  ASSUME IInv, NEW r \in Responders, initiator' = [initiator EXCEPT ![r].out = @ + 1]
  PROVE  LET peer == [initiator[r] EXCEPT !.out = @ + 1]
         IN /\ peer \in InitiatorObject /\ initiator' = [initiator EXCEPT ![r] = peer]
            /\ Complete(r, initiator[r], task[r]) => Complete(r, peer, task[r])
            /\ peer.hs = initiator[r].hs
<1>1. initiator[r] \in InitiatorObject /\ initiator[r].out + 1 \in Nat
  BY Held DEF IInv, InitiatorObject
<1> QED BY <1>1 DEF InitiatorObject, Complete, OwnSession

(* Whatever was stored, the handshake with the same object is complete.    *)
LEMMA StillComplete ==
  ASSUME IInv, NEW r \in Responders, conn[r].state = "task", NEW peer \in InitiatorObject,
         Complete(r, initiator[r], task[r]) => Complete(r, peer, task[r]),
         peer.hs = initiator[r].hs
  PROVE  \A cn : cn.used /\ cn.state = "task" => Partnered(r, cn, peer, task[r])
<1>1. Complete(r, initiator[r], task[r]) /\ task[r] \in TaskNames \cup {NoTask}
  BY Held DEF IInv, Partnered
<1>2. peer.hs # "auth-sent"
  BY <1>1 DEF Complete
<1> QED BY <1>1, <1>2 DEF Partnered, Early

LEMMA CalmTaskStep ==
  ASSUME IInv, NEW r \in Responders, NEW m, Incoming(r, m), Consume(r), StoreInitiatorCsn(r, m),
         conn[r].state = "task", UNCHANGED <<conn, srv, handover, task, addr>>
  PROVE  GoodStep(r)
<1> DEFINE peer == [initiator[r] EXCEPT !.in = m.csn]
<1>1. /\ peer \in InitiatorObject /\ initiator' = [initiator EXCEPT ![r] = peer]
      /\ Complete(r, initiator[r], task[r]) => Complete(r, peer, task[r])
      /\ peer.hs = initiator[r].hs
  BY StoredCsn
<1> HIDE DEF peer
<1>2. \A cn : cn.used /\ cn.state = conn[r].state => Partnered(r, cn, peer, task[r])
  BY <1>1, StillComplete
<1>3. ServerInv'
  BY ServerKept DEF IInv
<1> QED BY <1>1, <1>2, <1>3, ObjectStep

LEMMA InitiatorUndecryptableStep ==
  ASSUME IInv, NEW r \in Responders, NEW m, Incoming(r, m), InitiatorUndecryptable(r, m)
  PROVE  GoodStep(r)
BY CalmTaskStep DEF InitiatorUndecryptable, FromInitiator

(* Setting a flag of the handover.                                         *)
LEMMA SetHandoverStep ==
  ASSUME IInv, NEW r \in Responders, NEW flags \in HandoverRecord, NEW rest, Waiting(rest),
         NEW sent, SetHandover(r, flags, rest, sent), ~Both(r), conn[r].state = "task",
         UNCHANGED <<srv, task, addr>>, NEW peer \in InitiatorObject,
         initiator' = [initiator EXCEPT ![r] = peer],
         Complete(r, initiator[r], task[r]) => Complete(r, peer, task[r]),
         peer.hs = initiator[r].hs
  PROVE  GoodStep(r)
<1>1. ConnInv' /\ Apart(r) /\ conn'[r].state = "task" /\ conn'[r].used = conn[r].used
  BY Clients, SetHandoverConn DEF IInv
<1>2. conn[r].used
  <2>1. Link(conn[r], handover[r])
    BY Clients DEF IInv, ConnInv
  <2> QED BY <2>1 DEF Link
<1>3. ServerInv'
  BY ServerKept DEF IInv
<1>4. InboxInv'
  <2>1. inbox' = [inbox EXCEPT ![r] = <<>>] \/ inbox' = [inbox EXCEPT ![r] = rest]
    BY DEF SetHandover
  <2> QED BY <2>1, Emptied, InboxFrame DEF IInv
<1>5. StaysDown(r)
  BY DEF StaysDown
<1>6. PeerInv'
  <2>1. Partnered(r, conn'[r], peer, task[r])
    BY <1>1, <1>2, StillComplete
  <2>2. task' = [task EXCEPT ![r] = task[r]]
    BY Held DEF IInv
  <2> QED BY <1>1, <2>1, <2>2, PeerFrame DEF IInv
<1> QED BY <1>1, <1>3, <1>4, <1>5, <1>6 DEF GoodStep, IInv

LEMMA InitiatorMessageStep ==
  ASSUME IInv, NEW r \in Responders, NEW m, Incoming(r, m), ~handover[r].peer,
         InitiatorMessage(r, m)
  PROVE  GoodStep(r)
<1> DEFINE peer == [initiator[r] EXCEPT !.in = m.csn]
<1>1. conn[r].state = "task" /\ PeerMessage(r, m) /\ StoreInitiatorCsn(r, m)
  BY DEF InitiatorMessage, FromInitiator
<1>2. /\ peer \in InitiatorObject /\ initiator' = [initiator EXCEPT ![r] = peer]
      /\ Complete(r, initiator[r], task[r]) => Complete(r, peer, task[r])
      /\ peer.hs = initiator[r].hs
  BY <1>1, StoredCsn
<1>3. CASE \E reason \in CloseCode : ResetConnection(r, reason, <<>>)
  <2>1. PICK reason \in CloseCode : ResetConnection(r, reason, <<>>)
    BY <1>3
  <2>2. /\ task' = [task EXCEPT ![r] = task[r]] /\ task[r] \in TaskNames \cup {NoTask}
        /\ Complete(r, initiator[r], task[r])
    BY <1>1, <2>1, Held DEF IInv, Partnered, ResetConnection
  <2>3. peer.hs # "auth-sent"
    BY <1>2, <2>2 DEF Complete
  <2> HIDE DEF peer
  <2> QED BY <1>2, <2>1, <2>2, <2>3, ResetStep DEF ResetConnection
<1>4. CASE Consume(r) /\ UNCHANGED <<conn, srv, handover, task, addr, outbox>>
  BY <1>1, <1>4, CalmTaskStep
<1>5. CASE /\ SetHandover(r, [handover[r] EXCEPT !.peer = TRUE], Tail(inbox[r]), <<>>)
           /\ UNCHANGED <<srv, task, addr>>
  <2>1. [handover[r] EXCEPT !.peer = TRUE] \in HandoverRecord
    BY Clients DEF IInv, ConnInv, HandoverRecord
  <2>2. Waiting(Tail(inbox[r])) /\ ~Both(r)
    BY Received DEF Waiting, Both
  <2> HIDE DEF peer
  <2> QED BY <1>1, <1>2, <1>5, <2>1, <2>2, SetHandoverStep
<1> QED BY <1>1, <1>3, <1>4, <1>5, Codes DEF PeerMessage, HandleClose

LEMMA ResponderHandoverStep ==
  ASSUME IInv, NEW r \in Responders, ResponderHandover(r)
  PROVE  GoodStep(r)
<1> DEFINE peer == [initiator[r] EXCEPT !.out = @ + 1]
<1>1. /\ conn[r].state = "task" /\ ~Both(r) /\ UNCHANGED <<srv, task, addr>>
      /\ initiator' = [initiator EXCEPT ![r].out = @ + 1]
  BY DEF ResponderHandover, LocalHandover, Both
<1>2. [handover[r] EXCEPT !.local = TRUE] \in HandoverRecord
  BY Clients DEF IInv, ConnInv, HandoverRecord
<1>3. Waiting(inbox[r])
  BY DEF IInv, InboxInv
<1>4. PICK sent : SetHandover(r, [handover[r] EXCEPT !.local = TRUE], inbox[r], sent)
  BY DEF ResponderHandover, LocalHandover
<1>5. /\ peer \in InitiatorObject /\ initiator' = [initiator EXCEPT ![r] = peer]
      /\ Complete(r, initiator[r], task[r]) => Complete(r, peer, task[r])
      /\ peer.hs = initiator[r].hs
  BY <1>1, SentOne
<1> HIDE DEF peer
<1> QED BY <1>1, <1>2, <1>3, <1>4, <1>5, SetHandoverStep

LEMMA ResponderSendsStep ==
  ASSUME IInv, NEW r \in Responders, ResponderSends(r)
  PROVE  GoodStep(r)
<1> DEFINE peer == [initiator[r] EXCEPT !.out = @ + 1]
<1>1. /\ conn[r].state = "task" /\ UNCHANGED <<conn, srv, handover, task, addr, inbox>>
      /\ initiator' = [initiator EXCEPT ![r].out = @ + 1]
  BY DEF ResponderSends, SendApplication
<1>2. ConnInv' /\ Apart(r) /\ StaysDown(r) /\ conn'[r] = conn[r]
  BY <1>1 DEF IInv, ConnInv, Apart, StaysDown
<1>3. ServerInv' /\ InboxInv'
  BY <1>1, ServerKept, InboxKept DEF IInv
<1>4. /\ peer \in InitiatorObject /\ initiator' = [initiator EXCEPT ![r] = peer]
      /\ Complete(r, initiator[r], task[r]) => Complete(r, peer, task[r])
      /\ peer.hs = initiator[r].hs
  BY <1>1, SentOne
<1> HIDE DEF peer
<1>5. Partnered(r, conn'[r], peer, task[r])
  <2>1. Link(conn[r], handover[r])
    BY Clients DEF IInv, ConnInv
  <2>2. conn'[r].used /\ conn'[r].state = "task"
    BY <1>1, <1>2, <2>1 DEF Link
  <2> QED BY <1>1, <1>4, <2>2, StillComplete
<1>6. task' = [task EXCEPT ![r] = task[r]]
  BY <1>1, Held DEF IInv
<1>7. PeerInv'
  BY <1>2, <1>4, <1>5, <1>6, PeerFrame DEF IInv
<1> QED BY <1>2, <1>3, <1>7 DEF GoodStep, IInv

-----------------------------------------------------------------------------
(* Whatever arrives has the fields its type promises.                      *)
LEMMA NumberedPeer ==
  ASSUME IInv, NEW r \in Responders, NEW src
  PROVE  Peer(r, src).in \in Nat /\ Peer(r, src).cookie \in Cookie /\ <<r, Peer(r, src).n>> \in Name
<1>1. srv[r] \in ServerObject /\ initiator[r] \in InitiatorObject
  BY ServerHeld, Held DEF IInv
<1>2. Peer(r, src) \in {srv[r], initiator[r]}
  BY DEF Peer
<1>3. /\ Peer(r, src).in \in Nat /\ Peer(r, src).cookie \in Cookie /\ Peer(r, src).n \in Nat
  BY <1>1, <1>2 DEF ServerObject, InitiatorObject
<1> QED BY <1>3, Clients DEF Name

(* The header.                                                             *)
LEMMA ExpectedHeader ==
  ASSUME IInv, NEW r \in Responders, NEW src, NEW key, NEW type, NEW body,
         NEW m \in Expected(r, src, key, type, body)
  PROVE  /\ m.csn \in Nat \ {0} /\ m.cookie \in Name /\ m.dst \in Address
         /\ m.src = src /\ m.type = type /\ m.body = body
         /\ m = [src |-> src, dst |-> m.dst, csn |-> m.csn, cookie |-> m.cookie,
                 key |-> key, type |-> type, body |-> body]
<1> DEFINE peer == Peer(r, src)
           cookie == IF peer.cookie = NoCookie THEN <<NoPeer, 0>> ELSE peer.cookie
<1>1. peer.in \in Nat /\ peer.cookie \in Cookie
  BY NumberedPeer
<1>2. cookie \in Name
  BY <1>1 DEF Cookie, Name
<1>3. PICK dst \in Destinations(r) :
        m = [src |-> src, dst |-> dst, csn |-> peer.in + 1, cookie |-> cookie,
             key |-> key, type |-> type, body |-> body]
  BY DEF Expected
<1>4. Destinations(r) \subseteq Address
  BY Clients DEF Destinations, Address, IInv, ServerInv
<1> HIDE DEF peer, cookie
<1> QED BY <1>1, <1>2, <1>3, <1>4

(* The content.                                                            *)
ContentOK(c) ==
  /\ c[1] = "key" => c[2] \in Name
  /\ c[1] = "auth" => c[2].task \in TaskNames
  /\ c[1] = "server-auth" => c[2].connected \in BOOLEAN
  /\ c[1] # "ws-close"

LEMMA ServerContentsOK ==
  ASSUME NEW r, NEW c \in ServerContents(r)
  PROVE  ContentOK(c)
<1>1. CASE \E k : \E b \in BOOLEAN : c = <<"server-auth", [cookie |-> k, connected |-> b]>>
  <2>1. PICK k, b : b \in BOOLEAN /\ c = <<"server-auth", [cookie |-> k, connected |-> b]>>
    BY <1>1
  <2>2. c[1] = "server-auth" /\ c[2].connected = b
    BY <2>1
  <2> QED BY <2>1, <2>2 DEF ContentOK
<1>2. CASE c[1] \in {"server-hello", "new-initiator", "send-error", "disconnected", "unknown"}
  BY <1>2 DEF ContentOK
<1> QED BY <1>1, <1>2 DEF ServerContents

LEMMA PeerContentsOK ==
  ASSUME NEW r, NEW c \in PeerContents(r)
  PROVE  ContentOK(c)
<1>1. CASE c = <<"key", <<NoPeer, 1>>>>
  BY <1>1 DEF ContentOK, Name
<1>2. CASE \E k : \E t \in TaskNames : c = <<"auth", [cookie |-> k, task |-> t]>>
  BY <1>2 DEF ContentOK
<1>3. CASE c[1] \in {"close", "application", "handover", "unknown"}
  BY <1>3 DEF ContentOK
<1> QED BY <1>1, <1>2, <1>3 DEF PeerContents

(* A packet stays one when one field of its header deviates.               *)
LEMMA ExpectedIsPacket ==
  ASSUME IInv, NEW r \in Responders, NEW src, NEW key, NEW c, ContentOK(c),
         NEW m \in Expected(r, src, key, c[1], c[2])
  PROVE  /\ IsPacket(m) /\ IsPacket([m EXCEPT !.dst = 1]) /\ IsPacket([m EXCEPT !.csn = @ - 1])
         /\ \A k \in Name : IsPacket([m EXCEPT !.cookie = k])
<1>1. /\ m.csn \in Nat \ {0} /\ m.cookie \in Name /\ m.dst \in Address
      /\ m = [src |-> src, dst |-> m.dst, csn |-> m.csn, cookie |-> m.cookie,
              key |-> key, type |-> c[1], body |-> c[2]]
  BY ExpectedHeader
<1>2. ASSUME NEW dst \in Address, NEW csn \in Nat, NEW cookie \in Name
      PROVE  IsPacket([src |-> src, dst |-> dst, csn |-> csn, cookie |-> cookie,
                       key |-> key, type |-> c[1], body |-> c[2]])
  BY DEF IsPacket, ContentOK
<1>3. 1 \in Address /\ m.csn \in Nat /\ m.csn - 1 \in Nat
  BY <1>1 DEF Address
<1>4. /\ [m EXCEPT !.dst = 1] = [src |-> src, dst |-> 1, csn |-> m.csn, cookie |-> m.cookie,
                                 key |-> key, type |-> c[1], body |-> c[2]]
      /\ [m EXCEPT !.csn = @ - 1] =
           [src |-> src, dst |-> m.dst, csn |-> m.csn - 1, cookie |-> m.cookie,
            key |-> key, type |-> c[1], body |-> c[2]]
      /\ \A k : [m EXCEPT !.cookie = k] =
           [src |-> src, dst |-> m.dst, csn |-> m.csn, cookie |-> k,
            key |-> key, type |-> c[1], body |-> c[2]]
  BY <1>1
<1>5. IsPacket(m)
  BY <1>1, <1>2, <1>3
<1>6. IsPacket([m EXCEPT !.dst = 1]) /\ IsPacket([m EXCEPT !.csn = @ - 1])
  BY <1>1, <1>2, <1>3, <1>4
<1>7. \A k \in Name : IsPacket([m EXCEPT !.cookie = k])
  BY <1>1, <1>2, <1>3, <1>4
<1> QED BY <1>5, <1>6, <1>7

LEMMA ArrivalsArePackets ==
  ASSUME IInv, NEW r \in Responders, NEW m \in Arrivals(r)
  PROVE  IsPacket(m)
<1> DEFINE Sent(n) == \E src, key, c : ContentOK(c) /\ n \in Expected(r, src, key, c[1], c[2])
           Robust(n) == /\ IsPacket(n) /\ IsPacket([n EXCEPT !.dst = 1])
                        /\ IsPacket([n EXCEPT !.csn = @ - 1])
                        /\ \A k \in Name : IsPacket([n EXCEPT !.cookie = k])
<1>1. ASSUME NEW n, Sent(n) PROVE Robust(n)
  <2>1. PICK src, key, c : ContentOK(c) /\ n \in Expected(r, src, key, c[1], c[2])
    BY <1>1
  <2> QED BY <2>1, ExpectedIsPacket
<1>2. ASSUME NEW src, NEW n \in Expected(r, src, ForeignKey, "unknown", NoTask) PROVE Sent(n)
  <2> DEFINE c == <<"unknown", NoTask>>
  <2>1. ContentOK(c) /\ n \in Expected(r, src, ForeignKey, c[1], c[2])
    BY <1>2 DEF ContentOK
  <2> QED BY <2>1
<1>3. ASSUME NEW n \in WellEncrypted(r) PROVE Sent(n)
  <2>1. CASE \E c \in ServerContents(r) : n \in Expected(r, 0, ExpectedKey(r, 0), c[1], c[2])
    BY <2>1, ServerContentsOK
  <2>2. CASE \E c \in PeerContents(r) : n \in Expected(r, 1, ExpectedKey(r, 1), c[1], c[2])
    BY <2>2, PeerContentsOK
  <2> QED BY <2>1, <2>2 DEF WellEncrypted
<1> HIDE DEF Sent
<1>4. \A n \in WellEncrypted(r) : Robust(n)
  BY <1>1, <1>3
<1>5. \A src : \A n \in Expected(r, src, ForeignKey, "unknown", NoTask) : Robust(n)
  BY <1>1, <1>2
<1> HIDE DEF Robust
<1>6. CASE \E code \in {GoingAway, PathFull, DroppedByInitiator} : m = CloseFrame(code)
  <2>1. 0 \in Nat /\ 0 \in Address
    BY DEF Address
  <2> QED BY <1>6, <2>1, Codes
          DEF CloseFrame, IsPacket, GoingAway, PathFull, DroppedByInitiator, Handover
<1>7. CASE m \in WellEncrypted(r)
  BY <1>4, <1>7 DEF Robust
<1>8. CASE m \in Undecryptable(r)
  BY <1>5, <1>8 DEF Undecryptable, Robust
<1>9. CASE m \in Deviating(r)
  <2>1. PICK n : /\ Robust(n)
                 /\ \/ m = [n EXCEPT !.dst = 1]
                    \/ m = [n EXCEPT !.csn = @ - 1]
                    \/ \E k \in ForeignCookies : m = [n EXCEPT !.cookie = k]
                    \/ m = [n EXCEPT !.cookie = OurCookie(r, Peer(r, n.src))]
    <3>1. CASE \E n \in WellEncrypted(r) :
                 \/ m = [n EXCEPT !.csn = @ - 1]
                 \/ m = [n EXCEPT !.cookie = OurCookie(r, Peer(r, n.src))]
      BY <1>4, <3>1
    <3>2. CASE \E src : \E n \in Expected(r, src, ForeignKey, "unknown", NoTask) :
                 \/ m = [n EXCEPT !.dst = 1]
                 \/ m = [n EXCEPT !.csn = @ - 1]
                 \/ \E k \in ForeignCookies : m = [n EXCEPT !.cookie = k]
      BY <1>5, <3>2
    <3> QED BY <1>9, <3>1, <3>2 DEF Deviating
  <2>2. \A k \in ForeignCookies : k \in Name
    BY DEF ForeignCookies, Name
  <2>3. OurCookie(r, Peer(r, n.src)) \in Name
    BY NumberedPeer DEF OurCookie
  <2> QED BY <2>1, <2>2, <2>3 DEF Robust
<1> QED BY <1>6, <1>7, <1>8, <1>9 DEF Arrivals

LEMMA ArriveStep ==
  ASSUME IInv, NEW r \in Responders, Arrive(r)
  PROVE  GoodStep(r)
<1>1. PICK m \in Arrivals(r) : inbox' = [inbox EXCEPT ![r] = <<m>>]
  BY DEF Arrive
<1>2. Waiting(<<m>>)
  BY ArrivalsArePackets DEF Waiting
<1>3. InboxInv'
  BY <1>1, <1>2, InboxFrame DEF IInv
<1>4. UNCHANGED <<conn, srv, handover, task, addr, initiator>>
  BY DEF Arrive
<1>5. ConnInv' /\ ServerInv' /\ PeerInv' /\ Apart(r) /\ StaysDown(r)
  BY <1>4 DEF IInv, ConnInv, ServerInv, PeerInv, Apart, StaysDown
<1> QED BY <1>3, <1>5 DEF GoodStep, IInv

-----------------------------------------------------------------------------
LEMMA OnMessageStep ==
  ASSUME IInv, NEW r \in Responders, ResponderOnMessage(r)
  PROVE  GoodStep(r)
<1> DEFINE m == Head(inbox[r])
<1>1. Incoming(r, m)
  BY DEF ResponderOnMessage, Incoming
<1> HIDE DEF m
<1>2. CASE AfterPeerHandover(r) /\ UNCHANGED initiator
  BY <1>1, <1>2, AfterPeerHandoverStep
<1>3. CASE HandleServerHello(r, m) /\ UNCHANGED initiator
  BY <1>1, <1>3, HandleServerHelloStep
<1>4. CASE ServerAuthUndecryptable(r, m) /\ UNCHANGED initiator
  BY <1>1, <1>4, ServerAuthUndecryptableStep
<1>5. CASE ServerAuthHandled(r, m)
  BY <1>1, <1>5, ServerAuthHandledStep
<1>6. CASE HandleNewInitiator(r, m)
  BY <1>1, <1>6, HandleNewInitiatorStep
<1>7. CASE InitiatorLost(r, m)
  BY <1>1, <1>7, InitiatorLostStep
<1>8. CASE ServerNotice(r, m)
  BY <1>1, <1>8, ServerNoticeStep
<1>9. CASE InitiatorKey(r, m)
  BY <1>1, <1>9, InitiatorKeyStep
<1>10. CASE InitiatorAuth(r, m)
  BY <1>1, <1>10, InitiatorAuthStep
<1>11. CASE InvalidNonceAt(r, m) \/ InvalidFromServer(r, m) \/ InvalidFromInitiator(r, m)
  BY <1>1, <1>11, InvalidStep
<1>12. CASE AuthRepeatsOurCookie(r, m)
  BY <1>1, <1>12, AuthRepeatsOurCookieStep
<1>13. CASE DiscardEarly(r, m)
  BY <1>1, <1>13, DiscardEarlyStep
<1>14. CASE ~handover[r].peer /\ InitiatorMessage(r, m)
  BY <1>1, <1>14, InitiatorMessageStep
<1>15. CASE InitiatorUndecryptable(r, m)
  BY <1>1, <1>15, InitiatorUndecryptableStep
<1> QED BY <1>2, <1>3, <1>4, <1>5, <1>6, <1>7, <1>8, <1>9, <1>10, <1>11, <1>12, <1>13,
           <1>14, <1>15 DEF ResponderOnMessage, m

LEMMA NextStep ==
  ASSUME IInv, Next
  PROVE  \E r \in Responders : GoodStep(r)
<1>1. PICK r \in Responders : Arrive(r) \/ ResponderNext(r)
  BY DEF Next
<1>2. CASE Connect(r) /\ UNCHANGED initiator
  BY <1>2, ConnectStep
<1>3. CASE \E unbind \in BOOLEAN : Disconnect(r, unbind) /\ UNCHANGED initiator
  BY <1>3, DisconnectStep
<1>4. CASE OnOpen(r) /\ UNCHANGED inbox /\ UNCHANGED initiator
  BY <1>4, OnOpenStep
<1>5. CASE (CloseEvent(r) \/ ServerCloses(r) \/ ConnectionLost(r)) /\ UNCHANGED initiator
  BY <1>5, ClosedStep
<1>6. CASE ResponderOnMessage(r)
  BY <1>6, OnMessageStep
<1>7. CASE ResponderHandover(r) \/ ResponderSends(r)
  BY <1>7, ResponderHandoverStep, ResponderSendsStep
<1>8. CASE Arrive(r)
  BY <1>8, ArriveStep
<1> QED BY <1>1, <1>2, <1>3, <1>4, <1>5, <1>6, <1>7, <1>8 DEF ResponderNext

LEMMA FirstInitiator ==
  ASSUME NEW hs \in {"new", "token-sent"}
  PROVE  LET peer == [NewInitiator(1, 0) EXCEPT !.hs = hs]
         IN peer \in InitiatorObject /\ Unspoken(peer)
<1> DEFINE new == NewInitiator(1, 0)
           peer == [new EXCEPT !.hs = hs]
<1>1. NoKey \in Key /\ NoCookie \in Cookie
  BY DEF NoKey, Key, KeyKind, Cookie
<1>2. 1 \in Nat \ {0} /\ 0 \in Nat
  OBVIOUS
<1>3. new \in InitiatorObject /\ ~new.connected /\ new.out = 0 /\ new.cookie = NoCookie
  BY <1>1, <1>2 DEF NewInitiator, InitiatorObject
<1> HIDE DEF new
<1>4. /\ peer \in InitiatorObject /\ peer.connected = new.connected /\ peer.hs = hs
      /\ peer.out = new.out /\ peer.cookie = new.cookie
  BY <1>3 DEF InitiatorObject
<1> QED BY <1>3, <1>4 DEF Unspoken, new

LEMMA InitIInv == Init => IInv
<1> SUFFICES ASSUME Init PROVE IInv
  OBVIOUS
<1> USE DEF Init, InitCommon, InitResponder
<1>1. NoConn \in ConnRecord /\ Link(NoConn, NoHandover) /\ Early(NoConn) /\ NoConn.state = "new"
  BY DEF NoConn, ConnRecord, SignalingState, Socket, Link, Early
<1>2. ConnInv
  BY <1>1, NoHandoverType DEF ConnInv
<1>3. ServerInv
  BY DEF ServerInv, NewServer, ServerObject, Cookie, Address
<1>4. InboxInv
  BY Clients DEF InboxInv, Waiting
<1>5. ASSUME NEW r \in Responders
      PROVE  /\ initiator[r] \in InitiatorObject /\ Unspoken(initiator[r])
             /\ Partnered(r, conn[r], initiator[r], task[r])
  <2> DEFINE hs == IF Tokens(r) THEN "new" ELSE "token-sent"
  <2>1. initiator[r] = [NewInitiator(1, 0) EXCEPT !.hs = hs] /\ hs \in {"new", "token-sent"}
    BY DEF NewInitiator
  <2>2. conn[r] = NoConn /\ task[r] = NoTask
    BY Clients
  <2> HIDE DEF hs, Init, InitCommon, InitResponder
  <2>3. initiator[r] \in InitiatorObject /\ Unspoken(initiator[r])
    BY <2>1, FirstInitiator
  <2>4. NoConn.state \notin {"peer-handshake", "task"}
    BY <1>1
  <2> QED BY <2>2, <2>3, <2>4 DEF Partnered, Unspoken
<1>6. initiator \in [Responders -> InitiatorObject]
  <2>1. initiator = [r \in Responders |-> initiator[r]]
    OBVIOUS
  <2> QED BY <1>5, <2>1
<1>7. PeerInv
  BY <1>5, <1>6 DEF PeerInv
<1> QED BY <1>2, <1>3, <1>4, <1>7 DEF IInv

LEMMA NextIInv == IInv /\ [Next]_vars => IInv'
<1> SUFFICES ASSUME IInv, [Next]_vars PROVE IInv'
  OBVIOUS
<1>1. CASE Next
  BY <1>1, NextStep DEF GoodStep
<1>2. CASE UNCHANGED vars
  BY <1>2 DEF vars, commonVars, IInv, ConnInv, ServerInv, InboxInv, PeerInv
<1> QED BY <1>1, <1>2

-----------------------------------------------------------------------------
LEMMA Invariant == Spec => []IInv
<1>1. Init => IInv
  BY InitIInv
<1>2. IInv /\ [Next]_vars => IInv'
  BY NextIInv
<1> QED BY <1>1, <1>2, PTL DEF Spec

(* Every variable keeps its type, and no message is waiting while another  *)
(* one is dispatched: the counterpart of the types of the fields of        *)
(* Signaling and ResponderSignaling.                                       *)
THEOREM TypeCorrect == Spec => []TypeOK
<1>1. IInv => TypeOK
  <2> SUFFICES ASSUME IInv PROVE TypeOK
    OBVIOUS
  <2>1. CommonTypeOK
    BY DEF CommonTypeOK, IInv, ConnInv, ServerInv, PeerInv, HandoverRecord
  <2> QED BY <2>1 DEF TypeOK, IInv, InboxInv, PeerInv, Waiting
<1> QED BY <1>1, Invariant, PTL

(* The signaling state and the socket agree, whatever the order of         *)
(* messages, resets, calls and close events (onOpen, onClose,              *)
(* closeWebsocket, resetConnection, disconnect).                           *)
THEOREM SocketsAgree == Spec => []SocketInv
<1>1. IInv => SocketInv
  <2> SUFFICES ASSUME IInv, NEW c \in Client, Link(conn[c], handover[c])
               PROVE  /\ conn[c].socket = "open" =>
                           /\ conn[c].ws
                           /\ conn[c].state \in {"server-handshake", "peer-handshake", "task"}
                      /\ conn[c].state \in {"server-handshake", "peer-handshake"} =>
                           conn[c].socket = "open"
                      /\ conn[c].state = "task" /\ ~Both(c) => conn[c].socket = "open"
    BY DEF IInv, ConnInv, SocketInv
  <2> QED BY DEF Link, Both
<1> QED BY <1>1, Invariant, PTL

(* A client in a handshake or in state `task` has been connected.          *)
LEMMA Active ==
  ASSUME IInv, NEW r \in Responders,
         conn[r].state \in {"server-handshake", "peer-handshake", "task"}
  PROVE  conn[r].used
<1>1. Link(conn[r], handover[r])
  BY Clients DEF IInv, ConnInv
<1> QED BY <1>1 DEF Link

(* In state `task` the responder has completed a handshake with its        *)
(* current Initiator object (handleInitiatorAuth), and in a handshake it   *)
(* has neither a task nor the cookie of an initiator it had before.        *)
THEOREM SessionComplete == Spec => []SessionInv
<1>1. IInv => SessionInv
  <2> SUFFICES ASSUME IInv, NEW r \in Responders
               PROVE  LET peer == initiator[r] IN
                      /\ conn[r].state = "task" =>
                           /\ peer.hs = "auth-received"
                           /\ peer.cookie \notin {NoCookie, OurCookie(r, peer)}
                           /\ peer.sess[1] = "session" /\ <<r, peer.n>> \in peer.sess[2]
                           /\ task[r] \in OfferedTasks[r]
                      /\ conn[r].state \in {"server-handshake", "peer-handshake"} =>
                           task[r] = NoTask /\ peer.cookie = NoCookie
    BY DEF SessionInv
  <2>1. Partnered(r, conn[r], initiator[r], task[r])
    BY Held DEF IInv
  <2> QED BY <2>1, Active
          DEF Partnered, Complete, OwnSession, OurCookie, Early, Unspoken, Greeting_OK
<1> QED BY <1>1, Invariant, PTL

(* During the peer handshake the responder has spoken to an initiator      *)
(* exactly if the server has announced one (initPeerHandshake,             *)
(* handleServerAuth, handleNewInitiator).                                  *)
THEOREM Greets == Spec => []GreetedIfConnected
<1>1. IInv => GreetedIfConnected
  <2> SUFFICES ASSUME IInv, NEW r \in Responders, conn[r].state = "peer-handshake"
               PROVE  /\ initiator[r].connected <=> initiator[r].hs \in {"key-sent", "auth-sent"}
                      /\ ~initiator[r].connected => initiator[r].out = 0
    BY DEF GreetedIfConnected
  <2>1. Partnered(r, conn[r], initiator[r], task[r])
    BY Held DEF IInv
  <2> QED BY <2>1, Active DEF Partnered, Greeting_OK
<1> QED BY <1>1, Invariant, PTL

(* An instance that has lost or left its connection never handshakes       *)
(* again, new initiator or not (connect checks neverConnected).            *)
THEOREM NeverAgain == Spec => NoSecondHandshake
<1>1. IInv /\ [Next]_vars => [\A r \in Responders : StaysDown(r)]_vars
  <2> SUFFICES ASSUME IInv, Next, NEW s \in Responders PROVE StaysDown(s)
    OBVIOUS
  <2>1. PICK r \in Responders : GoodStep(r)
    BY NextStep
  <2>2. CASE s = r
    BY <2>1, <2>2 DEF GoodStep
  <2>3. CASE s # r
    <3>1. conn'[s] = conn[s]
      BY <2>1, <2>3, Clients DEF GoodStep, Apart
    <3> QED BY <3>1 DEF StaysDown
  <2> QED BY <2>2, <2>3
<1> QED BY <1>1, Invariant, PTL DEF Spec, NoSecondHandshake

-----------------------------------------------------------------------------
(* How the Initiator object changes in a step of its responder: not at     *)
(* all, by another number of ours, into a new object, or by a message that *)
(* is newer than all before.                                               *)
Advances(old, new) ==
  new.n = old.n =>
    /\ new.in >= old.in
    /\ new.hs # old.hs => new.in > old.in \/ new.hs = "key-sent"
    /\ new.out >= old.out

OneAdvances(r) ==
  /\ initiator' = [initiator EXCEPT ![r] = initiator'[r]]
  /\ Advances(initiator[r], initiator'[r])
  /\ initiator'[r].n >= initiator[r].n

LEMMA Changed ==
  ASSUME IInv, NEW r \in Responders, NEW new, initiator' = [initiator EXCEPT ![r] = new],
         Advances(initiator[r], new), new.n >= initiator[r].n
  PROVE  OneAdvances(r)
<1>1. initiator'[r] = new
  BY DEF IInv, PeerInv
<1> QED BY <1>1 DEF OneAdvances

LEMMA SameObject ==
  ASSUME IInv, NEW r \in Responders, initiator' = initiator
  PROVE  OneAdvances(r)
<1>1. /\ initiator[r].in \in Nat /\ initiator[r].out \in Nat /\ initiator[r].n \in Nat
      /\ initiator' = [initiator EXCEPT ![r] = initiator[r]]
  BY Held DEF IInv, InitiatorObject
<1>2. Advances(initiator[r], initiator[r]) /\ initiator[r].n >= initiator[r].n
  BY <1>1 DEF Advances
<1> QED BY <1>1, <1>2, Changed

LEMMA OutOnly ==
  ASSUME IInv, NEW r \in Responders, NEW k \in Nat,
         initiator' = [initiator EXCEPT ![r].out = @ + k]
  PROVE  OneAdvances(r)
<1> DEFINE new == [initiator[r] EXCEPT !.out = @ + k]
<1>1. initiator[r] \in InitiatorObject /\ initiator' = [initiator EXCEPT ![r] = new]
  BY Held DEF IInv
<1>2. /\ new.in = initiator[r].in /\ new.hs = initiator[r].hs /\ new.in \in Nat
      /\ new.n = initiator[r].n /\ new.n \in Nat
      /\ new.out = initiator[r].out + k /\ initiator[r].out \in Nat
  BY <1>1 DEF InitiatorObject
<1> HIDE DEF new
<1>3. Advances(initiator[r], new) /\ new.n >= initiator[r].n
  BY <1>2 DEF Advances
<1> QED BY <1>1, <1>3, Changed

LEMMA GreetedAdvances ==
  ASSUME NEW r, NEW peer \in InitiatorObject
  PROVE  /\ Greeted(r, peer).n = peer.n /\ Greeted(r, peer).in = peer.in
         /\ Greeted(r, peer).hs \in {peer.hs, "key-sent"}
         /\ Len(Greeting(r, peer)) \in Nat
         /\ Greeted(r, peer).out = peer.out + Len(Greeting(r, peer))
<1>1. CASE ~peer.connected
  <2>1. Greeting(r, peer) = <<>> /\ Greeted(r, peer) = peer
    BY <1>1 DEF Greeting, Greeted
  <2>2. Len(<<>>) = 0 /\ peer.out + 0 = peer.out
    BY DEF InitiatorObject
  <2> QED BY <2>1, <2>2
<1>2. CASE peer.connected
  <2> DEFINE s == Greeting(r, peer)
             new == [peer EXCEPT !.out = @ + Len(s), !.hs = "key-sent"]
  <2>1. Len(s) \in Nat
    <3>1. \E t, p : s = Append(t, p) /\ (t = <<>> \/ \E q : t = <<q>>)
      BY <1>2 DEF Greeting
    <3>2. \A p, q : Len(Append(<<q>>, p)) = 2 /\ Len(Append(<<>>, p)) = 1
      OBVIOUS
    <3> HIDE DEF s
    <3> QED BY <3>1, <3>2
  <2>2. Greeted(r, peer) = new
    BY <1>2 DEF Greeted
  <2> HIDE DEF s
  <2>3. /\ new.n = peer.n /\ new.in = peer.in /\ new.hs = "key-sent"
        /\ new.out = peer.out + Len(s)
    BY DEF InitiatorObject
  <2> QED BY <2>1, <2>2, <2>3 DEF s
<1> QED BY <1>1, <1>2

LEMMA ServerAuthAdvances ==
  ASSUME IInv, NEW r \in Responders, NEW m, Incoming(r, m), ServerAuthHandled(r, m)
  PROVE  OneAdvances(r)
<1> DEFINE peer == [initiator[r] EXCEPT !.connected = m.body.connected]
<1>1. initiator' = [initiator EXCEPT ![r] = Greeted(r, peer)]
  BY DEF ServerAuthHandled
<1>2. initiator[r] \in InitiatorObject
  BY Held DEF IInv
<1>7. m.body.connected \in BOOLEAN
  BY Received DEF ServerAuthHandled, ServerAuthDone, AuthExpected, IsPacket
<1>3. /\ peer.n = initiator[r].n /\ peer.in = initiator[r].in /\ peer.hs = initiator[r].hs
      /\ peer.out = initiator[r].out /\ peer \in InitiatorObject
  BY <1>2, <1>7 DEF InitiatorObject
<1> HIDE DEF peer
<1>4. /\ Greeted(r, peer).n = peer.n /\ Greeted(r, peer).in = peer.in
      /\ Greeted(r, peer).hs \in {peer.hs, "key-sent"}
      /\ Len(Greeting(r, peer)) \in Nat
      /\ Greeted(r, peer).out = peer.out + Len(Greeting(r, peer))
  BY <1>3, GreetedAdvances
<1>5. initiator[r].in \in Nat /\ initiator[r].out \in Nat /\ initiator[r].n \in Nat
  BY <1>2 DEF InitiatorObject
<1>8. Greeted(r, peer).out >= initiator[r].out
  BY <1>3, <1>4, <1>5
<1>6. Advances(initiator[r], Greeted(r, peer)) /\ Greeted(r, peer).n >= initiator[r].n
  BY <1>3, <1>4, <1>5, <1>8 DEF Advances
<1> QED BY <1>1, <1>6, Changed

LEMMA NewInitiatorAdvances ==
  ASSUME IInv, NEW r \in Responders, NEW m, HandleNewInitiator(r, m)
  PROVE  OneAdvances(r)
<1>1. CASE UNCHANGED initiator
  BY <1>1, SameObject
<1>2. ASSUME NEW start \in CsnStarts,
             initiator' = [initiator EXCEPT ![r] =
               Greeted(r, [NewInitiator(initiator[r].n + 1, start) EXCEPT !.connected = TRUE])]
      PROVE  OneAdvances(r)
  <2> DEFINE peer == [NewInitiator(initiator[r].n + 1, start) EXCEPT !.connected = TRUE]
  <2>1. initiator[r].n \in Nat \ {0}
    BY Held DEF IInv, InitiatorObject
  <2>2. start \in Nat /\ NoKey \in Key /\ NoCookie \in Cookie
    BY ResponderAssumption DEF NoKey, Key, KeyKind, Cookie
  <2>3. /\ initiator[r].n + 1 \in Nat \ {0} /\ initiator[r].n + 1 # initiator[r].n
        /\ initiator[r].n + 1 >= initiator[r].n
    BY <2>1
  <2>4. peer \in InitiatorObject
    BY <2>2, <2>3 DEF NewInitiator, InitiatorObject
  <2>5. peer.n = initiator[r].n + 1
    BY DEF NewInitiator
  <2>6. initiator' = [initiator EXCEPT ![r] = Greeted(r, peer)]
    BY <1>2
  <2> HIDE DEF peer
  <2>7. Greeted(r, peer).n # initiator[r].n /\ Greeted(r, peer).n >= initiator[r].n
    BY <2>3, <2>4, <2>5, GreetedAdvances
  <2>8. Advances(initiator[r], Greeted(r, peer))
    BY <2>7 DEF Advances
  <2> QED BY <2>6, <2>7, <2>8, Changed
<1> QED BY <1>1, <1>2 DEF HandleNewInitiator

(* Everything the initiator itself sends has passed validateNonceCsn.      *)
LEMMA NewerThanBefore ==
  ASSUME IInv, NEW r \in Responders, NEW m, Incoming(r, m), NEW state, FromInitiator(r, m, state)
  PROVE  /\ initiator[r] \in InitiatorObject /\ initiator[r].in \in Nat
         /\ m.csn \in Nat /\ m.csn > initiator[r].in
         /\ initiator[r].out \in Nat /\ initiator[r].n \in Nat
<1>1. initiator[r] \in InitiatorObject /\ m.csn \in Nat
  BY Held, Received DEF IInv
<1> QED BY <1>1 DEF FromInitiator, NonceAccepted, CsnAccepted, InitiatorObject

LEMMA InitiatorKeyAdvances ==
  ASSUME IInv, NEW r \in Responders, NEW m, Incoming(r, m), InitiatorKey(r, m)
  PROVE  OneAdvances(r)
<1> DEFINE old == initiator[r]
           new == [old EXCEPT !.hs = "auth-sent", !.in = m.csn, !.out = @ + 1,
                              !.sess = SessionKey(<<r, old.n>>, m.body)]
<1>1. /\ old \in InitiatorObject /\ old.in \in Nat /\ m.csn \in Nat /\ m.csn > old.in
      /\ old.out \in Nat /\ old.n \in Nat
  BY NewerThanBefore DEF InitiatorKey, KeyArrived
<1>2. initiator' = [initiator EXCEPT ![r] = new]
  BY DEF InitiatorKey
<1>3. new.in = m.csn /\ new.out = old.out + 1 /\ new.n = old.n
  BY <1>1 DEF InitiatorObject
<1> HIDE DEF new
<1>4. Advances(initiator[r], new) /\ new.n >= initiator[r].n
  BY <1>1, <1>3 DEF Advances
<1> QED BY <1>2, <1>4, Changed

LEMMA InitiatorAuthAdvances ==
  ASSUME IInv, NEW r \in Responders, NEW m, Incoming(r, m), InitiatorAuth(r, m)
  PROVE  OneAdvances(r)
<1> DEFINE new == [initiator[r] EXCEPT !.hs = "auth-received", !.in = m.csn, !.cookie = m.cookie]
<1>1. /\ initiator[r] \in InitiatorObject /\ initiator[r].in \in Nat
      /\ m.csn \in Nat /\ m.csn > initiator[r].in
      /\ initiator[r].out \in Nat /\ initiator[r].n \in Nat
  BY NewerThanBefore DEF InitiatorAuth, AuthArrived
<1>2. initiator' = [initiator EXCEPT ![r] = new]
  BY DEF InitiatorAuth
<1>3. new.in = m.csn /\ new.out = initiator[r].out /\ new.n = initiator[r].n
  BY <1>1 DEF InitiatorObject
<1> HIDE DEF new
<1>4. Advances(initiator[r], new) /\ new.n >= initiator[r].n
  BY <1>1, <1>3 DEF Advances
<1> QED BY <1>2, <1>4, Changed

LEMMA StoringAdvances ==
  ASSUME IInv, NEW r \in Responders, NEW m, Incoming(r, m), FromInitiator(r, m, "task"),
         StoreInitiatorCsn(r, m)
  PROVE  OneAdvances(r)
<1> DEFINE new == [initiator[r] EXCEPT !.in = m.csn]
<1>1. /\ initiator[r] \in InitiatorObject /\ initiator[r].in \in Nat
      /\ m.csn \in Nat /\ m.csn > initiator[r].in
      /\ initiator[r].out \in Nat /\ initiator[r].n \in Nat
  BY NewerThanBefore
<1>2. initiator' = [initiator EXCEPT ![r] = new]
  BY DEF StoreInitiatorCsn
<1>3. /\ new.in = m.csn /\ new.hs = initiator[r].hs
      /\ new.out = initiator[r].out /\ new.n = initiator[r].n
  BY <1>1 DEF InitiatorObject
<1> HIDE DEF new
<1>4. Advances(initiator[r], new) /\ new.n >= initiator[r].n
  BY <1>1, <1>3 DEF Advances
<1> QED BY <1>2, <1>4, Changed

LEMMA NextAdvances ==
  ASSUME IInv, Next
  PROVE  \E r \in Responders : OneAdvances(r)
<1>1. PICK r \in Responders : Arrive(r) \/ ResponderNext(r)
  BY DEF Next
<1>2. CASE UNCHANGED initiator
  BY <1>1, <1>2, SameObject
<1>3. CASE ResponderOnMessage(r) /\ initiator' # initiator
  <2> DEFINE m == Head(inbox[r])
  <2>1. Incoming(r, m)
    BY <1>3 DEF ResponderOnMessage, Incoming
  <2> HIDE DEF m
  <2>2. \/ ServerAuthHandled(r, m) \/ HandleNewInitiator(r, m)
        \/ InitiatorKey(r, m) \/ InitiatorAuth(r, m)
        \/ FromInitiator(r, m, "task") /\ StoreInitiatorCsn(r, m)
        \/ CloseOnError(r)
    BY <1>3 DEF ResponderOnMessage, m, InitiatorLost, ServerNotice, InvalidNonceAt,
                InvalidFromServer, InvalidFromInitiator, OnProtocolError, AuthRepeatsOurCookie,
                DiscardEarly, InitiatorMessage, InitiatorUndecryptable
  <2>3. CloseOnError(r) => OneAdvances(r)
    <3> DEFINE k == Len(SendClose(r, initiator[r], 1, ProtocolError))
    <3>1. k \in Nat
      BY CloseLength
    <3>2. CloseOnError(r) => initiator' = [initiator EXCEPT ![r].out = @ + k]
      BY DEF CloseOnError
    <3> HIDE DEF k
    <3> QED BY <3>1, <3>2, OutOnly
  <2> QED BY <2>1, <2>2, <2>3, ServerAuthAdvances, NewInitiatorAdvances, InitiatorKeyAdvances,
             InitiatorAuthAdvances, StoringAdvances
<1>4. CASE ResponderHandover(r) \/ ResponderSends(r)
  <2>1. 1 \in Nat /\ initiator' = [initiator EXCEPT ![r].out = @ + 1]
    BY <1>4 DEF ResponderHandover, ResponderSends
  <2> QED BY <2>1, OutOnly
<1> QED BY <1>1, <1>2, <1>3, <1>4 DEF ResponderNext, Arrive

(* No message of an initiator is handled twice: the handshake with one     *)
(* Initiator object advances only with a higher CSN than everything        *)
(* accepted before (validateNonceCsn), but for our own greeting.           *)
THEOREM NothingTwice == Spec => FreshCsnPerStep
<1>1. IInv /\ [Next]_vars =>
        [\A r \in Responders :
           LET old == initiator[r]  new == initiator'[r]
           IN new.n = old.n =>
                /\ new.in >= old.in
                /\ new.hs # old.hs => new.in > old.in \/ new.hs = "key-sent"]_vars
  <2> SUFFICES ASSUME IInv, Next, NEW s \in Responders PROVE Advances(initiator[s], initiator'[s])
    BY DEF Advances
  <2>1. PICK r \in Responders : OneAdvances(r)
    BY NextAdvances
  <2>2. /\ initiator \in [Responders -> InitiatorObject]
        /\ initiator[s].in \in Nat /\ initiator[s].out \in Nat
    BY DEF IInv, PeerInv, InitiatorObject
  <2>3. CASE s = r
    BY <2>1, <2>3 DEF OneAdvances
  <2>4. CASE s # r
    <3>1. initiator'[s] = initiator[s]
      BY <2>1, <2>2, <2>4 DEF OneAdvances
    <3> QED BY <2>2, <3>1 DEF Advances
  <2> QED BY <2>3, <2>4
<1> QED BY <1>1, Invariant, PTL DEF Spec, FreshCsnPerStep

-----------------------------------------------------------------------------
(* What a single step sends.  P are the packets of responder r.            *)
Fresh(r, P) ==
  \A p, q \in P :
    /\ p.type # "ws-close" => SentAndCounted(r, p)
    /\ p # q => <<p.dst, p.cookie, p.csn>> # <<q.dst, q.cookie, q.csn>>

StepSends(r) == \E q : Appends(r, q) /\ Fresh(r, Elements(q))

(* Packets to one peer object, numbered on from what it was sent last: a   *)
(* new object starts anywhere, since it has a cookie of its own.           *)
Counted(r, peer, dst, s) ==
  /\ IsSeq(s)
  /\ \A k \in 1 .. Len(s) :
       s[k].dst = dst /\ s[k].csn = peer.out + k /\ s[k].cookie = OurCookie(r, peer)

Follows(r, peer, dst) ==
  peer.out \in Nat /\ (peer.n = Peer(r, dst).n => peer.out = Peer(r, dst).out)

(* When the step is over, the object has counted them.                     *)
Settled(r, peer, dst, s) ==
  s # <<>> => /\ PeerAfter(r, dst).n = peer.n
              /\ PeerAfter(r, dst).out = peer.out + Len(s)

LEMMA CountedFresh ==
  ASSUME NEW r, NEW peer, NEW dst, NEW s,
         Counted(r, peer, dst, s), Follows(r, peer, dst), Settled(r, peer, dst, s)
  PROVE  Fresh(r, Elements(s)) /\ \A p \in Elements(s) : p.dst = dst
<1>1. \A k \in 1 .. Len(s) : k \in Nat /\ k > 0
  BY DEF Counted, IsSeq
<1>2. ASSUME NEW j \in 1 .. Len(s), NEW k \in 1 .. Len(s), s[j] # s[k]
      PROVE  s[j].csn # s[k].csn
  BY <1>1, <1>2 DEF Counted, Follows
<1>4. \A k \in 1 .. Len(s) : s[k].dst = dst
  BY DEF Counted
<1>3. ASSUME NEW k \in 1 .. Len(s) PROVE SentAndCounted(r, s[k])
  <2>1. Len(s) \in Nat /\ k \in Nat /\ 1 <= k /\ k <= Len(s) /\ peer.out \in Nat
    BY DEF Counted, IsSeq, Follows
  <2>2. s # <<>>
    <3>1. Len(<<>>) = 0
      OBVIOUS
    <3> QED BY <2>1, <3>1
  <2>3. PeerAfter(r, dst).n = peer.n /\ PeerAfter(r, dst).out = peer.out + Len(s)
    BY <2>2 DEF Settled
  <2>4. /\ s[k].dst = dst /\ s[k].csn = peer.out + k
        /\ s[k].cookie = OurCookie(r, peer)
    BY DEF Counted
  <2>5. PeerAfter(r, dst).n = Peer(r, dst).n => Peer(r, dst).out = peer.out
    BY <2>3 DEF Follows
  <2>6. s[k].csn <= PeerAfter(r, dst).out /\ peer.out < s[k].csn
    BY <2>1, <2>3, <2>4
  <2> QED BY <2>3, <2>4, <2>5, <2>6 DEF SentAndCounted, OurCookie
<1> QED BY <1>2, <1>3, <1>4 DEF Fresh, Elements

LEMMA CountedOne ==
  ASSUME NEW r, NEW peer, NEW dst, NEW key, NEW type, NEW body
  PROVE  Counted(r, peer, dst, <<BuildPacket(r, peer, dst, key, type, body)>>)
<1> DEFINE p == BuildPacket(r, peer, dst, key, type, body)
<1>1. p.dst = dst /\ p.csn = peer.out + 1 /\ p.cookie = OurCookie(r, peer)
  BY DEF BuildPacket
<1> HIDE DEF p
<1>2. Len(<<p>>) = 1 /\ <<p>>[1] = p /\ 1 .. 1 = {1}
  OBVIOUS
<1> QED BY <1>1, <1>2, Single DEF Counted, p

LEMMA CountedTwo ==
  ASSUME NEW r, NEW peer, peer.out \in Nat, NEW dst, NEW p, NEW q,
         p.dst = dst, p.csn = peer.out + 1, p.cookie = OurCookie(r, peer),
         q.dst = dst, q.csn = peer.out + 2, q.cookie = OurCookie(r, peer)
  PROVE  Counted(r, peer, dst, <<p, q>>)
<1>1. <<p, q>> \in Seq({p, q}) /\ Len(<<p, q>>) = 2 /\ <<p, q>>[1] = p /\ <<p, q>>[2] = q
  OBVIOUS
<1>2. 1 .. 2 = {1, 2}
  OBVIOUS
<1> QED BY <1>1, <1>2 DEF Counted, IsSeq

(* The packets, and what closing puts after them.                          *)
LEMMA CountedCloses ==
  ASSUME OutboxInv, NEW r \in Responders, NEW peer, NEW s,
         Counted(r, peer, 1, s), Follows(r, peer, 1), Settled(r, peer, 1, s), NEW code,
         outbox' = [outbox EXCEPT ![r] = @ \o s \o Hangup(conn[r], code)]
  PROVE  StepSends(r)
<1> DEFINE hangup == Hangup(conn[r], code)
           o == outbox[r]
           q == s \o hangup
<1>1. /\ IsSeq(hangup) /\ \A p \in Elements(hangup) : p.dst = 0 /\ p.type = "ws-close"
      /\ \A p, f \in Elements(hangup) : p = f
  BY HangupFrame
<1>2. Fresh(r, Elements(s)) /\ \A p \in Elements(s) : p.dst = 1
  BY CountedFresh
<1>3. IsSeq(s) /\ IsSeq(o)
  BY Clients DEF Counted, OutboxInv
<1> HIDE DEF hangup, o
<1>4. (o \o s) \o hangup = o \o q
  BY <1>1, <1>3, Regrouped
<1>5. outbox' = [outbox EXCEPT ![r] = @ \o q]
  BY <1>4 DEF hangup, o
<1>6. IsSeq(q) /\ Elements(q) = Elements(s) \cup Elements(hangup)
  BY <1>1, <1>3, JoinedElements
<1> HIDE DEF q
<1>7. Fresh(r, Elements(q))
  <2> SUFFICES ASSUME NEW p \in Elements(q), NEW f \in Elements(q)
               PROVE  /\ p.type # "ws-close" => SentAndCounted(r, p)
                      /\ p # f => <<p.dst, p.cookie, p.csn>> # <<f.dst, f.cookie, f.csn>>
    BY DEF Fresh
  <2>1. CASE p \in Elements(s) /\ f \in Elements(s)
    BY <1>2, <2>1 DEF Fresh
  <2>2. CASE p \in Elements(s) /\ f \in Elements(hangup)
    <3>1. p.dst # f.dst
      BY <1>1, <1>2, <2>2
    <3> QED BY <1>2, <2>2, <3>1 DEF Fresh
  <2>3. CASE p \in Elements(hangup) /\ f \in Elements(s)
    <3>1. p.dst # f.dst
      BY <1>1, <1>2, <2>3
    <3> QED BY <1>1, <2>3, <3>1
  <2>4. CASE p \in Elements(hangup) /\ f \in Elements(hangup)
    BY <1>1, <2>4
  <2> QED BY <1>6, <2>1, <2>2, <2>3, <2>4
<1> QED BY <1>5, <1>6, <1>7 DEF StepSends, Appends

LEMMA CountedSends ==
  ASSUME NEW r, NEW peer, NEW dst, NEW s,
         Counted(r, peer, dst, s), Follows(r, peer, dst), Settled(r, peer, dst, s),
         outbox' = [outbox EXCEPT ![r] = @ \o s]
  PROVE  StepSends(r)
BY CountedFresh DEF Counted, StepSends, Appends

LEMMA NothingSent ==
  ASSUME OutboxInv, NEW r \in Responders, outbox' = outbox
  PROVE  StepSends(r)
<1>1. IsSeq(<<>>) /\ Elements(<<>>) = {}
  BY Single
<1>2. outbox' = [outbox EXCEPT ![r] = @ \o <<>>]
  BY NothingAdded, Clients DEF OutboxInv
<1> QED BY <1>1, <1>2 DEF StepSends, Appends, Fresh

(* Both peer objects follow themselves.                                    *)
LEMMA Following ==
  ASSUME IInv, NEW r \in Responders
  PROVE  Follows(r, srv[r], 0) /\ Follows(r, initiator[r], 1)
<1>1. srv[r] \in ServerObject /\ initiator[r] \in InitiatorObject
  BY Held, Clients DEF IInv, ServerInv
<1>2. srv[r].out \in Nat /\ initiator[r].out \in Nat
  BY <1>1 DEF ServerObject, InitiatorObject
<1> QED BY <1>2 DEF Follows, Peer

LEMMA NothingCounted ==
  ASSUME NEW r, NEW peer, NEW dst
  PROVE  Counted(r, peer, dst, <<>>) /\ Settled(r, peer, dst, <<>>)
BY Single DEF Counted, Settled

(* The initiator has been counted what it was sent.                        *)
LEMMA InitiatorCounts ==
  ASSUME IInv, NEW r \in Responders, NEW k \in Nat, NEW s, Len(s) = k,
         initiator'[r].n = initiator[r].n, initiator'[r].out = initiator[r].out + k
  PROVE  Settled(r, initiator[r], 1, s)
BY DEF Settled, PeerAfter

LEMMA OutRaised ==
  ASSUME IInv, NEW r \in Responders, NEW k \in Nat,
         initiator' = [initiator EXCEPT ![r].out = @ + k]
  PROVE  initiator'[r].n = initiator[r].n /\ initiator'[r].out = initiator[r].out + k
<1>1. initiator[r] \in InitiatorObject
  BY Held DEF IInv
<1>2. initiator'[r] = [initiator[r] EXCEPT !.out = @ + k]
  BY DEF IInv, PeerInv
<1> QED BY <1>1, <1>2 DEF InitiatorObject

LEMMA HangsUp ==
  ASSUME IInv, OutboxInv, NEW r \in Responders, NEW code,
         outbox' = [outbox EXCEPT ![r] = @ \o Hangup(conn[r], code)]
  PROVE  StepSends(r)
<1>1. outbox[r] \o <<>> = outbox[r]
  BY NothingAdded, Clients DEF OutboxInv
<1>2. outbox' = [outbox EXCEPT ![r] = @ \o <<>> \o Hangup(conn[r], code)]
  BY <1>1
<1> QED BY <1>2, Following, NothingCounted, CountedCloses

LEMMA ResetSends ==
  ASSUME IInv, OutboxInv, NEW r \in Responders, NEW code, Reset(r, code, <<>>)
  PROVE  StepSends(r)
<1>1. outbox' = [outbox EXCEPT ![r] = @ \o <<>> \o Hangup(conn[r], code)]
  BY DEF Reset
<1> QED BY <1>1, Following, NothingCounted, CountedCloses

LEMMA ProtocolErrorSends ==
  ASSUME IInv, OutboxInv, NEW r \in Responders, OnProtocolError(r)
  PROVE  StepSends(r)
<1>1. CASE ResetConnection(r, ProtocolError, <<>>)
  BY <1>1, ResetSends DEF ResetConnection
<1>2. CASE CloseOnError(r)
  <2> DEFINE sent == SendClose(r, initiator[r], 1, ProtocolError)
  <2>1. Counted(r, initiator[r], 1, sent)
    BY NothingCounted, CountedOne DEF SendClose
  <2>2. outbox' = [outbox EXCEPT ![r] = @ \o sent \o Hangup(conn[r], ClosingNormal)]
    BY <1>2 DEF CloseOnError, ResetConnection, Reset
  <2>3. Len(sent) \in Nat
    BY CloseLength
  <2>4. initiator' = [initiator EXCEPT ![r].out = @ + Len(sent)]
    BY <1>2 DEF CloseOnError
  <2> HIDE DEF sent
  <2>5. Settled(r, initiator[r], 1, sent)
    BY <2>3, <2>4, OutRaised, InitiatorCounts
  <2> QED BY <2>1, <2>2, <2>5, Following, CountedCloses
<1> QED BY <1>1, <1>2 DEF OnProtocolError

LEMMA ServerHelloSends ==
  ASSUME IInv, OutboxInv, NEW r \in Responders, NEW m, HandleServerHello(r, m)
  PROVE  StepSends(r)
<1> DEFINE said == [srv[r] EXCEPT !.out = @ + 1]
           hello == BuildPacket(r, srv[r], 0, Plain, "client-hello", NoTask)
           auth == BuildPacket(r, said, 0, ServerKey(r), "client-auth", m.cookie)
           o == outbox[r]
           new == [said EXCEPT !.hs = "auth-sent", !.out = @ + 1,
                               !.in = m.csn, !.cookie = m.cookie]
<1>1. srv[r] \in ServerObject /\ srv[r].out \in Nat
  BY Clients DEF IInv, ServerInv, ServerObject
<1>2. said.out = srv[r].out + 1 /\ said.n = srv[r].n
  BY <1>1 DEF ServerObject
<1>3. /\ outbox' = [outbox EXCEPT ![r] = @ \o <<hello>> \o <<auth>>]
      /\ srv' = [srv EXCEPT ![r] = new]
  <2>1. Len(<<hello>>) = 1
    OBVIOUS
  <2> QED BY <2>1 DEF HandleServerHello
<1>9. new.n = srv[r].n /\ new.out = srv[r].out + 2
  BY <1>1 DEF ServerObject
<1>10. srv'[r] = new
  BY <1>3, Clients DEF IInv, ServerInv
<1> HIDE DEF said, new
<1>4. /\ hello.dst = 0 /\ hello.csn = srv[r].out + 1 /\ hello.cookie = OurCookie(r, srv[r])
      /\ auth.dst = 0 /\ auth.csn = srv[r].out + 2 /\ auth.cookie = OurCookie(r, srv[r])
  BY <1>1, <1>2 DEF BuildPacket, OurCookie
<1>5. IsSeq(o)
  BY Clients DEF OutboxInv
<1> HIDE DEF hello, auth, o
<1>6. (o \o <<hello>>) \o <<auth>> = o \o <<hello, auth>>
  <2>1. (o \o <<hello>>) \o <<auth>> = o \o (<<hello>> \o <<auth>>)
    BY <1>5, Single, Regrouped
  <2> QED BY <2>1, Pair
<1>7. outbox' = [outbox EXCEPT ![r] = @ \o <<hello, auth>>]
  BY <1>3, <1>6 DEF o
<1>8. Counted(r, srv[r], 0, <<hello, auth>>)
  BY <1>1, <1>4, CountedTwo
<1>11. Settled(r, srv[r], 0, <<hello, auth>>)
  <2>1. Len(<<hello, auth>>) = 2
    OBVIOUS
  <2> QED BY <1>9, <1>10, <2>1 DEF Settled, PeerAfter
<1> QED BY <1>7, <1>8, <1>11, Following, CountedSends

(* Token and key are numbered on from the object's number.                 *)
LEMMA GreetingCounted ==
  ASSUME NEW r, NEW peer \in InitiatorObject
  PROVE  /\ Counted(r, peer, 1, Greeting(r, peer))
         /\ \A k \in 1 .. Len(Greeting(r, peer)) :
              {"dst", "csn", "cookie"} \subseteq DOMAIN Greeting(r, peer)[k]
<1> DEFINE next == [peer EXCEPT !.out = @ + 1]
           token == BuildPacket(r, peer, 1, TokenKey(AuthToken[r]), "token", r)
           key == BuildPacket(r, peer, 1, PermanentKey(r), "key", <<r, peer.n>>)
           second == BuildPacket(r, next, 1, PermanentKey(r), "key", <<r, peer.n>>)
<1>1. peer.out \in Nat /\ next.out = peer.out + 1 /\ next.n = peer.n
  BY DEF InitiatorObject
<1>2. Greeting(r, peer) \in {<<>>, <<key>>, <<token, second>>}
  <2>1. Len(<<token>>) = 1 /\ Len(<<>>) = 0
    OBVIOUS
  <2>2. [peer EXCEPT !.out = @ + 0] = peer
    BY DEF InitiatorObject
  <2>4. CASE ~peer.connected
    BY <2>4 DEF Greeting
  <2>5. CASE peer.connected /\ ~Tokens(r)
    <3>1. Greeting(r, peer) = Append(<<>>, BuildPacket(r, [peer EXCEPT !.out = @ + 0], 1,
                                                       PermanentKey(r), "key", <<r, peer.n>>))
      BY <2>1, <2>5 DEF Greeting
    <3>2. Append(<<>>, key) = <<key>>
      BY Pair
    <3> QED BY <2>2, <3>1, <3>2
  <2>6. CASE peer.connected /\ Tokens(r)
    <3>1. Greeting(r, peer) = Append(<<token>>, second)
      BY <2>1, <2>6 DEF Greeting
    <3>2. Append(<<token>>, second) = <<token, second>>
      BY Pair
    <3> QED BY <3>1, <3>2
  <2> QED BY <2>4, <2>5, <2>6
<1> HIDE DEF next
<1>3. /\ token.dst = 1 /\ token.csn = peer.out + 1 /\ token.cookie = OurCookie(r, peer)
      /\ second.dst = 1 /\ second.csn = peer.out + 2 /\ second.cookie = OurCookie(r, peer)
  BY <1>1 DEF BuildPacket, OurCookie
<1>4. Counted(r, peer, 1, <<key>>)
  BY CountedOne
<1>6. ASSUME NEW p \in {token, key, second} PROVE {"dst", "csn", "cookie"} \subseteq DOMAIN p
  BY DEF BuildPacket
<1> HIDE DEF token, key, second
<1>5. Counted(r, peer, 1, <<token, second>>)
  BY <1>1, <1>3, CountedTwo
<1> DEFINE s == Greeting(r, peer)
<1>7. Counted(r, peer, 1, s)
  BY <1>2, <1>4, <1>5, NothingCounted
<1>8. ASSUME NEW k \in 1 .. Len(s) PROVE s[k] \in {token, key, second}
  <2>1. /\ Len(<<>>) = 0 /\ Len(<<key>>) = 1 /\ Len(<<token, second>>) = 2
        /\ <<key>>[1] = key /\ <<token, second>>[1] = token /\ <<token, second>>[2] = second
    OBVIOUS
  <2> HIDE DEF s
  <2>2. s = <<>> \/ s = <<key>> \/ s = <<token, second>>
    BY <1>2 DEF s
  <2> QED BY <1>8, <2>1, <2>2
<1> QED BY <1>6, <1>7, <1>8

LEMMA ServerAuthSends ==
  ASSUME IInv, OutboxInv, NEW r \in Responders, NEW m, Incoming(r, m), ServerAuthHandled(r, m)
  PROVE  StepSends(r)
<1> DEFINE peer == [initiator[r] EXCEPT !.connected = m.body.connected]
           said == Greeting(r, peer)
           greeting == [k \in DOMAIN said |-> [said[k] EXCEPT !.src = m.dst]]
<1>1. /\ outbox' = [outbox EXCEPT ![r] = @ \o greeting]
      /\ initiator' = [initiator EXCEPT ![r] = Greeted(r, peer)]
  BY DEF ServerAuthHandled
<1>2. initiator[r] \in InitiatorObject /\ m.body.connected \in BOOLEAN
  BY Held, Received DEF IInv, IsPacket, ServerAuthHandled, ServerAuthDone, AuthExpected
<1>3. peer \in InitiatorObject /\ peer.n = initiator[r].n /\ peer.out = initiator[r].out
  BY <1>2 DEF InitiatorObject
<1>4. Follows(r, peer, 1)
  BY <1>3, Following DEF Follows
<1>7. initiator'[r] = Greeted(r, peer)
  BY <1>1 DEF IInv, PeerInv
<1> HIDE DEF peer
<1>8. Greeted(r, peer).n = peer.n /\ Greeted(r, peer).out = peer.out + Len(said)
  BY <1>3, GreetedAdvances
<1>5. /\ Counted(r, peer, 1, said)
      /\ \A k \in 1 .. Len(said) : {"dst", "csn", "cookie"} \subseteq DOMAIN said[k]
  BY <1>3, GreetingCounted
<1> HIDE DEF said
<1>6. Counted(r, peer, 1, greeting) /\ Len(greeting) = Len(said)
  <2> DEFINE n == Len(said)
             relabelled(k) == [said[k] EXCEPT !.src = m.dst]
  <2>1. n \in Nat /\ DOMAIN said = 1 .. n
    BY <1>5 DEF Counted, IsSeq
  <2>2. ASSUME NEW k \in 1 .. n
        PROVE  /\ relabelled(k).dst = 1 /\ relabelled(k).csn = peer.out + k
               /\ relabelled(k).cookie = OurCookie(r, peer)
    <3> DEFINE p == said[k]
    <3>1. /\ {"dst", "csn", "cookie"} \subseteq DOMAIN p
          /\ p.dst = 1 /\ p.csn = peer.out + k /\ p.cookie = OurCookie(r, peer)
      BY <1>5 DEF Counted
    <3> HIDE DEF p
    <3>2. LET x == [p EXCEPT !.src = m.dst]
          IN x.dst = p.dst /\ x.csn = p.csn /\ x.cookie = p.cookie
      BY <3>1
    <3> QED BY <3>1, <3>2 DEF p
  <2>5. n = Len(said)
    OBVIOUS
  <2> HIDE DEF n
  <2>3. greeting = [k \in 1 .. n |-> relabelled(k)]
    BY <2>1
  <2> HIDE DEF relabelled, greeting
  <2>4. IsSeq(greeting) /\ Len(greeting) = n
    <3> DEFINE D == {relabelled(k) : k \in 1 .. n}
    <3>1. greeting \in [1 .. n -> D]
      BY <2>3
    <3> HIDE DEF D
    <3>2. greeting \in Seq(D) /\ Len(greeting) = n
      BY <2>1, <3>1
    <3> QED BY <3>2 DEF IsSeq
  <2> QED BY <2>2, <2>3, <2>4, <2>5 DEF Counted
<1> HIDE DEF greeting
<1>9. Settled(r, peer, 1, greeting)
  BY <1>6, <1>7, <1>8 DEF Settled, PeerAfter
<1> QED BY <1>1, <1>4, <1>6, <1>9, CountedSends

LEMMA NewInitiatorSends ==
  ASSUME IInv, OutboxInv, NEW r \in Responders, NEW m, HandleNewInitiator(r, m)
  PROVE  StepSends(r)
<1>1. CASE ResetConnection(r, ClosingNormal, <<>>)
  BY <1>1, ResetSends DEF ResetConnection
<1>2. ASSUME NEW start \in CsnStarts,
             initiator' = [initiator EXCEPT ![r] =
               Greeted(r, [NewInitiator(initiator[r].n + 1, start) EXCEPT !.connected = TRUE])],
             outbox' = [outbox EXCEPT ![r] =
               @ \o Greeting(r, [NewInitiator(initiator[r].n + 1, start) EXCEPT !.connected = TRUE])]
      PROVE  StepSends(r)
  <2> DEFINE peer == [NewInitiator(initiator[r].n + 1, start) EXCEPT !.connected = TRUE]
  <2>1. initiator[r] \in InitiatorObject /\ initiator[r].n \in Nat \ {0}
    BY Held DEF IInv, InitiatorObject
  <2>2. peer \in InitiatorObject /\ peer.n = initiator[r].n + 1 /\ peer.out \in Nat
    <3>1. NoKey \in Key /\ NoCookie \in Cookie
      BY DEF NoKey, Key, KeyKind, Cookie
    <3>2. start \in Nat /\ initiator[r].n + 1 \in Nat \ {0}
      BY <2>1, ResponderAssumption
    <3>3. peer \in InitiatorObject
      BY <3>1, <3>2 DEF NewInitiator, InitiatorObject
    <3>4. peer.n = initiator[r].n + 1
      BY DEF NewInitiator
    <3> HIDE DEF peer
    <3> QED BY <3>3, <3>4 DEF InitiatorObject
  <2>3. Follows(r, peer, 1)
    <3>1. Peer(r, 1).n = initiator[r].n
      BY DEF Peer
    <3>2. peer.n # initiator[r].n
      BY <2>1, <2>2
    <3> QED BY <2>2, <3>1, <3>2 DEF Follows
  <2>4. /\ outbox' = [outbox EXCEPT ![r] = @ \o Greeting(r, peer)]
        /\ initiator' = [initiator EXCEPT ![r] = Greeted(r, peer)]
    BY <1>2
  <2> HIDE DEF peer
  <2>5. initiator'[r] = Greeted(r, peer)
    BY <2>4 DEF IInv, PeerInv
  <2>6. Settled(r, peer, 1, Greeting(r, peer))
    BY <2>2, <2>5, GreetedAdvances DEF Settled, PeerAfter
  <2> QED BY <2>2, <2>3, <2>4, <2>6, GreetingCounted, CountedSends
<1> QED BY <1>1, <1>2 DEF HandleNewInitiator

(* One packet to the initiator.                                            *)
LEMMA PacketSends ==
  ASSUME IInv, OutboxInv, NEW r \in Responders, NEW key, NEW type, NEW body,
         initiator'[r].n = initiator[r].n, initiator'[r].out = initiator[r].out + 1,
         outbox' = [outbox EXCEPT ![r] = Append(@, BuildPacket(r, initiator[r], 1, key, type, body))]
  PROVE  StepSends(r)
<1> DEFINE p == BuildPacket(r, initiator[r], 1, key, type, body)
<1>1. outbox' = [outbox EXCEPT ![r] = @ \o <<p>>]
  <2>1. outbox' = [outbox EXCEPT ![r] = Append(outbox[r], p)]
    OBVIOUS
  <2>2. Append(outbox[r], p) = outbox[r] \o <<p>>
    BY Appended, Clients DEF OutboxInv
  <2> QED BY <2>1, <2>2
<1>2. Counted(r, initiator[r], 1, <<p>>)
  BY CountedOne
<1> HIDE DEF p
<1>3. Settled(r, initiator[r], 1, <<p>>)
  <2>1. Len(<<p>>) = 1 /\ 1 \in Nat
    OBVIOUS
  <2> QED BY <2>1, InitiatorCounts
<1> QED BY <1>1, <1>2, <1>3, CountedSends, Following

(* The flags of the handover, and what was sent with them.                 *)
LEMMA SetHandoverSends ==
  ASSUME IInv, OutboxInv, NEW r \in Responders, NEW flags, NEW rest, NEW sent,
         Counted(r, initiator[r], 1, sent), Settled(r, initiator[r], 1, sent),
         SetHandover(r, flags, rest, sent)
  PROVE  StepSends(r)
<1> DEFINE o == outbox[r]
<1>1. IsSeq(o) /\ IsSeq(sent)
  BY Clients DEF OutboxInv, Counted
<1> HIDE DEF o
<1>2. (o \o sent) \o <<>> = o \o sent
  BY <1>1, JoinedElements, NothingAdded
<1>3. \/ outbox' = [outbox EXCEPT ![r] = @ \o sent \o Hangup(conn[r], Handover)]
      \/ outbox' = [outbox EXCEPT ![r] = @ \o sent]
  BY <1>2 DEF SetHandover, o
<1> QED BY <1>3, Following, CountedCloses, CountedSends

LEMMA InitiatorMessageSends ==
  ASSUME IInv, OutboxInv, NEW r \in Responders, NEW m, InitiatorMessage(r, m)
  PROVE  StepSends(r)
<1>1. CASE \E code : ResetConnection(r, code, <<>>)
  BY <1>1, ResetSends DEF ResetConnection
<1>2. CASE \E flags, rest : SetHandover(r, flags, rest, <<>>)
  BY <1>2, NothingCounted, SetHandoverSends
<1> QED BY <1>1, <1>2, NothingSent DEF InitiatorMessage, PeerMessage, HandleClose

LEMMA OwnCallSends ==
  ASSUME IInv, OutboxInv, NEW r \in Responders, ResponderHandover(r) \/ ResponderSends(r)
  PROVE  StepSends(r)
<1>3. initiator'[r].n = initiator[r].n /\ initiator'[r].out = initiator[r].out + 1
  <2>1. 1 \in Nat /\ initiator' = [initiator EXCEPT ![r].out = @ + 1]
    BY DEF ResponderHandover, ResponderSends
  <2> QED BY <2>1, OutRaised
<1>1. CASE ResponderHandover(r)
  <2> DEFINE p == BuildPacket(r, initiator[r], 1, initiator[r].sess, "handover", NoTask)
  <2>1. \E flags, rest : SetHandover(r, flags, rest, <<p>>)
    BY <1>1 DEF ResponderHandover, LocalHandover
  <2>2. Counted(r, initiator[r], 1, <<p>>)
    BY CountedOne
  <2> HIDE DEF p
  <2>3. Settled(r, initiator[r], 1, <<p>>)
    <3>1. Len(<<p>>) = 1 /\ 1 \in Nat
      OBVIOUS
    <3> QED BY <1>3, <3>1, InitiatorCounts
  <2> QED BY <2>1, <2>2, <2>3, SetHandoverSends
<1>2. CASE ResponderSends(r)
  BY <1>2, <1>3, PacketSends DEF ResponderSends, SendApplication
<1> QED BY <1>1, <1>2

(* The answer to the initiator's key.                                      *)
LEMMA InitiatorKeySends ==
  ASSUME IInv, OutboxInv, NEW r \in Responders, NEW m, InitiatorKey(r, m)
  PROVE  StepSends(r)
<1> DEFINE new == [initiator[r] EXCEPT !.hs = "auth-sent", !.in = m.csn, !.out = @ + 1,
                                       !.sess = SessionKey(<<r, initiator[r].n>>, m.body)]
<1>1. initiator[r] \in InitiatorObject /\ initiator'[r] = new
  BY Held DEF IInv, PeerInv, InitiatorKey
<1>2. new.n = initiator[r].n /\ new.out = initiator[r].out + 1
  BY <1>1 DEF InitiatorObject
<1> HIDE DEF new
<1> QED BY <1>1, <1>2, PacketSends DEF InitiatorKey

LEMMA OnMessageSends ==
  ASSUME IInv, OutboxInv, NEW r \in Responders, ResponderOnMessage(r)
  PROVE  StepSends(r)
<1> DEFINE m == Head(inbox[r])
<1>1. Incoming(r, m)
  BY DEF ResponderOnMessage, Incoming
<1> HIDE DEF m
<1>2. CASE AfterPeerHandover(r) \/ InitiatorLost(r, m) \/ AuthRepeatsOurCookie(r, m)
  BY <1>2, ResetSends DEF AfterPeerHandover, InitiatorLost, AuthRepeatsOurCookie, ResetConnection
<1>3. CASE HandleServerHello(r, m) \/ HandleNewInitiator(r, m) \/ InitiatorMessage(r, m)
  BY <1>3, ServerHelloSends, NewInitiatorSends, InitiatorMessageSends
<1>4. CASE ServerAuthHandled(r, m)
  BY <1>1, <1>4, ServerAuthSends
<1>5. CASE InitiatorKey(r, m)
  BY <1>5, InitiatorKeySends
<1>6. CASE InvalidNonceAt(r, m) \/ InvalidFromServer(r, m) \/ InvalidFromInitiator(r, m)
  BY <1>6, ProtocolErrorSends DEF InvalidNonceAt, InvalidFromServer, InvalidFromInitiator
<1>7. CASE outbox' = outbox
  BY <1>7, NothingSent
<1> QED BY <1>2, <1>3, <1>4, <1>5, <1>6, <1>7
        DEF ResponderOnMessage, m, ServerAuthUndecryptable, ServerNotice, InitiatorAuth,
            DiscardEarly, InitiatorUndecryptable

LEMMA ActorSends ==
  ASSUME IInv, OutboxInv, NEW r \in Responders, ResponderNext(r)
  PROVE  StepSends(r)
<1>1. CASE \E unbind \in BOOLEAN : Disconnect(r, unbind)
  BY <1>1, HangsUp DEF Disconnect
<1>2. CASE ConnectionLost(r)
  <2> DEFINE frame == CloseFrame(AbnormalClosure)
  <2>1. frame.type = "ws-close"
    BY DEF CloseFrame
  <2> HIDE DEF frame
  <2>2. \/ outbox' = [outbox EXCEPT ![r] = @ \o <<frame>>]
        \/ outbox' = outbox
    BY <1>2, Appended, Clients DEF ConnectionLost, OutboxInv, frame
  <2>3. IsSeq(<<frame>>) /\ Elements(<<frame>>) = {frame}
    BY Single
  <2>4. Fresh(r, {frame})
    BY <2>1 DEF Fresh
  <2> QED BY <2>2, <2>3, <2>4, NothingSent DEF StepSends, Appends
<1>3. CASE outbox' = outbox
  BY <1>3, NothingSent
<1>4. CASE ResponderOnMessage(r)
  BY <1>4, OnMessageSends
<1>5. CASE ResponderHandover(r) \/ ResponderSends(r)
  BY <1>5, OwnCallSends
<1> QED BY <1>1, <1>2, <1>3, <1>4, <1>5
        DEF ResponderNext, Connect, OnOpen, CloseEvent, ServerCloses

LEMMA NextSends ==
  ASSUME IInv, OutboxInv, Next
  PROVE  OutboxInv' /\ \A s \in Responders : Fresh(s, SentNow(s))
<1>1. PICK r \in Responders : Arrive(r) \/ ResponderNext(r)
  BY DEF Next
<1>2. CASE Arrive(r)
  <2>1. OutboxInv' /\ \A c \in Client : SentNow(c) = {}
    BY <1>2, OutboxEmptied, Clients DEF Arrive
  <2> QED BY <2>1, Clients DEF Fresh
<1>3. CASE ResponderNext(r)
  <2>1. PICK q : Appends(r, q) /\ Fresh(r, Elements(q))
    BY <1>3, ActorSends DEF StepSends
  <2>2. /\ OutboxInv' /\ SentNow(r) = Elements(q)
        /\ \A c \in Client \ {r} : SentNow(c) = {}
    BY <2>1, SentNowIs, Clients
  <2>3. ASSUME NEW s \in Responders PROVE Fresh(s, SentNow(s))
    <3>1. CASE s = r
      BY <2>1, <2>2, <3>1
    <3>2. CASE s # r
      <4>1. SentNow(s) = {}
        BY <2>2, <3>2, Clients
      <4> QED BY <4>1 DEF Fresh
    <3> QED BY <3>1, <3>2
  <2> QED BY <2>2, <2>3
<1> QED BY <1>1, <1>2, <1>3

LEMMA OutboxInvariant == Spec => []OutboxInv
<1>1. Init => OutboxInv
  BY Single DEF Init, InitCommon, OutboxInv
<1>2. IInv /\ OutboxInv /\ [Next]_vars => OutboxInv'
  <2>1. ASSUME OutboxInv, UNCHANGED vars PROVE OutboxInv'
    BY <2>1 DEF vars, commonVars, OutboxInv
  <2> QED BY <2>1, NextSends
<1> QED BY <1>1, <1>2, Invariant, PTL DEF Spec

-----------------------------------------------------------------------------
(* What the responder has sent the server never goes back but with a new   *)
(* connection.                                                             *)
ServerOnward(r) ==
  \E s : /\ srv' = [srv EXCEPT ![r] = s]
         /\ s.out >= srv[r].out \/ s = NewServer

LEMMA OnwardBy ==
  ASSUME NEW r, NEW s, srv' = [srv EXCEPT ![r] = s], s.out >= srv[r].out
  PROVE  ServerOnward(r)
BY DEF ServerOnward

LEMMA ServerSame ==
  ASSUME IInv, NEW r \in Responders, srv' = srv
  PROVE  ServerOnward(r)
<1>1. srv[r].out \in Nat /\ srv' = [srv EXCEPT ![r] = srv[r]]
  BY Clients DEF IInv, ServerInv, ServerObject
<1>2. srv[r].out >= srv[r].out
  BY <1>1
<1> QED BY <1>1, <1>2, OnwardBy

LEMMA ServerRenewed ==
  ASSUME NEW r \in Responders, srv' = [srv EXCEPT ![r] = NewServer]
  PROVE  ServerOnward(r)
BY DEF ServerOnward

LEMMA ServerStored ==
  ASSUME IInv, NEW r \in Responders, NEW m,
         StoreServerCsn(r, m) \/ ServerAuthUndecryptable(r, m) \/ ServerAuthHandled(r, m)
  PROVE  ServerOnward(r)
<1>1. srv[r] \in ServerObject /\ srv[r].out \in Nat
  BY Clients DEF IInv, ServerInv, ServerObject
<1>2. CASE StoreServerCsn(r, m) \/ ServerAuthUndecryptable(r, m)
  <2> DEFINE s == [srv[r] EXCEPT !.in = m.csn]
  <2>1. srv' = [srv EXCEPT ![r] = s] /\ s.out = srv[r].out
    BY <1>1, <1>2 DEF StoreServerCsn, ServerAuthUndecryptable, ServerObject
  <2> HIDE DEF s
  <2>2. s.out >= srv[r].out
    BY <1>1, <2>1
  <2> QED BY <2>1, <2>2, OnwardBy
<1>3. CASE ServerAuthHandled(r, m)
  <2> DEFINE s == [srv[r] EXCEPT !.hs = "done", !.in = m.csn]
  <2>1. srv' = [srv EXCEPT ![r] = s] /\ s.out = srv[r].out
    BY <1>1, <1>3 DEF ServerAuthHandled, ServerObject
  <2> HIDE DEF s
  <2>2. s.out >= srv[r].out
    BY <1>1, <2>1
  <2> QED BY <2>1, <2>2, OnwardBy
<1> QED BY <1>2, <1>3

LEMMA HelloOnward ==
  ASSUME IInv, NEW r \in Responders, NEW m, HandleServerHello(r, m)
  PROVE  ServerOnward(r)
<1> DEFINE hello == <<BuildPacket(r, srv[r], 0, Plain, "client-hello", NoTask)>>
           said == [srv[r] EXCEPT !.out = @ + Len(hello)]
           s == [said EXCEPT !.hs = "auth-sent", !.out = @ + 1, !.in = m.csn, !.cookie = m.cookie]
<1>1. srv[r] \in ServerObject /\ srv[r].out \in Nat /\ Len(hello) = 1
  BY Clients DEF IInv, ServerInv, ServerObject
<1>2. srv' = [srv EXCEPT ![r] = s]
  BY DEF HandleServerHello
<1> HIDE DEF hello
<1>3. s.out = srv[r].out + 1 + 1
  BY <1>1 DEF ServerObject
<1> HIDE DEF s
<1>4. s.out >= srv[r].out
  BY <1>1, <1>3
<1> QED BY <1>2, <1>4, OnwardBy

LEMMA ActorOnward ==
  ASSUME IInv, NEW r \in Responders, Arrive(r) \/ ResponderNext(r)
  PROVE  ServerOnward(r)
<1>1. CASE ResponderOnMessage(r)
  <2> DEFINE m == Head(inbox[r])
  <2>1. \/ srv' = srv \/ srv' = [srv EXCEPT ![r] = NewServer]
        \/ HandleServerHello(r, m) \/ StoreServerCsn(r, m)
        \/ ServerAuthUndecryptable(r, m) \/ ServerAuthHandled(r, m)
    <3> HIDE DEF m
    <3>1. \A code, sent : Reset(r, code, sent) => srv' = [srv EXCEPT ![r] = NewServer]
      BY DEF Reset
    <3>2. InitiatorMessage(r, m) => srv' = srv \/ srv' = [srv EXCEPT ![r] = NewServer]
      BY <3>1 DEF InitiatorMessage, PeerMessage, HandleClose, ResetConnection
    <3>3. OnProtocolError(r) => srv' = [srv EXCEPT ![r] = NewServer]
      BY <3>1 DEF OnProtocolError, CloseOnError, ResetConnection
    <3>4. HandleNewInitiator(r, m) =>
            StoreServerCsn(r, m) \/ srv' = [srv EXCEPT ![r] = NewServer]
      BY <3>1 DEF HandleNewInitiator, ResetConnection
    <3> QED BY <1>1, <3>1, <3>2, <3>3, <3>4
            DEF ResponderOnMessage, m, AfterPeerHandover, ResetConnection, InitiatorLost,
                ServerNotice, InitiatorKey, InitiatorAuth, InvalidNonceAt, InvalidFromServer,
                InvalidFromInitiator, AuthRepeatsOurCookie, DiscardEarly,
                InitiatorUndecryptable
  <2> HIDE DEF m
  <2> QED BY <2>1, ServerSame, ServerRenewed, ServerStored, HelloOnward
<1>2. CASE srv' = srv
  BY <1>2, ServerSame
<1>3. CASE Connect(r)
  BY <1>3, ServerRenewed DEF Connect
<1> QED BY <1>1, <1>2, <1>3
        DEF Arrive, ResponderNext, Disconnect, OnOpen, CloseEvent, ServerCloses, ConnectionLost,
            ResponderHandover, ResponderSends, LocalHandover, SendApplication

(* Neither counter of a responder goes back.                               *)
LEMMA NextOnward ==
  ASSUME IInv, Next, NEW s \in Responders
  PROVE  /\ srv'[s].out >= srv[s].out \/ srv'[s] = NewServer
         /\ initiator'[s].n >= initiator[s].n
         /\ initiator'[s].n = initiator[s].n => initiator'[s].out >= initiator[s].out
<1>1. PICK r \in Responders : ServerOnward(r)
  BY ActorOnward DEF Next
<1>2. PICK a \in Responders : OneAdvances(a)
  BY NextAdvances
<1>3. /\ srv \in [Client -> ServerObject] /\ srv[s].out \in Nat
      /\ initiator \in [Responders -> InitiatorObject]
      /\ initiator[s].n \in Nat /\ initiator[s].out \in Nat
  BY Clients DEF IInv, ServerInv, PeerInv, ServerObject, InitiatorObject
<1>4. srv'[s].out >= srv[s].out \/ srv'[s] = NewServer
  <2>1. CASE s = r
    BY <1>1, <1>3, <2>1, Clients DEF ServerOnward
  <2>2. CASE s # r
    <3>1. srv'[s] = srv[s]
      BY <1>1, <1>3, <2>2, Clients DEF ServerOnward
    <3> QED BY <1>3, <3>1
  <2> QED BY <2>1, <2>2
<1>5. CASE s = a
  BY <1>2, <1>4, <1>5 DEF OneAdvances, Advances
<1>6. CASE s # a
  <2>1. initiator'[s] = initiator[s]
    BY <1>2, <1>3, <1>6 DEF OneAdvances
  <2> QED BY <1>3, <1>4, <2>1
<1> QED BY <1>5, <1>6

(* No two packets to one peer object carry the same number (buildPacket,   *)
(* initPeerHandshake): each is counted by the object it is sent to, above  *)
(* all that was sent before, and no counter goes back.  A replaced         *)
(* Initiator object has a new cookie, so no nonce is used twice although   *)
(* its numbers start anywhere.                                             *)
THEOREM NumbersUsedOnce == Spec => NonceNeverReused
<1>1. IInv /\ OutboxInv /\ [Next]_vars =>
        [\A r \in Responders :
           /\ \A p, q \in SentNow(r) :
                /\ p.type # "ws-close" => SentAndCounted(r, p)
                /\ p # q => <<p.dst, p.cookie, p.csn>> # <<q.dst, q.cookie, q.csn>>
           /\ srv'[r].out >= srv[r].out \/ srv'[r] = NewServer
           /\ initiator'[r].n >= initiator[r].n
           /\ initiator'[r].n = initiator[r].n => initiator'[r].out >= initiator[r].out]_vars
  <2> SUFFICES ASSUME IInv, OutboxInv, Next, NEW r \in Responders
               PROVE  /\ \A p, q \in SentNow(r) :
                           /\ p.type # "ws-close" => SentAndCounted(r, p)
                           /\ p # q => <<p.dst, p.cookie, p.csn>> # <<q.dst, q.cookie, q.csn>>
                      /\ srv'[r].out >= srv[r].out \/ srv'[r] = NewServer
                      /\ initiator'[r].n >= initiator[r].n
                      /\ initiator'[r].n = initiator[r].n
                           => initiator'[r].out >= initiator[r].out
    OBVIOUS
  <2>1. Fresh(r, SentNow(r))
    BY NextSends
  <2> QED BY <2>1, NextOnward DEF Fresh
<1> QED BY <1>1, Invariant, OutboxInvariant, PTL DEF Spec, NonceNeverReused
=============================================================================
