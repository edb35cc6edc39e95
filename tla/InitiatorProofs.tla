--------------------------- MODULE InitiatorProofs ---------------------------
(***************************************************************************)
(* Whatever the number of addresses, the tasks, the trusted keys and the   *)
(* limit, and for any messages: the state of an initiator and its socket   *)
(* agree, and the responder it ends up with is one that has completed its  *)
(* own handshake.                                                          *)
(***************************************************************************)
EXTENDS InitiatorAlone, SignalingProofs, TLAPS

-----------------------------------------------------------------------------
(* What an initiator knows about responders: a session key that it has     *)
(* sent is its own, and it has no chosen responder before state `task`.    *)
OwnSession(i, peer) == peer.sess[1] = "session" /\ <<i, peer.n>> \in peer.sess[2]

Unchosen(cn) ==
  ~cn.used \/ cn.state \in {"ws-connecting", "server-handshake", "peer-handshake"}

Responsible(i, cn, rs, ch, t) ==
  /\ rs \in [ResponderIds -> ResponderObject]
  /\ \A id \in ResponderIds : rs[id].hs = "key-sent" => OwnSession(i, rs[id])
  /\ ch \in ResponderObject
  /\ Unchosen(cn) => ch = NoResponder
  /\ t \in TaskNames \cup {NoTask}
  /\ cn.state = "task" =>
       /\ Present(rs) = {}
       /\ ch.hs = "auth-sent"
       /\ ch.cookie \notin {NoCookie, <<i, ch.n>>}
       /\ OwnSession(i, ch)
       /\ t # NoTask

PeerInv ==
  /\ task \in [Client -> TaskNames \cup {NoTask}]
  /\ responders \in [Initiators -> [ResponderIds -> ResponderObject]]
  /\ counter \in [Initiators -> Nat]
  /\ chosen \in [Initiators -> ResponderObject]
  /\ \A i \in Initiators : Responsible(i, conn[i], responders[i], chosen[i], task[i])

Waiting(q) == q = <<>> \/ (q = <<Head(q)>> /\ IsPacket(Head(q)))

InboxInv == inbox = [c \in Client |-> inbox[c]] /\ \A i \in Initiators : Waiting(inbox[i])

IInv == ConnInv /\ ServerInv /\ InboxInv /\ PeerInv

LEMMA Clients == Initiators \subseteq Client
BY DEF Client

(* Only entry i has changed.                                               *)
OnlyPeer(i) ==
  /\ Apart(i)
  /\ responders' = [responders EXCEPT ![i] = responders'[i]]
  /\ counter' = [counter EXCEPT ![i] = counter'[i]]
  /\ chosen' = [chosen EXCEPT ![i] = chosen'[i]]
  /\ task' = [task EXCEPT ![i] = task'[i]]

LEMMA PeerFrame ==
  ASSUME PeerInv, NEW i \in Initiators, OnlyPeer(i), counter'[i] \in Nat,
         Responsible(i, conn'[i], responders'[i], chosen'[i], task'[i])
  PROVE  PeerInv'
<1>1. /\ responders'[i] \in [ResponderIds -> ResponderObject] /\ chosen'[i] \in ResponderObject
      /\ task'[i] \in TaskNames \cup {NoTask}
  BY DEF Responsible
<1>2. /\ task' \in [Client -> TaskNames \cup {NoTask}]
      /\ responders' \in [Initiators -> [ResponderIds -> ResponderObject]]
      /\ counter' \in [Initiators -> Nat]
      /\ chosen' \in [Initiators -> ResponderObject]
  BY <1>1, Clients DEF PeerInv, OnlyPeer
<1>3. ASSUME NEW j \in Initiators, j # i
      PROVE  Responsible(j, conn'[j], responders'[j], chosen'[j], task'[j])
  <2>1. /\ conn'[j] = conn[j] /\ responders'[j] = responders[j]
        /\ chosen'[j] = chosen[j] /\ task'[j] = task[j]
    BY <1>3, Clients DEF PeerInv, OnlyPeer, Apart
  <2>2. Responsible(j, conn[j], responders[j], chosen[j], task[j])
    BY DEF PeerInv
  <2> QED BY <2>1, <2>2
<1> QED BY <1>2, <1>3 DEF PeerInv

(* A step that only concerns the connection, or ends it.                   *)
LEMMA PeerKept ==
  ASSUME PeerInv, NEW i \in Initiators, Apart(i), UNCHANGED <<responders, counter, chosen, task>>,
         Unchosen(conn'[i]) => Unchosen(conn[i]),
         conn'[i].state = "task" => conn[i].state = "task"
  PROVE  PeerInv'
<1>1. Responsible(i, conn[i], responders[i], chosen[i], task[i])
  BY DEF PeerInv
<1>2. Responsible(i, conn'[i], responders'[i], chosen'[i], task'[i])
  BY <1>1 DEF Responsible
<1>3. OnlyPeer(i) /\ counter'[i] \in Nat
  BY Clients DEF PeerInv, OnlyPeer
<1> QED BY <1>2, <1>3, PeerFrame

LEMMA InboxFrame ==
  ASSUME InboxInv, NEW i \in Initiators, NEW q, Waiting(q), inbox' = [inbox EXCEPT ![i] = q]
  PROVE  InboxInv'
<1>1. inbox' = [c \in Client |-> inbox'[c]]
  BY Clients DEF InboxInv
<1>2. ASSUME NEW j \in Initiators PROVE Waiting(inbox'[j])
  <2>1. CASE j = i
    BY <2>1, Clients DEF InboxInv
  <2>2. CASE j # i
    <3>1. inbox'[j] = inbox[j] /\ Waiting(inbox[j])
      BY <2>2, Clients DEF InboxInv
    <3> QED BY <3>1
  <2> QED BY <2>1, <2>2
<1> QED BY <1>1, <1>2 DEF InboxInv

-----------------------------------------------------------------------------
(* Every step of an initiator keeps the invariant, leaves the others alone *)
(* and does not bring a connection back.                                   *)
GoodStep(i) == IInv' /\ Apart(i) /\ StaysDown(i)

LEMMA Emptied ==
  ASSUME InboxInv, NEW i \in Initiators, inbox' = [inbox EXCEPT ![i] = <<>>]
  PROVE  InboxInv'
BY InboxFrame DEF Waiting

LEMMA InboxKept ==
  ASSUME InboxInv, inbox' = inbox
  PROVE  InboxInv'
BY DEF InboxInv

LEMMA ConnectStep ==
  ASSUME IInv, NEW i \in Initiators, Connect(i), UNCHANGED peerVars
  PROVE  GoodStep(i)
<1>1. /\ ConnInv' /\ Apart(i) /\ conn'[i].used /\ conn'[i].state = "ws-connecting"
      /\ ~conn[i].used
  BY Clients, ConnectConn DEF IInv
<1>2. ServerInv' /\ InboxInv'
  BY Clients, ServerReset, InboxKept DEF IInv, Connect
<1>3. PeerInv'
  BY <1>1, PeerKept DEF IInv, Connect, peerVars, Unchosen
<1>4. StaysDown(i)
  BY <1>1 DEF StaysDown
<1> QED BY <1>1, <1>2, <1>3, <1>4 DEF GoodStep, IInv

LEMMA DisconnectStep ==
  ASSUME IInv, NEW i \in Initiators, NEW unbind \in BOOLEAN, Disconnect(i, unbind),
         UNCHANGED peerVars
  PROVE  GoodStep(i)
<1>1. ConnInv' /\ Apart(i) /\ conn'[i].state = "closed" /\ conn'[i].used = conn[i].used
  BY Clients, DisconnectConn DEF IInv
<1>2. ServerInv' /\ InboxInv'
  BY ServerKept, Emptied DEF IInv, Disconnect
<1>3. PeerInv'
  BY <1>1, PeerKept DEF IInv, Disconnect, peerVars, Unchosen
<1>4. StaysDown(i)
  BY <1>1 DEF StaysDown
<1> QED BY <1>1, <1>2, <1>3, <1>4 DEF GoodStep, IInv

LEMMA OnOpenStep ==
  ASSUME IInv, NEW i \in Initiators, OnOpen(i), UNCHANGED inbox, UNCHANGED peerVars
  PROVE  GoodStep(i)
<1>1. /\ ConnInv' /\ Apart(i) /\ conn'[i].state = "server-handshake"
      /\ conn'[i].used = conn[i].used /\ conn[i].state = "ws-connecting"
  BY Clients, OnOpenConn DEF IInv
<1>2. ServerInv' /\ InboxInv'
  BY ServerKept, InboxKept DEF IInv, OnOpen
<1>3. PeerInv'
  BY <1>1, PeerKept DEF IInv, OnOpen, peerVars, Unchosen
<1>4. StaysDown(i)
  BY <1>1 DEF StaysDown
<1> QED BY <1>1, <1>2, <1>3, <1>4 DEF GoodStep, IInv

(* The three ways in which a connection ends.                              *)
LEMMA ClosedStep ==
  ASSUME IInv, NEW i \in Initiators, CloseEvent(i) \/ ServerCloses(i) \/ ConnectionLost(i),
         UNCHANGED peerVars
  PROVE  GoodStep(i)
<1>1. PICK code \in CloseCode :
        /\ OnClose(i, code) /\ conn[i].socket # "none"
        /\ code = Handover => conn[i].socket = "closing"
  <2>1. CASE CloseEvent(i)
    <3>1. PICK code \in {conn[i].code, AbnormalClosure} : OnClose(i, code)
      BY <2>1 DEF CloseEvent
    <3>2. /\ conn[i].socket = "closing" /\ conn[i].code \in {0} \cup CloseCode
          /\ conn[i].code # 0
      BY <2>1, Clients DEF CloseEvent, IInv, ConnInv, Link, ConnRecord
    <3> QED BY <3>1, <3>2, Codes
  <2>2. CASE ServerCloses(i)
    BY <2>2 DEF ServerCloses, InboxInv, Waiting, IsPacket, IInv
  <2>3. CASE ConnectionLost(i)
    BY <2>3, Codes DEF ConnectionLost, AbnormalClosure, Handover
  <2> QED BY <2>1, <2>2, <2>3
<1>2. handover' = handover
  BY DEF CloseEvent, ServerCloses, ConnectionLost
<1>3. /\ ConnInv' /\ Apart(i) /\ conn'[i].used = conn[i].used
      /\ conn'[i].state \in {conn[i].state, "closed"}
  BY <1>1, <1>2, Clients, OnCloseConn DEF IInv
<1>4. ServerInv' /\ InboxInv'
  <2>1. srv' = srv /\ addr' = addr
    BY DEF CloseEvent, ServerCloses, ConnectionLost
  <2>2. inbox' = inbox \/ inbox' = [inbox EXCEPT ![i] = <<>>]
    BY DEF CloseEvent, ServerCloses, ConnectionLost
  <2> QED BY <2>1, <2>2, ServerKept, Emptied, InboxKept DEF IInv
<1>5. PeerInv'
  <2>1. task' = task
    BY DEF CloseEvent, ServerCloses, ConnectionLost
  <2> QED BY <1>3, <2>1, PeerKept DEF IInv, peerVars, Unchosen
<1>6. StaysDown(i)
  BY <1>3 DEF StaysDown
<1> QED BY <1>3, <1>4, <1>5, <1>6 DEF GoodStep, IInv

-----------------------------------------------------------------------------
(* Handlers.  `m` is the message that is being dispatched.                 *)
Incoming(i, m) == Receives(i) /\ m = Head(inbox[i])

LEMMA Received ==
  ASSUME IInv, NEW i \in Initiators, NEW m, Incoming(i, m)
  PROVE  /\ IsPacket(m) /\ m.type # "ws-close" /\ Tail(inbox[i]) = <<>>
         /\ conn[i].socket = "open" /\ conn[i].used
         /\ conn[i].state \in {"server-handshake", "peer-handshake", "task"}
<1>1. inbox[i] = <<m>> /\ IsPacket(m) /\ m.type # "ws-close"
  BY DEF Incoming, Receives, IInv, InboxInv, Waiting
<1>2. Tail(inbox[i]) = <<>>
  BY <1>1, SingleTail
<1>3. Link(conn[i], handover[i]) /\ conn[i].socket = "open"
  BY Clients DEF Incoming, Receives, IInv, ConnInv
<1>4. conn[i].used /\ conn[i].state \in {"server-handshake", "peer-handshake", "task"}
  BY <1>3 DEF Link
<1> QED BY <1>1, <1>2, <1>3, <1>4

LEMMA Consumed ==
  ASSUME IInv, NEW i \in Initiators, NEW m, Incoming(i, m), Consume(i)
  PROVE  InboxInv'
<1>1. inbox' = [inbox EXCEPT ![i] = <<>>]
  BY Received DEF Consume
<1> QED BY <1>1, Emptied DEF IInv

(* A handler that leaves the connection alone.                             *)
LEMMA CalmStep ==
  ASSUME IInv, NEW i \in Initiators, NEW m, Incoming(i, m), Consume(i),
         conn' = conn, handover' = handover, ServerInv', OnlyPeer(i), counter'[i] \in Nat,
         Responsible(i, conn[i], responders'[i], chosen'[i], task'[i])
  PROVE  GoodStep(i)
<1>1. ConnInv' /\ Apart(i) /\ StaysDown(i)
  BY DEF IInv, ConnInv, Apart, StaysDown
<1>2. PeerInv'
  BY PeerFrame DEF IInv
<1>3. InboxInv'
  BY Consumed
<1> QED BY <1>1, <1>2, <1>3 DEF GoodStep, IInv

(* The same for one that does nothing to the peers.                        *)
LEMMA SilentStep ==
  ASSUME IInv, NEW i \in Initiators, NEW m, Incoming(i, m), Consume(i),
         UNCHANGED <<conn, handover, task, responders, counter, chosen>>, ServerInv'
  PROVE  GoodStep(i)
<1>1. OnlyPeer(i) /\ counter'[i] \in Nat
  BY Clients DEF IInv, PeerInv, OnlyPeer, Apart
<1>2. Responsible(i, conn[i], responders'[i], chosen'[i], task'[i])
  BY DEF IInv, PeerInv
<1> QED BY <1>1, <1>2, CalmStep

(* A reset ends the instance, whatever was stored before it.               *)
LEMMA ResetStep ==
  ASSUME IInv, NEW i \in Initiators, NEW m, Incoming(i, m), NEW reason \in CloseCode, NEW sent,
         ResetConnection(i, reason, sent), UNCHANGED <<responders, counter>>,
         chosen' = [chosen EXCEPT ![i] = chosen'[i]], chosen'[i] \in ResponderObject
  PROVE  GoodStep(i)
<1>1. ConnInv' /\ Apart(i) /\ conn'[i].state = "new" /\ conn'[i].used = conn[i].used
  BY Clients, ResetConn DEF IInv, ResetConnection
<1>2. conn[i].used
  BY Received
<1>3. ServerInv' /\ InboxInv'
  BY Clients, ServerReset, Emptied DEF IInv, ResetConnection, Reset
<1>4. OnlyPeer(i) /\ counter'[i] \in Nat
  BY <1>1, Clients DEF IInv, PeerInv, OnlyPeer, ResetConnection
<1>5. Responsible(i, conn[i], responders[i], chosen[i], task[i]) /\ task' = task
  BY DEF IInv, PeerInv, ResetConnection
<1>6. Responsible(i, conn'[i], responders'[i], chosen'[i], task'[i])
  BY <1>1, <1>2, <1>5 DEF Responsible, Unchosen
<1>7. PeerInv'
  BY <1>4, <1>6, PeerFrame DEF IInv
<1>8. StaysDown(i)
  BY <1>1 DEF StaysDown
<1> QED BY <1>1, <1>3, <1>7, <1>8 DEF GoodStep, IInv

LEMMA PlainReset ==
  ASSUME IInv, NEW i \in Initiators, NEW m, Incoming(i, m), NEW reason \in CloseCode, NEW sent,
         ResetConnection(i, reason, sent), UNCHANGED peerVars
  PROVE  GoodStep(i)
<1>1. chosen' = [chosen EXCEPT ![i] = chosen'[i]] /\ chosen'[i] \in ResponderObject
  BY DEF IInv, PeerInv, peerVars
<1> QED BY <1>1, ResetStep DEF peerVars

LEMMA AfterPeerHandoverStep ==
  ASSUME IInv, NEW i \in Initiators, NEW m, Incoming(i, m), AfterPeerHandover(i),
         UNCHANGED peerVars
  PROVE  GoodStep(i)
BY PlainReset, Codes DEF AfterPeerHandover

-----------------------------------------------------------------------------
LEMMA HeardType ==
  ASSUME IInv, NEW i \in Initiators, NEW m, Incoming(i, m)
  PROVE  srv[i] \in ServerObject /\ Heard(i, m) \in ServerObject
<1>1. m.csn \in Nat /\ srv[i] \in ServerObject
  BY Received, Clients DEF IsPacket, IInv, ServerInv
<1> QED BY <1>1 DEF Heard, ServerObject

LEMMA ServerChanges ==
  ASSUME IInv, NEW i \in Initiators, NEW s \in ServerObject,
         srv' = [srv EXCEPT ![i] = s], addr' = addr
  PROVE  ServerInv'
<1>1. addr' = [addr EXCEPT ![i] = addr[i]] /\ addr[i] \in Address
  BY Clients DEF IInv, ServerInv
<1> QED BY <1>1, Clients, ServerFrame DEF IInv

LEMMA HandleServerHelloStep ==
  ASSUME IInv, NEW i \in Initiators, NEW m, Incoming(i, m), HandleServerHello(i, m),
         UNCHANGED peerVars
  PROVE  GoodStep(i)
<1>1. i \notin Responders
  BY ClientAssumption
<1>2. m.csn \in Nat /\ m.cookie \in Cookie /\ srv[i] \in ServerObject
  BY Received, HeardType DEF IsPacket, Cookie
<1> DEFINE said == [srv[i] EXCEPT !.out = @ + 0]
           s == [said EXCEPT !.hs = "auth-sent", !.out = @ + 1, !.in = m.csn, !.cookie = m.cookie]
<1>3. srv' = [srv EXCEPT ![i] = s]
  BY <1>1 DEF HandleServerHello
<1>4. said \in ServerObject
  BY <1>2 DEF ServerObject
<1> HIDE DEF said
<1>5. s \in ServerObject
  <2>1. said.out + 1 \in Nat /\ "auth-sent" \in {"new", "auth-sent", "done"}
    BY <1>4 DEF ServerObject
  <2> QED BY <1>2, <1>4, <2>1 DEF ServerObject
<1> HIDE DEF s
<1>6. ServerInv'
  BY <1>3, <1>5, ServerChanges DEF HandleServerHello
<1> QED BY <1>6, SilentStep DEF HandleServerHello, peerVars

LEMMA ServerAuthUndecryptableStep ==
  ASSUME IInv, NEW i \in Initiators, NEW m, Incoming(i, m), ServerAuthUndecryptable(i, m),
         UNCHANGED peerVars
  PROVE  GoodStep(i)
<1>1. srv' = [srv EXCEPT ![i] = Heard(i, m)]
  BY Clients DEF ServerAuthUndecryptable, Heard, IInv, ServerInv
<1>2. ServerInv'
  BY <1>1, HeardType, ServerChanges DEF ServerAuthUndecryptable
<1> QED BY <1>2, SilentStep DEF ServerAuthUndecryptable, peerVars

LEMMA HandleDisconnectedStep ==
  ASSUME IInv, NEW i \in Initiators, NEW m, Incoming(i, m), HandleDisconnected(i, m)
  PROVE  GoodStep(i)
<1>1. ServerInv'
  BY HeardType, ServerChanges DEF HandleDisconnected
<1> QED BY <1>1, SilentStep DEF HandleDisconnected, peerVars

LEMMA IgnoreUnknownStep ==
  ASSUME IInv, NEW i \in Initiators, NEW m, Incoming(i, m), IgnoreUnknown(i, m)
  PROVE  GoodStep(i)
<1>1. ServerInv'
  BY ServerKept DEF IgnoreUnknown, IInv
<1> QED BY <1>1, SilentStep DEF IgnoreUnknown, peerVars

-----------------------------------------------------------------------------
(* What becomes of the Responder objects.                                  *)
LEMMA NoResponderType == NoResponder \in ResponderObject /\ NoResponder.hs = "new"
<1>1. NoCookie \in Cookie /\ NoKey \in Key
  BY DEF Cookie, NoKey, Key, KeyKind
<1> QED BY <1>1 DEF NoResponder, ResponderObject

LEMMA PermanentKeyType == \A r \in Responders : PermanentKey(r) \in Key
<1> SUFFICES ASSUME NEW r \in Responders PROVE PermanentKey(r) \in Key
  OBVIOUS
<1>1. <<r, 0>> \in Name
  BY DEF Name, Client
<1>2. {<<r, 0>>} \in SUBSET Name
  BY <1>1
<1> QED BY <1>2 DEF PermanentKey, Key, KeyKind

LEMMA NewResponderType ==
  ASSUME NEW i \in Initiators, NEW id \in ResponderIds, NEW n \in Nat
  PROVE  /\ NewResponder(i, id, n) \in ResponderObject
         /\ NewResponder(i, id, n).hs # "key-sent"
<1>1. Trusts(i) => PermanentKey(PeerTrustedKey[i]) \in Key
  BY InitiatorAssumption, PermanentKeyType DEF Trusts
<1>2. NoKey \in Key
  BY DEF NoKey, Key, KeyKind
<1>3. (IF Trusts(i) THEN PermanentKey(PeerTrustedKey[i]) ELSE NoKey) \in Key
  BY <1>1, <1>2
<1>4. (IF Trusts(i) THEN "token-received" ELSE "new") \in {"new", "token-received"}
  OBVIOUS
<1> QED BY <1>3, <1>4, NoResponderType DEF NewResponder, ResponderObject

(* Forgetting some of them is harmless.                                    *)
LEMMA WithoutType ==
  ASSUME NEW i \in Initiators, NEW rs \in [ResponderIds -> ResponderObject], NEW ids,
         \A id \in ResponderIds : rs[id].hs = "key-sent" => OwnSession(i, rs[id])
  PROVE  /\ Without(rs, ids) \in [ResponderIds -> ResponderObject]
         /\ \A id \in ResponderIds :
              Without(rs, ids)[id].hs = "key-sent" => OwnSession(i, Without(rs, ids)[id])
         /\ Present(Without(rs, ids)) \subseteq Present(rs) \ ids
<1>1. NoResponder.n = 0 /\ NoResponder \in ResponderObject /\ NoResponder.hs = "new"
  BY NoResponderType DEF NoResponder
<1>2. Without(rs, ids) = [id \in ResponderIds |-> IF id \in ids THEN NoResponder ELSE rs[id]]
  BY DEF Without
<1>3. Without(rs, ids) \in [ResponderIds -> ResponderObject]
  BY <1>1, <1>2
<1>4. ASSUME NEW id \in ResponderIds
      PROVE  Without(rs, ids)[id] = IF id \in ids THEN NoResponder ELSE rs[id]
  BY <1>2
<1>5. \A id \in ResponderIds :
        Without(rs, ids)[id].hs = "key-sent" => OwnSession(i, Without(rs, ids)[id])
  BY <1>1, <1>4
<1>6. Present(Without(rs, ids)) \subseteq Present(rs) \ ids
  BY <1>1, <1>4 DEF Present
<1> QED BY <1>3, <1>5, <1>6

(* A handler that only changes the map of responders.                      *)
Sessions(i, rs) == \A id \in ResponderIds : rs[id].hs = "key-sent" => OwnSession(i, rs[id])

LEMMA MapStep ==
  ASSUME IInv, NEW i \in Initiators, NEW m, Incoming(i, m), Consume(i),
         UNCHANGED <<conn, handover, chosen>>, ServerInv',
         NEW rs \in [ResponderIds -> ResponderObject], Sessions(i, rs),
         conn[i].state = "task" => Present(rs) = {},
         responders' = [responders EXCEPT ![i] = rs],
         NEW n \in Nat, counter' = [counter EXCEPT ![i] = n],
         NEW t \in TaskNames \cup {NoTask}, task' = [task EXCEPT ![i] = t],
         conn[i].state = "task" => t = task[i]
  PROVE  GoodStep(i)
<1>1. /\ responders'[i] = rs /\ counter'[i] = n /\ task'[i] = t /\ chosen'[i] = chosen[i]
      /\ OnlyPeer(i)
  BY Clients DEF IInv, PeerInv, OnlyPeer, Apart
<1>2. Responsible(i, conn[i], responders[i], chosen[i], task[i])
  BY DEF IInv, PeerInv
<1>3. Responsible(i, conn[i], responders'[i], chosen'[i], task'[i])
  BY <1>1, <1>2 DEF Responsible, Sessions
<1> QED BY <1>1, <1>3, CalmStep

(* The common case: neither the task nor the counter changes.              *)
LEMMA MapOnlyStep ==
  ASSUME IInv, NEW i \in Initiators, NEW m, Incoming(i, m), Consume(i),
         UNCHANGED <<conn, handover, chosen, counter, task>>, ServerInv',
         NEW rs \in [ResponderIds -> ResponderObject], Sessions(i, rs),
         conn[i].state = "task" => Present(rs) = {},
         responders' = [responders EXCEPT ![i] = rs]
  PROVE  GoodStep(i)
<1>1. /\ counter' = [counter EXCEPT ![i] = counter[i]] /\ counter[i] \in Nat
      /\ task' = [task EXCEPT ![i] = task[i]] /\ task[i] \in TaskNames \cup {NoTask}
  BY Clients DEF IInv, PeerInv
<1> QED BY <1>1, MapStep

(* What an initiator holds is well-typed and has its own session keys.     *)
LEMMA Held ==
  ASSUME IInv, NEW i \in Initiators
  PROVE  /\ responders[i] \in [ResponderIds -> ResponderObject] /\ Sessions(i, responders[i])
         /\ responders \in [Initiators -> [ResponderIds -> ResponderObject]]
         /\ counter[i] \in Nat
         /\ conn[i].state = "task" => Present(responders[i]) = {}
         /\ Responsible(i, conn[i], responders[i], chosen[i], task[i])
BY DEF IInv, PeerInv, Responsible, Sessions

LEMMA WithoutStep ==
  ASSUME IInv, NEW i \in Initiators, NEW m, Incoming(i, m), Consume(i),
         UNCHANGED <<conn, handover, chosen, counter, task>>, ServerInv', NEW ids,
         responders' = [responders EXCEPT ![i] = Without(responders[i], ids)]
  PROVE  GoodStep(i)
<1> DEFINE rs == Without(responders[i], ids)
<1>1. /\ rs \in [ResponderIds -> ResponderObject] /\ Sessions(i, rs)
      /\ Present(rs) \subseteq Present(responders[i])
  BY Held, WithoutType DEF Sessions
<1>2. conn[i].state = "task" => Present(rs) = {}
  BY <1>1, Held
<1> HIDE DEF rs
<1> QED BY <1>1, <1>2, MapOnlyStep DEF rs

-----------------------------------------------------------------------------
(* Every set of addresses is finite.                                       *)
LEMMA AddressesFinite ==
  ASSUME NEW ids \in SUBSET ResponderIds
  PROVE  IsFiniteSet(ids) /\ Cardinality(ids) \in Nat
<1>1. IsFiniteSet(ids)
  BY AddressAssumption, FS_Subset
<1> QED BY <1>1, FS_CardinalityType

LEMMA ProcessNewResponderStep ==
  ASSUME IInv, NEW i \in Initiators, NEW m, Incoming(i, m), conn[i].state = "peer-handshake",
         NEW id \in ResponderIds, ProcessNewResponder(i, Heard(i, m), id),
         Consume(i), UNCHANGED <<conn, handover, task, addr, chosen>>
  PROVE  GoodStep(i)
<1> DEFINE new == NewResponder(i, id, counter[i] + 1)
           added == [responders[i] EXCEPT ![id] = new]
           evicted == Evicted(added)
           rs == Without(added, evicted)
           s == [Heard(i, m) EXCEPT !.out = @ + Cardinality(evicted)]
<1>1. new \in ResponderObject /\ new.hs # "key-sent"
  BY Held, NewResponderType
<1> HIDE DEF new
<1>2. added \in [ResponderIds -> ResponderObject] /\ Sessions(i, added)
  BY <1>1, Held DEF Sessions
<1>3. Cardinality(evicted) \in Nat
  BY AddressesFinite DEF Evicted, Present
<1>4. /\ responders' = [responders EXCEPT ![i] = rs]
      /\ counter' = [counter EXCEPT ![i] = counter[i] + 1]
      /\ srv' = [srv EXCEPT ![i] = s]
  BY DEF ProcessNewResponder, new
<1> HIDE DEF added, evicted
<1>5. ServerInv'
  <2>1. s \in ServerObject
    BY <1>3, HeardType, ServerSends
  <2> HIDE DEF s
  <2> QED BY <1>4, <2>1, ServerChanges
<1>6. rs \in [ResponderIds -> ResponderObject] /\ Sessions(i, rs)
  BY <1>2, WithoutType DEF Sessions
<1> HIDE DEF rs
<1>7. /\ task' = [task EXCEPT ![i] = task[i]] /\ task[i] \in TaskNames \cup {NoTask}
      /\ counter[i] + 1 \in Nat
  BY Clients, Held DEF IInv, PeerInv
<1> QED BY <1>4, <1>5, <1>6, <1>7, MapStep

LEMMA HandleNewResponderStep ==
  ASSUME IInv, NEW i \in Initiators, NEW m, Incoming(i, m), HandleNewResponder(i, m)
  PROVE  GoodStep(i)
<1>1. CASE /\ FromServer(i, m, "peer-handshake", "new-responder")
           /\ m.body \in ResponderIds
           /\ ProcessNewResponder(i, Heard(i, m), m.body)
           /\ Consume(i)
           /\ UNCHANGED <<conn, handover, task, addr, chosen>>
  BY <1>1, ProcessNewResponderStep DEF FromServer, ServerMessage
<1>2. CASE /\ responders' = [responders EXCEPT ![i] = Without(@, {m.body})]
           /\ srv' = [srv EXCEPT ![i] = [Heard(i, m) EXCEPT !.out = @ + 1]]
           /\ Consume(i)
           /\ UNCHANGED <<conn, handover, task, addr, counter, chosen>>
  <2>1. [Heard(i, m) EXCEPT !.out = @ + 1] \in ServerObject
    BY HeardType, ServerSends
  <2>2. ServerInv'
    BY <1>2, <2>1, ServerChanges
  <2> QED BY <1>2, <2>2, Held, WithoutStep
<1> QED BY <1>1, <1>2 DEF HandleNewResponder

LEMMA HandleSendErrorStep ==
  ASSUME IInv, NEW i \in Initiators, NEW m, Incoming(i, m), HandleSendError(i, m)
  PROVE  GoodStep(i)
<1>1. CASE /\ responders' = [responders EXCEPT ![i] = Without(@, {m.body.dst})]
           /\ srv' = [srv EXCEPT ![i] = Heard(i, m)]
           /\ Consume(i)
           /\ UNCHANGED <<conn, handover, task, addr, outbox, counter, chosen>>
  <2>1. ServerInv'
    BY <1>1, HeardType, ServerChanges
  <2> QED BY <1>1, <2>1, Held, WithoutStep
<1>2. CASE ResetConnection(i, ProtocolError, <<>>) /\ UNCHANGED peerVars
  BY <1>2, PlainReset, Codes
<1>3. CASE /\ srv' = [srv EXCEPT ![i] = Heard(i, m)]
           /\ Consume(i)
           /\ UNCHANGED <<conn, handover, task, addr, outbox>>
           /\ UNCHANGED peerVars
  <2>1. ServerInv'
    BY <1>3, HeardType, ServerChanges
  <2> QED BY <1>3, <2>1, SilentStep DEF peerVars
<1> QED BY <1>1, <1>2, <1>3 DEF HandleSendError

-----------------------------------------------------------------------------
(* Messages of responders.                                                 *)
LEMMA FromResponderFacts ==
  ASSUME IInv, NEW i \in Initiators, NEW m, Incoming(i, m), NEW hs, FromResponder(i, m, hs)
  PROVE  /\ m.src \in ResponderIds
         /\ responders[i][m.src] \in ResponderObject /\ Saved(i, m) \in ResponderObject
         /\ Saved(i, m).hs = hs /\ Saved(i, m).n = responders[i][m.src].n
         /\ Saved(i, m).sess = responders[i][m.src].sess
         /\ conn[i].state = "peer-handshake"
<1>1. m.src \in ResponderIds /\ responders[i][m.src].hs = hs /\ conn[i].state = "peer-handshake"
  BY DEF FromResponder, Present
<1>2. responders[i][m.src] \in ResponderObject /\ m.csn \in Nat
  BY <1>1, Held, Received DEF IsPacket
<1> QED BY <1>1, <1>2 DEF Saved, ResponderObject

(* One object changes; its session, if it has sent a key, is its own.      *)
LEMMA ObjectStep ==
  ASSUME IInv, NEW i \in Initiators, NEW m, Incoming(i, m), Consume(i),
         UNCHANGED <<conn, srv, handover, task, addr, counter, chosen>>,
         NEW id \in ResponderIds, conn[i].state = "peer-handshake",
         NEW peer \in ResponderObject, peer.hs = "key-sent" => OwnSession(i, peer),
         responders' = [responders EXCEPT ![i][id] = peer]
  PROVE  GoodStep(i)
<1> DEFINE rs == [responders[i] EXCEPT ![id] = peer]
<1>1. rs \in [ResponderIds -> ResponderObject] /\ Sessions(i, rs)
  BY Held DEF Sessions
<1>2. responders' = [responders EXCEPT ![i] = rs]
  OBVIOUS
<1> HIDE DEF rs
<1>3. ServerInv'
  BY ServerKept DEF IInv
<1> QED BY <1>1, <1>2, <1>3, MapOnlyStep

LEMMA HandleTokenStep ==
  ASSUME IInv, NEW i \in Initiators, NEW m, Incoming(i, m), HandleToken(i, m)
  PROVE  GoodStep(i)
<1> DEFINE peer == [Saved(i, m) EXCEPT !.hs = "token-received", !.perm = PermanentKey(m.body)]
<1>1. /\ m.src \in ResponderIds /\ conn[i].state = "peer-handshake"
      /\ Saved(i, m) \in ResponderObject
  BY FromResponderFacts DEF HandleToken
<1>2. PermanentKey(m.body) \in Key
  BY Received, PermanentKeyType DEF HandleToken, IsPacket
<1>3. peer \in ResponderObject /\ peer.hs = "token-received"
  BY <1>1, <1>2 DEF ResponderObject
<1>4. responders' = [responders EXCEPT ![i][m.src] = peer]
  BY DEF HandleToken
<1> HIDE DEF peer
<1> QED BY <1>1, <1>3, <1>4, ObjectStep DEF HandleToken

LEMMA HandleKeyStep ==
  ASSUME IInv, NEW i \in Initiators, NEW m, Incoming(i, m), HandleKey(i, m)
  PROVE  GoodStep(i)
<1> DEFINE r == Saved(i, m)
           key == SessionKey(<<i, r.n>>, m.body)
           peer == [r EXCEPT !.hs = "key-sent", !.out = @ + 1, !.sess = key]
<1>1. m.src \in ResponderIds /\ conn[i].state = "peer-handshake" /\ r \in ResponderObject
  BY FromResponderFacts DEF HandleKey
<1>2. responders' = [responders EXCEPT ![i][m.src] = peer]
  BY DEF HandleKey
<1> HIDE DEF r
<1>3. m.body \in Name /\ <<i, r.n>> \in Name
  BY <1>1, Received, Clients DEF HandleKey, IsPacket, ResponderObject, Name
<1>4. key \in Key /\ key[1] = "session" /\ <<i, r.n>> \in key[2]
  <2>1. {<<i, r.n>>, m.body} \in SUBSET Name
    BY <1>3
  <2> QED BY <2>1 DEF SessionKey, Key, KeyKind
<1> HIDE DEF key
<1>5. peer \in ResponderObject /\ peer.sess = key /\ peer.n = r.n
  <2>1. r.out + 1 \in Nat
    BY <1>1 DEF ResponderObject
  <2> QED BY <1>1, <1>4, <2>1 DEF ResponderObject
<1> HIDE DEF peer
<1>6. OwnSession(i, peer)
  BY <1>4, <1>5 DEF OwnSession
<1> QED BY <1>1, <1>2, <1>5, <1>6, ObjectStep DEF HandleKey

LEMMA KeyUndecryptableStep ==
  ASSUME IInv, NEW i \in Initiators, NEW m, Incoming(i, m), KeyUndecryptable(i, m)
  PROVE  GoodStep(i)
<1>1. /\ m.src \in ResponderIds /\ conn[i].state = "peer-handshake"
      /\ Saved(i, m) \in ResponderObject /\ Saved(i, m).hs = "token-received"
  BY FromResponderFacts DEF KeyUndecryptable
<1> QED BY <1>1, ObjectStep DEF KeyUndecryptable

-----------------------------------------------------------------------------
(* The two handlers that advance the state.                                *)
LEMMA AdvanceStep ==
  ASSUME IInv, NEW i \in Initiators, NEW m, Incoming(i, m), Consume(i), ServerInv',
         NEW state \in {"peer-handshake", "task"},
         conn' = [conn EXCEPT ![i].state = state], handover' = handover,
         responders' = [responders EXCEPT ![i] = responders'[i]],
         chosen' = [chosen EXCEPT ![i] = chosen'[i]],
         task' = [task EXCEPT ![i] = task'[i]],
         counter' = [counter EXCEPT ![i] = counter'[i]], counter'[i] \in Nat,
         Responsible(i, conn'[i], responders'[i], chosen'[i], task'[i])
  PROVE  GoodStep(i)
<1>1. conn[i].socket = "open" /\ conn[i].state \in {"server-handshake", "peer-handshake", "task"}
  BY Received
<1>2. ConnInv' /\ Apart(i)
  BY <1>1, Clients, AdvanceConn DEF IInv
<1>3. PeerInv'
  BY <1>2, PeerFrame DEF IInv, OnlyPeer
<1>4. InboxInv'
  BY Consumed
<1>5. StaysDown(i)
  BY <1>1 DEF StaysDown
<1> QED BY <1>2, <1>3, <1>4, <1>5 DEF GoodStep, IInv

LEMMA HandleServerAuthStep ==
  ASSUME IInv, NEW i \in Initiators, NEW m, Incoming(i, m), HandleServerAuth(i, m)
  PROVE  GoodStep(i)
<1> DEFINE ids == m.body.responders
           surplus == IF Trusts(i) \/ Len(ids) <= Limit THEN 0 ELSE Len(ids) - Limit
           kept == {k \in 1 .. Len(ids) : k > surplus}
           entry(id) == CHOOSE k \in kept : ids[k] = id
           rs == [id \in ResponderIds |->
                    IF \E k \in kept : ids[k] = id
                    THEN NewResponder(i, id, counter[i] + entry(id)) ELSE NoResponder]
           s == [srv[i] EXCEPT !.hs = "done", !.in = m.csn, !.out = @ + surplus]
<1>1. /\ responders' = [responders EXCEPT ![i] = rs]
      /\ counter' = [counter EXCEPT ![i] = @ + Len(ids)]
      /\ srv' = [srv EXCEPT ![i] = s]
      /\ conn' = [conn EXCEPT ![i].state = "peer-handshake"]
      /\ addr' = [addr EXCEPT ![i] = m.dst]
      /\ Consume(i) /\ UNCHANGED <<handover, task, chosen>>
  BY DEF HandleServerAuth, ServerAuthDone
<1>2. /\ conn[i].state = "server-handshake" /\ m.dst = 1 /\ m.type = "server-auth"
  BY DEF HandleServerAuth, ServerAuthDone, ServerHandshake, NonceAccepted, DestinationAccepted,
         AuthExpected
<1>3. Len(ids) \in Nat /\ surplus \in Nat
  <2>1. ids \in Seq(ResponderIds)
    BY <1>2, Received DEF IsPacket
  <2>2. Len(ids) \in Nat /\ Limit \in Nat
    BY <2>1, InitiatorAssumption
  <2> QED BY <2>2
<1>4. ServerInv'
  <2>1. srv[i] \in ServerObject /\ m.csn \in Nat
    BY HeardType, Received DEF IsPacket
  <2>2. srv[i].out + surplus \in Nat
    BY <1>3, <2>1 DEF ServerObject
  <2>3. s \in ServerObject
    BY <2>1, <2>2 DEF ServerObject
  <2>4. m.dst \in Address
    BY <1>2 DEF Address
  <2> HIDE DEF s
  <2> QED BY <1>1, <2>3, <2>4, Clients, ServerFrame DEF IInv
<1>5. ASSUME NEW id \in ResponderIds PROVE rs[id] \in ResponderObject /\ rs[id].hs # "key-sent"
  <2>1. CASE \E k \in kept : ids[k] = id
    <3>1. entry(id) \in kept
      BY <2>1
    <3>2. counter[i] + entry(id) \in Nat
      BY <1>3, <3>1, Held
    <3>3. rs[id] = NewResponder(i, id, counter[i] + entry(id))
      BY <2>1
    <3> HIDE DEF entry, rs
    <3> QED BY <3>2, <3>3, NewResponderType
  <2>2. CASE ~\E k \in kept : ids[k] = id
    BY <2>2, NoResponderType
  <2> QED BY <2>1, <2>2
<1>6. rs \in [ResponderIds -> ResponderObject]
  BY <1>5
<1> HIDE DEF rs
<1>7. /\ responders'[i] = rs /\ chosen'[i] = chosen[i] /\ task'[i] = task[i]
      /\ counter'[i] = counter[i] + Len(ids) /\ counter'[i] \in Nat
      /\ conn'[i].state = "peer-handshake" /\ conn'[i].used = conn[i].used
  BY <1>1, <1>3, Held, Clients DEF IInv, PeerInv, ConnInv, ConnRecord
<1>8. Responsible(i, conn[i], responders[i], chosen[i], task[i])
  BY Held
<1>9. Responsible(i, conn'[i], responders'[i], chosen'[i], task'[i])
  BY <1>2, <1>5, <1>6, <1>7, <1>8 DEF Responsible, Unchosen
<1>10. /\ responders' = [responders EXCEPT ![i] = responders'[i]]
       /\ counter' = [counter EXCEPT ![i] = counter'[i]]
       /\ chosen' = [chosen EXCEPT ![i] = chosen'[i]]
       /\ task' = [task EXCEPT ![i] = task'[i]]
  BY <1>1, <1>7, Clients DEF IInv, PeerInv
<1> QED BY <1>1, <1>4, <1>7, <1>9, <1>10, AdvanceStep

-----------------------------------------------------------------------------
(* The task that is chosen is one of ours.                                 *)
LEMMA ChosenTaskType ==
  ASSUME NEW i \in Initiators, NEW m, Common(i, m) # {}
  PROVE  ChosenTask(i, m) \in TaskNames
<1>1. OurTasks[i] \in Seq(TaskNames)
  BY InitiatorAssumption
<1>2. Common(i, m) \subseteq DOMAIN OurTasks[i] /\ DOMAIN OurTasks[i] \subseteq Nat
  BY <1>1 DEF Common
<1> DEFINE first == CHOOSE k \in Common(i, m) : \A j \in Common(i, m) : k <= j
<1>3. \E k \in Common(i, m) : \A j \in Common(i, m) : k <= j
  BY <1>2, Smallest
<1>4. first \in Common(i, m)
  BY <1>3
<1>5. ChosenTask(i, m) = OurTasks[i][first]
  BY DEF ChosenTask
<1> HIDE DEF first
<1> QED BY <1>1, <1>2, <1>4, <1>5

LEMMA HandleAuthStep ==
  ASSUME IInv, NEW i \in Initiators, NEW m, Incoming(i, m), HandleAuth(i, m)
  PROVE  GoodStep(i)
<1> DEFINE saved == Saved(i, m)
           r == [saved EXCEPT !.cookie = m.cookie, !.hs = "auth-sent", !.out = @ + 1]
           t == ChosenTask(i, m)
           rs == Without(responders[i], ResponderIds)
           s == [srv[i] EXCEPT !.out = @ + Cardinality(Others(i, m))]
<1>1. /\ FromResponder(i, m, "key-sent") /\ m.type = "auth" /\ Common(i, m) # {}
      /\ m.cookie # <<i, responders[i][m.src].n>>
      /\ task' = [task EXCEPT ![i] = t]
      /\ chosen' = [chosen EXCEPT ![i] = r]
      /\ srv' = [srv EXCEPT ![i] = s]
      /\ responders' = [responders EXCEPT ![i] = rs]
      /\ conn' = [conn EXCEPT ![i].state = "task"]
      /\ Consume(i) /\ UNCHANGED <<handover, addr, counter>>
  BY Clients DEF HandleAuth, AuthDecrypted, AuthWellFormed, OurCookie, IInv, ServerInv, ServerObject
<1>2. /\ m.src \in ResponderIds /\ saved \in ResponderObject
      /\ saved.n = responders[i][m.src].n /\ saved.sess = responders[i][m.src].sess
      /\ saved.hs = "key-sent" /\ conn[i].state = "peer-handshake"
  BY <1>1, FromResponderFacts
<1>3. OwnSession(i, saved)
  BY <1>1, <1>2, Held DEF Sessions, OwnSession, FromResponder
<1> HIDE DEF saved
<1>4. m.cookie \in Name /\ m.cookie \in Cookie /\ m.cookie # NoCookie
  BY <1>1, Received, NoCookieIsNoName DEF IsPacket, Cookie
<1>5. /\ r \in ResponderObject /\ r.hs = "auth-sent" /\ r.cookie = m.cookie
      /\ r.n = saved.n /\ r.sess = saved.sess
  <2>1. saved.out + 1 \in Nat
    BY <1>2 DEF ResponderObject
  <2> QED BY <1>2, <1>4, <2>1 DEF ResponderObject
<1> HIDE DEF r
<1>6. t \in TaskNames /\ t # NoTask
  BY <1>1, ChosenTaskType, TaskAssumption
<1> HIDE DEF t
<1>7. rs \in [ResponderIds -> ResponderObject] /\ Sessions(i, rs) /\ Present(rs) = {}
  <2>1. /\ rs \in [ResponderIds -> ResponderObject] /\ Sessions(i, rs)
        /\ Present(rs) \subseteq Present(responders[i]) \ ResponderIds
    BY Held, WithoutType DEF Sessions
  <2>2. Present(responders[i]) \subseteq ResponderIds
    BY DEF Present
  <2> QED BY <2>1, <2>2
<1> HIDE DEF rs
<1>8. ServerInv'
  <2>1. Cardinality(Others(i, m)) \in Nat
    BY AddressesFinite DEF Others, Present
  <2>2. s \in ServerObject
    BY <2>1, HeardType, ServerSends
  <2> HIDE DEF s
  <2> QED BY <1>1, <2>2, ServerChanges
<1>9. /\ responders'[i] = rs /\ chosen'[i] = r /\ task'[i] = t
      /\ counter'[i] = counter[i] /\ counter'[i] \in Nat
      /\ conn'[i].state = "task" /\ conn'[i].used = conn[i].used
  BY <1>1, Held, Clients DEF IInv, PeerInv, ConnInv, ConnRecord
<1>10. conn[i].used
  BY Received
<1>11. Responsible(i, conn'[i], responders'[i], chosen'[i], task'[i])
  <2>1. /\ ~Unchosen(conn'[i]) /\ OwnSession(i, r) /\ r.cookie \notin {NoCookie, <<i, r.n>>}
    BY <1>1, <1>2, <1>3, <1>4, <1>5, <1>9, <1>10 DEF Unchosen, OwnSession
  <2> QED BY <1>5, <1>6, <1>7, <1>9, <2>1 DEF Responsible, Sessions
<1>12. /\ responders' = [responders EXCEPT ![i] = responders'[i]]
       /\ counter' = [counter EXCEPT ![i] = counter'[i]]
       /\ chosen' = [chosen EXCEPT ![i] = chosen'[i]]
       /\ task' = [task EXCEPT ![i] = task'[i]]
  BY <1>1, <1>9, Clients DEF IInv, PeerInv
<1> QED BY <1>1, <1>8, <1>9, <1>11, <1>12, AdvanceStep

-----------------------------------------------------------------------------
(* Errors.                                                                 *)
LEMMA DropSourceStep ==
  ASSUME IInv, NEW i \in Initiators, NEW m, Incoming(i, m), NEW reason,
         DropSource(i, m, reason), conn[i].state = "peer-handshake",
         NEW t \in TaskNames \cup {NoTask}, task' = [task EXCEPT ![i] = t]
  PROVE  GoodStep(i)
<1> DEFINE base == IF m.src = 0 THEN StoreCsn(i, srv[i], m) ELSE srv[i]
           s == [base EXCEPT !.out = @ + 1]
           rs == Without(responders[i], {m.src})
<1>1. /\ srv' = [srv EXCEPT ![i] = s] /\ responders' = [responders EXCEPT ![i] = rs]
      /\ Consume(i) /\ UNCHANGED <<conn, handover, addr, counter, chosen>>
  BY Held DEF DropSource
<1>2. base \in ServerObject
  <2>1. srv[i] \in ServerObject /\ m.csn \in Nat
    BY HeardType, Received DEF IsPacket
  <2>2. [srv[i] EXCEPT !.in = m.csn] \in ServerObject
    BY <2>1 DEF ServerObject
  <2> QED BY <2>1, <2>2 DEF StoreCsn
<1> HIDE DEF base
<1>3. ServerInv'
  <2>1. s \in ServerObject
    BY <1>2, ServerSends
  <2> HIDE DEF s
  <2> QED BY <1>1, <2>1, ServerChanges
<1>4. rs \in [ResponderIds -> ResponderObject] /\ Sessions(i, rs)
  BY Held, WithoutType DEF Sessions
<1> HIDE DEF rs
<1>5. counter' = [counter EXCEPT ![i] = counter[i]] /\ counter[i] \in Nat
  BY <1>1, Held DEF IInv, PeerInv
<1> QED BY <1>1, <1>3, <1>4, <1>5, MapStep

LEMMA DropSourceOnly ==
  ASSUME IInv, NEW i \in Initiators, NEW m, Incoming(i, m), NEW reason,
         DropSource(i, m, reason), conn[i].state = "peer-handshake", UNCHANGED task
  PROVE  GoodStep(i)
<1>1. task' = [task EXCEPT ![i] = task[i]] /\ task[i] \in TaskNames \cup {NoTask}
  BY Clients DEF IInv, PeerInv
<1> QED BY <1>1, DropSourceStep

(* The close message of an error is counted.                               *)
LEMMA ErrorCounted ==
  ASSUME IInv, NEW i \in Initiators, NEW code, CloseWithError(i, code)
  PROVE  /\ chosen' = [chosen EXCEPT ![i] = chosen'[i]] /\ chosen'[i] \in ResponderObject
         /\ chosen'[i].id = chosen[i].id /\ chosen'[i].n = chosen[i].n
         /\ chosen'[i].hs = chosen[i].hs /\ chosen'[i].out >= chosen[i].out
         /\ chosen'[i].out = chosen[i].out + Len(SendClose(i, chosen[i], chosen[i].id, code))
<1> DEFINE k == Len(SendClose(i, chosen[i], chosen[i].id, code))
           ch == [chosen[i] EXCEPT !.out = @ + k]
<1>1. k \in {0, 1}
  BY CloseLength
<1>2. chosen \in [Initiators -> ResponderObject]
  BY DEF IInv, PeerInv
<1>3. chosen' = [chosen EXCEPT ![i] = ch]
  BY DEF CloseWithError
<1> HIDE DEF k
<1>4. /\ ch \in ResponderObject /\ ch.id = chosen[i].id /\ ch.n = chosen[i].n
      /\ ch.hs = chosen[i].hs /\ ch.out = chosen[i].out + k /\ ch.out >= chosen[i].out
  BY <1>1, <1>2 DEF ResponderObject
<1> HIDE DEF ch
<1>5. chosen'[i] = ch
  BY <1>2, <1>3
<1> QED BY <1>3, <1>4, <1>5 DEF k

LEMMA SignalingErrorStep ==
  ASSUME IInv, NEW i \in Initiators, NEW m, Incoming(i, m), NEW code \in CloseCode,
         OnSignalingError(i, m, code)
  PROVE  GoodStep(i)
<1>1. CASE ResetConnection(i, code, <<>>) /\ UNCHANGED peerVars
  BY <1>1, PlainReset
<1>2. CASE conn[i].state = "peer-handshake" /\ DropSource(i, m, code) /\ UNCHANGED task
  BY <1>2, DropSourceOnly
<1>3. CASE CloseWithError(i, code)
  <2>1. PICK sent : ResetConnection(i, ClosingNormal, sent) /\ UNCHANGED responders
    BY <1>3 DEF CloseWithError
  <2>2. chosen' = [chosen EXCEPT ![i] = chosen'[i]] /\ chosen'[i] \in ResponderObject
    BY <1>3, ErrorCounted
  <2>3. counter' = counter
    BY <1>3 DEF CloseWithError
  <2> QED BY <2>1, <2>2, <2>3, ResetStep, Codes
<1> QED BY <1>1, <1>2, <1>3 DEF OnSignalingError

LEMMA InvalidStep ==
  ASSUME IInv, NEW i \in Initiators, NEW m, Incoming(i, m),
         InvalidNonce(i, m) \/ InvalidServerMessage(i, m) \/ InvalidResponderMessage(i, m)
  PROVE  GoodStep(i)
<1>1. PICK code \in {ProtocolError, NoSharedTask} : OnSignalingError(i, m, code)
  BY DEF InvalidNonce, InvalidServerMessage, InvalidResponderMessage
<1> QED BY <1>1, SignalingErrorStep, Codes

LEMMA CouldNotDecryptStep ==
  ASSUME IInv, NEW i \in Initiators, NEW m, Incoming(i, m), CouldNotDecrypt(i, m)
  PROVE  GoodStep(i)
<1>1. conn[i].state = "peer-handshake"
  BY DEF CouldNotDecrypt, FromResponder
<1> QED BY <1>1, DropSourceOnly DEF CouldNotDecrypt

LEMMA AuthWithOurCookieStep ==
  ASSUME IInv, NEW i \in Initiators, NEW m, Incoming(i, m), AuthWithOurCookie(i, m)
  PROVE  GoodStep(i)
<1>1. conn[i].state = "peer-handshake" /\ ChosenTask(i, m) \in TaskNames
  BY ChosenTaskType DEF AuthWithOurCookie, AuthDecrypted, FromResponder
<1> QED BY <1>1, DropSourceStep DEF AuthWithOurCookie

-----------------------------------------------------------------------------
(* In state `task`.                                                        *)

(* Numbers of the chosen responder may grow; the rest of it stays.         *)
LEMMA ChosenChange ==
  ASSUME IInv, NEW i \in Initiators, NEW ch \in ResponderObject, conn[i].state = "task",
         ch.hs = chosen[i].hs, ch.cookie = chosen[i].cookie, ch.n = chosen[i].n,
         ch.sess = chosen[i].sess,
         chosen' = [chosen EXCEPT ![i] = ch], UNCHANGED <<responders, counter, task>>,
         Apart(i), conn'[i].state = "task", conn'[i].used
  PROVE  PeerInv'
<1>1. /\ responders'[i] = responders[i] /\ chosen'[i] = ch /\ task'[i] = task[i]
      /\ counter'[i] \in Nat /\ OnlyPeer(i)
  BY Held, Clients DEF IInv, PeerInv, OnlyPeer
<1>2. Responsible(i, conn[i], responders[i], chosen[i], task[i])
  BY Held
<1>3. ~Unchosen(conn'[i])
  BY DEF Unchosen
<1>4. Responsible(i, conn'[i], responders'[i], chosen'[i], task'[i])
  BY <1>1, <1>2, <1>3 DEF Responsible, OwnSession
<1> QED BY <1>1, <1>4, PeerFrame DEF IInv

LEMMA StoredCsn ==
  ASSUME IInv, NEW i \in Initiators, NEW m, Incoming(i, m), StoreChosenCsn(i, m)
  PROVE  LET ch == [chosen[i] EXCEPT !.in = m.csn]
         IN /\ ch \in ResponderObject /\ chosen' = [chosen EXCEPT ![i] = ch]
            /\ ch.hs = chosen[i].hs /\ ch.cookie = chosen[i].cookie /\ ch.n = chosen[i].n
            /\ ch.sess = chosen[i].sess
<1>1. chosen[i] \in ResponderObject /\ m.csn \in Nat
  BY Received DEF IsPacket, IInv, PeerInv
<1> QED BY <1>1 DEF StoreChosenCsn, ResponderObject

(* A handler that only stores the CSN of the chosen responder.             *)
LEMMA ChosenStep ==
  ASSUME IInv, NEW i \in Initiators, NEW m, Incoming(i, m), Consume(i), StoreChosenCsn(i, m),
         conn[i].state = "task", UNCHANGED <<conn, srv, handover, task, addr, responders, counter>>
  PROVE  GoodStep(i)
<1>1. ConnInv' /\ Apart(i) /\ StaysDown(i)
  BY DEF IInv, ConnInv, Apart, StaysDown
<1>2. ServerInv' /\ InboxInv'
  BY ServerKept, Consumed DEF IInv
<1>3. conn'[i].state = "task" /\ conn'[i].used
  BY Received
<1>4. PeerInv'
  BY <1>1, <1>3, StoredCsn, ChosenChange
<1> QED BY <1>1, <1>2, <1>4 DEF GoodStep, IInv

LEMMA PeerMessageUndecryptableStep ==
  ASSUME IInv, NEW i \in Initiators, NEW m, Incoming(i, m), PeerMessageUndecryptable(i, m)
  PROVE  GoodStep(i)
BY ChosenStep DEF PeerMessageUndecryptable, FromChosen

(* Setting a flag of the handover.                                         *)
LEMMA SetHandoverPart ==
  ASSUME IInv, NEW i \in Initiators, NEW flags \in HandoverRecord, NEW rest, Waiting(rest),
         NEW sent, SetHandover(i, flags, rest, sent), ~Both(i), conn[i].state = "task",
         UNCHANGED <<srv, addr>>
  PROVE  /\ ConnInv' /\ Apart(i) /\ conn'[i].state = "task" /\ conn'[i].used
         /\ ServerInv' /\ InboxInv' /\ StaysDown(i)
<1>1. ConnInv' /\ Apart(i) /\ conn'[i].state = "task" /\ conn'[i].used = conn[i].used
  BY Clients, SetHandoverConn DEF IInv
<1>2. conn[i].used
  <2>1. Link(conn[i], handover[i])
    BY Clients DEF IInv, ConnInv
  <2> QED BY <2>1 DEF Link
<1>3. ServerInv'
  BY ServerKept DEF IInv
<1>4. InboxInv'
  <2>1. inbox' = [inbox EXCEPT ![i] = <<>>] \/ inbox' = [inbox EXCEPT ![i] = rest]
    BY DEF SetHandover
  <2> QED BY <2>1, Emptied, InboxFrame DEF IInv
<1>5. StaysDown(i)
  BY DEF StaysDown
<1> QED BY <1>1, <1>2, <1>3, <1>4, <1>5

LEMMA HandlePeerMessageStep ==
  ASSUME IInv, NEW i \in Initiators, NEW m, Incoming(i, m), ~handover[i].peer,
         HandlePeerMessage(i, m)
  PROVE  GoodStep(i)
<1>1. /\ conn[i].state = "task" /\ PeerMessage(i, m) /\ StoreChosenCsn(i, m)
      /\ UNCHANGED <<responders, counter>>
  BY DEF HandlePeerMessage, FromChosen
<1>2. CASE \E reason \in CloseCode : ResetConnection(i, reason, <<>>)
  <2>1. PICK reason \in CloseCode : ResetConnection(i, reason, <<>>)
    BY <1>2
  <2>2. chosen' = [chosen EXCEPT ![i] = chosen'[i]] /\ chosen'[i] \in ResponderObject
    BY <1>1, StoredCsn DEF IInv, PeerInv
  <2> QED BY <1>1, <2>1, <2>2, ResetStep
<1>3. CASE Consume(i) /\ UNCHANGED <<conn, srv, handover, task, addr, outbox>>
  BY <1>1, <1>3, ChosenStep
<1>4. CASE /\ SetHandover(i, [handover[i] EXCEPT !.peer = TRUE], Tail(inbox[i]), <<>>)
           /\ UNCHANGED <<srv, task, addr>>
  <2>1. [handover[i] EXCEPT !.peer = TRUE] \in HandoverRecord
    BY Clients DEF IInv, ConnInv, HandoverRecord
  <2>2. Waiting(Tail(inbox[i])) /\ ~Both(i)
    BY Received DEF Waiting, Both
  <2>3. /\ ConnInv' /\ Apart(i) /\ conn'[i].state = "task" /\ conn'[i].used
        /\ ServerInv' /\ InboxInv' /\ StaysDown(i)
    BY <1>1, <1>4, <2>1, <2>2, SetHandoverPart
  <2>4. PeerInv'
    BY <1>1, <1>4, <2>3, StoredCsn, ChosenChange
  <2> QED BY <2>3, <2>4 DEF GoodStep, IInv
<1> QED BY <1>1, <1>2, <1>3, <1>4, Codes DEF PeerMessage, HandleClose

(* What the task and the application send raises a number of the chosen one. *)
LEMMA ChosenSends ==
  ASSUME IInv, NEW i \in Initiators, chosen' = [chosen EXCEPT ![i].out = @ + 1]
  PROVE  LET ch == [chosen[i] EXCEPT !.out = @ + 1]
         IN /\ ch \in ResponderObject /\ chosen' = [chosen EXCEPT ![i] = ch]
            /\ ch.hs = chosen[i].hs /\ ch.cookie = chosen[i].cookie /\ ch.n = chosen[i].n
            /\ ch.sess = chosen[i].sess
<1>1. chosen[i] \in ResponderObject /\ chosen[i].out + 1 \in Nat
  BY DEF IInv, PeerInv, ResponderObject
<1> QED BY <1>1 DEF ResponderObject

LEMMA InitiatorHandoverStep ==
  ASSUME IInv, NEW i \in Initiators, InitiatorHandover(i)
  PROVE  GoodStep(i)
<1>1. /\ conn[i].state = "task" /\ ~Both(i)
      /\ UNCHANGED <<srv, task, addr, responders, counter>>
      /\ chosen' = [chosen EXCEPT ![i].out = @ + 1]
  BY DEF InitiatorHandover, LocalHandover, Both
<1>2. [handover[i] EXCEPT !.local = TRUE] \in HandoverRecord
  BY Clients DEF IInv, ConnInv, HandoverRecord
<1>3. Waiting(inbox[i])
  BY DEF IInv, InboxInv
<1>4. PICK sent : SetHandover(i, [handover[i] EXCEPT !.local = TRUE], inbox[i], sent)
  BY DEF InitiatorHandover, LocalHandover
<1>5. /\ ConnInv' /\ Apart(i) /\ conn'[i].state = "task" /\ conn'[i].used
      /\ ServerInv' /\ InboxInv' /\ StaysDown(i)
  BY <1>1, <1>2, <1>3, <1>4, SetHandoverPart
<1>6. PeerInv'
  BY <1>1, <1>5, ChosenSends, ChosenChange
<1> QED BY <1>5, <1>6 DEF GoodStep, IInv

LEMMA InitiatorSendsStep ==
  ASSUME IInv, NEW i \in Initiators, InitiatorSends(i)
  PROVE  GoodStep(i)
<1>1. /\ conn[i].state = "task" /\ chosen' = [chosen EXCEPT ![i].out = @ + 1]
      /\ UNCHANGED <<conn, srv, handover, task, addr, inbox, responders, counter>>
  BY DEF InitiatorSends, SendApplication
<1>2. ConnInv' /\ Apart(i) /\ StaysDown(i)
  BY <1>1 DEF IInv, ConnInv, Apart, StaysDown
<1>3. ServerInv' /\ InboxInv'
  BY <1>1, ServerKept, InboxKept DEF IInv
<1>4. conn'[i].state = "task" /\ conn'[i].used
  <2>1. Link(conn[i], handover[i])
    BY Clients DEF IInv, ConnInv
  <2> QED BY <1>1, <2>1 DEF Link
<1>5. PeerInv'
  BY <1>1, <1>2, <1>4, ChosenSends, ChosenChange
<1> QED BY <1>2, <1>3, <1>5 DEF GoodStep, IInv

-----------------------------------------------------------------------------
(* Whatever arrives has the fields its type promises.                      *)
LEMMA NumberedPeer ==
  ASSUME IInv, NEW i \in Initiators, NEW src \in Address \ {1}
  PROVE  Peer(i, src).in \in Nat /\ Peer(i, src).cookie \in Cookie /\ <<i, Peer(i, src).n>> \in Name
<1>1. \/ Peer(i, src) = srv[i] \/ Peer(i, src) = chosen[i]
      \/ src \in ResponderIds /\ Peer(i, src) = responders[i][src]
  BY DEF Peer, Address
<1>2. srv[i] \in ServerObject /\ chosen[i] \in ResponderObject
  BY Clients DEF IInv, ServerInv, PeerInv
<1>3. src \in ResponderIds => responders[i][src] \in ResponderObject
  BY Held
<1>4. /\ Peer(i, src).in \in Nat /\ Peer(i, src).cookie \in Cookie /\ Peer(i, src).n \in Nat
  BY <1>1, <1>2, <1>3 DEF ServerObject, ResponderObject
<1> QED BY <1>4, Clients DEF Name

(* The header.                                                             *)
LEMMA ExpectedHeader ==
  ASSUME IInv, NEW i \in Initiators, NEW src \in Address, NEW key, NEW type, NEW body
  PROVE  LET m == Expected(i, src, key, type, body)
         IN /\ m.csn \in Nat \ {0} /\ m.cookie \in Name
            /\ m.src = src /\ m.type = type /\ m.body = body
<1> DEFINE peer == IF src = 1 THEN NoResponder ELSE Peer(i, src)
           m == Expected(i, src, key, type, body)
<1>1. peer.in \in Nat /\ peer.cookie \in Cookie
  <2>1. CASE src = 1
    BY <2>1 DEF NoResponder, Cookie
  <2>2. CASE src # 1
    BY <2>2, NumberedPeer
  <2> QED BY <2>1, <2>2
<1>2. <<NoPeer, 0>> \in Name
  BY DEF Name
<1>3. (IF peer.cookie = NoCookie THEN <<NoPeer, 0>> ELSE peer.cookie) \in Name
  BY <1>1, <1>2 DEF Cookie
<1> HIDE DEF peer
<1>4. /\ m.csn = peer.in + 1 /\ m.src = src /\ m.type = type /\ m.body = body
      /\ m.cookie = IF peer.cookie = NoCookie THEN <<NoPeer, 0>> ELSE peer.cookie
  BY DEF Expected, peer
<1> QED BY <1>1, <1>3, <1>4

(* The content.                                                            *)
ContentOK(c) ==
  /\ c[1] = "token" => c[2] \in Responders
  /\ c[1] = "key" => c[2] \in Name
  /\ c[1] = "server-auth" => c[2].responders \in Seq(ResponderIds)
  /\ c[1] # "ws-close"

LEMMA ServerContentsOK == \A i : \A c \in ServerContents(i) : ContentOK(c)
<1> SUFFICES ASSUME NEW i, NEW c \in ServerContents(i) PROVE ContentOK(c)
  OBVIOUS
<1>1. ServerLists \subseteq Seq(ResponderIds)
  <2>1. <<>> \in Seq(ResponderIds) /\ \A a \in ResponderIds : <<a>> \in Seq(ResponderIds)
    OBVIOUS
  <2>2. \A a, b \in ResponderIds : <<a, b>> \in Seq(ResponderIds)
    OBVIOUS
  <2>3. ASSUME NEW l \in ServerLists
        PROVE  \/ l = <<>> \/ \E a \in ResponderIds : l = <<a>>
               \/ \E a, b \in ResponderIds : l = <<a, b>>
    <3>1. CASE \E p \in ResponderIds \X ResponderIds : l = <<p[1], p[2]>>
      BY <3>1
    <3> QED BY <3>1 DEF ServerLists
  <2> QED BY <2>1, <2>2, <2>3
<1>2. CASE \E k, l : l \in ServerLists /\ c = <<"server-auth", [cookie |-> k, responders |-> l]>>
  BY <1>1, <1>2 DEF ContentOK
<1>3. CASE c[1] \in {"server-hello", "new-responder", "send-error", "disconnected", "unknown"}
  BY <1>3 DEF ContentOK
<1> QED BY <1>2, <1>3 DEF ServerContents

LEMMA PeerContentsOK ==
  ASSUME NEW i, NEW src, NEW c \in PeerContents(i, src)
  PROVE  ContentOK(c)
<1>1. CASE \E r \in Responders : c = <<"token", r>>
  BY <1>1 DEF ContentOK
<1>2. CASE \E r \in Responders : c = <<"key", <<r, 1>>>>
  <2>1. \A r \in Responders : <<r, 1>> \in Name
    BY DEF Name, Client
  <2> QED BY <1>2, <2>1 DEF ContentOK
<1>3. CASE c[1] \in {"auth", "close", "application", "handover", "unknown"}
  BY <1>3 DEF ContentOK
<1> QED BY <1>1, <1>2, <1>3 DEF PeerContents

LEMMA ArrivalsArePackets ==
  ASSUME IInv, NEW i \in Initiators, NEW m \in Arrivals(i)
  PROVE  IsPacket(m)
<1>1. CASE \E code \in {GoingAway, DroppedByInitiator} : m = CloseFrame(code)
  BY <1>1, Codes DEF CloseFrame, IsPacket, GoingAway, DroppedByInitiator, Handover
<1> DEFINE Sent(n) == \E src \in Address : \E key, c :
                        ContentOK(c) /\ n = Expected(i, src, key, c[1], c[2])
<1>2. ASSUME NEW n, Sent(n)
      PROVE  /\ IsPacket(n) /\ n.csn \in Nat \ {0} /\ n.type # "ws-close"
             /\ \A k : IsPacket([n EXCEPT !.dst = k])
             /\ IsPacket([n EXCEPT !.csn = @ - 1])
             /\ \A k \in Name : IsPacket([n EXCEPT !.cookie = k])
             /\ n.src \in Address
  <2>1. PICK src \in Address :
          \E key, c : ContentOK(c) /\ n = Expected(i, src, key, c[1], c[2])
    BY <1>2
  <2>2. PICK key, c : ContentOK(c) /\ n = Expected(i, src, key, c[1], c[2])
    BY <2>1
  <2>3. /\ n.csn \in Nat \ {0} /\ n.cookie \in Name /\ n.src = src
        /\ n.type = c[1] /\ n.body = c[2]
    BY <2>2, ExpectedHeader
  <2>4. \A k : /\ [n EXCEPT !.dst = k].csn = n.csn /\ [n EXCEPT !.dst = k].cookie = n.cookie
               /\ [n EXCEPT !.dst = k].type = n.type /\ [n EXCEPT !.dst = k].body = n.body
    BY <2>2 DEF Expected
  <2>5. \A k : /\ [n EXCEPT !.cookie = k].csn = n.csn /\ [n EXCEPT !.cookie = k].cookie = k
               /\ [n EXCEPT !.cookie = k].type = n.type /\ [n EXCEPT !.cookie = k].body = n.body
    BY <2>2 DEF Expected
  <2>6. LET l == [n EXCEPT !.csn = @ - 1]
        IN /\ l.csn = n.csn - 1 /\ l.cookie = n.cookie
           /\ l.type = n.type /\ l.body = n.body
    BY <2>2 DEF Expected
  <2>7. n.csn - 1 \in Nat
    BY <2>3
  <2> QED BY <2>2, <2>3, <2>4, <2>5, <2>6, <2>7 DEF IsPacket, ContentOK
<1>3. ASSUME NEW src \in Address, NEW key PROVE Sent(Expected(i, src, key, "unknown", NoTask))
  <2>1. ContentOK(<<"unknown", NoTask>>)
    BY DEF ContentOK
  <2> QED BY <2>1
<1>4. ASSUME NEW n \in WellEncrypted(i) PROVE Sent(n)
  <2>1. CASE \E c \in ServerContents(i) : n = Expected(i, 0, ExpectedKey(i, 0), c[1], c[2])
    BY <2>1, ServerContentsOK DEF Address
  <2>2. CASE \E id \in (Present(responders[i]) \cup {chosen[i].id}) \ {0} :
               \E c \in PeerContents(i, id) : n = Expected(i, id, ExpectedKey(i, id), c[1], c[2])
    <3>1. Present(responders[i]) \subseteq ResponderIds /\ chosen[i].id \in {0} \cup ResponderIds
      BY DEF Present, IInv, PeerInv, ResponderObject
    <3> QED BY <2>2, <3>1, PeerContentsOK DEF Address
  <2> QED BY <2>1, <2>2 DEF WellEncrypted
<1> HIDE DEF Sent
<1>5. CASE m \in WellEncrypted(i) \cup Undecryptable(i)
  BY <1>2, <1>3, <1>4, <1>5 DEF Undecryptable
<1>6. CASE m \in Deviating(i)
  <2>1. \A k \in ForeignCookies : k \in Name
    BY DEF ForeignCookies, Name
  <2>2. CASE \E n : Sent(n) /\ \/ m = [n EXCEPT !.dst = 2]
                               \/ m = [n EXCEPT !.csn = @ - 1]
                               \/ \E k \in ForeignCookies : m = [n EXCEPT !.cookie = k]
    <3>1. PICK n : Sent(n) /\ \/ m = [n EXCEPT !.dst = 2]
                              \/ m = [n EXCEPT !.csn = @ - 1]
                              \/ \E k \in ForeignCookies : m = [n EXCEPT !.cookie = k]
      BY <2>2
    <3>2. /\ IsPacket([n EXCEPT !.dst = 2]) /\ IsPacket([n EXCEPT !.csn = @ - 1])
          /\ \A k \in ForeignCookies : IsPacket([n EXCEPT !.cookie = k])
      BY <1>2, <2>1, <3>1
    <3> QED BY <3>1, <3>2
  <2>3. CASE \E n \in WellEncrypted(i) : m = [n EXCEPT !.cookie = OurCookie(i, Peer(i, n.src))]
    <3>1. PICK n \in WellEncrypted(i) : m = [n EXCEPT !.cookie = OurCookie(i, Peer(i, n.src))]
      BY <2>3
    <3>2. \E src \in Address \ {1} : \E key, type, body : n = Expected(i, src, key, type, body)
      <4>1. Present(responders[i]) \subseteq ResponderIds /\ chosen[i].id \in {0} \cup ResponderIds
        BY DEF Present, IInv, PeerInv, ResponderObject
      <4> QED BY <3>1, <4>1, AddressAssumption DEF WellEncrypted, Address
    <3>3. n.src \in Address \ {1}
      BY <3>2 DEF Expected
    <3>4. OurCookie(i, Peer(i, n.src)) \in Name
      BY <3>3, NumberedPeer DEF OurCookie
    <3>5. \A k \in Name : IsPacket([n EXCEPT !.cookie = k])
      BY <1>2, <1>4
    <3> QED BY <3>1, <3>4, <3>5
  <2> QED BY <1>3, <1>4, <1>6, <2>2, <2>3 DEF Deviating
<1> QED BY <1>1, <1>5, <1>6 DEF Arrivals

LEMMA ArriveStep ==
  ASSUME IInv, NEW i \in Initiators, Arrive(i)
  PROVE  GoodStep(i)
<1>1. PICK m \in Arrivals(i) : inbox' = [inbox EXCEPT ![i] = <<m>>]
  BY DEF Arrive
<1>2. Waiting(<<m>>)
  BY ArrivalsArePackets DEF Waiting
<1>3. InboxInv'
  BY <1>1, <1>2, InboxFrame DEF IInv
<1>4. UNCHANGED <<conn, srv, handover, task, addr, responders, counter, chosen>>
  BY DEF Arrive, peerVars
<1>5. ConnInv' /\ ServerInv' /\ PeerInv' /\ Apart(i) /\ StaysDown(i)
  BY <1>4 DEF IInv, ConnInv, ServerInv, PeerInv, Apart, StaysDown
<1> QED BY <1>3, <1>5 DEF GoodStep, IInv

-----------------------------------------------------------------------------
LEMMA OnMessageStep ==
  ASSUME IInv, NEW i \in Initiators, InitiatorOnMessage(i)
  PROVE  GoodStep(i)
<1> DEFINE m == Head(inbox[i])
<1>1. Incoming(i, m)
  BY DEF InitiatorOnMessage, Incoming
<1> HIDE DEF m
<1>2. CASE AfterPeerHandover(i) /\ UNCHANGED peerVars
  BY <1>1, <1>2, AfterPeerHandoverStep
<1>3. CASE HandleServerHello(i, m) /\ UNCHANGED peerVars
  BY <1>1, <1>3, HandleServerHelloStep
<1>4. CASE ServerAuthUndecryptable(i, m) /\ UNCHANGED peerVars
  BY <1>1, <1>4, ServerAuthUndecryptableStep
<1>5. CASE HandleServerAuth(i, m)
  BY <1>1, <1>5, HandleServerAuthStep
<1>6. CASE HandleNewResponder(i, m)
  BY <1>1, <1>6, HandleNewResponderStep
<1>7. CASE HandleSendError(i, m)
  BY <1>1, <1>7, HandleSendErrorStep
<1>8. CASE HandleDisconnected(i, m)
  BY <1>1, <1>8, HandleDisconnectedStep
<1>9. CASE HandleToken(i, m)
  BY <1>1, <1>9, HandleTokenStep
<1>10. CASE HandleKey(i, m)
  BY <1>1, <1>10, HandleKeyStep
<1>11. CASE HandleAuth(i, m)
  BY <1>1, <1>11, HandleAuthStep
<1>12. CASE InvalidNonce(i, m) \/ InvalidServerMessage(i, m) \/ InvalidResponderMessage(i, m)
  BY <1>1, <1>12, InvalidStep
<1>13. CASE CouldNotDecrypt(i, m)
  BY <1>1, <1>13, CouldNotDecryptStep
<1>14. CASE AuthWithOurCookie(i, m)
  BY <1>1, <1>14, AuthWithOurCookieStep
<1>15. CASE KeyUndecryptable(i, m)
  BY <1>1, <1>15, KeyUndecryptableStep
<1>16. CASE IgnoreUnknown(i, m)
  BY <1>1, <1>16, IgnoreUnknownStep
<1>17. CASE ~handover[i].peer /\ HandlePeerMessage(i, m)
  BY <1>1, <1>17, HandlePeerMessageStep
<1>18. CASE PeerMessageUndecryptable(i, m)
  BY <1>1, <1>18, PeerMessageUndecryptableStep
<1> QED BY <1>2, <1>3, <1>4, <1>5, <1>6, <1>7, <1>8, <1>9, <1>10, <1>11, <1>12, <1>13,
           <1>14, <1>15, <1>16, <1>17, <1>18 DEF InitiatorOnMessage, m

LEMMA ActorStep ==
  ASSUME IInv, NEW i \in Initiators, Arrive(i) \/ InitiatorNext(i)
  PROVE  GoodStep(i)
<1>1. CASE Connect(i) /\ UNCHANGED peerVars
  BY <1>1, ConnectStep
<1>2. CASE \E unbind \in BOOLEAN : Disconnect(i, unbind) /\ UNCHANGED peerVars
  BY <1>2, DisconnectStep
<1>3. CASE OnOpen(i) /\ UNCHANGED inbox /\ UNCHANGED peerVars
  BY <1>3, OnOpenStep
<1>4. CASE (CloseEvent(i) \/ ServerCloses(i) \/ ConnectionLost(i)) /\ UNCHANGED peerVars
  BY <1>4, ClosedStep
<1>5. CASE InitiatorOnMessage(i)
  BY <1>5, OnMessageStep
<1>6. CASE InitiatorHandover(i) \/ InitiatorSends(i)
  BY <1>6, InitiatorHandoverStep, InitiatorSendsStep
<1>7. CASE Arrive(i)
  BY <1>7, ArriveStep
<1> QED BY <1>1, <1>2, <1>3, <1>4, <1>5, <1>6, <1>7 DEF InitiatorNext

LEMMA NextStep ==
  ASSUME IInv, Next
  PROVE  \E i \in Initiators : GoodStep(i)
BY ActorStep DEF Next

LEMMA InitIInv == Init => IInv
<1> SUFFICES ASSUME Init PROVE IInv
  OBVIOUS
<1> USE DEF Init, InitCommon, InitInitiator
<1>1. NoConn \in ConnRecord /\ Link(NoConn, NoHandover)
  BY DEF NoConn, ConnRecord, SignalingState, Socket, Link
<1>2. ConnInv
  BY <1>1, NoHandoverType DEF ConnInv
<1>3. ServerInv
  BY DEF ServerInv, NewServer, ServerObject, Cookie, Address
<1>4. InboxInv
  BY Clients DEF InboxInv, Waiting
<1>5. NoResponder \in ResponderObject /\ NoResponder.hs = "new"
  BY NoResponderType
<1>6. ASSUME NEW i \in Initiators
      PROVE  Responsible(i, conn[i], responders[i], chosen[i], task[i])
  BY <1>5, Clients DEF Responsible, NoConn
<1>7. PeerInv
  BY <1>5, <1>6 DEF PeerInv
<1> QED BY <1>2, <1>3, <1>4, <1>7 DEF IInv

LEMMA NextIInv == IInv /\ [Next]_vars => IInv'
<1> SUFFICES ASSUME IInv, [Next]_vars PROVE IInv'
  OBVIOUS
<1>1. CASE Next
  BY <1>1, NextStep DEF GoodStep
<1>2. CASE UNCHANGED vars
  BY <1>2 DEF vars, commonVars, peerVars, IInv, ConnInv, ServerInv, InboxInv, PeerInv
<1> QED BY <1>1, <1>2

-----------------------------------------------------------------------------
LEMMA Invariant == Spec => []IInv
<1>1. Init => IInv
  BY InitIInv
<1>2. IInv /\ [Next]_vars => IInv'
  BY NextIInv
<1> QED BY <1>1, <1>2, PTL DEF Spec

(* Every variable keeps its type, and no message is waiting while another  *)
(* one is dispatched: the counterpart of the types of the fields of        *)
(* Signaling and InitiatorSignaling.                                       *)
THEOREM TypeCorrect == Spec => []TypeOK
<1>1. IInv => TypeOK
  <2> SUFFICES ASSUME IInv PROVE TypeOK
    OBVIOUS
  <2>1. CommonTypeOK
    BY DEF CommonTypeOK, IInv, ConnInv, ServerInv, PeerInv, HandoverRecord
  <2> QED BY <2>1 DEF TypeOK, IInv, InboxInv, PeerInv, Waiting
<1> QED BY <1>1, Invariant, PTL

(* The signaling state and the socket agree, whatever the order of         *)
(* messages, resets, calls and close events (onOpen, onClose,              *)
(* closeWebsocket, resetConnection, disconnect).                           *)
THEOREM SocketsAgree == Spec => []SocketInv
<1>1. IInv => SocketInv
  BY DEF IInv, ConnInv, SocketInv, Link, Both
<1> QED BY <1>1, Invariant, PTL

(* In state `task` the initiator has exactly one responder, which has      *)
(* completed its own handshake (handleAuth), and before it has none.       *)
THEOREM OneChosen == Spec => []ChosenInv
<1>1. IInv => ChosenInv
  <2> SUFFICES ASSUME IInv, NEW i \in Initiators
               PROVE  /\ conn[i].state = "task" =>
                           /\ Present(responders[i]) = {}
                           /\ chosen[i].hs = "auth-sent"
                           /\ chosen[i].cookie \notin {NoCookie, OurCookie(i, chosen[i])}
                           /\ chosen[i].sess[1] = "session"
                           /\ <<i, chosen[i].n>> \in chosen[i].sess[2]
                           /\ task[i] # NoTask
                      /\ conn[i].state \in {"server-handshake", "peer-handshake"} =>
                           chosen[i] = NoResponder
    BY DEF ChosenInv
  <2>1. Responsible(i, conn[i], responders[i], chosen[i], task[i])
    BY Held
  <2> QED BY <2>1 DEF Responsible, Unchosen, OwnSession, OurCookie
<1> QED BY <1>1, Invariant, PTL

(* An instance that has lost or left its connection never handshakes       *)
(* again, whatever is still delivered or called (connect checks            *)
(* neverConnected).                                                        *)
THEOREM NeverAgain == Spec => NoSecondHandshake
<1>1. IInv /\ [Next]_vars => [\A i \in Initiators : StaysDown(i)]_vars
  <2> SUFFICES ASSUME IInv, Next, NEW j \in Initiators PROVE StaysDown(j)
    OBVIOUS
  <2>1. PICK i \in Initiators : GoodStep(i)
    BY NextStep
  <2>2. CASE j = i
    BY <2>1, <2>2 DEF GoodStep
  <2>3. CASE j # i
    <3>1. conn'[j] = conn[j]
      BY <2>1, <2>3, Clients DEF GoodStep, Apart
    <3> QED BY <3>1 DEF StaysDown
  <2> QED BY <2>2, <2>3
<1> QED BY <1>1, Invariant, PTL DEF Spec, NoSecondHandshake

-----------------------------------------------------------------------------
(* What a single step of an initiator does to its Responder objects and    *)
(* what it sends: objects are numbered by the counter, so that one of them *)
(* can be told from another that has its address later, and each advances  *)
(* only by messages it has not seen.                                       *)

(* An object knows its address.  No two have the same number, and the      *)
(* counter is not below any.  With somebody chosen there is no other left. *)
Numbered(rs, k) ==
  /\ \A id \in Present(rs) : rs[id].id = id /\ rs[id].n <= k
  /\ \A a, b \in Present(rs) : rs[a].n = rs[b].n => a = b

NumberInv ==
  \A i \in Initiators :
    /\ Numbered(responders[i], counter[i])
    /\ chosen[i].n # 0 => Present(responders[i]) = {}
    /\ chosen[i].hs = "auth-sent" => chosen[i].id \in ResponderIds

(* How one object, and the map with its counter, may change.               *)
Advances(old, new) ==
  new.in >= old.in /\ new.out >= old.out /\ (new.hs # old.hs => new.in > old.in)

Renumbered(old, k, new, l) ==
  /\ l >= k
  /\ \A id \in Present(new) : new[id].id = id
  /\ \A id \in Present(new) :
       \/ id \in Present(old) /\ new[id].n = old[id].n /\ Advances(old[id], new[id])
       \/ new[id].n > k /\ new[id].n <= l
  /\ \A a, b \in Present(new) : new[a].n > k /\ new[a].n = new[b].n => a = b

Chooses(old, ch) ==
  \E w \in Present(old) : ch.id = old[w].id /\ ch.n = old[w].n /\ Advances(old[w], ch)

Moves(i, rs, l, ch) ==
  /\ responders' = [responders EXCEPT ![i] = rs]
  /\ counter' = [counter EXCEPT ![i] = l] /\ l \in Nat
  /\ chosen' = [chosen EXCEPT ![i] = ch]
  /\ Renumbered(responders[i], counter[i], rs, l)
  /\ \/ ch = chosen[i] /\ (ch.n # 0 => Present(rs) \subseteq Present(responders[i]))
     \/ /\ Present(responders[i]) = {} /\ Present(rs) = {}
        /\ ch.id = chosen[i].id /\ ch.n = chosen[i].n /\ ch.hs = chosen[i].hs
        /\ ch.out >= chosen[i].out
     \/ Chooses(responders[i], ch) /\ Present(rs) = {}

StepMoves(i) == \E rs, l, ch : Moves(i, rs, l, ch)

LEMMA PresentObject ==
  ASSUME IInv, NEW i \in Initiators, NEW id \in Present(responders[i])
  PROVE  /\ id \in ResponderIds /\ responders[i][id] \in ResponderObject
         /\ responders[i][id].in \in Nat /\ responders[i][id].n \in Nat \ {0}
         /\ Advances(responders[i][id], responders[i][id])
<1>1. id \in ResponderIds /\ responders[i][id].n # 0
  BY DEF Present
<1>2. responders[i][id] \in ResponderObject
  BY <1>1, Held
<1>3. /\ responders[i][id].in \in Nat /\ responders[i][id].out \in Nat
      /\ responders[i][id].n \in Nat
  BY <1>2 DEF ResponderObject
<1> QED BY <1>1, <1>2, <1>3 DEF Advances

-----------------------------------------------------------------------------
(* Kinds of steps.                                                         *)

(* A map whose objects were there before, unchanged or advanced.           *)
LEMMA Inherited ==
  ASSUME IInv, NumberInv, NEW i \in Initiators, NEW rs, UNCHANGED <<counter, chosen>>,
         responders' = [responders EXCEPT ![i] = rs],
         \A id \in Present(rs) : /\ id \in Present(responders[i])
                                 /\ rs[id].id = responders[i][id].id
                                 /\ rs[id].n = responders[i][id].n
                                 /\ Advances(responders[i][id], rs[id])
  PROVE  StepMoves(i)
<1>1. /\ counter' = [counter EXCEPT ![i] = counter[i]] /\ counter[i] \in Nat
      /\ chosen' = [chosen EXCEPT ![i] = chosen[i]]
  BY DEF IInv, PeerInv
<1>2. \A id \in Present(rs) : rs[id].n \in Nat /\ rs[id].n <= counter[i] /\ rs[id].id = id
  BY PresentObject DEF NumberInv, Numbered
<1>3. Renumbered(responders[i], counter[i], rs, counter[i])
  BY <1>1, <1>2 DEF Renumbered
<1> QED BY <1>1, <1>3 DEF StepMoves, Moves

LEMMA NothingMoves ==
  ASSUME IInv, NumberInv, NEW i \in Initiators, UNCHANGED peerVars
  PROVE  StepMoves(i)
<1>1. responders' = [responders EXCEPT ![i] = responders[i]]
  BY Held DEF peerVars
<1> QED BY <1>1, PresentObject, Inherited DEF peerVars

LEMMA SomeGone ==
  ASSUME IInv, NumberInv, NEW i \in Initiators, NEW ids, UNCHANGED <<counter, chosen>>,
         responders' = [responders EXCEPT ![i] = Without(responders[i], ids)]
  PROVE  StepMoves(i)
<1> DEFINE rs == Without(responders[i], ids)
<1>1. \A id \in Present(rs) : id \in Present(responders[i]) /\ rs[id] = responders[i][id]
  <2>1. NoResponder.n = 0
    BY DEF NoResponder
  <2> QED BY <2>1 DEF Present, Without
<1> HIDE DEF rs
<1>2. \A id \in Present(rs) : Advances(responders[i][id], rs[id])
  BY <1>1, PresentObject
<1> QED BY <1>1, <1>2, Inherited DEF rs

LEMMA OneAdvances ==
  ASSUME IInv, NumberInv, NEW i \in Initiators, NEW id \in Present(responders[i]), NEW peer,
         UNCHANGED <<counter, chosen>>, responders' = [responders EXCEPT ![i][id] = peer],
         peer.id = id, peer.n = responders[i][id].n, Advances(responders[i][id], peer)
  PROVE  StepMoves(i)
<1> DEFINE rs == [responders[i] EXCEPT ![id] = peer]
<1>1. responders' = [responders EXCEPT ![i] = rs]
  OBVIOUS
<1>2. \A o \in Present(rs) : /\ o \in Present(responders[i])
                             /\ rs[o] = IF o = id THEN peer ELSE responders[i][o]
  BY Held, PresentObject DEF Present
<1> HIDE DEF rs
<1>3. \A o \in Present(rs) : /\ rs[o].n = responders[i][o].n
                             /\ rs[o].id = responders[i][o].id
                             /\ Advances(responders[i][o], rs[o])
  BY <1>2, PresentObject DEF NumberInv, Numbered
<1> QED BY <1>1, <1>2, <1>3, Inherited

(* In state `task` only the chosen one changes.                            *)
LEMMA ChosenMoves ==
  ASSUME IInv, NEW i \in Initiators, conn[i].state = "task", UNCHANGED <<responders, counter>>,
         NEW ch, chosen' = [chosen EXCEPT ![i] = ch],
         ch.id = chosen[i].id, ch.n = chosen[i].n, ch.hs = chosen[i].hs,
         ch.out >= chosen[i].out
  PROVE  StepMoves(i)
<1>1. /\ responders' = [responders EXCEPT ![i] = responders[i]]
      /\ counter' = [counter EXCEPT ![i] = counter[i]] /\ counter[i] \in Nat
      /\ Present(responders[i]) = {}
  BY Held DEF IInv, PeerInv
<1>2. Renumbered(responders[i], counter[i], responders[i], counter[i])
  BY <1>1 DEF Renumbered
<1> QED BY <1>1, <1>2 DEF StepMoves, Moves

-----------------------------------------------------------------------------
(* A message of a responder has a higher number than all before.           *)
LEMMA SavedAdvances ==
  ASSUME IInv, NEW i \in Initiators, NEW m, Incoming(i, m), NEW hs, FromResponder(i, m, hs)
  PROVE  /\ m.src \in Present(responders[i])
         /\ Saved(i, m) \in ResponderObject /\ Saved(i, m).n = responders[i][m.src].n
         /\ Saved(i, m).id = responders[i][m.src].id
         /\ Saved(i, m).out = responders[i][m.src].out /\ Saved(i, m).out \in Nat
         /\ \A peer : peer.in = Saved(i, m).in /\ peer.out >= Saved(i, m).out =>
              Advances(responders[i][m.src], peer)
<1>1. m.src \in Present(responders[i]) /\ m.csn > responders[i][m.src].in
  BY DEF FromResponder, NonceAccepted, CsnAccepted
<1>2. m.csn \in Nat
  BY Received DEF IsPacket
<1>3. responders[i][m.src] \in ResponderObject /\ responders[i][m.src].in \in Nat
  BY <1>1, PresentObject
<1>4. /\ Saved(i, m).in = m.csn /\ Saved(i, m).id = responders[i][m.src].id
      /\ Saved(i, m).out = responders[i][m.src].out /\ Saved(i, m).out \in Nat
  BY <1>3 DEF Saved, ResponderObject
<1>5. \A peer : peer.in = Saved(i, m).in /\ peer.out >= Saved(i, m).out =>
               Advances(responders[i][m.src], peer)
  BY <1>1, <1>2, <1>3, <1>4 DEF Advances
<1> QED BY <1>1, <1>4, <1>5, FromResponderFacts

LEMMA ResponderMessageMoves ==
  ASSUME IInv, NumberInv, NEW i \in Initiators, NEW m, Incoming(i, m),
         HandleToken(i, m) \/ HandleKey(i, m) \/ KeyUndecryptable(i, m)
  PROVE  StepMoves(i)
<1> DEFINE saved == Saved(i, m)
<1>1. /\ m.src \in Present(responders[i])
      /\ saved \in ResponderObject /\ saved.n = responders[i][m.src].n
      /\ saved.id = responders[i][m.src].id
      /\ saved.out \in Nat
      /\ \A peer : peer.in = saved.in /\ peer.out >= saved.out =>
           Advances(responders[i][m.src], peer)
  BY SavedAdvances DEF HandleToken, HandleKey, KeyUndecryptable
<1>2. \E peer : /\ peer.id = saved.id /\ peer.n = saved.n /\ peer.in = saved.in
                /\ peer.out >= saved.out
                /\ responders' = [responders EXCEPT ![i][m.src] = peer]
  <2>1. CASE HandleToken(i, m)
    <3> DEFINE peer == [saved EXCEPT !.hs = "token-received", !.perm = PermanentKey(m.body)]
    <3>1. /\ peer.id = saved.id /\ peer.n = saved.n /\ peer.in = saved.in
          /\ peer.out >= saved.out
      BY <1>1 DEF ResponderObject
    <3>2. responders' = [responders EXCEPT ![i][m.src] = peer]
      BY <2>1 DEF HandleToken
    <3> HIDE DEF peer
    <3> QED BY <3>1, <3>2
  <2>2. CASE HandleKey(i, m)
    <3> DEFINE peer == [saved EXCEPT !.hs = "key-sent", !.out = @ + 1,
                                     !.sess = SessionKey(<<i, saved.n>>, m.body)]
    <3>1. /\ peer.id = saved.id /\ peer.n = saved.n /\ peer.in = saved.in
          /\ peer.out >= saved.out
      BY <1>1 DEF ResponderObject
    <3>2. responders' = [responders EXCEPT ![i][m.src] = peer]
      BY <2>2 DEF HandleKey
    <3> HIDE DEF peer
    <3> QED BY <3>1, <3>2
  <2>3. CASE KeyUndecryptable(i, m)
    <3>1. responders' = [responders EXCEPT ![i][m.src] = saved] /\ saved.out >= saved.out
      BY <1>1, <2>3 DEF KeyUndecryptable
    <3> HIDE DEF saved
    <3> QED BY <3>1
  <2> QED BY <2>1, <2>2, <2>3
<1>3. UNCHANGED <<counter, chosen>>
  BY DEF HandleToken, HandleKey, KeyUndecryptable
<1> HIDE DEF saved
<1>4. PICK peer : /\ peer.id = saved.id /\ peer.n = saved.n /\ peer.in = saved.in
                  /\ peer.out >= saved.out
                  /\ responders' = [responders EXCEPT ![i][m.src] = peer]
  BY <1>2
<1>5. responders[i][m.src].id = m.src
  BY <1>1 DEF NumberInv, Numbered
<1> QED BY <1>1, <1>3, <1>4, <1>5, OneAdvances

(* A new object takes the next number, and the place of the one that had   *)
(* its address.                                                            *)
LEMMA ProcessNewResponderMoves ==
  ASSUME IInv, NumberInv, NEW i \in Initiators, conn[i].state = "peer-handshake",
         NEW id \in ResponderIds, NEW s, ProcessNewResponder(i, s, id), chosen' = chosen
  PROVE  StepMoves(i)
<1> DEFINE k == counter[i]
           new == NewResponder(i, id, k + 1)
           added == [responders[i] EXCEPT ![id] = new]
           rs == Without(added, Evicted(added))
<1>1. /\ responders[i] \in [ResponderIds -> ResponderObject] /\ k \in Nat
      /\ chosen[i] = NoResponder /\ NoResponder.n = 0
  <2>1. chosen[i] = NoResponder
    BY Held DEF Responsible, Unchosen
  <2> QED BY <2>1, Held DEF NoResponder
<1>2. /\ responders' = [responders EXCEPT ![i] = rs]
      /\ counter' = [counter EXCEPT ![i] = k + 1] /\ chosen' = [chosen EXCEPT ![i] = chosen[i]]
  BY <1>1 DEF ProcessNewResponder, IInv, PeerInv
<1>3. new.n = k + 1 /\ new.id = id
  BY <1>1 DEF NewResponder, NoResponder
<1> HIDE DEF new, k
<1>4. \A o \in Present(rs) : rs[o] = IF o = id THEN new ELSE responders[i][o]
  BY <1>1 DEF Present, Without
<1>5. \A o \in Present(rs) : o # id => o \in Present(responders[i])
  BY <1>1, <1>4 DEF Present
<1> HIDE DEF rs, added
<1>6. \A o \in Present(rs) : o # id => /\ rs[o] = responders[i][o] /\ rs[o].n <= k
                                       /\ rs[o].id = o
                                       /\ rs[o].n \in Nat
                                       /\ Advances(responders[i][o], rs[o])
  BY <1>4, <1>5, PresentObject DEF NumberInv, Numbered, k
<1>7. \A o \in Present(rs) : o = id => rs[o].n = k + 1 /\ rs[o].id = o
  BY <1>3, <1>4
<1>8. Renumbered(responders[i], k, rs, k + 1)
  BY <1>1, <1>5, <1>6, <1>7 DEF Renumbered
<1>9. k + 1 \in Nat /\ chosen[i].n = 0 /\ k = counter[i]
  BY <1>1 DEF k
<1> HIDE DEF k
<1>10. Moves(i, rs, k + 1, chosen[i])
  BY <1>2, <1>8, <1>9 DEF Moves
<1> QED BY <1>10 DEF StepMoves

(* The responders of the list are numbered in its order.                   *)
LEMMA HandleServerAuthMoves ==
  ASSUME IInv, NumberInv, NEW i \in Initiators, NEW m, Incoming(i, m), HandleServerAuth(i, m)
  PROVE  StepMoves(i)
<1> DEFINE ids == m.body.responders
           surplus == IF Trusts(i) \/ Len(ids) <= Limit THEN 0 ELSE Len(ids) - Limit
           kept == {k \in 1 .. Len(ids) : k > surplus}
           entry(id) == CHOOSE k \in kept : ids[k] = id
           rs == [id \in ResponderIds |->
                    IF \E k \in kept : ids[k] = id
                    THEN NewResponder(i, id, counter[i] + entry(id)) ELSE NoResponder]
<1>1. /\ responders' = [responders EXCEPT ![i] = rs]
      /\ counter' = [counter EXCEPT ![i] = counter[i] + Len(ids)]
      /\ chosen' = chosen /\ conn[i].state = "server-handshake"
  BY DEF HandleServerAuth, ServerAuthDone, ServerHandshake
<1>2. Len(ids) \in Nat
  <2>1. m.type = "server-auth"
    BY DEF HandleServerAuth, ServerAuthDone, AuthExpected
  <2>2. ids \in Seq(ResponderIds)
    BY <2>1, Received DEF IsPacket
  <2> QED BY <2>2
<1>3. kept \subseteq 1 .. Len(ids)
  OBVIOUS
<1>4. counter[i] \in Nat /\ chosen[i] = NoResponder /\ NoResponder.n = 0
  <2>1. chosen[i] = NoResponder
    BY <1>1, Held DEF Responsible, Unchosen
  <2> QED BY <2>1, Held DEF NoResponder
<1> HIDE DEF kept
<1>5. \A id \in Present(rs) : /\ entry(id) \in kept /\ ids[entry(id)] = id
                              /\ rs[id] = NewResponder(i, id, counter[i] + entry(id))
  BY <1>4 DEF Present
<1> HIDE DEF rs, entry
<1>6. ASSUME NEW id \in Present(rs) PROVE rs[id].n = counter[i] + entry(id) /\ rs[id].id = id
  <2>1. \A n : NewResponder(i, id, n).n = n /\ NewResponder(i, id, n).id = id
    BY DEF NewResponder, NoResponder
  <2> QED BY <1>5, <2>1
<1>7. ASSUME NEW id \in Present(rs)
      PROVE  entry(id) \in Nat /\ entry(id) > 0 /\ entry(id) <= Len(ids)
  <2>1. entry(id) \in 1 .. Len(ids)
    BY <1>3, <1>5
  <2> QED BY <1>2, <2>1
<1>8. Renumbered(responders[i], counter[i], rs, counter[i] + Len(ids))
  <2>1. ASSUME NEW a \in Present(rs), NEW b \in Present(rs), rs[a].n = rs[b].n PROVE a = b
    <3>1. entry(a) = entry(b)
      BY <1>4, <1>6, <1>7, <2>1
    <3> QED BY <1>5, <3>1
  <2>2. \A id \in Present(rs) : rs[id].n > counter[i] /\ rs[id].n <= counter[i] + Len(ids)
    BY <1>2, <1>4, <1>6, <1>7
  <2> QED BY <1>2, <1>4, <1>6, <2>1, <2>2 DEF Renumbered
<1>9. chosen' = [chosen EXCEPT ![i] = chosen[i]] /\ counter[i] + Len(ids) \in Nat
  BY <1>1, <1>2, <1>4 DEF IInv, PeerInv
<1> QED BY <1>1, <1>4, <1>8, <1>9 DEF StepMoves, Moves

(* The chosen one leaves the map with what it was, advanced by its auth.   *)
LEMMA HandleAuthMoves ==
  ASSUME IInv, NumberInv, NEW i \in Initiators, NEW m, Incoming(i, m), HandleAuth(i, m)
  PROVE  StepMoves(i)
<1> DEFINE saved == Saved(i, m)
           ch == [saved EXCEPT !.cookie = m.cookie, !.hs = "auth-sent", !.out = @ + 1]
           rs == Without(responders[i], ResponderIds)
<1>1. /\ m.src \in Present(responders[i])
      /\ saved \in ResponderObject /\ saved.n = responders[i][m.src].n
      /\ saved.id = responders[i][m.src].id
      /\ saved.out \in Nat
      /\ \A peer : peer.in = saved.in /\ peer.out >= saved.out =>
           Advances(responders[i][m.src], peer)
  BY SavedAdvances DEF HandleAuth, AuthDecrypted
<1>2. /\ chosen' = [chosen EXCEPT ![i] = ch]
      /\ responders' = [responders EXCEPT ![i] = rs]
      /\ counter' = [counter EXCEPT ![i] = counter[i]] /\ counter[i] \in Nat
  BY DEF HandleAuth, IInv, PeerInv
<1>3. ch.id = saved.id /\ ch.n = saved.n /\ ch.in = saved.in /\ ch.out >= saved.out
  BY <1>1 DEF ResponderObject
<1> HIDE DEF ch, saved
<1>4. Present(rs) = {}
  <2>1. NoResponder.n = 0
    BY DEF NoResponder
  <2> QED BY <2>1 DEF Present, Without
<1> HIDE DEF rs
<1>5. Chooses(responders[i], ch)
  BY <1>1, <1>3 DEF Chooses
<1>6. Renumbered(responders[i], counter[i], rs, counter[i])
  BY <1>2, <1>4 DEF Renumbered
<1> QED BY <1>2, <1>4, <1>5, <1>6 DEF StepMoves, Moves

LEMMA DropSourceMoves ==
  ASSUME IInv, NumberInv, NEW i \in Initiators, NEW m, NEW reason, DropSource(i, m, reason)
  PROVE  StepMoves(i)
BY SomeGone DEF DropSource

LEMMA SignalingErrorMoves ==
  ASSUME IInv, NumberInv, NEW i \in Initiators, NEW m, NEW code, OnSignalingError(i, m, code)
  PROVE  StepMoves(i)
<1>1. CASE CloseWithError(i, code)
  <2>1. conn[i].state = "task" /\ UNCHANGED <<responders, counter>>
    BY <1>1 DEF CloseWithError
  <2> QED BY <1>1, <2>1, ErrorCounted, ChosenMoves
<1> QED BY <1>1, DropSourceMoves, NothingMoves DEF OnSignalingError

LEMMA ServerNoticeMoves ==
  ASSUME IInv, NumberInv, NEW i \in Initiators, NEW m,
         HandleNewResponder(i, m) \/ HandleSendError(i, m)
  PROVE  StepMoves(i)
<1>1. CASE /\ FromServer(i, m, "peer-handshake", "new-responder") /\ m.body \in ResponderIds
           /\ ProcessNewResponder(i, Heard(i, m), m.body) /\ chosen' = chosen
  <2>1. conn[i].state = "peer-handshake"
    BY <1>1 DEF FromServer, ServerMessage
  <2> QED BY <1>1, <2>1, ProcessNewResponderMoves
<1>2. CASE UNCHANGED <<counter, chosen>>
           /\ \E ids : responders' = [responders EXCEPT ![i] = Without(@, ids)]
  BY <1>2, SomeGone
<1>3. CASE UNCHANGED peerVars
  BY <1>3, NothingMoves
<1> QED BY <1>1, <1>2, <1>3 DEF HandleNewResponder, HandleSendError

LEMMA ActorMoves ==
  ASSUME IInv, NumberInv, NEW i \in Initiators, Arrive(i) \/ InitiatorNext(i)
  PROVE  StepMoves(i)
<1>1. CASE UNCHANGED peerVars
  BY <1>1, NothingMoves
<1>2. CASE InitiatorOnMessage(i)
  <2> DEFINE m == Head(inbox[i])
  <2>1. Incoming(i, m)
    BY <1>2 DEF InitiatorOnMessage, Incoming
  <2> HIDE DEF m
  <2>2. CASE HandleServerAuth(i, m)
    BY <2>1, <2>2, HandleServerAuthMoves
  <2>3. CASE HandleNewResponder(i, m) \/ HandleSendError(i, m)
    BY <2>3, ServerNoticeMoves
  <2>4. CASE HandleToken(i, m) \/ HandleKey(i, m) \/ KeyUndecryptable(i, m)
    BY <2>1, <2>4, ResponderMessageMoves
  <2>5. CASE HandleAuth(i, m)
    BY <2>1, <2>5, HandleAuthMoves
  <2>6. CASE InvalidNonce(i, m) \/ InvalidServerMessage(i, m) \/ InvalidResponderMessage(i, m)
    BY <2>6, SignalingErrorMoves DEF InvalidNonce, InvalidServerMessage, InvalidResponderMessage
  <2>7. CASE CouldNotDecrypt(i, m) \/ AuthWithOurCookie(i, m)
    BY <2>7, DropSourceMoves DEF CouldNotDecrypt, AuthWithOurCookie
  <2>8. CASE /\ FromChosen(i, m) /\ StoreChosenCsn(i, m) /\ UNCHANGED <<responders, counter>>
    <3> DEFINE ch == [chosen[i] EXCEPT !.in = m.csn]
    <3>1. conn[i].state = "task" /\ chosen' = [chosen EXCEPT ![i] = ch]
      BY <2>8 DEF FromChosen, StoreChosenCsn
    <3>2. ch.id = chosen[i].id /\ ch.n = chosen[i].n /\ ch.hs = chosen[i].hs
          /\ ch.out >= chosen[i].out
      BY DEF IInv, PeerInv, ResponderObject
    <3> HIDE DEF ch
    <3> QED BY <2>8, <3>1, <3>2, ChosenMoves
  <2> QED BY <1>1, <1>2, <2>2, <2>3, <2>4, <2>5, <2>6, <2>7, <2>8
          DEF InitiatorOnMessage, m, HandleDisconnected, IgnoreUnknown,
              HandlePeerMessage, PeerMessageUndecryptable
<1>3. CASE InitiatorHandover(i) \/ InitiatorSends(i)
  <2> DEFINE ch == [chosen[i] EXCEPT !.out = @ + 1]
  <2>1. /\ conn[i].state = "task" /\ UNCHANGED <<responders, counter>>
        /\ chosen' = [chosen EXCEPT ![i] = ch]
    BY <1>3 DEF InitiatorHandover, InitiatorSends, LocalHandover, SendApplication
  <2>2. ch.id = chosen[i].id /\ ch.n = chosen[i].n /\ ch.hs = chosen[i].hs
        /\ ch.out >= chosen[i].out
    BY DEF IInv, PeerInv, ResponderObject
  <2> HIDE DEF ch
  <2> QED BY <2>1, <2>2, ChosenMoves
<1> QED BY <1>1, <1>2, <1>3 DEF InitiatorNext, Arrive

LEMMA NextMoves ==
  ASSUME IInv, NumberInv, Next
  PROVE  \E i \in Initiators : StepMoves(i)
BY ActorMoves DEF Next

-----------------------------------------------------------------------------
(* The next number of one initiator is no concern of another.              *)
LEMMA OthersStay ==
  ASSUME IInv, NEW i \in Initiators, NEW rs, NEW l, NEW ch, Moves(i, rs, l, ch)
  PROVE  /\ responders'[i] = rs /\ counter'[i] = l /\ chosen'[i] = ch
         /\ \A j \in Initiators \ {i} : /\ responders'[j] = responders[j]
                                        /\ counter'[j] = counter[j] /\ chosen'[j] = chosen[j]
BY DEF IInv, PeerInv, Moves

LEMMA NumberStep ==
  ASSUME IInv, NumberInv, Next
  PROVE  NumberInv'
<1>1. PICK i \in Initiators : StepMoves(i)
  BY NextMoves
<1>2. PICK rs, l, ch : Moves(i, rs, l, ch)
  BY <1>1 DEF StepMoves
<1> DEFINE old == responders[i]
           k == counter[i]
<1>3. k \in Nat /\ l \in Nat /\ Renumbered(old, k, rs, l)
  BY <1>2, Held DEF Moves
<1>4. \A id \in Present(old) : old[id].n \in Nat /\ old[id].n <= k
  BY PresentObject DEF NumberInv, Numbered
<1>5. \A a, b \in Present(old) : old[a].n = old[b].n => a = b
  BY DEF NumberInv, Numbered
<1>6. chosen[i].n # 0 => Present(old) = {}
  BY DEF NumberInv
<1> HIDE DEF old, k
<1>7. Numbered(rs, l)
  BY <1>3, <1>4, <1>5 DEF Numbered, Renumbered
<1>8. ch.n # 0 => Present(rs) = {}
  BY <1>2, <1>6 DEF Moves, old
<1>9. ch.hs = "auth-sent" => ch.id \in ResponderIds
  <2>1. Chooses(old, ch) => ch.id \in ResponderIds
    BY PresentObject DEF Chooses, old, NumberInv, Numbered
  <2> QED BY <1>2, <2>1 DEF Moves, NumberInv, old
<1>10. ASSUME NEW j \in Initiators
       PROVE  /\ Numbered(responders'[j], counter'[j])
              /\ chosen'[j].n # 0 => Present(responders'[j]) = {}
              /\ chosen'[j].hs = "auth-sent" => chosen'[j].id \in ResponderIds
  BY <1>2, <1>7, <1>8, <1>9, OthersStay DEF NumberInv
<1> QED BY <1>10 DEF NumberInv

LEMMA NumberInvariant == Spec => []NumberInv
<1>1. Init => NumberInv
  BY DEF Init, InitInitiator, NumberInv, Numbered, Present, NoResponder
<1>2. IInv /\ NumberInv /\ [Next]_vars => NumberInv'
  <2>1. ASSUME IInv, NumberInv, UNCHANGED vars PROVE NumberInv'
    BY <2>1 DEF vars, peerVars, NumberInv
  <2> QED BY <2>1, NumberStep
<1> QED BY <1>1, <1>2, Invariant, PTL DEF Spec

(* No message of a responder is handled twice: whoever is at an address,   *)
(* its handshake advances only with a higher CSN than everything accepted  *)
(* from this object before (validateNonceCsn), into the chosen one, too.   *)
THEOREM NothingTwice == Spec => FreshCsnPerStep
<1>1. IInv /\ NumberInv /\ [Next]_vars =>
        [\A i \in Initiators : \A id \in Present(responders[i]) :
           LET old == responders[i][id]
               new == IF chosen'[i].n = old.n THEN chosen'[i] ELSE responders'[i][id]
           IN new.n = old.n => new.in >= old.in /\ (new.hs # old.hs => new.in > old.in)]_vars
  <2> SUFFICES ASSUME IInv, NumberInv, Next,
                      NEW j \in Initiators, NEW id \in Present(responders[j]),
                      NEW new, new.n = responders[j][id].n,
                      new = IF chosen'[j].n = responders[j][id].n THEN chosen'[j]
                            ELSE responders'[j][id]
               PROVE  Advances(responders[j][id], new)
    BY DEF Advances
  <2>1. PICK i \in Initiators : StepMoves(i)
    BY NextMoves
  <2>2. PICK rs, l, ch : Moves(i, rs, l, ch)
    BY <2>1 DEF StepMoves
  <2>3. /\ id \in ResponderIds /\ responders[j][id].n \in Nat \ {0}
        /\ responders[j][id].n <= counter[j] /\ counter[j] \in Nat
        /\ chosen[j].n = 0 /\ Advances(responders[j][id], responders[j][id])
    BY PresentObject, Held DEF NumberInv, Numbered
  <2>4. CASE j # i
    <3>1. responders'[j] = responders[j] /\ chosen'[j] = chosen[j]
      BY <2>2, <2>4, OthersStay
    <3> QED BY <2>3, <3>1
  <2>5. CASE j = i
    <3>1. responders'[j] = rs /\ chosen'[j] = ch
      BY <2>2, <2>5, OthersStay
    <3>2. CASE ch = chosen[i]  \* nobody is chosen yet
      <4>1. new = rs[id] /\ id \in Present(rs)
        BY <2>3, <2>5, <3>1, <3>2 DEF Present
      <4> QED BY <2>2, <2>3, <2>5, <4>1 DEF Moves, Renumbered
    <3>3. CASE Chooses(responders[i], ch) /\ Present(rs) = {}
      <4>1. PICK w \in Present(responders[i]) :
              ch.n = responders[i][w].n /\ Advances(responders[i][w], ch)
        BY <3>3 DEF Chooses
      <4>2. CASE ch.n = responders[i][id].n
        <5>1. Numbered(responders[i], counter[i])
          BY DEF NumberInv
        <5>2. w = id
          BY <2>5, <4>1, <4>2, <5>1 DEF Numbered
        <5> QED BY <2>5, <3>1, <4>1, <4>2, <5>2
      <4>3. CASE ch.n # responders[i][id].n
        BY <2>3, <2>5, <3>1, <3>3, <4>3 DEF Present
      <4> QED BY <4>2, <4>3
    <3> QED BY <2>2, <2>5, <3>2, <3>3 DEF Moves
  <2> QED BY <2>4, <2>5
<1> QED BY <1>1, Invariant, NumberInvariant, PTL DEF Spec, FreshCsnPerStep

-----------------------------------------------------------------------------
(* What a single step of an initiator sends, for any messages, addresses   *)
(* and limit: no number is used twice, every responder that leaves the map *)
(* is accounted for, and the task that is announced was offered.           *)


(* The properties, of the packets P that initiator i sends: how they are   *)
(* numbered, and that the counters have moved to or past these numbers.    *)
LastCsn(i, p) == Peer(i, p.dst).out

Fresh(i, P) ==
  \A p, q \in P : /\ p.type # "ws-close" => /\ p.csn > LastCsn(i, p)
                                          /\ p.cookie = OurCookie(i, Peer(i, p.dst))
                  /\ p # q => <<p.dst, p.csn>> # <<q.dst, q.csn>>

Counted(i, P) ==
  \A p \in P : p.type # "ws-close" => /\ PeerAfter(i, p.dst).n = Peer(i, p.dst).n
                                      /\ p.csn <= PeerAfter(i, p.dst).out

Announces(i, P) ==
  \A p \in P : p.type = "auth" => /\ p.body.task = task'[i]
                                  /\ task'[i] \in Head(inbox[i]).body.tasks

Accounts(i, P) ==
  \A id \in Present(responders[i]) :
    responders'[i][id].n # responders[i][id].n =>
      \/ chosen'[i].id = id /\ chosen'[i].n = responders[i][id].n
      \/ \E p \in P : p.type = "drop-responder" /\ p.body.id = id
      \/ Head(inbox[i]).type = "send-error" /\ Head(inbox[i]).body.dst = id
      \/ Head(inbox[i]).type = "new-responder" /\ Head(inbox[i]).body = id

Good(i, P) == Fresh(i, P) /\ Counted(i, P) /\ Announces(i, P) /\ Accounts(i, P)

StepSends(i) == \E q : Appends(i, q) /\ Good(i, Elements(q))

-----------------------------------------------------------------------------
(* Numbers.                                                                *)

LEMMA FreshUnion ==
  ASSUME NEW i, NEW P, NEW Q, Fresh(i, P), Fresh(i, Q),
         \A p \in P : \A q \in Q : p.dst # q.dst
  PROVE  Fresh(i, P \cup Q)
<1> SUFFICES ASSUME NEW p \in P \cup Q, NEW q \in P \cup Q
             PROVE  /\ p.type # "ws-close" => /\ p.csn > LastCsn(i, p)
                                             /\ p.cookie = OurCookie(i, Peer(i, p.dst))
                    /\ p # q => <<p.dst, p.csn>> # <<q.dst, q.csn>>
  BY DEF Fresh
<1>1. p.type # "ws-close" => /\ p.csn > LastCsn(i, p)
                             /\ p.cookie = OurCookie(i, Peer(i, p.dst))
  BY DEF Fresh
<1>2. ASSUME p # q PROVE p.dst # q.dst \/ p.csn # q.csn
  BY <1>2 DEF Fresh
<1> QED BY <1>1, <1>2

LEMMA FreshOne ==
  ASSUME NEW i, NEW p,
         p.type # "ws-close" => /\ p.csn > LastCsn(i, p)
                                /\ p.cookie = OurCookie(i, Peer(i, p.dst))
  PROVE  Fresh(i, {p})
BY DEF Fresh

LEMMA HangupFresh ==
  ASSUME NEW i, NEW cn, NEW code
  PROVE  Fresh(i, Elements(Hangup(cn, code))) /\ Counted(i, Elements(Hangup(cn, code)))
BY HangupFrame DEF Fresh, Counted

(* A packet to the object it is built from.                                *)
LEMMA PacketFresh ==
  ASSUME NEW i, NEW peer, peer.out \in Nat, NEW dst, NEW key, NEW type, NEW body,
         peer.out = Peer(i, dst).out, peer.n = Peer(i, dst).n
  PROVE  LET p == BuildPacket(i, peer, dst, key, type, body)
         IN /\ Fresh(i, {p}) /\ p.type = type /\ p.dst = dst /\ p.body = body
            /\ p.csn = peer.out + 1
<1> DEFINE p == BuildPacket(i, peer, dst, key, type, body)
<1>1. /\ p.type = type /\ p.dst = dst /\ p.body = body /\ p.csn = peer.out + 1
      /\ p.cookie = <<i, peer.n>>
  BY DEF BuildPacket, OurCookie
<1> HIDE DEF p
<1>2. p.cookie = OurCookie(i, Peer(i, p.dst))
  BY <1>1 DEF OurCookie
<1>3. Fresh(i, {p})
  BY <1>1, <1>2, FreshOne DEF LastCsn
<1> QED BY <1>1, <1>3 DEF p

(* The requests are numbered on from what the server was sent last, and    *)
(* name the responders in the order of the list.                           *)
Requested(i, s, ids, drops) ==
  /\ IsSeq(drops) /\ Fresh(i, Elements(drops))
  /\ \A p \in Elements(drops) : /\ p.dst = 0 /\ p.type = "drop-responder"
                                /\ p.csn <= s.out + Len(ids)
  /\ \A id \in Elements(ids) : \E p \in Elements(drops) :
       p.type = "drop-responder" /\ p.body.id = id

LEMMA DropsFacts ==
  ASSUME NEW i, NEW s, s.n = srv[i].n, s.out = srv[i].out, s.out \in Nat,
         NEW ids, IsSeq(ids), NEW reason,
         NEW drops, drops = DropRequests(i, s, ids, reason)
  PROVE  Requested(i, s, ids, drops)
<1> DEFINE n == Len(ids)
           drop(k) == [BuildPacket(i, s, 0, ServerKey(i), "drop-responder",
                                   [id |-> ids[k], reason |-> reason])
                         EXCEPT !.src = 1, !.csn = s.out + k]
<1>1. n \in Nat
  BY DEF IsSeq
<1>2. \A k : /\ drop(k).dst = 0 /\ drop(k).type = "drop-responder"
             /\ drop(k).csn = s.out + k /\ drop(k).body.id = ids[k]
             /\ drop(k).cookie = <<i, srv[i].n>>
  BY DEF BuildPacket, OurCookie
<1>3. drops = [k \in 1 .. n |-> drop(k)]
  BY DEF DropRequests
<1> HIDE DEF drop
<1>4. IsSeq(drops) /\ Len(drops) = n
  <2> DEFINE D == {drop(k) : k \in 1 .. n}
  <2>1. drops \in [1 .. n -> D]
    BY <1>3
  <2> HIDE DEF D, n
  <2>2. drops \in Seq(D) /\ Len(drops) = n
    BY <1>1, <2>1
  <2> QED BY <2>2 DEF IsSeq
<1>5. Elements(drops) = {drop(k) : k \in 1 .. n}
  BY <1>3, <1>4 DEF Elements
<1>6. Fresh(i, Elements(drops))
  <2> SUFFICES ASSUME NEW j \in 1 .. n, NEW k \in 1 .. n
               PROVE  /\ drop(j).csn > LastCsn(i, drop(j))
                      /\ drop(j).cookie = OurCookie(i, Peer(i, drop(j).dst))
                      /\ drop(j) # drop(k) => <<drop(j).dst, drop(j).csn>> # <<drop(k).dst, drop(k).csn>>
    BY <1>5 DEF Fresh
  <2>1. /\ drop(j).csn > LastCsn(i, drop(j))
        /\ drop(j).cookie = OurCookie(i, Peer(i, drop(j).dst))
    BY <1>1, <1>2 DEF LastCsn, Peer, OurCookie
  <2>2. j # k => drop(j).csn # drop(k).csn
    BY <1>1, <1>2
  <2> QED BY <2>1, <2>2
<1>7. \A id \in Elements(ids) : \E p \in Elements(drops) :
         p.type = "drop-responder" /\ p.body.id = id
  <2> SUFFICES ASSUME NEW id \in Elements(ids)
               PROVE  \E p \in Elements(drops) : p.type = "drop-responder" /\ p.body.id = id
    OBVIOUS
  <2>1. PICK k \in 1 .. n : ids[k] = id
    BY DEF Elements
  <2>2. drop(k) \in Elements(drops) /\ drop(k).type = "drop-responder" /\ drop(k).body.id = id
    BY <1>2, <1>5, <2>1
  <2> QED BY <2>2
<1>8. \A p \in Elements(drops) : /\ p.dst = 0 /\ p.type = "drop-responder"
                                 /\ p.csn <= s.out + n
  BY <1>1, <1>2, <1>5
<1> QED BY <1>4, <1>6, <1>7, <1>8 DEF Requested

-----------------------------------------------------------------------------
(* The order of the map exists: responders have different numbers.         *)
LEMMA OrderExists ==
  ASSUME NEW ids \in SUBSET ResponderIds, NEW rs,
         \A id \in ids : rs[id].n \in Nat, \A a, b \in ids : rs[a].n = rs[b].n => a = b
  PROVE  /\ IsSeq(InsertionOrder(rs, ids)) /\ Elements(InsertionOrder(rs, ids)) = ids
         /\ Len(InsertionOrder(rs, ids)) = Cardinality(ids) /\ Cardinality(ids) \in Nat
<1>1. IsFiniteSet(ids) /\ Cardinality(ids) \in Nat
  BY AddressesFinite, FS_Subset, FS_CardinalityType
<1> QED BY <1>1, OrderedListing DEF InsertionOrder

-----------------------------------------------------------------------------
(* Kinds of steps.                                                         *)

LEMMA Unforgotten ==
  ASSUME NEW i, NEW P, \A id \in Present(responders[i]) : responders'[i][id].n = responders[i][id].n
  PROVE  Accounts(i, P)
BY DEF Accounts

LEMMA SilentSends ==
  ASSUME OutboxInv, NEW i \in Initiators, outbox' = outbox, Accounts(i, {})
  PROVE  StepSends(i)
<1>1. IsSeq(<<>>) /\ Elements(<<>>) = {}
  BY Single
<1>2. outbox[i] \o <<>> = outbox[i]
  BY NothingAdded, Clients DEF OutboxInv
<1>3. outbox' = [outbox EXCEPT ![i] = @ \o <<>>]
  BY <1>2, Clients DEF OutboxInv
<1>4. Appends(i, <<>>)
  BY <1>1, <1>3 DEF Appends
<1>5. Good(i, Elements(<<>>))
  BY <1>1 DEF Good, Fresh, Counted, Announces
<1> QED BY <1>4, <1>5 DEF StepSends

LEMMA PeersKept ==
  ASSUME OutboxInv, NEW i \in Initiators, outbox' = outbox, responders' = responders
  PROVE  StepSends(i)
BY SilentSends, Unforgotten

(* Whatever goes out, the WebSocket is closed after it.                    *)
LEMMA ClosingSends ==
  ASSUME OutboxInv, NEW i \in Initiators, responders' = responders,
         NEW sent, IsSeq(sent), Fresh(i, Elements(sent)), Counted(i, Elements(sent)),
         \A p \in Elements(sent) : p.dst # 0 /\ p.type # "auth", NEW code,
         outbox' = [outbox EXCEPT ![i] = @ \o sent \o Hangup(conn[i], code)]
  PROVE  StepSends(i)
<1> DEFINE hangup == Hangup(conn[i], code)
           q == sent \o hangup
<1>1. /\ IsSeq(hangup) /\ Fresh(i, Elements(hangup)) /\ Counted(i, Elements(hangup))
      /\ \A p \in Elements(hangup) : p.dst = 0 /\ p.type = "ws-close"
  BY HangupFresh, HangupFrame
<1>2. outbox[i] \o sent \o hangup = outbox[i] \o q
  <2> DEFINE o == outbox[i]
  <2>1. IsSeq(o) /\ IsSeq(hangup)
    BY <1>1, Clients DEF OutboxInv
  <2> HIDE DEF hangup, o
  <2>2. (o \o sent) \o hangup = o \o (sent \o hangup)
    BY <2>1, Regrouped
  <2> QED BY <2>2 DEF o
<1>3. outbox' = [outbox EXCEPT ![i] = @ \o q]
  BY <1>2
<1> HIDE DEF hangup
<1>4. IsSeq(q) /\ Elements(q) = Elements(sent) \cup Elements(hangup)
  BY <1>1, JoinedElements
<1> HIDE DEF q
<1>5. Fresh(i, Elements(q))
  <2>1. \A p \in Elements(sent) : \A r \in Elements(hangup) : p.dst # r.dst
    BY <1>1
  <2> QED BY <1>1, <1>4, <2>1, FreshUnion
<1>6. Announces(i, Elements(q))
  BY <1>1, <1>4 DEF Announces
<1>7. Accounts(i, Elements(q))
  BY Unforgotten
<1>8. Counted(i, Elements(q))
  BY <1>1, <1>4 DEF Counted
<1> QED BY <1>3, <1>4, <1>5, <1>6, <1>7, <1>8 DEF StepSends, Appends, Good

LEMMA HangsUp ==
  ASSUME OutboxInv, NEW i \in Initiators, responders' = responders, NEW code,
         outbox' = [outbox EXCEPT ![i] = @ \o Hangup(conn[i], code)]
  PROVE  StepSends(i)
<1>1. /\ IsSeq(<<>>) /\ Elements(<<>>) = {}
      /\ Fresh(i, Elements(<<>>)) /\ Counted(i, Elements(<<>>))
  BY Single DEF Fresh, Counted
<1>2. outbox[i] \o <<>> = outbox[i]
  BY NothingAdded, Clients DEF OutboxInv
<1>3. outbox' = [outbox EXCEPT ![i] = @ \o <<>> \o Hangup(conn[i], code)]
  BY <1>2
<1> QED BY <1>1, <1>3, ClosingSends

LEMMA ResetSends ==
  ASSUME OutboxInv, NEW i \in Initiators, responders' = responders, NEW code,
         ResetConnection(i, code, <<>>)
  PROVE  StepSends(i)
<1>1. outbox[i] \o <<>> = outbox[i]
  BY NothingAdded, Clients DEF OutboxInv
<1>2. outbox' = [outbox EXCEPT ![i] = @ \o Hangup(conn[i], code)]
  BY <1>1 DEF ResetConnection, Reset
<1> QED BY <1>2, HangsUp

(* One packet.                                                             *)
LEMMA PacketSends ==
  ASSUME OutboxInv, NEW i \in Initiators, NEW p, Fresh(i, {p}), Counted(i, {p}), p.type # "auth",
         \A id \in Present(responders[i]) : responders'[i][id].n = responders[i][id].n,
         outbox' = [outbox EXCEPT ![i] = Append(@, p)]
  PROVE  StepSends(i)
<1>1. outbox' = [outbox EXCEPT ![i] = @ \o <<p>>]
  BY Appended, Clients DEF OutboxInv
<1>2. IsSeq(<<p>>) /\ Elements(<<p>>) = {p}
  BY Single
<1>3. Good(i, {p})
  BY Unforgotten DEF Good, Announces
<1> QED BY <1>1, <1>2, <1>3 DEF StepSends, Appends

(* Requests to drop whoever leaves the map.                                *)
LEMMA DropsSend ==
  ASSUME OutboxInv, NEW i \in Initiators,
         NEW s, s.n = srv[i].n, s.out = srv[i].out, s.out \in Nat,
         NEW ids, IsSeq(ids), NEW reason,
         srv'[i].n = s.n, srv'[i].out = s.out + Len(ids),
         outbox' = [outbox EXCEPT ![i] = @ \o DropRequests(i, s, ids, reason)],
         \A id \in Present(responders[i]) :
           responders'[i][id].n # responders[i][id].n =>
             \/ id \in Elements(ids)
             \/ Head(inbox[i]).type = "new-responder" /\ Head(inbox[i]).body = id
  PROVE  StepSends(i)
<1> DEFINE drops == DropRequests(i, s, ids, reason)
<1>0. /\ outbox' = [outbox EXCEPT ![i] = @ \o drops]
      /\ drops = DropRequests(i, s, ids, reason)
  OBVIOUS
<1> HIDE DEF drops
<1>1. /\ IsSeq(drops) /\ Fresh(i, Elements(drops))
      /\ \A p \in Elements(drops) : /\ p.dst = 0 /\ p.type = "drop-responder"
                                    /\ p.csn <= s.out + Len(ids)
      /\ \A id \in Elements(ids) : \E p \in Elements(drops) :
           p.type = "drop-responder" /\ p.body.id = id
  <2>1. Requested(i, s, ids, drops)
    BY <1>0, DropsFacts
  <2> QED BY <2>1 DEF Requested
<1>2. Appends(i, drops)
  BY <1>0, <1>1 DEF Appends
<1>3. Announces(i, Elements(drops))
  BY <1>1 DEF Announces
<1>4. Accounts(i, Elements(drops))
  BY <1>1 DEF Accounts
<1>5. Counted(i, Elements(drops))
  BY <1>1 DEF Counted, Peer, PeerAfter
<1> QED BY <1>1, <1>2, <1>3, <1>4, <1>5 DEF StepSends, Good

-----------------------------------------------------------------------------
(* Handlers.                                                               *)

LEMMA ServerOut ==
  ASSUME IInv, NEW i \in Initiators
  PROVE  /\ srv[i] \in ServerObject /\ srv[i].out \in Nat
         /\ \A s : srv' = [srv EXCEPT ![i] = s] => srv'[i] = s
BY Clients DEF IInv, ServerInv, ServerObject

LEMMA ChosenPeer ==
  ASSUME IInv, NumberInv, NEW i \in Initiators, conn[i].state = "task"
  PROVE  /\ chosen[i].id # 0 /\ Peer(i, chosen[i].id) = chosen[i] /\ chosen[i].out \in Nat
         /\ Present(responders[i]) = {}
<1>1. /\ chosen[i] \in ResponderObject /\ chosen[i].hs = "auth-sent"
      /\ Present(responders[i]) = {}
  BY Held DEF Responsible
<1>2. chosen[i].id \in ResponderIds /\ chosen[i].out \in Nat
  BY <1>1 DEF NumberInv, ResponderObject
<1>3. chosen[i].id # 0
  BY <1>2, AddressAssumption
<1> QED BY <1>1, <1>2, <1>3 DEF Peer

LEMMA HandleServerHelloSends ==
  ASSUME IInv, OutboxInv, NEW i \in Initiators, NEW m, HandleServerHello(i, m), UNCHANGED peerVars
  PROVE  StepSends(i)
<1> DEFINE said == [srv[i] EXCEPT !.out = @ + Len(<<>>)]
           auth == BuildPacket(i, said, 0, ServerKey(i), "client-auth", m.cookie)
           new == [said EXCEPT !.hs = "auth-sent", !.out = @ + 1,
                               !.in = m.csn, !.cookie = m.cookie]
<1>1. i \notin Responders
  BY ClientAssumption
<1>2. /\ said.out = srv[i].out /\ srv[i].out \in Nat /\ said.n = srv[i].n
      /\ new.n = srv[i].n /\ new.out = srv[i].out + 1
  BY ServerOut DEF ServerObject
<1>3. outbox' = [outbox EXCEPT ![i] = @ \o <<>> \o <<auth>>] /\ srv' = [srv EXCEPT ![i] = new]
  BY <1>1 DEF HandleServerHello
<1> HIDE DEF said, new
<1>7. srv'[i] = new
  BY <1>3, ServerOut
<1>4. /\ Fresh(i, {auth}) /\ auth.type = "client-auth"
      /\ auth.dst = 0 /\ auth.csn = srv[i].out + 1
  BY <1>2, PacketFresh DEF Peer
<1> HIDE DEF auth
<1>5. outbox' = [outbox EXCEPT ![i] = Append(@, auth)]
  BY <1>3, NothingAdded, Appended, Clients DEF OutboxInv
<1>6. Counted(i, {auth})
  BY <1>2, <1>4, <1>7 DEF Counted, Peer, PeerAfter
<1> QED BY <1>4, <1>5, <1>6, PacketSends DEF peerVars

LEMMA HandleServerAuthSends ==
  ASSUME IInv, OutboxInv, NEW i \in Initiators, Present(responders[i]) = {},
         NEW m, Incoming(i, m), HandleServerAuth(i, m)
  PROVE  StepSends(i)
<1> DEFINE ids == m.body.responders
           surplus == IF Trusts(i) \/ Len(ids) <= Limit THEN 0 ELSE Len(ids) - Limit
           first == SubSeq(ids, 1, surplus)
<1>1. outbox' = [outbox EXCEPT ![i] = @ \o DropRequests(i, srv[i], first, DroppedByInitiator)]
  BY DEF HandleServerAuth
<1>2. ids \in Seq(ResponderIds)
  <2>1. m.type = "server-auth"
    BY DEF HandleServerAuth, ServerAuthDone, AuthExpected
  <2> QED BY <2>1, Received DEF IsPacket
<1>3. IsSeq(first) /\ Len(first) = surplus /\ surplus \in Nat
  <2>1. Limit \in Nat /\ Len(ids) \in Nat
    BY <1>2, InitiatorAssumption
  <2>2. surplus \in 0 .. Len(ids)
    BY <2>1
  <2> HIDE DEF surplus, ids
  <2>3. \A k \in 1 .. surplus : k \in 1 .. Len(ids)
    BY <2>1, <2>2
  <2>4. first \in Seq(ResponderIds)
    BY <1>2, <2>1, <2>2, <2>3
  <2> QED BY <1>2, <2>1, <2>2, <2>4 DEF IsSeq
<1> DEFINE new == [srv[i] EXCEPT !.hs = "done", !.in = m.csn, !.out = @ + surplus]
<1>4. srv' = [srv EXCEPT ![i] = new]
  BY DEF HandleServerAuth
<1> HIDE DEF first, surplus
<1>5. new.n = srv[i].n /\ new.out = srv[i].out + Len(first)
  BY <1>3, ServerOut DEF ServerObject
<1> HIDE DEF new
<1>6. srv'[i] = new
  BY <1>4, ServerOut
<1> QED BY <1>1, <1>3, <1>5, <1>6, ServerOut, DropsSend

LEMMA NewResponderSends ==
  ASSUME IInv, NumberInv, OutboxInv, NEW i \in Initiators, NEW m, Incoming(i, m),
         m.type = "new-responder", m.body \in ResponderIds,
         ProcessNewResponder(i, Heard(i, m), m.body)
  PROVE  StepSends(i)
<1> DEFINE new == NewResponder(i, m.body, counter[i] + 1)
           added == [responders[i] EXCEPT ![m.body] = new]
           evicted == Evicted(added)
           order == InsertionOrder(added, evicted)
           server == [Heard(i, m) EXCEPT !.out = @ + Cardinality(evicted)]
<1>1. /\ responders' = [responders EXCEPT ![i] = Without(added, evicted)]
      /\ outbox' = [outbox EXCEPT ![i] =
                      @ \o DropRequests(i, Heard(i, m), order, DroppedByInitiator)]
      /\ srv' = [srv EXCEPT ![i] = server]
  BY DEF ProcessNewResponder
<1>2. /\ responders[i] \in [ResponderIds -> ResponderObject]
      /\ responders \in [Initiators -> [ResponderIds -> ResponderObject]]
      /\ counter[i] \in Nat
  BY Held
<1>3. new.n = counter[i] + 1
  BY DEF NewResponder, NoResponder
<1> HIDE DEF new
<1>4. \A id \in ResponderIds : added[id] = IF id = m.body THEN new ELSE responders[i][id]
  BY <1>2
<1> HIDE DEF added
<1>5. evicted \in SUBSET Present(added)
  BY DEF Evicted
<1>6. ASSUME NEW a \in Present(added)
      PROVE  /\ a \in ResponderIds
             /\ IF a = m.body THEN added[a].n = counter[i] + 1
                ELSE /\ a \in Present(responders[i]) /\ added[a].n = responders[i][a].n
                     /\ added[a].n \in Nat /\ added[a].n <= counter[i]
  BY <1>3, <1>4, PresentObject DEF Present, NumberInv, Numbered
<1>7. ASSUME NEW a \in Present(added), NEW b \in Present(added), added[a].n = added[b].n
      PROVE  a = b
  <2>1. \A x, y \in Present(responders[i]) : responders[i][x].n = responders[i][y].n => x = y
    BY DEF NumberInv, Numbered
  <2> QED BY <1>2, <1>6, <1>7, <2>1
<1> HIDE DEF evicted
<1>8. /\ IsSeq(order) /\ Elements(order) = evicted
      /\ Len(order) = Cardinality(evicted) /\ Cardinality(evicted) \in Nat
  <2>1. evicted \in SUBSET ResponderIds
    BY <1>5, <1>6
  <2>2. \A id \in evicted : added[id].n \in Nat
    BY <1>2, <1>5, <1>6
  <2>3. \A a, b \in evicted : added[a].n = added[b].n => a = b
    BY <1>5, <1>7
  <2> QED BY <2>1, <2>2, <2>3, OrderExists
<1> HIDE DEF order
<1>9. /\ Heard(i, m).out = srv[i].out /\ srv[i].out \in Nat /\ Heard(i, m).n = srv[i].n
      /\ server.n = srv[i].n /\ server.out = srv[i].out + Cardinality(evicted)
  BY <1>8, ServerOut DEF Heard, ServerObject
<1> HIDE DEF server
<1>12. srv'[i] = server
  BY <1>1, ServerOut
<1>10. ASSUME NEW id \in Present(responders[i]), responders'[i][id].n # responders[i][id].n
       PROVE  id \in evicted \/ id = m.body
  <2>1. id \in ResponderIds
    BY DEF Present
  <2>2. responders'[i] = Without(added, evicted)
    BY <1>1, <1>2
  <2> QED BY <1>4, <1>10, <2>1, <2>2 DEF Without
<1>11. m = Head(inbox[i])
  BY DEF Incoming
<1> QED BY <1>1, <1>8, <1>9, <1>10, <1>11, <1>12, DropsSend

LEMMA HandleNewResponderSends ==
  ASSUME IInv, NumberInv, OutboxInv, NEW i \in Initiators, NEW m, Incoming(i, m),
         HandleNewResponder(i, m)
  PROVE  StepSends(i)
<1>1. CASE /\ m.type = "new-responder" /\ m.body \in ResponderIds
           /\ ProcessNewResponder(i, Heard(i, m), m.body)
  BY <1>1, NewResponderSends
<1>2. CASE /\ conn[i].state = "task"
           /\ outbox' = [outbox EXCEPT ![i] =
                           @ \o DropRequests(i, srv[i], <<m.body>>, DroppedByInitiator)]
           /\ srv' = [srv EXCEPT ![i] = [Heard(i, m) EXCEPT !.out = @ + 1]]
  <2> DEFINE new == [Heard(i, m) EXCEPT !.out = @ + 1]
  <2>1. new.n = srv[i].n /\ new.out = srv[i].out + 1
    BY ServerOut DEF Heard, ServerObject
  <2> HIDE DEF new
  <2>2. srv'[i] = new
    BY <1>2, ServerOut DEF new
  <2>3. IsSeq(<<m.body>>) /\ Len(<<m.body>>) = 1
    BY Single
  <2> QED BY <1>2, <2>1, <2>2, <2>3, ChosenPeer, ServerOut, DropsSend
<1> QED BY <1>1, <1>2 DEF HandleNewResponder, FromServer, ServerMessage

LEMMA HandleSendErrorSends ==
  ASSUME IInv, NumberInv, OutboxInv, NEW i \in Initiators, NEW m, Incoming(i, m),
         HandleSendError(i, m)
  PROVE  StepSends(i)
<1>1. CASE /\ m.type = "send-error" /\ outbox' = outbox
           /\ responders' = [responders EXCEPT ![i] = Without(@, {m.body.dst})]
  <2>1. m = Head(inbox[i])
    BY DEF Incoming
  <2>2. responders'[i] = Without(responders[i], {m.body.dst})
    BY <1>1, Held
  <2>3. \A id \in Present(responders[i]) :
           id # m.body.dst => responders'[i][id].n = responders[i][id].n
    BY <2>2 DEF Without, Present
  <2>4. Accounts(i, {})
    BY <1>1, <2>1, <2>3 DEF Accounts
  <2> QED BY <1>1, <2>4, SilentSends
<1>2. CASE ResetConnection(i, ProtocolError, <<>>) /\ UNCHANGED peerVars
  BY <1>2, ResetSends DEF peerVars
<1>3. CASE outbox' = outbox /\ UNCHANGED peerVars
  BY <1>3, PeersKept DEF peerVars
<1> QED BY <1>1, <1>2, <1>3 DEF HandleSendError, FromServer, ServerMessage

LEMMA UnchosenYet ==
  ASSUME IInv, NEW i \in Initiators, conn[i].state = "peer-handshake", chosen' = chosen
  PROVE  chosen'[i].id = 0
<1>1. chosen[i] = NoResponder
  BY Held DEF Responsible, Unchosen
<1> QED BY <1>1 DEF NoResponder

(* Messages of a responder that leave it where it is.                      *)
LEMMA SameNumber ==
  ASSUME IInv, NEW i \in Initiators, NEW src \in ResponderIds, NEW peer,
         peer.n = responders[i][src].n, responders' = [responders EXCEPT ![i][src] = peer]
  PROVE  \A id \in Present(responders[i]) : responders'[i][id].n = responders[i][id].n
BY Held DEF Present

LEMMA ResponderMessageSends ==
  ASSUME IInv, NumberInv, OutboxInv, NEW i \in Initiators, NEW m, Incoming(i, m),
         HandleToken(i, m) \/ HandleKey(i, m) \/ KeyUndecryptable(i, m)
  PROVE  StepSends(i)
<1> DEFINE saved == Saved(i, m)
           old == responders[i][m.src]
<1>1. /\ m.src \in Present(responders[i]) /\ m.src \in ResponderIds
      /\ saved \in ResponderObject /\ saved.n = old.n /\ saved.id = old.id
  BY SavedAdvances, PresentObject DEF HandleToken, HandleKey, KeyUndecryptable
<1>2. CASE HandleToken(i, m)
  <2> DEFINE peer == [saved EXCEPT !.hs = "token-received", !.perm = PermanentKey(m.body)]
  <2>1. peer.n = old.n
    BY <1>1 DEF ResponderObject
  <2>2. responders' = [responders EXCEPT ![i][m.src] = peer] /\ outbox' = outbox
    BY <1>2 DEF HandleToken
  <2> HIDE DEF peer, saved
  <2> QED BY <1>1, <2>1, <2>2, SameNumber, Unforgotten, SilentSends
<1>3. CASE KeyUndecryptable(i, m)
  <2>1. responders' = [responders EXCEPT ![i][m.src] = saved] /\ outbox' = outbox
    BY <1>3 DEF KeyUndecryptable
  <2> HIDE DEF saved
  <2> QED BY <1>1, <2>1, SameNumber, Unforgotten, SilentSends
<1>4. CASE HandleKey(i, m)
  <2> DEFINE peer == [saved EXCEPT !.hs = "key-sent", !.out = @ + 1,
                                   !.sess = SessionKey(<<i, saved.n>>, m.body)]
             key == BuildPacket(i, saved, saved.id, saved.perm, "key", <<i, saved.n>>)
  <2>1. peer.n = old.n /\ peer.out = saved.out + 1
    BY <1>1 DEF ResponderObject
  <2>2. /\ responders' = [responders EXCEPT ![i][m.src] = peer]
        /\ outbox' = [outbox EXCEPT ![i] = Append(@, key)]
    BY <1>4 DEF HandleKey
  <2>3. saved.out = old.out /\ saved.out \in Nat /\ saved.id = m.src
    <3>1. old \in ResponderObject /\ old.id = m.src
      BY <1>1, PresentObject DEF NumberInv, Numbered
    <3> QED BY <1>1, <3>1 DEF Saved, ResponderObject
  <2>4. Peer(i, saved.id) = old /\ saved.id # 0
    <3>1. conn[i].state = "peer-handshake" /\ m.src # 0
      BY <1>1, <1>4, AddressAssumption DEF HandleKey, FromResponder
    <3> QED BY <2>3, <3>1 DEF Peer
  <2> HIDE DEF peer, saved, old
  <2>5. Fresh(i, {key}) /\ key.type = "key" /\ key.dst = m.src /\ key.csn = saved.out + 1
    BY <1>1, <2>3, <2>4, PacketFresh
  <2> HIDE DEF key
  <2>6. \A id \in Present(responders[i]) : responders'[i][id].n = responders[i][id].n
    BY <1>1, <2>1, <2>2, SameNumber DEF old
  <2>7. Counted(i, {key})
    <3>1. responders'[i][m.src] = peer
      BY <1>1, <2>2, Held
    <3>2. chosen'[i].id # m.src
      BY <1>4, <2>3, <2>4, UnchosenYet DEF HandleKey, FromResponder
    <3>3. PeerAfter(i, m.src) = peer
      BY <2>3, <2>4, <3>1, <3>2 DEF PeerAfter
    <3> QED BY <2>1, <2>3, <2>4, <2>5, <3>3 DEF Counted
  <2> QED BY <2>2, <2>5, <2>6, <2>7, PacketSends
<1> QED BY <1>2, <1>3, <1>4

(* The first common task is one that was offered.                          *)
LEMMA ChosenTaskOffered ==
  ASSUME NEW i \in Initiators, NEW m, Common(i, m) # {}
  PROVE  ChosenTask(i, m) \in m.body.tasks
<1>1. Common(i, m) \in SUBSET Nat
  BY InitiatorAssumption DEF Common
<1>2. PICK k \in Common(i, m) : \A j \in Common(i, m) : k <= j
  BY <1>1, Smallest
<1> DEFINE first == CHOOSE l \in Common(i, m) : \A j \in Common(i, m) : l <= j
<1>3. first \in Common(i, m)
  BY <1>2
<1> HIDE DEF first
<1>4. OurTasks[i][first] \in m.body.tasks
  BY <1>3 DEF Common
<1> QED BY <1>4 DEF ChosenTask, first

LEMMA HandleAuthSends ==
  ASSUME IInv, NumberInv, OutboxInv, NEW i \in Initiators, NEW m, Incoming(i, m),
         HandleAuth(i, m)
  PROVE  StepSends(i)
<1> DEFINE old == responders[i][m.src]
           saved == Saved(i, m)
           ch == [saved EXCEPT !.cookie = m.cookie, !.hs = "auth-sent", !.out = @ + 1]
           t == ChosenTask(i, m)
           auth == BuildPacket(i, old, ch.id, ch.sess, "auth", [cookie |-> m.cookie, task |-> t])
           others == Others(i, m)
           order == InsertionOrder(responders[i], others)
           drops == DropRequests(i, srv[i], order, DroppedByInitiator)
           q == <<auth>> \o drops
<1>1. /\ task' = [task EXCEPT ![i] = t] /\ chosen' = [chosen EXCEPT ![i] = ch]
      /\ outbox' = [outbox EXCEPT ![i] = @ \o <<auth>> \o drops]
      /\ Common(i, m) # {} /\ conn[i].state = "peer-handshake"
  BY DEF HandleAuth, AuthDecrypted, FromResponder
<1>2. /\ m.src \in Present(responders[i]) /\ m.src \in ResponderIds /\ m.src # 0
      /\ saved \in ResponderObject /\ saved.n = old.n /\ saved.id = m.src
      /\ old.out \in Nat
  <2>1. /\ m.src \in Present(responders[i]) /\ saved \in ResponderObject /\ saved.n = old.n
        /\ saved.id = old.id
    BY SavedAdvances DEF HandleAuth, AuthDecrypted
  <2>2. m.src \in ResponderIds /\ m.src # 0 /\ old \in ResponderObject /\ old.id = m.src
    BY <2>1, PresentObject, AddressAssumption DEF NumberInv, Numbered
  <2> QED BY <2>1, <2>2 DEF ResponderObject
<1>3. ch.id = m.src /\ ch.n = old.n /\ ch.out = old.out + 1
  <2>1. saved.out = old.out
    BY SavedAdvances DEF HandleAuth, AuthDecrypted
  <2> QED BY <1>2, <2>1 DEF ResponderObject
<1>4. task'[i] = t /\ chosen'[i] = ch /\ m = Head(inbox[i])
  BY <1>1, Clients DEF IInv, PeerInv, Incoming
<1>5. t \in m.body.tasks
  BY <1>1, ChosenTaskOffered
<1> HIDE DEF t, ch, saved
<1>6. /\ Fresh(i, {auth}) /\ auth.type = "auth" /\ auth.dst = m.src /\ auth.body.task = t
      /\ auth.csn = old.out + 1 /\ Peer(i, m.src) = old
  <2>1. Peer(i, ch.id) = old
    BY <1>1, <1>2, <1>3 DEF Peer
  <2> HIDE DEF old
  <2>2. /\ Fresh(i, {auth}) /\ auth.type = "auth" /\ auth.dst = ch.id
        /\ auth.body = [cookie |-> m.cookie, task |-> t] /\ auth.csn = old.out + 1
    BY <1>2, <2>1, PacketFresh
  <2> HIDE DEF auth
  <2> QED BY <1>3, <2>1, <2>2
<1> HIDE DEF auth
<1>7. /\ IsSeq(order) /\ Elements(order) = others
      /\ Len(order) = Cardinality(others) /\ Cardinality(others) \in Nat
  <2>1. others \in SUBSET ResponderIds /\ others \subseteq Present(responders[i])
    BY DEF Others, Present
  <2>2. \A id \in others : responders[i][id].n \in Nat
    BY <2>1, PresentObject
  <2>3. \A a, b \in others : responders[i][a].n = responders[i][b].n => a = b
    BY <2>1 DEF NumberInv, Numbered
  <2> HIDE DEF others
  <2> QED BY <2>1, <2>2, <2>3, OrderExists
<1> HIDE DEF order
<1>8. /\ IsSeq(drops) /\ Fresh(i, Elements(drops))
      /\ \A p \in Elements(drops) : /\ p.dst = 0 /\ p.type = "drop-responder"
                                    /\ p.csn <= srv[i].out + Cardinality(others)
      /\ \A id \in others : \E p \in Elements(drops) :
           p.type = "drop-responder" /\ p.body.id = id
  <2>1. Requested(i, srv[i], order, drops)
    BY <1>7, ServerOut, DropsFacts
  <2> QED BY <1>7, <2>1 DEF Requested
<1> HIDE DEF drops
<1>9. IsSeq(<<auth>>) /\ Elements(<<auth>>) = {auth}
  BY Single
<1>10. IsSeq(q) /\ Elements(q) = {auth} \cup Elements(drops)
  BY <1>8, <1>9, JoinedElements
<1>11. outbox' = [outbox EXCEPT ![i] = @ \o q]
  <2> DEFINE o == outbox[i]
  <2>1. IsSeq(o)
    BY Clients DEF OutboxInv
  <2> HIDE DEF o
  <2>2. (o \o <<auth>>) \o drops = o \o (<<auth>> \o drops)
    BY <1>8, <1>9, <2>1, Regrouped
  <2> QED BY <1>1, <2>2 DEF o
<1> HIDE DEF q
<1>12. Fresh(i, Elements(q))
  <2>1. \A p \in {auth} : \A d \in Elements(drops) : p.dst # d.dst
    BY <1>2, <1>6, <1>8
  <2> QED BY <1>6, <1>8, <1>10, <2>1, FreshUnion
<1>13. Announces(i, Elements(q))
  BY <1>4, <1>5, <1>6, <1>8, <1>10 DEF Announces
<1>14. Accounts(i, Elements(q))
  <2> SUFFICES ASSUME NEW id \in Present(responders[i])
               PROVE  \/ chosen'[i].id = id /\ chosen'[i].n = responders[i][id].n
                      \/ \E p \in Elements(q) : p.type = "drop-responder" /\ p.body.id = id
    BY DEF Accounts
  <2>1. CASE id = m.src
    BY <1>3, <1>4, <2>1
  <2>2. CASE id # m.src
    BY <1>8, <1>10, <2>2 DEF Others
  <2> QED BY <2>1, <2>2
<1>15. Counted(i, Elements(q))
  <2> DEFINE new == [srv[i] EXCEPT !.out = @ + Cardinality(others)]
  <2>1. srv' = [srv EXCEPT ![i] = new]
    BY DEF HandleAuth
  <2>2. new.n = srv[i].n /\ new.out = srv[i].out + Cardinality(others)
    BY <1>7, ServerOut DEF ServerObject
  <2> HIDE DEF new
  <2>3. srv'[i] = new
    BY <2>1, ServerOut
  <2>4. \A p \in Elements(drops) : /\ PeerAfter(i, p.dst).n = Peer(i, p.dst).n
                                   /\ p.csn <= PeerAfter(i, p.dst).out
    BY <1>8, <2>2, <2>3 DEF Peer, PeerAfter
  <2>5. PeerAfter(i, m.src) = ch
    BY <1>2, <1>3, <1>4 DEF PeerAfter
  <2>6. PeerAfter(i, auth.dst).n = Peer(i, auth.dst).n /\ auth.csn <= PeerAfter(i, auth.dst).out
    BY <1>2, <1>3, <1>6, <2>5
  <2> QED BY <1>10, <2>4, <2>6 DEF Counted
<1> QED BY <1>10, <1>11, <1>12, <1>13, <1>14, <1>15 DEF StepSends, Appends, Good

LEMMA DropSourceSends ==
  ASSUME IInv, OutboxInv, NEW i \in Initiators, NEW m, NEW reason, DropSource(i, m, reason)
  PROVE  StepSends(i)
<1> DEFINE s == IF m.src = 0 THEN StoreCsn(i, srv[i], m) ELSE srv[i]
           new == [s EXCEPT !.out = @ + 1]
<1>1. /\ s.out = srv[i].out /\ s.out \in Nat /\ s.n = srv[i].n
      /\ new.n = s.n /\ new.out = s.out + 1
  BY ServerOut DEF StoreCsn, ServerObject
<1>2. /\ outbox' = [outbox EXCEPT ![i] = @ \o DropRequests(i, s, <<m.src>>, reason)]
      /\ responders'[i] = Without(responders[i], {m.src})
      /\ srv' = [srv EXCEPT ![i] = new]
  BY Held DEF DropSource
<1> HIDE DEF s, new
<1>5. srv'[i] = new
  BY <1>2, ServerOut
<1>3. \A id \in Present(responders[i]) :
         responders'[i][id].n # responders[i][id].n => id = m.src
  BY <1>2 DEF Without, Present
<1>4. IsSeq(<<m.src>>) /\ Elements(<<m.src>>) = {m.src} /\ Len(<<m.src>>) = 1
  BY Single
<1> QED BY <1>1, <1>2, <1>3, <1>4, <1>5, DropsSend

(* In state `task` packets go to the chosen responder.                     *)
LEMMA ChosenPacket ==
  ASSUME IInv, NumberInv, NEW i \in Initiators, conn[i].state = "task", NEW type, NEW body
  PROVE  LET p == BuildPacket(i, chosen[i], chosen[i].id, chosen[i].sess, type, body)
         IN /\ Fresh(i, {p}) /\ p.type = type /\ p.dst # 0
            /\ (chosen'[i].id = chosen[i].id /\ chosen'[i].n = chosen[i].n
                 /\ chosen'[i].out = chosen[i].out + 1 => Counted(i, {p}))
<1> DEFINE ch == chosen[i]
           p == BuildPacket(i, ch, ch.id, ch.sess, type, body)
<1>1. ch.id # 0 /\ ch.out \in Nat
  BY ChosenPeer
<1>2. Peer(i, ch.id) = ch
  BY ChosenPeer
<1> HIDE DEF ch
<1>3. Fresh(i, {p}) /\ p.type = type /\ p.dst = ch.id /\ p.csn = ch.out + 1
  BY <1>1, <1>2, PacketFresh
<1> HIDE DEF p
<1>4. ASSUME chosen'[i].id = ch.id, chosen'[i].n = ch.n, chosen'[i].out = ch.out + 1
      PROVE  Counted(i, {p})
  <2>1. PeerAfter(i, ch.id) = chosen'[i]
    BY <1>1, <1>4 DEF PeerAfter
  <2> QED BY <1>1, <1>2, <1>3, <1>4, <2>1 DEF Counted
<1> QED BY <1>1, <1>3, <1>4 DEF p, ch

LEMMA SignalingErrorSends ==
  ASSUME IInv, NumberInv, OutboxInv, NEW i \in Initiators, NEW m, NEW code,
         OnSignalingError(i, m, code)
  PROVE  StepSends(i)
<1>1. CASE ResetConnection(i, code, <<>>) /\ UNCHANGED peerVars
  BY <1>1, ResetSends DEF peerVars
<1>2. CASE DropSource(i, m, code)
  BY <1>2, DropSourceSends
<1>3. CASE CloseWithError(i, code)
  <2> DEFINE close == BuildPacket(i, chosen[i], chosen[i].id, chosen[i].sess, "close", code)
             sent == SendClose(i, chosen[i], chosen[i].id, code)
  <2>0. conn[i].state = "task" /\ UNCHANGED responders
    BY <1>3 DEF CloseWithError
  <2>1. /\ Fresh(i, {close}) /\ close.type = "close" /\ close.dst # 0
        /\ (chosen'[i].id = chosen[i].id /\ chosen'[i].n = chosen[i].n
             /\ chosen'[i].out = chosen[i].out + 1 => Counted(i, {close}))
    BY <2>0, ChosenPacket
  <2>2. sent = <<>> \/ sent = <<close>>
    BY DEF SendClose
  <2>3. outbox' = [outbox EXCEPT ![i] = @ \o sent \o Hangup(conn[i], ClosingNormal)]
    BY <1>3 DEF CloseWithError, ResetConnection, Reset
  <2>6. /\ chosen'[i].id = chosen[i].id /\ chosen'[i].n = chosen[i].n
        /\ chosen'[i].out = chosen[i].out + Len(sent)
    BY <1>3, ErrorCounted
  <2> HIDE DEF close, sent
  <2>4. /\ IsSeq(sent) /\ Elements(sent) \subseteq {close}
        /\ (sent = <<close>> => Len(sent) = 1) /\ (sent = <<>> => Elements(sent) = {})
    BY <2>2, Single
  <2>5. Fresh(i, Elements(sent)) /\ \A p \in Elements(sent) : p.dst # 0 /\ p.type # "auth"
    BY <2>1, <2>4 DEF Fresh
  <2>7. Counted(i, Elements(sent))
    BY <2>1, <2>2, <2>4, <2>6 DEF Counted
  <2> QED BY <2>0, <2>3, <2>4, <2>5, <2>7, ClosingSends
<1> QED BY <1>1, <1>2, <1>3 DEF OnSignalingError

(* In state `task`, what the chosen responder says.                        *)
LEMMA PeerMessageSends ==
  ASSUME IInv, OutboxInv, NEW i \in Initiators, NEW m, HandlePeerMessage(i, m)
  PROVE  StepSends(i)
<1>1. responders' = responders
  BY DEF HandlePeerMessage
<1>2. CASE \E code : ResetConnection(i, code, <<>>)
  BY <1>1, <1>2, ResetSends
<1>3. CASE outbox' = outbox
  BY <1>1, <1>3, PeersKept
<1>4. ASSUME NEW flags, NEW rest, SetHandover(i, flags, rest, <<>>) PROVE StepSends(i)
  <2>1. outbox[i] \o <<>> = outbox[i]
    BY NothingAdded, Clients DEF OutboxInv
  <2>2. \/ outbox' = [outbox EXCEPT ![i] = @ \o Hangup(conn[i], Handover)]
        \/ outbox' = [outbox EXCEPT ![i] = outbox[i]]
    BY <1>4, <2>1 DEF SetHandover
  <2> QED BY <1>1, <2>2, HangsUp, PeersKept, Clients DEF OutboxInv
<1> QED BY <1>2, <1>3, <1>4 DEF HandlePeerMessage, PeerMessage, HandleClose

LEMMA OneMore ==
  ASSUME IInv, NEW i \in Initiators, chosen' = [chosen EXCEPT ![i].out = @ + 1]
  PROVE  /\ chosen'[i].id = chosen[i].id /\ chosen'[i].n = chosen[i].n
         /\ chosen'[i].out = chosen[i].out + 1
BY DEF IInv, PeerInv, ResponderObject

LEMMA InitiatorHandoverSends ==
  ASSUME IInv, NumberInv, OutboxInv, NEW i \in Initiators, InitiatorHandover(i)
  PROVE  StepSends(i)
<1> DEFINE p == BuildPacket(i, chosen[i], chosen[i].id, chosen[i].sess, "handover", NoTask)
<1>6. conn[i].state = "task"
  BY DEF InitiatorHandover, LocalHandover
<1>7. /\ chosen'[i].id = chosen[i].id /\ chosen'[i].n = chosen[i].n
      /\ chosen'[i].out = chosen[i].out + 1
  BY OneMore DEF InitiatorHandover
<1>1. Fresh(i, {p}) /\ p.type = "handover" /\ p.dst # 0 /\ Counted(i, {p})
  BY <1>6, <1>7, ChosenPacket
<1>2. /\ responders' = responders
      /\ \/ outbox' = [outbox EXCEPT ![i] = @ \o <<p>> \o Hangup(conn[i], Handover)]
         \/ outbox' = [outbox EXCEPT ![i] = @ \o <<p>> \o <<>>]
  BY DEF InitiatorHandover, LocalHandover, SetHandover
<1> HIDE DEF p
<1>3. IsSeq(<<p>>) /\ Elements(<<p>>) = {p}
  BY Single
<1>4. CASE outbox' = [outbox EXCEPT ![i] = @ \o <<p>> \o Hangup(conn[i], Handover)]
  BY <1>1, <1>2, <1>3, <1>4, ClosingSends
<1>5. CASE outbox' = [outbox EXCEPT ![i] = @ \o <<p>> \o <<>>]
  <2> DEFINE o == outbox[i]
  <2>1. IsSeq(o)
    BY Clients DEF OutboxInv
  <2> HIDE DEF o
  <2>2. (o \o <<p>>) \o <<>> = Append(o, p)
    BY <1>3, <2>1, JoinedElements, NothingAdded, Appended
  <2>3. outbox' = [outbox EXCEPT ![i] = Append(@, p)]
    BY <1>5, <2>2 DEF o
  <2> QED BY <1>1, <1>2, <2>3, PacketSends
<1> QED BY <1>2, <1>4, <1>5

LEMMA InitiatorSendsSends ==
  ASSUME IInv, NumberInv, OutboxInv, NEW i \in Initiators, InitiatorSends(i)
  PROVE  StepSends(i)
<1> DEFINE p == BuildPacket(i, chosen[i], chosen[i].id, chosen[i].sess, "application", NoTask)
<1>0. conn[i].state = "task" /\ responders' = responders
  BY DEF InitiatorSends, SendApplication
<1>3. /\ chosen'[i].id = chosen[i].id /\ chosen'[i].n = chosen[i].n
      /\ chosen'[i].out = chosen[i].out + 1
  BY OneMore DEF InitiatorSends
<1>1. Fresh(i, {p}) /\ p.type = "application" /\ Counted(i, {p})
  BY <1>0, <1>3, ChosenPacket
<1>2. outbox' = [outbox EXCEPT ![i] = Append(@, p)]
  BY DEF InitiatorSends, SendApplication
<1> HIDE DEF p
<1> QED BY <1>0, <1>1, <1>2, PacketSends

-----------------------------------------------------------------------------
LEMMA OnMessageSends ==
  ASSUME IInv, NumberInv, OutboxInv, NEW i \in Initiators, InitiatorOnMessage(i),
         conn[i].state = "server-handshake" => Present(responders[i]) = {}
  PROVE  StepSends(i)
<1> DEFINE m == Head(inbox[i])
<1>1. Incoming(i, m)
  BY DEF InitiatorOnMessage, Incoming
<1> HIDE DEF m
<1>2. CASE AfterPeerHandover(i) /\ UNCHANGED peerVars
  BY <1>2, ResetSends DEF AfterPeerHandover, peerVars
<1>3. CASE HandleServerHello(i, m) /\ UNCHANGED peerVars
  BY <1>3, HandleServerHelloSends
<1>4. CASE HandleServerAuth(i, m)
  <2>1. conn[i].state = "server-handshake"
    BY <1>4 DEF HandleServerAuth, ServerAuthDone, ServerHandshake
  <2> QED BY <1>1, <1>4, <2>1, HandleServerAuthSends
<1>5. CASE HandleNewResponder(i, m)
  BY <1>1, <1>5, HandleNewResponderSends
<1>6. CASE HandleSendError(i, m)
  BY <1>1, <1>6, HandleSendErrorSends
<1>7. CASE HandleToken(i, m) \/ HandleKey(i, m) \/ KeyUndecryptable(i, m)
  BY <1>1, <1>7, ResponderMessageSends
<1>8. CASE HandleAuth(i, m)
  BY <1>1, <1>8, HandleAuthSends
<1>9. CASE InvalidNonce(i, m) \/ InvalidServerMessage(i, m) \/ InvalidResponderMessage(i, m)
  BY <1>9, SignalingErrorSends DEF InvalidNonce, InvalidServerMessage, InvalidResponderMessage
<1>10. CASE CouldNotDecrypt(i, m) \/ AuthWithOurCookie(i, m)
  BY <1>10, DropSourceSends DEF CouldNotDecrypt, AuthWithOurCookie
<1>11. CASE HandlePeerMessage(i, m)
  BY <1>11, PeerMessageSends
<1>12. CASE outbox' = outbox /\ responders' = responders
  BY <1>12, PeersKept
<1> QED BY <1>2, <1>3, <1>4, <1>5, <1>6, <1>7, <1>8, <1>9, <1>10, <1>11, <1>12
        DEF InitiatorOnMessage, m, ServerAuthUndecryptable, HandleDisconnected, IgnoreUnknown,
            PeerMessageUndecryptable, peerVars

LEMMA ActorSends ==
  ASSUME IInv, NumberInv, OutboxInv, NEW i \in Initiators, InitiatorNext(i),
         conn[i].state = "server-handshake" => Present(responders[i]) = {}
  PROVE  StepSends(i)
<1>1. CASE InitiatorOnMessage(i)
  BY <1>1, OnMessageSends
<1>2. CASE InitiatorHandover(i) \/ InitiatorSends(i)
  BY <1>2, InitiatorHandoverSends, InitiatorSendsSends
<1>3. CASE \E unbind \in BOOLEAN : Disconnect(i, unbind) /\ UNCHANGED peerVars
  BY <1>3, HangsUp DEF Disconnect, peerVars
<1>4. CASE /\ outbox' = [outbox EXCEPT ![i] = Append(@, CloseFrame(AbnormalClosure))]
           /\ UNCHANGED peerVars
  <2> DEFINE frame == CloseFrame(AbnormalClosure)
  <2>1. frame.type = "ws-close"
    BY DEF CloseFrame
  <2> HIDE DEF frame
  <2>2. Fresh(i, {frame}) /\ Counted(i, {frame}) /\ frame.type # "auth"
    BY <2>1, FreshOne DEF Counted
  <2> QED BY <1>4, <2>2, PacketSends DEF frame, peerVars
<1>5. CASE outbox' = outbox /\ UNCHANGED peerVars
  BY <1>5, PeersKept DEF peerVars
<1>6. CASE ConnectionLost(i) /\ UNCHANGED peerVars
  <2>1. \/ outbox' = [outbox EXCEPT ![i] = Append(@, CloseFrame(AbnormalClosure))]
        \/ outbox' = outbox
    BY <1>6, Clients DEF ConnectionLost, OutboxInv
  <2> QED BY <1>4, <1>5, <1>6, <2>1
<1> QED BY <1>1, <1>2, <1>3, <1>5, <1>6
        DEF InitiatorNext, Connect, OnOpen, CloseEvent, ServerCloses

-----------------------------------------------------------------------------
(* Before the peer handshake no responder is known, so that server-auth    *)
(* forgets none.                                                           *)
Early(cn) == ~cn.used \/ cn.state \in {"ws-connecting", "server-handshake"}

EarlyInv == \A i \in Initiators : Early(conn[i]) => Present(responders[i]) = {}

LEMMA ResetLate ==
  ASSUME IInv, NEW i \in Initiators, NEW code, NEW sent, ResetConnection(i, code, sent)
  PROVE  conn'[i].state = "new" /\ conn'[i].used = conn[i].used
<1>1. conn \in [Client -> ConnRecord] /\ conn[i] \in ConnRecord /\ i \in Client
  BY Clients DEF IInv, ConnInv
<1> DEFINE closed == CloseWebsocket(conn[i], code, TRUE)
<1>2. conn'[i] = [closed EXCEPT !.state = "new"]
  BY <1>1 DEF ResetConnection, Reset
<1>3. closed.used = conn[i].used /\ [closed EXCEPT !.state = "new"].used = closed.used
      /\ [closed EXCEPT !.state = "new"].state = "new"
  BY <1>1 DEF CloseWebsocket, ConnRecord
<1> QED BY <1>2, <1>3

LEMMA HandoverLate ==
  ASSUME IInv, NEW i \in Initiators, NEW flags, NEW rest, NEW sent,
         SetHandover(i, flags, rest, sent)
  PROVE  conn'[i].state = conn[i].state /\ conn'[i].used = conn[i].used
<1>1. conn \in [Client -> ConnRecord] /\ conn[i] \in ConnRecord /\ i \in Client
  BY Clients DEF IInv, ConnInv
<1> DEFINE closed == CloseWebsocket(conn[i], Handover, FALSE)
<1>2. conn'[i] = closed \/ conn'[i] = conn[i]
  BY <1>1 DEF SetHandover
<1>3. closed.used = conn[i].used /\ closed.state = conn[i].state
  BY <1>1 DEF CloseWebsocket, ConnRecord
<1> QED BY <1>2, <1>3

LEMMA SignalingErrorEarly ==
  ASSUME IInv, NEW i \in Initiators, conn[i].used, NEW m, NEW code,
         OnSignalingError(i, m, code), Early(conn'[i])
  PROVE  Early(conn[i]) /\ responders' = responders
<1>1. ~(\E c, sent : ResetConnection(i, c, sent))
  BY ResetLate DEF Early
<1>2. CASE conn[i].state = "peer-handshake" /\ DropSource(i, m, code)
  BY <1>2 DEF DropSource, Early
<1> QED BY <1>1, <1>2 DEF OnSignalingError, CloseWithError

LEMMA OnMessageEarly ==
  ASSUME IInv, NEW i \in Initiators, InitiatorOnMessage(i), Early(conn'[i])
  PROVE  Early(conn[i]) /\ responders' = responders
<1> DEFINE m == Head(inbox[i])
<1>1. Incoming(i, m)
  BY DEF InitiatorOnMessage, Incoming
<1> HIDE DEF m
<1>2. conn[i].used /\ conn[i].state \in {"server-handshake", "peer-handshake", "task"}
      /\ conn \in [Client -> ConnRecord] /\ i \in Client
  BY <1>1, Received, Clients DEF IInv, ConnInv
<1>3. ~(\E c, sent : ResetConnection(i, c, sent))
  BY <1>2, ResetLate DEF Early
<1>4. ASSUME conn[i].state # "server-handshake", conn' = conn PROVE FALSE
  BY <1>2, <1>4 DEF Early
<1>5. CASE HandleServerAuth(i, m)
  BY <1>2, <1>5 DEF HandleServerAuth, ServerAuthDone, ConnRecord, Early
<1>6. CASE HandleAuth(i, m)
  BY <1>2, <1>6 DEF HandleAuth, ConnRecord, Early
<1>7. CASE InvalidNonce(i, m) \/ InvalidServerMessage(i, m) \/ InvalidResponderMessage(i, m)
  BY <1>2, <1>7, SignalingErrorEarly
     DEF InvalidNonce, InvalidServerMessage, InvalidResponderMessage
<1>8. CASE HandlePeerMessage(i, m)
  <2>1. conn[i].state = "task" /\ PeerMessage(i, m)
    BY <1>8 DEF HandlePeerMessage, FromChosen
  <2>2. ~(\E flags, rest, sent : SetHandover(i, flags, rest, sent))
    BY <1>2, <2>1, HandoverLate DEF Early
  <2> QED BY <1>3, <1>4, <2>1, <2>2 DEF PeerMessage, HandleClose
<1>9. CASE HandleNewResponder(i, m) \/ HandleSendError(i, m)
  BY <1>3, <1>4, <1>9 DEF HandleNewResponder, HandleSendError, FromServer, ServerMessage
<1>10. CASE HandleToken(i, m) \/ HandleKey(i, m) \/ KeyUndecryptable(i, m)
  BY <1>4, <1>10 DEF HandleToken, HandleKey, KeyUndecryptable, FromResponder
<1>11. CASE CouldNotDecrypt(i, m) \/ AuthWithOurCookie(i, m)
  BY <1>4, <1>11 DEF CouldNotDecrypt, AuthWithOurCookie, AuthDecrypted, FromResponder, DropSource
<1>12. CASE conn' = conn /\ UNCHANGED responders
  BY <1>12
<1> QED BY <1>3, <1>5, <1>6, <1>7, <1>8, <1>9, <1>10, <1>11, <1>12
        DEF InitiatorOnMessage, m, AfterPeerHandover, HandleServerHello, ServerAuthUndecryptable,
            HandleDisconnected, IgnoreUnknown, PeerMessageUndecryptable, peerVars

LEMMA ActorEarly ==
  ASSUME IInv, NEW i \in Initiators, Arrive(i) \/ InitiatorNext(i), Early(conn'[i])
  PROVE  Early(conn[i]) /\ responders' = responders
<1>1. i \in Client /\ conn[i] \in ConnRecord /\ conn \in [Client -> ConnRecord]
  BY Clients DEF IInv, ConnInv
<1>2. CASE InitiatorOnMessage(i)
  BY <1>2, OnMessageEarly
<1>3. CASE InitiatorHandover(i) \/ InitiatorSends(i)
  <2>1. conn[i].state = "task" /\ responders' = responders
    BY <1>3 DEF InitiatorHandover, InitiatorSends, LocalHandover, SendApplication
  <2>2. conn'[i].state = conn[i].state /\ conn'[i].used = conn[i].used
    BY <1>3, HandoverLate DEF InitiatorHandover, InitiatorSends, LocalHandover, SendApplication
  <2> QED BY <2>1, <2>2 DEF Early
<1>4. CASE Connect(i) /\ UNCHANGED peerVars
  BY <1>4 DEF Connect, Early, peerVars
<1>5. CASE (\E unbind \in BOOLEAN : Disconnect(i, unbind)) /\ UNCHANGED peerVars
  <2>1. conn'[i].state = "closed" /\ conn'[i].used = conn[i].used
    BY <1>1, <1>5, DisconnectConn DEF IInv
  <2> QED BY <1>5, <2>1 DEF Early, peerVars
<1>6. CASE OnOpen(i) /\ UNCHANGED peerVars
  <2>1. conn[i].state = "ws-connecting"
    BY <1>1, <1>6, OnOpenConn DEF IInv
  <2> QED BY <1>6, <2>1 DEF Early, peerVars
<1>7. CASE (\E code : OnClose(i, code)) /\ UNCHANGED peerVars
  <2>1. PICK code : conn'[i] = Closed(conn[i], code)
    BY <1>1, <1>7 DEF OnClose
  <2>2. conn'[i].used = conn[i].used /\ conn'[i].state \in {conn[i].state, "closed"}
    BY <1>1, <2>1 DEF Closed, ConnRecord
  <2> QED BY <1>7, <2>2 DEF Early, peerVars
<1>8. CASE Arrive(i)
  BY <1>8 DEF Arrive, peerVars
<1> QED BY <1>2, <1>3, <1>4, <1>5, <1>6, <1>7, <1>8
        DEF InitiatorNext, CloseEvent, ServerCloses, ConnectionLost

LEMMA EarlyStep ==
  ASSUME IInv, NumberInv, EarlyInv, Next
  PROVE  EarlyInv'
<1>1. PICK i \in Initiators : Arrive(i) \/ InitiatorNext(i)
  BY DEF Next
<1>2. Apart(i) /\ StepMoves(i)
  BY <1>1, ActorStep, ActorMoves DEF GoodStep
<1>3. \A j \in Initiators \ {i} : conn'[j] = conn[j] /\ responders'[j] = responders[j]
  BY <1>2, OthersStay, Clients DEF StepMoves, Apart
<1>4. Early(conn'[i]) => Early(conn[i]) /\ responders'[i] = responders[i]
  BY <1>1, ActorEarly
<1> QED BY <1>3, <1>4 DEF EarlyInv

-----------------------------------------------------------------------------
(* Every step is accounted for, and concerns one initiator.                *)
LEMMA NextGood ==
  ASSUME IInv, NumberInv, OutboxInv, EarlyInv, Next
  PROVE  OutboxInv' /\ \A j \in Initiators : Good(j, SentNow(j))
<1>1. PICK i \in Initiators : Arrive(i) \/ InitiatorNext(i)
  BY DEF Next
<1>2. ASSUME NEW j \in Initiators, SentNow(j) = {}, responders'[j] = responders[j]
      PROVE  Good(j, SentNow(j))
  BY <1>2, Unforgotten DEF Good, Fresh, Counted, Announces
<1>3. CASE Arrive(i)
  <2>1. OutboxInv' /\ \A j \in Initiators : SentNow(j) = {}
    BY <1>3, OutboxEmptied, Clients DEF Arrive
  <2> QED BY <1>2, <1>3, <2>1 DEF Arrive, peerVars
<1>4. CASE InitiatorNext(i)
  <2>1. conn[i].state = "server-handshake" => Present(responders[i]) = {}
    BY DEF EarlyInv, Early
  <2>2. PICK q : Appends(i, q) /\ Good(i, Elements(q))
    BY <1>4, <2>1, ActorSends DEF StepSends
  <2>3. /\ OutboxInv' /\ SentNow(i) = Elements(q)
        /\ \A j \in Initiators \ {i} : SentNow(j) = {}
    BY <2>2, SentNowIs, Clients
  <2>4. \A j \in Initiators \ {i} : responders'[j] = responders[j]
    BY <1>4, ActorMoves, OthersStay DEF StepMoves
  <2> QED BY <1>2, <2>2, <2>3, <2>4
<1> QED BY <1>1, <1>3, <1>4

SendInv == OutboxInv /\ EarlyInv

LEMMA SendInvariant == Spec => []SendInv
<1>1. Init => SendInv
  <2> SUFFICES ASSUME Init PROVE SendInv
    OBVIOUS
  <2>1. \A i \in Initiators : Present(responders[i]) = {}
    BY DEF Init, InitInitiator, Present, NoResponder
  <2>2. OutboxInv
    BY Single, Clients DEF Init, InitCommon, OutboxInv
  <2> QED BY <2>1, <2>2 DEF SendInv, EarlyInv
<1>2. IInv /\ NumberInv /\ SendInv /\ [Next]_vars => SendInv'
  <2>1. ASSUME SendInv, UNCHANGED vars PROVE SendInv'
    BY <2>1, Clients DEF vars, commonVars, peerVars, SendInv, OutboxInv, EarlyInv
  <2> QED BY <2>1, NextGood, EarlyStep DEF SendInv
<1> QED BY <1>1, <1>2, Invariant, NumberInvariant, PTL DEF Spec

-----------------------------------------------------------------------------
(* The counter of the server never goes back, unless a new Server object   *)
(* takes its place, with a new cookie.                                     *)
Onward(i) == \E s : /\ srv' = [srv EXCEPT ![i] = s]
                    /\ s = NewServer \/ s.out >= srv[i].out

LEMMA ServerStays ==
  ASSUME IInv, NEW i \in Initiators, srv' = srv
  PROVE  Onward(i)
<1>1. srv' = [srv EXCEPT ![i] = srv[i]]
  BY Clients DEF IInv, ServerInv
<1>2. srv[i].out \in Nat
  BY ServerOut
<1>3. srv[i].out >= srv[i].out
  BY <1>2
<1> QED BY <1>1, <1>3 DEF Onward

LEMMA ServerRenewed ==
  ASSUME NEW i, srv' = [srv EXCEPT ![i] = NewServer]
  PROVE  Onward(i)
BY DEF Onward

LEMMA ServerAdvances ==
  ASSUME NEW i, NEW s, s.out >= srv[i].out, srv' = [srv EXCEPT ![i] = s]
  PROVE  Onward(i)
BY DEF Onward

(* Dropping responders only adds to it.                                    *)
LEMMA DropsCounted ==
  ASSUME IInv, NEW i \in Initiators, NEW s \in ServerObject, s.out = srv[i].out,
         NEW ids, ids \subseteq ResponderIds,
         srv' = [srv EXCEPT ![i] = [s EXCEPT !.out = @ + Cardinality(ids)]]
  PROVE  Onward(i)
<1> DEFINE new == [s EXCEPT !.out = @ + Cardinality(ids)]
<1>1. Cardinality(ids) \in Nat
  BY AddressAssumption, FS_Subset, FS_CardinalityType
<1>2. new.out >= srv[i].out
  BY <1>1, ServerOut DEF ServerObject
<1> HIDE DEF new
<1> QED BY <1>2, ServerAdvances DEF new

LEMMA HandshakeOnward ==
  ASSUME IInv, NEW i \in Initiators, NEW m, Incoming(i, m),
         HandleServerHello(i, m) \/ HandleServerAuth(i, m)
  PROVE  Onward(i)
<1>1. CASE HandleServerHello(i, m)
  <2> DEFINE new == [[srv[i] EXCEPT !.out = @ + Len(<<>>)]
                       EXCEPT !.hs = "auth-sent", !.out = @ + 1, !.in = m.csn, !.cookie = m.cookie]
  <2>1. i \notin Responders
    BY ClientAssumption
  <2>2. srv' = [srv EXCEPT ![i] = new]
    BY <1>1, <2>1 DEF HandleServerHello
  <2>3. new.out >= srv[i].out
    BY ServerOut DEF ServerObject
  <2> HIDE DEF new
  <2> QED BY <2>2, <2>3, ServerAdvances
<1>2. CASE HandleServerAuth(i, m)
  <2> DEFINE ids == m.body.responders
             surplus == IF Trusts(i) \/ Len(ids) <= Limit THEN 0 ELSE Len(ids) - Limit
             new == [srv[i] EXCEPT !.hs = "done", !.in = m.csn, !.out = @ + surplus]
  <2>1. m.type = "server-auth"
    BY <1>2 DEF HandleServerAuth, ServerAuthDone, AuthExpected
  <2>2. Len(ids) \in Nat /\ Limit \in Nat
    BY <2>1, Received, InitiatorAssumption DEF IsPacket
  <2>3. surplus \in Nat
    BY <2>2
  <2>4. srv' = [srv EXCEPT ![i] = new]
    BY <1>2 DEF HandleServerAuth
  <2> HIDE DEF surplus
  <2>5. new.out >= srv[i].out
    BY <2>3, ServerOut DEF ServerObject
  <2> HIDE DEF new
  <2> QED BY <2>4, <2>5, ServerAdvances
<1> QED BY <1>1, <1>2

LEMMA NoticeOnward ==
  ASSUME IInv, NEW i \in Initiators, NEW m, Incoming(i, m),
         \/ HandleNewResponder(i, m) \/ HandleSendError(i, m) \/ HandleDisconnected(i, m)
         \/ ServerAuthUndecryptable(i, m)
  PROVE  Onward(i)
<1>1. Heard(i, m).out = srv[i].out /\ Heard(i, m) \in ServerObject
  BY HeardType, ServerOut DEF Heard, ServerObject
<1>2. CASE srv' = [srv EXCEPT ![i] = Heard(i, m)]
  <2>1. srv[i].out \in Nat
    BY ServerOut
  <2>2. Heard(i, m).out >= srv[i].out
    BY <1>1, <2>1
  <2> QED BY <1>2, <2>2, ServerAdvances
<1>3. CASE srv' = [srv EXCEPT ![i] = [Heard(i, m) EXCEPT !.out = @ + 1]]
  <2> DEFINE new == [Heard(i, m) EXCEPT !.out = @ + 1]
  <2>1. new.out >= srv[i].out
    BY <1>1, ServerOut DEF ServerObject
  <2> HIDE DEF new
  <2> QED BY <1>3, <2>1, ServerAdvances DEF new
<1>4. CASE ProcessNewResponder(i, Heard(i, m), m.body) /\ m.body \in ResponderIds
  <2> DEFINE evicted == Evicted([responders[i] EXCEPT ![m.body] = NewResponder(i, m.body, counter[i] + 1)])
  <2>1. evicted \subseteq ResponderIds
    BY DEF Evicted, Present
  <2>2. srv' = [srv EXCEPT ![i] = [Heard(i, m) EXCEPT !.out = @ + Cardinality(evicted)]]
    BY <1>4 DEF ProcessNewResponder
  <2> HIDE DEF evicted
  <2> QED BY <1>1, <2>1, <2>2, DropsCounted
<1>5. CASE \E reason : ResetConnection(i, reason, <<>>)
  BY <1>5, ServerRenewed DEF ResetConnection, Reset
<1>6. CASE ServerAuthUndecryptable(i, m)
  <2>1. srv' = [srv EXCEPT ![i] = Heard(i, m)]
    BY <1>6 DEF ServerAuthUndecryptable, Heard
  <2> QED BY <1>2, <2>1
<1> QED BY <1>2, <1>3, <1>4, <1>5, <1>6
        DEF HandleNewResponder, HandleSendError, HandleDisconnected

LEMMA ErrorOnward ==
  ASSUME IInv, NEW i \in Initiators, NEW m, NEW code,
         OnSignalingError(i, m, code) \/ DropSource(i, m, code)
  PROVE  Onward(i)
<1>1. CASE \E reason, sent : ResetConnection(i, reason, sent)
  BY <1>1, ServerRenewed DEF ResetConnection, Reset
<1>2. CASE DropSource(i, m, code)
  <2> DEFINE s == IF m.src = 0 THEN StoreCsn(i, srv[i], m) ELSE srv[i]
             new == [s EXCEPT !.out = @ + 1]
  <2>1. new.out >= srv[i].out
    BY ServerOut DEF StoreCsn, ServerObject
  <2>2. srv' = [srv EXCEPT ![i] = new]
    BY <1>2 DEF DropSource
  <2> HIDE DEF new
  <2> QED BY <2>1, <2>2, ServerAdvances
<1> QED BY <1>1, <1>2 DEF OnSignalingError, CloseWithError

LEMMA ChoiceOnward ==
  ASSUME IInv, NEW i \in Initiators, NEW m, HandleAuth(i, m)
  PROVE  Onward(i)
<1> DEFINE others == Others(i, m)
<1>1. others \subseteq ResponderIds
  BY DEF Others, Present
<1>2. srv' = [srv EXCEPT ![i].out = @ + Cardinality(others)]
  BY DEF HandleAuth
<1> HIDE DEF others
<1>3. srv' = [srv EXCEPT ![i] = [srv[i] EXCEPT !.out = @ + Cardinality(others)]]
  BY <1>2
<1> QED BY <1>1, <1>3, ServerOut, DropsCounted

LEMMA ActorOnward ==
  ASSUME IInv, NEW i \in Initiators, Arrive(i) \/ InitiatorNext(i)
  PROVE  Onward(i)
<1> DEFINE m == Head(inbox[i])
<1>1. CASE srv' = srv
  BY <1>1, ServerStays
<1>2. CASE srv' = [srv EXCEPT ![i] = NewServer]
  BY <1>2, ServerRenewed
<1>3. CASE InitiatorOnMessage(i)
  <2>1. Incoming(i, m)
    BY <1>3 DEF InitiatorOnMessage, Incoming
  <2>2. \A code : OnSignalingError(i, m, code) \/ DropSource(i, m, code) => Onward(i)
    BY ErrorOnward
  <2>3. CASE HandlePeerMessage(i, m) \/ AfterPeerHandover(i)
    BY <1>1, <1>2, <2>3
       DEF HandlePeerMessage, PeerMessage, HandleClose, AfterPeerHandover, ResetConnection, Reset
  <2> HIDE DEF m
  <2> QED BY <1>1, <1>3, <2>1, <2>2, <2>3, HandshakeOnward, NoticeOnward, ChoiceOnward
          DEF InitiatorOnMessage, m, InvalidNonce, InvalidServerMessage, InvalidResponderMessage,
              CouldNotDecrypt, AuthWithOurCookie, HandleToken, HandleKey, KeyUndecryptable,
              IgnoreUnknown, PeerMessageUndecryptable
<1>4. CASE InitiatorHandover(i) \/ InitiatorSends(i)
  BY <1>1, <1>4 DEF InitiatorHandover, InitiatorSends, LocalHandover, SendApplication
<1> QED BY <1>1, <1>2, <1>3, <1>4
        DEF InitiatorNext, Arrive, Connect, Disconnect, OnOpen, CloseEvent, ServerCloses, ConnectionLost

LEMMA NextOnward ==
  ASSUME IInv, Next
  PROVE  \A j \in Initiators : srv'[j].out >= srv[j].out \/ srv'[j] = NewServer
<1>1. PICK i \in Initiators : Onward(i)
  BY ActorOnward DEF Next
<1>2. ASSUME NEW j \in Initiators
      PROVE  srv'[j].out >= srv[j].out \/ srv'[j] = NewServer
  <2>1. j \in Client /\ srv \in [Client -> ServerObject] /\ srv[j].out >= srv[j].out
    BY Clients, ServerOut DEF IInv, ServerInv
  <2> QED BY <1>1, <2>1 DEF Onward
<1> QED BY <1>2

(* Nor does that of a responder, whether it is in the map or chosen.       *)
LEMMA PeersOnward ==
  ASSUME IInv, NumberInv, Next, NEW j \in Initiators, NEW id \in ResponderIds,
         Peer(j, id).n # 0, PeerAfter(j, id).n = Peer(j, id).n
  PROVE  PeerAfter(j, id).out >= Peer(j, id).out
<1>1. PICK i \in Initiators : StepMoves(i)
  BY NextMoves
<1>2. PICK rs, l, ch : Moves(i, rs, l, ch)
  BY <1>1 DEF StepMoves
<1>3. id # 0
  BY AddressAssumption
<1> DEFINE old == responders[j]
<1>4. /\ \A a \in Present(old) : /\ old[a].n \in Nat \ {0} /\ old[a].n <= counter[j]
                                /\ Advances(old[a], old[a])
      /\ \A a, b \in Present(old) : old[a].n = old[b].n => a = b
      /\ counter[j] \in Nat /\ chosen[j].out >= chosen[j].out
      /\ chosen[j].n # 0 => Present(old) = {}
  <2>1. chosen[j].out \in Nat /\ counter[j] \in Nat
    BY Held DEF Responsible, ResponderObject
  <2>2. \A a \in Present(old) : /\ old[a].n \in Nat \ {0} /\ old[a].n <= counter[j]
                              /\ Advances(old[a], old[a])
    BY PresentObject DEF NumberInv, Numbered
  <2> QED BY <2>1, <2>2 DEF NumberInv, Numbered
<1>5. \/ Peer(j, id) = chosen[j] /\ chosen[j].id = id
      \/ Peer(j, id) = old[id] /\ id \in Present(old)
  BY <1>3 DEF Peer, Present
<1>6. CASE j # i
  <2>1. responders'[j] = old /\ chosen'[j] = chosen[j]
    BY <1>2, <1>6, OthersStay
  <2> QED BY <1>3, <1>4, <1>5, <2>1 DEF PeerAfter, Advances
<1>7. CASE j = i
  <2>1. responders'[j] = rs /\ chosen'[j] = ch
    BY <1>2, <1>7, OthersStay
  <2>2. PeerAfter(j, id) = IF ch.id = id THEN ch ELSE rs[id]
    BY <1>3, <2>1 DEF PeerAfter
  <2>3. Renumbered(old, counter[j], rs, l)
    BY <1>2, <1>7 DEF Moves
  <2> HIDE DEF old
  <2>4. CASE ch = chosen[j] /\ (ch.n # 0 => Present(rs) \subseteq Present(old))
    <3>1. CASE Peer(j, id) = chosen[j] /\ chosen[j].id = id
      BY <1>4, <2>2, <2>4, <3>1
    <3>2. CASE Peer(j, id) = old[id] /\ id \in Present(old)
      <4>1. PeerAfter(j, id) = rs[id] /\ id \in Present(rs) /\ rs[id].n = old[id].n
        BY <1>4, <2>2, <2>4, <3>2 DEF Present
      <4>2. Advances(old[id], rs[id])
        BY <1>4, <2>3, <3>2, <4>1 DEF Renumbered
      <4> QED BY <3>2, <4>1, <4>2 DEF Advances
    <3> QED BY <1>5, <3>1, <3>2
  <2>5. CASE Present(old) = {} /\ ch.id = chosen[j].id /\ ch.out >= chosen[j].out
    BY <1>5, <2>2, <2>5
  <2>6. CASE Chooses(old, ch) /\ Present(rs) = {}
    <3>1. PICK w \in Present(old) : ch.n = old[w].n /\ Advances(old[w], ch)
      BY <2>6 DEF Chooses
    <3>2. Peer(j, id) = old[id] /\ id \in Present(old)
      BY <1>4, <1>5, <3>1
    <3>3. PeerAfter(j, id) = ch
      BY <2>2, <2>6, <3>2 DEF Present
    <3>4. w = id
      BY <1>4, <3>1, <3>2, <3>3
    <3> QED BY <3>1, <3>2, <3>3, <3>4 DEF Advances
  <2> QED BY <1>2, <1>7, <2>4, <2>5, <2>6 DEF Moves, old
<1> QED BY <1>6, <1>7

(* No two packets to one peer object carry the same number, in one handler *)
(* (buildPacket, dropResponder) or in two: each is numbered above the      *)
(* counter of its object, under the cookie of that object, the counter     *)
(* moves to or past it in the same step, and never goes back.              *)
THEOREM NumbersUsedOnce == Spec => NonceNeverReused
<1>1. IInv /\ NumberInv /\ SendInv /\ [Next]_vars =>
        [\A i \in Initiators :
           /\ \A p, q \in SentNow(i) :
                /\ p.type # "ws-close" => SentAndCounted(i, p)
                /\ p # q => <<p.dst, p.csn>> # <<q.dst, q.csn>>
           /\ srv'[i].out >= srv[i].out \/ srv'[i] = NewServer
           /\ \A id \in ResponderIds :
                LET old == Peer(i, id)  new == PeerAfter(i, id)
                IN old.n # 0 /\ new.n = old.n => new.out >= old.out]_vars
  <2> SUFFICES ASSUME IInv, NumberInv, SendInv, Next, NEW i \in Initiators
               PROVE  /\ \A p, q \in SentNow(i) :
                           /\ p.type # "ws-close" => SentAndCounted(i, p)
                           /\ p # q => <<p.dst, p.csn>> # <<q.dst, q.csn>>
                      /\ srv'[i].out >= srv[i].out \/ srv'[i] = NewServer
                      /\ \A id \in ResponderIds :
                           Peer(i, id).n # 0 /\ PeerAfter(i, id).n = Peer(i, id).n =>
                             PeerAfter(i, id).out >= Peer(i, id).out
    OBVIOUS
  <2>1. Good(i, SentNow(i))
    BY NextGood DEF SendInv
  <2>2. ASSUME NEW p \in SentNow(i), NEW q \in SentNow(i)
        PROVE  /\ p.type # "ws-close" => SentAndCounted(i, p)
               /\ p # q => <<p.dst, p.csn>> # <<q.dst, q.csn>>
    <3>1. p.type # "ws-close" => SentAndCounted(i, p)
      BY <2>1 DEF Good, Fresh, Counted, LastCsn, SentAndCounted
    <3> QED BY <2>1, <3>1 DEF Good, Fresh
  <2> QED BY <2>2, NextOnward, PeersOnward
<1> QED BY <1>1, Invariant, NumberInvariant, SendInvariant, PTL DEF Spec, NonceNeverReused

(* No responder is removed without being dropped, chosen, reported gone or *)
(* replaced: whoever leaves the map is told, or is not there any more      *)
(* (dropResponders, processNewResponder, handleSendError).                 *)
THEOREM NobodyForgotten == Spec => NoResponderForgotten
<1>1. IInv /\ NumberInv /\ SendInv /\ [Next]_vars =>
        [\A i \in Initiators : \A id \in Present(responders[i]) :
           responders'[i][id].n # responders[i][id].n =>
             \/ chosen'[i].id = id /\ chosen'[i].n = responders[i][id].n
             \/ \E p \in SentNow(i) : p.type = "drop-responder" /\ p.body.id = id
             \/ Head(inbox[i]).type = "send-error" /\ Head(inbox[i]).body.dst = id
             \/ Head(inbox[i]).type = "new-responder" /\ Head(inbox[i]).body = id]_vars
  BY NextGood DEF SendInv, Good, Accounts
<1> QED BY <1>1, Invariant, NumberInvariant, SendInvariant, PTL DEF Spec, NoResponderForgotten

-----------------------------------------------------------------------------
(* As long as nobody is chosen, active responders only leave by their own  *)
(* fault or because the server says so.                                    *)
Spared(i) ==
  \A id \in Present(responders[i]) :
    responders'[i][id].n # responders[i][id].n =>
      \/ Head(inbox[i]).src = id
      \/ Head(inbox[i]).type = "send-error" /\ Head(inbox[i]).body.dst = id
      \/ Head(inbox[i]).type = "new-responder" /\ Head(inbox[i]).body = id
      \/ /\ responders[i][id].hs = "new"
         /\ \A o \in Present(responders[i]) :
              responders[i][o].hs = "new" /\ responders'[i][o].n = responders[i][o].n =>
                responders[i][id].n <= responders[i][o].n

LEMMA UnchangedSpared ==
  ASSUME NEW i, \A id \in Present(responders[i]) : responders'[i][id].n = responders[i][id].n
  PROVE  Spared(i)
BY DEF Spared

LEMMA RemovedSpared ==
  ASSUME IInv, NEW i \in Initiators, NEW gone,
         responders' = [responders EXCEPT ![i] = Without(@, {gone})],
         \/ Head(inbox[i]).src = gone
         \/ Head(inbox[i]).type = "send-error" /\ Head(inbox[i]).body.dst = gone
  PROVE  Spared(i)
<1>1. responders'[i] = Without(responders[i], {gone})
  BY Held
<1>2. \A id \in Present(responders[i]) :
         id # gone => responders'[i][id].n = responders[i][id].n
  BY <1>1 DEF Without, Present
<1> QED BY <1>2 DEF Spared

LEMMA NewResponderSpared ==
  ASSUME IInv, NumberInv, NEW i \in Initiators, NEW s, NEW new,
         Head(inbox[i]).type = "new-responder", Head(inbox[i]).body = new,
         new \in ResponderIds, ProcessNewResponder(i, s, new)
  PROVE  Spared(i)
<1> DEFINE old == responders[i]
           peer == NewResponder(i, new, counter[i] + 1)
           added == [old EXCEPT ![new] = peer]
           evicted == Evicted(added)
<1>1. old \in [ResponderIds -> ResponderObject] /\ counter[i] \in Nat
  BY Held
<1>2. responders'[i] = Without(added, evicted)
  BY Held DEF ProcessNewResponder
<1>3. peer.n = counter[i] + 1
  BY DEF NewResponder, NoResponder
<1> HIDE DEF peer
<1>4. \A id \in ResponderIds : added[id] = IF id = new THEN peer ELSE old[id]
  BY <1>1
<1> HIDE DEF added
<1>5. \A id \in evicted : /\ added[id].hs = "new"
                         /\ \A o \in Present(added) :
                              added[o].hs = "new" => added[id].n <= added[o].n
  BY DEF Evicted
<1> HIDE DEF evicted
<1>6. \A id \in ResponderIds :
         responders'[i][id] = IF id \in evicted THEN NoResponder ELSE added[id]
  BY <1>2 DEF Without
<1>7. \A id \in Present(old) : /\ id \in ResponderIds /\ old[id].n \in Nat \ {0}
                              /\ old[id].n <= counter[i]
  BY PresentObject DEF NumberInv, Numbered
<1> HIDE DEF old
<1>8. ASSUME NEW id \in Present(old), responders'[i][id].n # old[id].n, id # new
      PROVE  /\ old[id].hs = "new"
             /\ \A o \in Present(old) :
                  old[o].hs = "new" /\ responders'[i][o].n = old[o].n => old[id].n <= old[o].n
  <2>1. id \in evicted /\ added[id] = old[id]
    BY <1>4, <1>6, <1>7, <1>8
  <2>2. ASSUME NEW o \in Present(old), old[o].hs = "new", responders'[i][o].n = old[o].n
        PROVE  old[id].n <= old[o].n
    <3>1. o # new
      BY <1>1, <1>3, <1>4, <1>6, <1>7, <2>2 DEF NoResponder
    <3>2. added[o] = old[o] /\ o \in Present(added)
      BY <1>4, <1>7, <3>1 DEF Present
    <3> QED BY <1>5, <2>1, <2>2, <3>2
  <2> QED BY <1>5, <2>1, <2>2
<1> QED BY <1>8 DEF Spared, old

LEMMA OnMessageSpared ==
  ASSUME IInv, NumberInv, NEW i \in Initiators, InitiatorOnMessage(i),
         conn[i].state = "peer-handshake", conn'[i].state = "peer-handshake"
  PROVE  Spared(i)
<1> DEFINE m == Head(inbox[i])
<1>1. Incoming(i, m)
  BY DEF InitiatorOnMessage, Incoming
<1>2. CASE HandleNewResponder(i, m)
  BY <1>2, NewResponderSpared DEF HandleNewResponder, FromServer, ServerMessage
<1>3. CASE HandleSendError(i, m)
  BY <1>3, RemovedSpared DEF HandleSendError, FromServer, ServerMessage
<1> HIDE DEF m
<1>4. CASE HandleToken(i, m) \/ HandleKey(i, m) \/ KeyUndecryptable(i, m)
  <2>1. m.src \in ResponderIds /\ Saved(i, m).n = responders[i][m.src].n
        /\ Saved(i, m) \in ResponderObject
    BY <1>1, <1>4, FromResponderFacts DEF HandleToken, HandleKey, KeyUndecryptable
  <2>2. \E peer : /\ peer.n = responders[i][m.src].n
                  /\ responders' = [responders EXCEPT ![i][m.src] = peer]
    <3> DEFINE token == [Saved(i, m) EXCEPT !.hs = "token-received", !.perm = PermanentKey(m.body)]
               key == [Saved(i, m) EXCEPT !.hs = "key-sent", !.out = @ + 1,
                                          !.sess = SessionKey(<<i, Saved(i, m).n>>, m.body)]
    <3>1. token.n = responders[i][m.src].n /\ key.n = responders[i][m.src].n
      BY <2>1 DEF ResponderObject
    <3>2. \/ responders' = [responders EXCEPT ![i][m.src] = token]
          \/ responders' = [responders EXCEPT ![i][m.src] = key]
          \/ responders' = [responders EXCEPT ![i][m.src] = Saved(i, m)]
      BY <1>4 DEF HandleToken, HandleKey, KeyUndecryptable
    <3> HIDE DEF token, key
    <3> QED BY <2>1, <3>1, <3>2
  <2> QED BY <2>1, <2>2, SameNumber, UnchangedSpared
<1>5. CASE \E reason : DropSource(i, m, reason)
  BY <1>5, RemovedSpared DEF DropSource, m
<1>6. CASE responders' = responders
  BY <1>6, UnchangedSpared
<1>7. ~HandleServerAuth(i, m)
  BY DEF HandleServerAuth, ServerAuthDone, ServerHandshake
<1>8. ~HandleAuth(i, m)
  <2>1. conn \in [Client -> ConnRecord] /\ i \in Client
    BY Clients DEF IInv, ConnInv
  <2>2. conn' = [conn EXCEPT ![i].state = "task"] => conn'[i].state = "task"
    BY <2>1 DEF ConnRecord
  <2> QED BY <2>2 DEF HandleAuth
<1>9. \A code : OnSignalingError(i, m, code) => DropSource(i, m, code)
  BY DEF OnSignalingError, CloseWithError
<1> QED BY <1>2, <1>3, <1>4, <1>5, <1>6, <1>7, <1>8, <1>9
        DEF InitiatorOnMessage, m, peerVars, InvalidNonce, InvalidServerMessage,
            InvalidResponderMessage, CouldNotDecrypt, AuthWithOurCookie, HandleDisconnected,
            IgnoreUnknown, HandlePeerMessage, PeerMessageUndecryptable

(* Only the oldest responder that has sent nothing valid makes room for    *)
(* others (dropOldestInactiveResponder).                                   *)
THEOREM ActiveOnesStay == Spec => OnlyInactiveEvicted
<1>1. IInv /\ NumberInv /\ [Next]_vars =>
        [\A i \in Initiators :
           conn[i].state = "peer-handshake" /\ conn'[i].state = "peer-handshake" => Spared(i)]_vars
  <2> SUFFICES ASSUME IInv, NumberInv, Next, NEW j \in Initiators,
                      conn[j].state = "peer-handshake", conn'[j].state = "peer-handshake"
               PROVE  Spared(j)
    OBVIOUS
  <2>1. PICK i \in Initiators : Arrive(i) \/ InitiatorNext(i)
    BY DEF Next
  <2>2. CASE responders' = responders
    BY <2>2, UnchangedSpared
  <2>3. CASE InitiatorOnMessage(i)
    <3>1. CASE j = i
      BY <2>3, <3>1, OnMessageSpared
    <3>2. CASE j # i
      <4>1. StepMoves(i)
        BY <2>1, ActorMoves
      <4>2. responders'[j] = responders[j]
        BY <3>2, <4>1, OthersStay DEF StepMoves
      <4> QED BY <4>2, UnchangedSpared
    <3> QED BY <3>1, <3>2
  <2> QED BY <2>1, <2>2, <2>3
          DEF Arrive, InitiatorNext, peerVars, InitiatorHandover, InitiatorSends
<1> QED BY <1>1, Invariant, NumberInvariant, PTL DEF Spec, OnlyInactiveEvicted, Spared

(* The task that is announced is the one that is kept, and the responder   *)
(* it is announced to has offered it (handleAuth, chooseCommonTask).       *)
THEOREM TaskOffered == Spec => TaskIsCommon
<1>1. IInv /\ NumberInv /\ SendInv /\ [Next]_vars =>
        [\A i \in Initiators : \A p \in SentNow(i) :
           p.type = "auth" => /\ p.body.task = task'[i]
                              /\ task'[i] \in Head(inbox[i]).body.tasks]_vars
  BY NextGood DEF SendInv, Good, Announces
<1> QED BY <1>1, Invariant, NumberInvariant, SendInvariant, PTL DEF Spec, TaskIsCommon

-----------------------------------------------------------------------------
(* An initiator without a trusted key never holds more than Limit          *)
(* responders.  With one it may: finding `trusted_bound`.                  *)


Bounded(rs) == Cardinality(Present(rs)) <= Limit

LEMMA Count ==
  ASSUME NEW rs
  PROVE  /\ Present(rs) \subseteq ResponderIds /\ IsFiniteSet(Present(rs))
         /\ Cardinality(Present(rs)) \in Nat
<1>1. Present(rs) \subseteq ResponderIds
  BY DEF Present
<1> QED BY <1>1, AddressesFinite

(* A map whose entries were all in another one is not larger.              *)
LEMMA Fewer ==
  ASSUME NEW rs, NEW old, Present(rs) \subseteq Present(old), Bounded(old)
  PROVE  Bounded(rs)
<1>1. Cardinality(Present(rs)) <= Cardinality(Present(old))
  BY Count, FS_Subset
<1>2. Limit \in Nat
  BY InitiatorAssumption
<1> QED BY <1>1, <1>2, Count DEF Bounded

(* If there are too many, the oldest of the new ones goes.                 *)
LEMMA SomebodyGoes ==
  ASSUME NEW rs \in [ResponderIds -> ResponderObject], Cardinality(Present(rs)) > Limit,
         NEW id \in Present(rs), rs[id].hs = "new"
  PROVE  \E w \in Present(rs) : w \in Evicted(rs)
<1> DEFINE fresh == {o \in Present(rs) : rs[o].hs = "new"}
           ages == {rs[o].n : o \in fresh}
<1>1. ages \in SUBSET Nat
  BY DEF Present, ResponderObject
<1>2. ages # {}
  OBVIOUS
<1>3. PICK k \in ages : \A j \in ages : k <= j
  BY <1>1, <1>2, Smallest
<1>4. PICK w \in fresh : rs[w].n = k
  OBVIOUS
<1>5. \A o \in Present(rs) : rs[o].hs = "new" => rs[w].n <= rs[o].n
  BY <1>3, <1>4
<1> QED BY <1>4, <1>5 DEF Evicted

LEMMA ProcessNewResponderBounded ==
  ASSUME IInv, NEW i \in Initiators, ~Trusts(i), Bounded(responders[i]),
         NEW id \in ResponderIds, NEW s, ProcessNewResponder(i, s, id)
  PROVE  Bounded(responders'[i])
<1> DEFINE new == NewResponder(i, id, counter[i] + 1)
           added == [responders[i] EXCEPT ![id] = new]
           rs == Without(added, Evicted(added))
<1>1. responders[i] \in [ResponderIds -> ResponderObject] /\ counter[i] \in Nat
  BY Held
<1>2. new \in ResponderObject /\ new.n # 0 /\ new.hs = "new"
  <2>1. new \in ResponderObject
    BY <1>1, NewResponderType
  <2>2. new.n = counter[i] + 1 /\ new.hs = "new"
    BY DEF NewResponder, NoResponder
  <2> QED BY <1>1, <2>1, <2>2
<1>3. responders'[i] = rs
  BY Held DEF ProcessNewResponder
<1> HIDE DEF new
<1>4. /\ added \in [ResponderIds -> ResponderObject]
      /\ Present(added) \subseteq Present(responders[i]) \cup {id}
      /\ id \in Present(added) /\ added[id].hs = "new"
  BY <1>1, <1>2 DEF Present
<1> HIDE DEF added
<1>5. Present(rs) \subseteq Present(added) \ Evicted(added)
  <2>1. NoResponder.n = 0
    BY DEF NoResponder
  <2> QED BY <2>1 DEF Without, Present
<1> HIDE DEF rs
<1>6. Limit \in Nat
  BY InitiatorAssumption
<1>7. CASE Cardinality(Present(added)) <= Limit
  BY <1>3, <1>5, <1>7, Fewer DEF Bounded
<1>8. CASE Cardinality(Present(added)) > Limit
  <2>1. PICK w \in Present(added) : w \in Evicted(added)
    BY <1>4, <1>8, SomebodyGoes
  <2>2. Cardinality(Present(added)) <= Limit + 1
    <3> DEFINE before == Present(responders[i])
    <3>1. IsFiniteSet(before) /\ Cardinality(before) \in Nat /\ Cardinality(before) <= Limit
      BY Count DEF Bounded
    <3> HIDE DEF before
    <3>2. /\ IsFiniteSet(before \cup {id})
          /\ Cardinality(before \cup {id}) =
               IF id \in before THEN Cardinality(before) ELSE Cardinality(before) + 1
      BY <3>1, FS_AddElement
    <3>3. Cardinality(Present(added)) <= Cardinality(before \cup {id})
      BY <1>4, <3>2, FS_Subset DEF before
    <3> QED BY <1>6, <3>1, <3>2, <3>3, Count
  <2>3. /\ IsFiniteSet(Present(added) \ {w})
        /\ Cardinality(Present(added) \ {w}) = Cardinality(Present(added)) - 1
    BY <2>1, Count, FS_RemoveElement
  <2>4. Present(rs) \subseteq Present(added) \ {w}
    BY <1>5, <2>1
  <2>5. Cardinality(Present(rs)) <= Cardinality(Present(added) \ {w})
    BY <2>3, <2>4, FS_Subset
  <2> QED BY <1>3, <1>6, <2>2, <2>3, <2>5, Count DEF Bounded
<1> QED BY <1>6, <1>7, <1>8, Count

(* Of the list of server-auth at most the last Limit entries are stored.   *)
LEMMA HandleServerAuthBounded ==
  ASSUME IInv, NEW i \in Initiators, ~Trusts(i), NEW m, Incoming(i, m), HandleServerAuth(i, m)
  PROVE  Bounded(responders'[i])
<1> DEFINE ids == m.body.responders
           surplus == IF Len(ids) <= Limit THEN 0 ELSE Len(ids) - Limit
           kept == {k \in 1 .. Len(ids) : k > surplus}
           entry(id) == CHOOSE k \in kept : ids[k] = id
           rs == [id \in ResponderIds |->
                    IF \E k \in kept : ids[k] = id
                    THEN NewResponder(i, id, counter[i] + entry(id)) ELSE NoResponder]
           f == [id \in Present(rs) |-> entry(id)]
<1>1. responders'[i] = rs
  BY Held DEF HandleServerAuth
<1>2. Len(ids) \in Nat /\ Limit \in Nat
  <2>1. m.type = "server-auth"
    BY DEF HandleServerAuth, ServerAuthDone, AuthExpected
  <2>2. ids \in Seq(ResponderIds)
    BY <2>1, Received DEF IsPacket
  <2> QED BY <2>2, InitiatorAssumption
<1>3. kept = surplus + 1 .. Len(ids) /\ surplus \in Nat
  BY <1>2
<1>4. IsFiniteSet(kept) /\ Cardinality(kept) <= Limit /\ Cardinality(kept) \in Nat
  <2>1. surplus + 1 \in Int /\ Len(ids) \in Int /\ Len(ids) - surplus <= Limit
    BY <1>2, <1>3
  <2>2. /\ IsFiniteSet(surplus + 1 .. Len(ids))
        /\ Cardinality(surplus + 1 .. Len(ids)) =
             IF surplus + 1 > Len(ids) THEN 0 ELSE Len(ids) - (surplus + 1) + 1
    BY <2>1, FS_Interval
  <2> HIDE DEF kept, surplus
  <2>3. IsFiniteSet(kept) /\ Cardinality(kept) <= Limit
    BY <1>2, <1>3, <2>1, <2>2
  <2> QED BY <2>3, FS_CardinalityType
<1>5. \A id \in Present(rs) : \E k \in kept : ids[k] = id
  <2>1. NoResponder.n = 0
    BY DEF NoResponder
  <2> QED BY <2>1 DEF Present
<1> HIDE DEF rs, kept
<1>6. \A id \in Present(rs) : entry(id) \in kept /\ ids[entry(id)] = id
  BY <1>5
<1>7. f \in Injection(Present(rs), kept)
  <2> HIDE DEF entry
  <2> QED BY <1>6 DEF Injection, IsInjective
<1>8. Cardinality(Present(rs)) <= Cardinality(kept)
  BY <1>4, <1>7, FS_Injection
<1> QED BY <1>1, <1>2, <1>4, <1>8, Count DEF Bounded

-----------------------------------------------------------------------------
(* Every other step stores no responder, and concerns one initiator only.  *)
Shrinks(i) == \E rs : /\ responders' = [responders EXCEPT ![i] = rs]
                      /\ Present(rs) \subseteq Present(responders[i])

LEMMA MapKept ==
  ASSUME IInv, NEW i \in Initiators, responders' = responders
  PROVE  Shrinks(i)
<1>1. responders' = [responders EXCEPT ![i] = responders[i]]
  BY Held
<1> QED BY <1>1 DEF Shrinks

LEMMA SomeForgotten ==
  ASSUME IInv, NEW i \in Initiators, NEW ids,
         responders' = [responders EXCEPT ![i] = Without(responders[i], ids)]
  PROVE  Shrinks(i)
<1>1. Present(Without(responders[i], ids)) \subseteq Present(responders[i])
  BY Held, WithoutType DEF Sessions
<1> QED BY <1>1 DEF Shrinks

LEMMA ObjectChanged ==
  ASSUME IInv, NEW i \in Initiators, NEW id \in ResponderIds, NEW peer,
         peer.n = responders[i][id].n, responders' = [responders EXCEPT ![i][id] = peer]
  PROVE  Shrinks(i)
<1> DEFINE rs == [responders[i] EXCEPT ![id] = peer]
<1>1. responders' = [responders EXCEPT ![i] = rs]
  OBVIOUS
<1>2. Present(rs) \subseteq Present(responders[i])
  BY Held DEF Present
<1> HIDE DEF rs
<1> QED BY <1>1, <1>2 DEF Shrinks

LEMMA ResponderMessageShrinks ==
  ASSUME IInv, NEW i \in Initiators, NEW m, Incoming(i, m),
         HandleToken(i, m) \/ HandleKey(i, m) \/ KeyUndecryptable(i, m)
  PROVE  Shrinks(i)
<1> DEFINE saved == Saved(i, m)
<1>1. /\ m.src \in ResponderIds /\ saved \in ResponderObject
      /\ saved.n = responders[i][m.src].n
  BY FromResponderFacts DEF HandleToken, HandleKey, KeyUndecryptable
<1>2. \E peer : peer.n = saved.n /\ responders' = [responders EXCEPT ![i][m.src] = peer]
  <2>1. CASE HandleToken(i, m)
    <3> DEFINE peer == [saved EXCEPT !.hs = "token-received", !.perm = PermanentKey(m.body)]
    <3>1. peer.n = saved.n
      BY <1>1 DEF ResponderObject
    <3> HIDE DEF saved
    <3> QED BY <2>1, <3>1 DEF HandleToken, saved
  <2>2. CASE HandleKey(i, m)
    <3> DEFINE peer == [saved EXCEPT !.hs = "key-sent", !.out = @ + 1,
                                     !.sess = SessionKey(<<i, saved.n>>, m.body)]
    <3>1. peer.n = saved.n
      BY <1>1 DEF ResponderObject
    <3>2. responders' = [responders EXCEPT ![i][m.src] = peer]
      BY <2>2 DEF HandleKey
    <3> HIDE DEF peer
    <3> QED BY <3>1, <3>2
  <2>3. CASE KeyUndecryptable(i, m)
    BY <2>3 DEF KeyUndecryptable
  <2> QED BY <2>1, <2>2, <2>3
<1> HIDE DEF saved
<1> QED BY <1>1, <1>2, ObjectChanged

LEMMA DropSourceShrinks ==
  ASSUME IInv, NEW i \in Initiators, NEW m, NEW reason, DropSource(i, m, reason)
  PROVE  Shrinks(i)
<1>1. responders' = [responders EXCEPT ![i] = Without(responders[i], {m.src})]
  BY Held DEF DropSource
<1> QED BY <1>1, SomeForgotten

LEMMA SignalingErrorShrinks ==
  ASSUME IInv, NEW i \in Initiators, NEW m, NEW code, OnSignalingError(i, m, code)
  PROVE  Shrinks(i)
BY DropSourceShrinks, MapKept DEF OnSignalingError, CloseWithError, peerVars

LEMMA OnMessageBounded ==
  ASSUME IInv, NEW i \in Initiators, ~Trusts(i), Bounded(responders[i]), InitiatorOnMessage(i)
  PROVE  \/ Shrinks(i)
         \/ /\ responders' = [responders EXCEPT ![i] = responders'[i]]
            /\ Bounded(responders'[i])
<1> DEFINE m == Head(inbox[i])
<1>1. Incoming(i, m)
  BY DEF InitiatorOnMessage, Incoming
<1> HIDE DEF m
<1>2. CASE HandleServerAuth(i, m)
  <2>1. responders' = [responders EXCEPT ![i] = responders'[i]]
    BY <1>2, Held DEF HandleServerAuth
  <2> QED BY <1>1, <1>2, <2>1, HandleServerAuthBounded
<1>3. CASE \E id \in ResponderIds : ProcessNewResponder(i, Heard(i, m), id)
  <2>1. responders' = [responders EXCEPT ![i] = responders'[i]]
    BY <1>3, Held DEF ProcessNewResponder
  <2> QED BY <1>3, <2>1, ProcessNewResponderBounded
<1>4. CASE HandleToken(i, m) \/ HandleKey(i, m) \/ KeyUndecryptable(i, m)
  BY <1>1, <1>4, ResponderMessageShrinks
<1>5. CASE \E ids : responders' = [responders EXCEPT ![i] = Without(@, ids)]
  BY <1>5, SomeForgotten
<1>6. CASE responders' = responders
  BY <1>6, MapKept
<1>7. CASE InvalidNonce(i, m) \/ InvalidServerMessage(i, m) \/ InvalidResponderMessage(i, m)
  BY <1>7, SignalingErrorShrinks DEF InvalidNonce, InvalidServerMessage, InvalidResponderMessage
<1>8. CASE CouldNotDecrypt(i, m) \/ AuthWithOurCookie(i, m)
  BY <1>8, DropSourceShrinks DEF CouldNotDecrypt, AuthWithOurCookie
<1>9. HandleNewResponder(i, m) \/ HandleSendError(i, m) \/ HandleAuth(i, m) =>
        \/ \E id \in ResponderIds : ProcessNewResponder(i, Heard(i, m), id)
        \/ \E ids : responders' = [responders EXCEPT ![i] = Without(@, ids)]
        \/ responders' = responders
  BY DEF HandleNewResponder, HandleSendError, HandleAuth, peerVars
<1> QED BY <1>2, <1>3, <1>4, <1>5, <1>6, <1>7, <1>8, <1>9
        DEF InitiatorOnMessage, m, peerVars, HandleDisconnected, IgnoreUnknown,
            HandlePeerMessage, PeerMessageUndecryptable

LEMMA NextBounded ==
  ASSUME IInv, \A i \in Initiators : ~Trusts(i), BoundedResponders, Next
  PROVE  BoundedResponders'
<1>1. PICK i \in Initiators : Arrive(i) \/ InitiatorNext(i)
  BY DEF Next
<1>2. Bounded(responders[i])
  BY DEF BoundedResponders, Bounded
<1>3. \/ Shrinks(i)
      \/ /\ responders' = [responders EXCEPT ![i] = responders'[i]]
         /\ Bounded(responders'[i])
  <2>1. CASE InitiatorOnMessage(i)
    BY <1>2, <2>1, OnMessageBounded
  <2>2. CASE responders' = responders
    BY <2>2, MapKept
  <2> QED BY <1>1, <2>1, <2>2
          DEF Arrive, InitiatorNext, InitiatorHandover, InitiatorSends, peerVars
<1>4. PICK rs : responders' = [responders EXCEPT ![i] = rs] /\ Bounded(rs)
  <2>1. CASE Shrinks(i)
    <3>1. PICK rs : /\ responders' = [responders EXCEPT ![i] = rs]
                    /\ Present(rs) \subseteq Present(responders[i])
      BY <2>1 DEF Shrinks
    <3> QED BY <1>2, <3>1, Fewer
  <2>2. CASE responders' = [responders EXCEPT ![i] = responders'[i]] /\ Bounded(responders'[i])
    BY <2>2
  <2> QED BY <1>3, <2>1, <2>2
<1>5. ASSUME NEW j \in Initiators PROVE Bounded(responders'[j])
  <2>1. CASE j = i
    <3>1. responders'[j] = rs
      BY <1>4, <2>1, Held
    <3> QED BY <1>4, <3>1
  <2>2. CASE j # i
    <3>1. responders'[j] = responders[j]
      BY <1>4, <2>2, Held
    <3>2. Bounded(responders[j])
      BY DEF BoundedResponders, Bounded
    <3> QED BY <3>1, <3>2
  <2> QED BY <2>1, <2>2
<1> QED BY <1>5 DEF BoundedResponders, Bounded

(* However many responders connect and whatever they send, an initiator    *)
(* without a trusted key keeps at most Limit of them                       *)
(* (processNewResponder, dropOldestInactiveResponder).                     *)
THEOREM AtMostLimit ==
  ASSUME \A i \in Initiators : ~Trusts(i)
  PROVE  Spec => []BoundedResponders
<1>1. Init => BoundedResponders
  <2> SUFFICES ASSUME Init, NEW i \in Initiators PROVE Cardinality(Present(responders[i])) <= Limit
    BY DEF BoundedResponders
  <2>1. Present(responders[i]) = {}
    BY DEF Init, InitInitiator, Present, NoResponder
  <2>2. Cardinality(Present(responders[i])) = 0
    BY <2>1, FS_EmptySet
  <2> QED BY <2>2, InitiatorAssumption
<1>2. BoundedResponders /\ IInv /\ [Next]_vars => BoundedResponders'
  <2> SUFFICES ASSUME BoundedResponders, IInv, [Next]_vars PROVE BoundedResponders'
    OBVIOUS
  <2>1. CASE Next
    BY <2>1, NextBounded
  <2>2. CASE UNCHANGED vars
    BY <2>2 DEF vars, peerVars, BoundedResponders
  <2> QED BY <2>1, <2>2
<1> QED BY <1>1, <1>2, Invariant, PTL DEF Spec
=============================================================================
