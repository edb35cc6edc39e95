--------------------------- MODULE InitiatorAlone ---------------------------
(***************************************************************************)
(* One initiator against everything its WebSocket can deliver: any type of *)
(* message from any address, with a nonce and a key that are right or wrong *)
(* in one respect, at any time; the application and the task call it       *)
(* between any two messages.  The next frame arrives when the last one was *)
(* dispatched, and what the initiator sent by then has left it.            *)
(***************************************************************************)
EXTENDS Initiator, TLC

CONSTANTS
  MaxServerCsn,  \* bound: messages accepted from the server
  MaxPeerCsn,    \* bound: messages accepted from one Responder object
  MaxOut         \* bound: messages sent to the server, or to the chosen
                 \* responder, before the last step

ASSUME BoundAssumption == {MaxServerCsn, MaxPeerCsn, MaxOut} \subseteq Nat

vars == <<commonVars, peerVars>>

-----------------------------------------------------------------------------
(* The packets that can arrive.                                            *)

MaxCsn(src) == IF src = 0 THEN MaxServerCsn ELSE MaxPeerCsn

ForeignCookies == {<<NoPeer, 0>>, <<NoPeer, 1>>}
ForeignKey == <<"foreign", {}>>

(* A packet with the header the initiator waits for.  From an address it   *)
(* knows nothing about, anything is as good.                               *)
Expected(i, src, key, type, body) ==
  LET peer == IF src = 1 THEN NoResponder ELSE Peer(i, src)
  IN [src |-> src,
      dst |-> IF conn[i].state = "server-handshake" /\ srv[i].hs = "new" THEN 0 ELSE 1,
      csn |-> peer.in + 1,
      cookie |-> IF peer.cookie = NoCookie THEN <<NoPeer, 0>> ELSE peer.cookie,
      key |-> key, type |-> type, body |-> body]

ServerLists == {<<>>} \cup {<<a>> : a \in ResponderIds}
               \cup {<<p[1], p[2]>> : p \in {q \in ResponderIds \X ResponderIds : q[1] # q[2]}}

ServerContents(i) ==
  {<<"server-hello", NoTask>>}
  \cup {<<"server-auth", [cookie |-> k, responders |-> l]>> :
          k \in {OurCookie(i, srv[i]), <<NoPeer, 0>>}, l \in ServerLists}
  \cup {<<"new-responder", id>> : id \in ResponderIds \cup {1}}
  \cup {<<"send-error", [src |-> s, dst |-> d]>> : s \in {0, 1}, d \in Address}
  \cup {<<"disconnected", id>> : id \in ResponderIds}
  \cup {<<"unknown", NoTask>>}

PeerContents(i, src) ==
  {<<"token", r>> : r \in Responders}
  \cup {<<"key", <<r, 1>>>> : r \in Responders}
  \cup {<<"auth", [cookie |-> k, tasks |-> t]>> :
          k \in {OurCookie(i, Peer(i, src)), <<NoPeer, 0>>}, t \in SUBSET TaskNames}
  \cup {<<type, NoTask>> : type \in {"close", "application", "handover", "unknown"}}

(* The key the initiator tries on the next packet from this address.       *)
ExpectedKey(i, src) ==
  IF src = 0 THEN IF srv[i].hs = "new" THEN Plain ELSE ServerKey(i)
  ELSE LET peer == Peer(i, src) IN
       IF peer.hs = "new" THEN TokenKey(i)
       ELSE IF peer.hs = "token-received" THEN peer.perm ELSE peer.sess

WellEncrypted(i) ==
  {Expected(i, 0, ExpectedKey(i, 0), c[1], c[2]) : c \in ServerContents(i)}
  \cup UNION {{Expected(i, id, ExpectedKey(i, id), c[1], c[2]) : c \in PeerContents(i, id)} :
               id \in (Present(responders[i]) \cup {chosen[i].id}) \ {0}}

(* Nothing that does not decrypt has a content.                            *)
Undecryptable(i) == {Expected(i, src, ForeignKey, "unknown", NoTask) : src \in Address}

(* The nonce is wrong in one respect, or has our own cookie.               *)
Deviating(i) ==
  LET any(src) == Expected(i, src, ForeignKey, "unknown", NoTask)
  IN {[any(src) EXCEPT !.dst = 2] : src \in Address \ {1}}
     \cup {[any(src) EXCEPT !.csn = @ - 1] : src \in Address \ {1}}
     \cup {[m EXCEPT !.csn = @ - 1] : m \in {n \in WellEncrypted(i) : n.type \in {"token", "key", "auth"}}}
     \cup {[any(src) EXCEPT !.cookie = k] : src \in Address \ {1}, k \in ForeignCookies}
     \cup {[m EXCEPT !.cookie = OurCookie(i, Peer(i, m.src))] :
             m \in {n \in WellEncrypted(i) : n.type \in {"server-hello", "auth"}}}

Arrivals(i) ==
  {m \in WellEncrypted(i) \cup Undecryptable(i) \cup Deviating(i) : m.csn <= MaxCsn(m.src)}
  \cup {CloseFrame(code) : code \in {GoingAway, DroppedByInitiator}}

Arrive(i) ==
  /\ conn[i].socket = "open"
  /\ inbox[i] = <<>>
  /\ srv[i].out < MaxOut
  /\ \E m \in Arrivals(i) : inbox' = [inbox EXCEPT ![i] = <<m>>]
  /\ outbox' = [outbox EXCEPT ![i] = <<>>]
  /\ UNCHANGED <<conn, srv, handover, task, addr, peerVars>>

-----------------------------------------------------------------------------
Init == InitCommon /\ InitInitiator

InitiatorNext(i) ==
  \/ /\ \/ Connect(i)
        \/ \E unbind \in BOOLEAN : Disconnect(i, unbind)
        \/ OnOpen(i) /\ UNCHANGED inbox
        \/ CloseEvent(i)
        \/ ServerCloses(i)
        \/ ConnectionLost(i)
     /\ UNCHANGED peerVars
  \/ InitiatorOnMessage(i)
  \/ chosen[i].out < MaxOut /\ (InitiatorHandover(i) \/ InitiatorSends(i))

Next == \E i \in Initiators : Arrive(i) \/ InitiatorNext(i)

Spec == Init /\ [][Next]_vars

-----------------------------------------------------------------------------
(* Types.                                                                  *)

ResponderObject ==
  [id : {0} \cup ResponderIds, n : Nat, hs : {"new", "token-received", "key-sent", "auth-sent"},
   out : Nat, in : Nat, cookie : Cookie, perm : Key, sess : Key]

(* What is assumed of an arriving frame: the fields its type promises.     *)
IsPacket(m) ==
  /\ m.csn \in Nat
  /\ m.type # "ws-close" => m.cookie \in Name
  /\ m.type = "token" => m.body \in Responders
  /\ m.type = "key" => m.body \in Name
  /\ m.type = "server-auth" => m.body.responders \in Seq(ResponderIds)
  /\ m.type = "ws-close" => m.body \in CloseCode \ {Handover}

(* Every variable has its type; at most one frame waits.                   *)
TypeOK ==
  /\ CommonTypeOK
  /\ inbox = [c \in Client |-> inbox[c]]
  /\ \A i \in Initiators :
       inbox[i] = <<>> \/ (inbox[i] = <<Head(inbox[i])>> /\ IsPacket(Head(inbox[i])))
  /\ responders \in [Initiators -> [ResponderIds -> ResponderObject]]
  /\ counter \in [Initiators -> Nat]
  /\ chosen \in [Initiators -> ResponderObject]

-----------------------------------------------------------------------------
(* Safety.                                                                 *)

(* In state `task` exactly one responder is left, it has completed its own *)
(* handshake on its own Responder object (our session key, its cookie),    *)
(* and the task is one of ours; before, none has been chosen.              *)
ChosenInv ==
  \A i \in Initiators :
    /\ conn[i].state = "task" =>
         /\ Present(responders[i]) = {}
         /\ chosen[i].hs = "auth-sent"
         /\ chosen[i].cookie \notin {NoCookie, OurCookie(i, chosen[i])}
         /\ chosen[i].sess[1] = "session" /\ <<i, chosen[i].n>> \in chosen[i].sess[2]
         /\ task[i] # NoTask
    /\ conn[i].state \in {"server-handshake", "peer-handshake"} => chosen[i] = NoResponder

(* At most Limit responders are held, however many connect and however far *)
(* their handshakes are.                                                   *)
BoundedResponders == \A i \in Initiators : Cardinality(Present(responders[i])) <= Limit

(* A responder disappears from the map only if it is the chosen one, if    *)
(* the server is asked to drop it, if the server says that it is gone, or  *)
(* if the server gave its address to another one: none is forgotten while  *)
(* it is still connected.                                                  *)
NoResponderForgotten ==
  [][\A i \in Initiators : \A id \in Present(responders[i]) :
       responders'[i][id].n # responders[i][id].n =>
         \/ chosen'[i].id = id /\ chosen'[i].n = responders[i][id].n
         \/ \E p \in SentNow(i) : p.type = "drop-responder" /\ p.body.id = id
         \/ Head(inbox[i]).type = "send-error" /\ Head(inbox[i]).body.dst = id
         \/ Head(inbox[i]).type = "new-responder" /\ Head(inbox[i]).body = id]_vars

(* As long as no responder is chosen, only the oldest one that has sent    *)
(* nothing valid makes room for others (initiator.ts:141-149): the rest    *)
(* stay until a message of their own is in error, or the server reports    *)
(* them gone or gives their address away.                                  *)
OnlyInactiveEvicted ==
  [][\A i \in Initiators :
       conn[i].state = "peer-handshake" /\ conn'[i].state = "peer-handshake" =>
         \A id \in Present(responders[i]) :
           responders'[i][id].n # responders[i][id].n =>
             \/ Head(inbox[i]).src = id
             \/ Head(inbox[i]).type = "send-error" /\ Head(inbox[i]).body.dst = id
             \/ Head(inbox[i]).type = "new-responder" /\ Head(inbox[i]).body = id
             \/ /\ responders[i][id].hs = "new"
                /\ \A o \in Present(responders[i]) :
                     responders[i][o].hs = "new" /\ responders'[i][o].n = responders[i][o].n =>
                       responders[i][id].n <= responders[i][o].n]_vars

(* A Responder object only advances in its handshake with a message that   *)
(* carries a higher CSN than everything accepted from it before, so that   *)
(* no message is ever handled twice.                                       *)
FreshCsnPerStep ==
  [][\A i \in Initiators : \A id \in Present(responders[i]) :
       LET old == responders[i][id]
           new == IF chosen'[i].n = old.n THEN chosen'[i] ELSE responders'[i][id]
       IN new.n = old.n => new.in >= old.in /\ (new.hs # old.hs => new.in > old.in)]_vars

(* No two packets to the same peer object carry the same CSN, in one step  *)
(* or in different ones: what is sent is numbered above the counter of the *)
(* object whose cookie it carries, the counter has moved to or past it     *)
(* when the step is over, and it never goes back as long as the object     *)
(* lives.  With the cookie that makes the nonce of every box unique.       *)
PeerAfter(i, dst) ==
  IF dst = 0 THEN srv'[i] ELSE IF chosen'[i].id = dst THEN chosen'[i] ELSE responders'[i][dst]
SentAndCounted(i, p) ==
  LET old == Peer(i, p.dst)  new == PeerAfter(i, p.dst)
  IN /\ new.n = old.n /\ p.cookie = OurCookie(i, old)
     /\ old.out < p.csn /\ p.csn <= new.out
NonceNeverReused ==
  [][\A i \in Initiators :
       /\ \A p, q \in SentNow(i) :
            /\ p.type # "ws-close" => SentAndCounted(i, p)
            /\ p # q => <<p.dst, p.csn>> # <<q.dst, q.csn>>
       /\ srv'[i].out >= srv[i].out \/ srv'[i] = NewServer
       /\ \A id \in ResponderIds :
            LET old == Peer(i, id)  new == PeerAfter(i, id)
            IN old.n # 0 /\ new.n = old.n => new.out >= old.out]_vars

(* The task an initiator announces is the one it keeps, and one that this  *)
(* responder offered, whatever task an earlier attempt initialised         *)
(* (initiator.ts:474) before it failed.                                    *)
TaskIsCommon ==
  [][\A i \in Initiators : \A p \in SentNow(i) :
       p.type = "auth" => /\ p.body.task = task'[i]
                          /\ task'[i] \in Head(inbox[i]).body.tasks]_vars

(* An initiator that has lost or left its connection never handshakes      *)
(* again: the instance cannot be reused.                                   *)
NoSecondHandshake == [][\A i \in Initiators : StaysDown(i)]_vars

(* Once resetConnection has unbound all events (common.ts:949-953), the old *)
(* WebSocket does not close the client a second time.                      *)
QuietAfterReset ==
  [][\A i \in Initiators :
       conn[i].used /\ conn[i].state = "new" /\ conn[i].socket = "closing" =>
         conn'[i].closes = conn[i].closes]_vars

(* Disconnecting in state `task` tells the peer with a close message       *)
(* (common.ts:190-193, CHANGELOG v0.5.0), unless the task has taken over.  *)
CloseSentOnDisconnect ==
  [][\A i \in Initiators :
       /\ conn[i].state = "task" /\ ~handover[i].local
       /\ conn'[i].state = "closed" /\ conn'[i].socket = "closing"
       => \E p \in SentNow(i) : p.type = "close"]_vars
=============================================================================
