--------------------------- MODULE ResponderAlone ---------------------------
(***************************************************************************)
(* One responder against everything its WebSocket can deliver, as          *)
(* InitiatorAlone is for the initiator: any type of message from any       *)
(* address, right or wrong in one respect, at any time, between any two    *)
(* calls of the application and the task.                                  *)
(***************************************************************************)
EXTENDS Responder, TLC

CONSTANTS
  MaxServerCsn,  \* bound: messages accepted from the server
  MaxPeerCsn,    \* bound: messages accepted from one initiator
  MaxOut         \* bound: messages sent to the initiator before the last step

ASSUME BoundAssumption == {MaxServerCsn, MaxPeerCsn, MaxOut} \subseteq Nat

vars == <<commonVars, initiator>>

-----------------------------------------------------------------------------
(* The packets that can arrive.                                            *)

MaxCsn(src) == IF src = 0 THEN MaxServerCsn ELSE MaxPeerCsn

ForeignCookies == {<<NoPeer, 0>>, <<NoPeer, 1>>}
ForeignKey == <<"foreign", {}>>

Peer(r, src) == IF src = 0 THEN srv[r] ELSE initiator[r]

Destinations(r) ==
  IF conn[r].state # "server-handshake" THEN {addr[r]}
  ELSE IF srv[r].hs = "new" THEN {0} ELSE ResponderIds

(* A packet with the header the responder waits for.                       *)
Expected(r, src, key, type, body) ==
  LET peer == Peer(r, src)
  IN {[src |-> src, dst |-> dst, csn |-> peer.in + 1,
       cookie |-> IF peer.cookie = NoCookie THEN <<NoPeer, 0>> ELSE peer.cookie,
       key |-> key, type |-> type, body |-> body] : dst \in Destinations(r)}

ServerContents(r) ==
  {<<"server-hello", NoTask>>, <<"new-initiator", NoTask>>, <<"unknown", NoTask>>,
   <<"disconnected", 1>>}
  \cup {<<"server-auth", [cookie |-> k, connected |-> b]>> :
          k \in {OurCookie(r, srv[r]), <<NoPeer, 0>>}, b \in BOOLEAN}
  \cup {<<"send-error", [src |-> s, dst |-> d]>> : s \in {0, addr[r]}, d \in {0, 1}}

PeerContents(r) ==
  {<<"key", <<NoPeer, 1>>>>}
  \cup {<<"auth", [cookie |-> k, task |-> t]>> :
          k \in {OurCookie(r, initiator[r]), <<NoPeer, 0>>}, t \in TaskNames}
  \cup {<<type, NoTask>> : type \in {"close", "application", "handover", "unknown"}}

(* The key the responder tries on the next packet.                         *)
ExpectedKey(r, src) ==
  IF src = 0 THEN IF srv[r].hs = "new" THEN Plain ELSE ServerKey(r)
  ELSE IF initiator[r].hs \in {"auth-sent", "auth-received"} THEN initiator[r].sess
  ELSE PermanentKey(r)

WellEncrypted(r) ==
  UNION ({Expected(r, 0, ExpectedKey(r, 0), c[1], c[2]) : c \in ServerContents(r)}
         \cup {Expected(r, 1, ExpectedKey(r, 1), c[1], c[2]) : c \in PeerContents(r)})

(* Nothing that does not decrypt has a content, and no address but 0 and 1 *)
(* has anything to say.                                                    *)
Undecryptable(r) == UNION {Expected(r, src, ForeignKey, "unknown", NoTask) : src \in Address}

(* The nonce is wrong in one respect, or has our own cookie.               *)
Deviating(r) ==
  LET any == UNION {Expected(r, src, ForeignKey, "unknown", NoTask) : src \in {0, 1}}
  IN {[m EXCEPT !.dst = 1] : m \in any}
     \cup {[m EXCEPT !.csn = @ - 1] : m \in any}
     \cup {[m EXCEPT !.csn = @ - 1] : m \in {n \in WellEncrypted(r) : n.type \in {"key", "auth"}}}
     \cup {[m EXCEPT !.cookie = k] : m \in any, k \in ForeignCookies}
     \cup {[m EXCEPT !.cookie = OurCookie(r, Peer(r, m.src))] :
             m \in {n \in WellEncrypted(r) : n.type \in {"server-hello", "key", "auth"}}}

Arrivals(r) ==
  {m \in WellEncrypted(r) \cup Undecryptable(r) \cup Deviating(r) : m.csn <= MaxCsn(m.src)}
  \cup {CloseFrame(code) : code \in {GoingAway, PathFull, DroppedByInitiator}}

Arrive(r) ==
  /\ conn[r].socket = "open"
  /\ inbox[r] = <<>>
  /\ \E m \in Arrivals(r) : inbox' = [inbox EXCEPT ![r] = <<m>>]
  /\ outbox' = [outbox EXCEPT ![r] = <<>>]
  /\ UNCHANGED <<conn, srv, handover, task, addr, initiator>>

-----------------------------------------------------------------------------
Init == InitCommon /\ InitResponder

ResponderNext(r) ==
  \/ /\ \/ Connect(r)
        \/ \E unbind \in BOOLEAN : Disconnect(r, unbind)
        \/ OnOpen(r) /\ UNCHANGED inbox
        \/ CloseEvent(r)
        \/ ServerCloses(r)
        \/ ConnectionLost(r)
     /\ UNCHANGED initiator
  \/ ResponderOnMessage(r)
  \/ initiator[r].out < MaxOut /\ (ResponderHandover(r) \/ ResponderSends(r))

Next == \E r \in Responders : Arrive(r) \/ ResponderNext(r)

Spec == Init /\ [][Next]_vars

-----------------------------------------------------------------------------
(* Types.                                                                  *)

InitiatorObject ==
  [n : Nat \ {0}, hs : {"new", "token-sent", "key-sent", "auth-sent", "auth-received"},
   connected : BOOLEAN, out : Nat, in : Nat, cookie : Cookie, sess : Key]

(* What is assumed of an arriving frame: the fields its type promises.     *)
IsPacket(m) ==
  /\ m.csn \in Nat
  /\ m.type # "ws-close" => m.cookie \in Name
  /\ m.dst \in Address
  /\ m.type = "key" => m.body \in Name
  /\ m.type = "auth" => m.body.task \in TaskNames
  /\ m.type = "server-auth" => m.body.connected \in BOOLEAN
  /\ m.type = "ws-close" => m.body \in CloseCode \ {Handover}

(* Every variable has its type; at most one frame waits.                   *)
TypeOK ==
  /\ CommonTypeOK
  /\ \A r \in Responders :
       inbox[r] = <<>> \/ (inbox[r] = <<Head(inbox[r])>> /\ IsPacket(Head(inbox[r])))
  /\ initiator \in [Responders -> InitiatorObject]

-----------------------------------------------------------------------------
(* Safety.                                                                 *)

(* In state `task` the responder has completed a handshake with its        *)
(* current Initiator object: a session key with our part of it, the        *)
(* cookie of the other side, a task of ours.  In a handshake it has        *)
(* neither a task nor the cookie, whoever was initiator before.            *)
SessionInv ==
  \A r \in Responders :
    LET peer == initiator[r] IN
    /\ conn[r].state = "task" =>
         /\ peer.hs = "auth-received"
         /\ peer.cookie \notin {NoCookie, OurCookie(r, peer)}
         /\ peer.sess[1] = "session" /\ <<r, peer.n>> \in peer.sess[2]
         /\ task[r] \in OfferedTasks[r]
    /\ conn[r].state \in {"server-handshake", "peer-handshake"} =>
         task[r] = NoTask /\ peer.cookie = NoCookie

(* The responder speaks to an initiator exactly if there is one: during    *)
(* the peer handshake its messages are on the way if the server has        *)
(* announced an initiator, and none is before.                             *)
GreetedIfConnected ==
  \A r \in Responders : conn[r].state = "peer-handshake" =>
    /\ initiator[r].connected <=> initiator[r].hs \in {"key-sent", "auth-sent"}
    /\ ~initiator[r].connected => initiator[r].out = 0

(* The handshake with one initiator advances only with a message of a      *)
(* higher CSN than everything accepted before, except for the greeting.    *)
FreshCsnPerStep ==
  [][\A r \in Responders :
       LET old == initiator[r]  new == initiator'[r]
       IN new.n = old.n =>
            /\ new.in >= old.in
            /\ new.hs # old.hs => new.in > old.in \/ new.hs = "key-sent"]_vars

(* No two packets to the same peer object carry the same CSN, in one step  *)
(* or in different ones, also when the Initiator object is replaced: what  *)
(* is sent carries the cookie of the object that counts it, its number is  *)
(* above what that object had sent, the counter has moved to or past it    *)
(* when the step is over, and it never goes back as long as the object     *)
(* lives.  A new Initiator object has a cookie that none had before.       *)
PeerAfter(r, src) == IF src = 0 THEN srv'[r] ELSE initiator'[r]
SentAndCounted(r, p) ==
  LET old == Peer(r, p.dst)  new == PeerAfter(r, p.dst)
  IN /\ p.cookie = OurCookie(r, new) /\ p.csn <= new.out
     /\ new.n = old.n => old.out < p.csn
NonceNeverReused ==
  [][\A r \in Responders :
       /\ \A p, q \in SentNow(r) :
            /\ p.type # "ws-close" => SentAndCounted(r, p)
            /\ p # q => <<p.dst, p.cookie, p.csn>> # <<q.dst, q.cookie, q.csn>>
       /\ srv'[r].out >= srv[r].out \/ srv'[r] = NewServer
       /\ initiator'[r].n >= initiator[r].n
       /\ initiator'[r].n = initiator[r].n => initiator'[r].out >= initiator[r].out]_vars

(* A responder that has lost or left its connection never handshakes       *)
(* again, new initiator or not: the instance cannot be reused.             *)
NoSecondHandshake == [][\A r \in Responders : StaysDown(r)]_vars
=============================================================================
