-------------------------- MODULE PathOrderProofs --------------------------
(***************************************************************************)
(* What the order of the streams guarantees on a path, for any number of   *)
(* clients, addresses and tasks: nothing that a peer said before it handed *)
(* over is overtaken by its handover message, and a request to drop a      *)
(* responder never reaches the server when that responder is already in a  *)
(* session with the initiator that sent it.                                *)
(*                                                                         *)
(* PathInv says who has said what, and nothing of an order.  Here a stream *)
(* is read as the pairs of frames of which one follows the other: a stream *)
(* that is read, dropped or relayed has no new pairs but those of what was *)
(* there with what arrives.                                                *)
(***************************************************************************)
EXTENDS PathProofs

-----------------------------------------------------------------------------
(* One frame after another.                                                *)

Follows(q, x, y) == \E j, k \in 1 .. Len(q) : j < k /\ q[j] = x /\ q[k] = y

LEMMA FollowsIn ==
  ASSUME NEW q, NEW x, NEW y, Follows(q, x, y)
  PROVE  x \in Elements(q) /\ y \in Elements(q)
BY DEF Follows, Elements

LEMMA NothingFollows ==
  /\ \A x, y : ~Follows(<<>>, x, y)
  /\ \A e, x, y : ~Follows(<<e>>, x, y)
BY DEF Follows

LEMMA FollowsTail ==
  ASSUME NEW q, IsSeq(q), q # <<>>
  PROVE  /\ \A x, y : Follows(Tail(q), x, y) => Follows(q, x, y)
         /\ \A y \in Elements(Tail(q)) : Follows(q, Head(q), y)
<1>1. PICK S : q \in Seq(S)
  BY DEF IsSeq
<1>2. /\ Tail(q) \in Seq(S) /\ Len(Tail(q)) = Len(q) - 1 /\ Len(q) \in Nat \ {0}
      /\ \A k \in 1 .. Len(q) - 1 : Tail(q)[k] = q[k + 1]
      /\ Head(q) = q[1]
  BY <1>1
<1>3. /\ \A k \in 1 .. Len(q) - 1 : k + 1 \in 1 .. Len(q) /\ 1 < k + 1
      /\ \A j, k \in 1 .. Len(q) - 1 : j < k => j + 1 < k + 1
      /\ 1 \in 1 .. Len(q)
  BY <1>2
<1>4. ASSUME NEW x, NEW y, Follows(Tail(q), x, y) PROVE Follows(q, x, y)
  <2>1. PICK j, k \in 1 .. Len(q) - 1 : j < k /\ Tail(q)[j] = x /\ Tail(q)[k] = y
    BY <1>2, <1>4 DEF Follows
  <2>2. q[j + 1] = x /\ q[k + 1] = y /\ j + 1 < k + 1
    BY <1>2, <1>3, <2>1
  <2> QED BY <1>3, <2>2 DEF Follows
<1>5. ASSUME NEW y \in Elements(Tail(q)) PROVE Follows(q, Head(q), y)
  <2>1. PICK k \in 1 .. Len(q) - 1 : Tail(q)[k] = y
    BY <1>2 DEF Elements
  <2>2. q[k + 1] = y /\ q[1] = Head(q)
    BY <1>2, <2>1
  <2> QED BY <1>3, <2>2 DEF Follows
<1> QED BY <1>4, <1>5

LEMMA FollowsJoined ==
  ASSUME NEW a, IsSeq(a), NEW b, IsSeq(b), NEW x, NEW y, Follows(a \o b, x, y)
  PROVE  \/ Follows(a, x, y)
         \/ x \in Elements(a) /\ y \in Elements(b)
         \/ Follows(b, x, y)
<1> DEFINE n == Len(a)
           m == Len(b)
           s == a \o b
<1>1. PICK S, T : a \in Seq(S) /\ b \in Seq(T)
  BY DEF IsSeq
<1>2. /\ n \in Nat /\ m \in Nat /\ Len(s) = n + m
      /\ \A k \in 1 .. n + m : s[k] = IF k <= n THEN a[k] ELSE b[k - n]
  BY <1>1
<1>3. PICK j, k \in 1 .. n + m : j < k /\ s[j] = x /\ s[k] = y
  BY <1>2 DEF Follows
<1> HIDE DEF s
<1>4. CASE k <= n
  <2>1. j \in 1 .. n /\ k \in 1 .. n /\ a[j] = x /\ a[k] = y
    BY <1>2, <1>3, <1>4
  <2> QED BY <1>3, <2>1 DEF Follows
<1>5. CASE j <= n /\ ~(k <= n)
  <2>1. j \in 1 .. n /\ k - n \in 1 .. m /\ a[j] = x /\ b[k - n] = y
    BY <1>2, <1>3, <1>5
  <2> QED BY <2>1 DEF Elements
<1>6. CASE ~(j <= n)
  <2>1. j - n \in 1 .. m /\ k - n \in 1 .. m /\ j - n < k - n /\ b[j - n] = x /\ b[k - n] = y
    BY <1>2, <1>3, <1>6
  <2> QED BY <2>1 DEF Follows
<1> QED BY <1>2, <1>3, <1>4, <1>5, <1>6

(* A set handed over as a sequence lists nothing twice.                    *)
LEMMA ListedOnce ==
  ASSUME NEW S, IsFiniteSet(S), NEW x
  PROVE  ~Follows(SetToSeq(S), x, x)
<1>1. PICK f \in Bijection(1 .. Cardinality(S), S) : TRUE
  BY FS_NatBijection, FS_CardinalityType DEF ExistsBijection
<1> DEFINE s == SetToSeq(S)
           n == Cardinality(S)
<1>2. s \in [1 .. n -> S] /\ IsInjective(s)
  BY <1>1, FS_CardinalityType DEF SetToSeq, Bijection, Injection, IsInjective
<1> HIDE DEF s, n
<1>3. n \in Nat
  BY FS_CardinalityType DEF n
<1>4. Len(s) = n /\ DOMAIN s = 1 .. n
  BY <1>2, <1>3
<1>5. \A j, k \in 1 .. n : s[j] = s[k] => j = k
  BY <1>2, <1>4 DEF IsInjective
<1> QED BY <1>3, <1>4, <1>5 DEF Follows, s

-----------------------------------------------------------------------------
(* Who is concerned by a frame.                                            *)

(* Client c has contributed a half of a session key.                       *)
Half(c, key) == \E n \in Nat : <<c, n>> \in key[2]

Opposite(c, d) ==
  \/ c \in Initiators /\ d \in Responders
  \/ c \in Responders /\ d \in Initiators

KeyFrom(r, p) == p.type = "key" /\ \E k \in Nat : p.body = <<r, k>>
AuthUnder(p, key) == p.type = "auth" /\ p.key = key

InSession(c) == IF c \in Initiators THEN chosen[c].n # 0 ELSE initiator[c].hs = "auth-received"

(* A client in a session may say something in it until it hands over.      *)
Silent(c, key) == InSession(c) /\ PeerKey(c) = key /\ HandedOver(c)
MaySay(c) == InSession(c) => ~HandedOver(c)

-----------------------------------------------------------------------------
(* The invariant: where everybody sits, and in which order things are said *)

(* A responder has no address before server-auth, and the one the server   *)
(* has assigned to it after it.                                            *)
SeatOK(r) ==
  /\ addr[r] # 0 =>
       conn[r].used /\ conn[r].state \notin {"ws-connecting", "server-handshake"}
  /\ conn[r].state = "peer-handshake" => addr[r] # 0
  /\ phase[r] \in {"none", "greeted"} =>
       addr[r] = 0 /\ \A p \in Elements(inbox[r]) : p.type # "server-auth"
  /\ \A a \in ResponderIds : slot[a] = r =>
       /\ phase[r] = "joined" /\ addr[r] \in {0, a}
       /\ \A p \in Elements(inbox[r]) : p.type = "server-auth" => p.dst = a

SeatsOK ==
  /\ addr = [c \in Client |-> addr[c]] /\ phase = [c \in Client |-> phase[c]]
  /\ \A r \in Responders : phase[r] # "none" => conn[r].used /\ conn[r].state # "ws-connecting"
  /\ \A a, b \in ResponderIds : slot[a] = slot[b] /\ slot[a] # NoPeer => a = b
  /\ \A r \in Responders : SeatOK(r)

(* A responder sends its half of a key from its address, and an initiator  *)
(* keeps it in the object with that address.                               *)
KeysSeated ==
  \A c \in Client : \A p \in Elements(inbox[c]) \cup Elements(outbox[c]) :
    \A r \in Responders : KeyFrom(r, p) => addr[r] # 0 /\ p.src = addr[r]

ObjectsSeated ==
  \A i \in Initiators, r \in Responders :
    /\ \A id \in ResponderIds :
         responders[i][id].hs = "key-sent" /\ Half(r, responders[i][id].sess) =>
           addr[r] # 0 /\ id = addr[r]
    /\ chosen[i].n # 0 /\ Half(r, chosen[i].sess) => addr[r] # 0

KnownTo(i, r) ==
  \/ \E id \in ResponderIds : responders[i][id].hs = "key-sent" /\ Half(r, responders[i][id].sess)
  \/ chosen[i].n # 0 /\ Half(r, chosen[i].sess)

(* Who is announced to an initiator has not talked to it before.           *)
Newcomers ==
  \A i \in Initiators : \A p \in Elements(inbox[i]) :
    p.type = "new-responder" /\ p.body \in Taken =>
      /\ ~KnownTo(i, slot[p.body])
      /\ \A x : Follows(inbox[i], x, p) => ~KeyFrom(slot[p.body], x)

(* If an initiator asks to drop the responder it has chosen, its auth      *)
(* message has not reached the server, or anybody, before that request.    *)
DropsFirst ==
  \A i \in Initiators : \A p \in Elements(outbox[i]) :
    LET key == chosen[i].sess
    IN /\ p.type = "drop-responder" /\ p.body.id \in Taken
       /\ chosen[i].n # 0 /\ Half(slot[p.body.id], key)
       => /\ ~Entered(slot[p.body.id], key)
          /\ \A s \in Responders : \A x \in Elements(inbox[s]) : ~AuthUnder(x, key)
          /\ \A x : Follows(outbox[i], x, p) => ~AuthUnder(x, key)

(* What is said in a session is said by its members; the server says what  *)
(* nobody else does.                                                       *)
OwnFrames ==
  \A c \in Client : \A p \in Elements(outbox[c]) :
    /\ p.key[1] = "session" => Half(c, p.key)
    /\ p.type \notin {"new-responder", "server-auth"}

(* A handover message is the last thing said in its session by its side.   *)
HandoverEnds(q) == \A x, y : Follows(q, x, y) /\ x.type = "handover" => y.key # x.key
NoMore(d, key, out) ==
  \A c \in Client : Opposite(c, d) => \A p \in Elements(out[c]) : p.key # key

HandoverLast ==
  \A d \in Client :
    /\ HandoverEnds(inbox[d]) /\ HandoverEnds(outbox[d])
    /\ \A p \in Elements(inbox[d]) : p.type = "handover" => NoMore(d, p.key, outbox)
    /\ handover[d].peer =>
         NoMore(d, PeerKey(d), outbox) /\ \A p \in Elements(inbox[d]) : p.key # PeerKey(d)

OrderInv ==
  /\ SeatsOK /\ KeysSeated /\ ObjectsSeated /\ Newcomers /\ DropsFirst
  /\ OwnFrames /\ HandoverLast

-----------------------------------------------------------------------------
(* Members of a session.                                                   *)

LEMMA SessionKeyIs ==
  ASSUME NEW i \in Initiators, NEW n \in Nat, NEW r \in Responders, NEW k \in Nat
  PROVE  LET key == SessionKey(<<i, n>>, <<r, k>>)
         IN /\ key[1] = "session" /\ Half(i, key) /\ Half(r, key)
            /\ \A c \in Initiators : Half(c, key) => c = i
            /\ \A c \in Responders : Half(c, key) => c = r
<1> DEFINE key == SessionKey(<<i, n>>, <<r, k>>)
<1>1. key[1] = "session" /\ key[2] = {<<i, n>>, <<r, k>>}
  BY DEF SessionKey
<1>2. i \notin Responders /\ r \notin Initiators
  BY Sides
<1> HIDE DEF key
<1>3. <<i, n>> \in key[2] /\ <<r, k>> \in key[2]
  BY <1>1
<1>4. \A c, m : <<c, m>> \in key[2] => c = i \/ c = r
  BY <1>1
<1>5. key[1] = "session" /\ Half(i, key) /\ Half(r, key)
  BY <1>1, <1>3 DEF Half
<1>6. \A c : Half(c, key) => c = i \/ c = r
  BY <1>4 DEF Half
<1> QED BY <1>2, <1>5, <1>6 DEF key

(* A client in a session has one half of its key, and nobody else of its   *)
(* side has one.                                                           *)
LEMMA OpenedKey ==
  ASSUME PathInv, NEW i \in Initiators, NEW key, Opened(i, key)
  PROVE  /\ key[1] = "session" /\ Half(i, key)
         /\ \A c \in Initiators : Half(c, key) => c = i
<1>1. PICK r \in Responders :
        \E k \in 1 .. initiator[r].n : chosen[i].sess = SessionKey(<<i, chosen[i].n>>, <<r, k>>)
  BY OpenedNames DEF Opened
<1>2. PICK k \in 1 .. initiator[r].n : chosen[i].sess = SessionKey(<<i, chosen[i].n>>, <<r, k>>)
  BY <1>1
<1>3. initiator[r].n \in Nat /\ chosen[i].n \in Nat
  BY Its, OpenedNames DEF Opened
<1>4. k \in Nat
  BY <1>3
<1> QED BY <1>2, <1>3, <1>4, SessionKeyIs DEF Opened

LEMMA EnteredKey ==
  ASSUME PathInv, NEW r \in Responders, NEW key, Entered(r, key)
  PROVE  /\ key[1] = "session" /\ Half(r, key)
         /\ \A c \in Responders : Half(c, key) => c = r
<1>1. PICK i \in Initiators, k \in Nat : key = SessionKey(<<r, initiator[r].n>>, <<i, k>>)
  BY EnteredNames DEF Entered, OwnKey
<1>2. key = SessionKey(<<i, k>>, <<r, initiator[r].n>>) /\ initiator[r].n \in Nat
  BY <1>1, KeyHalves, Its
<1> QED BY <1>2, SessionKeyIs

LEMMA Members ==
  ASSUME PathInv, NEW c \in Client, InSession(c)
  PROVE  /\ PeerKey(c)[1] = "session" /\ Half(c, PeerKey(c))
         /\ \A d \in Client : \A e \in Client :
              Half(d, PeerKey(c)) /\ Opposite(d, e) /\ Opposite(c, e) => d = c
<1>1. CASE c \in Initiators
  <2>1. Opened(c, PeerKey(c))
    BY <1>1 DEF InSession, Opened, PeerKey
  <2>2. \A d, e : Opposite(d, e) /\ Opposite(c, e) => d \in Initiators
    BY <1>1, Sides DEF Opposite
  <2> QED BY <1>1, <2>1, <2>2, OpenedKey
<1>2. CASE c \in Responders
  <2>1. Entered(c, PeerKey(c))
    BY <1>2, Sides DEF InSession, Entered, PeerKey
  <2>2. \A d, e : Opposite(d, e) /\ Opposite(c, e) => d \in Responders
    BY <1>2, Sides DEF Opposite
  <2> QED BY <1>2, <2>1, <2>2, EnteredKey
<1> QED BY <1>1, <1>2 DEF Client

LEMMA TaskInSession ==
  ASSUME PathInv, NEW c \in Client, conn[c].state = "task"
  PROVE  InSession(c)
BY Mine, Its, Sides DEF InSession, Client

(* Whoever is told of a handover is told by a client that has handed over, *)
(* whether the message has arrived, waits for the server or was handled.   *)
LEMMA SaidBySilent ==
  ASSUME PathInv, NEW d \in Client
  PROVE  /\ \A p \in Elements(inbox[d]) : p.type = "handover" =>
              \E c \in Client : Opposite(c, d) /\ Silent(c, p.key)
         /\ handover[d].peer => \E c \in Client : Opposite(c, d) /\ Silent(c, PeerKey(d))
<1>1. CASE d \in Initiators
  <2>1. \A r \in Responders : \A key : Entered(r, key) /\ HandedOver(r) =>
          r \in Client /\ Opposite(r, d) /\ Silent(r, key)
    BY <1>1, Sides DEF Entered, Silent, InSession, PeerKey, Opposite
  <2>2. \A p \in Elements(inbox[d]) : ToInitiator(p)
    BY <1>1 DEF PathInv, StreamsOK
  <2>3. InitiatorOK(d) /\ PeerKey(d) = chosen[d].sess
    BY <1>1 DEF PathInv, PeerKey
  <2>4. handover[d].peer => \E r \in Responders : Entered(r, PeerKey(d)) /\ HandedOver(r)
    BY <2>3 DEF InitiatorOK
  <2> QED BY <2>1, <2>2, <2>4 DEF ToInitiator
<1>2. CASE d \in Responders
  <2>1. \A i \in Initiators : \A key : Opened(i, key) /\ HandedOver(i) =>
          i \in Client /\ Opposite(i, d) /\ Silent(i, key)
    BY <1>2, Sides DEF Opened, Silent, InSession, PeerKey, Opposite
  <2>2. \A p \in Elements(inbox[d]) : ToResponder(p)
    BY <1>2 DEF PathInv, StreamsOK
  <2>3. ResponderOK(d) /\ PeerKey(d) = initiator[d].sess
    BY <1>2, Sides DEF PathInv, PeerKey
  <2>4. handover[d].peer => \E i \in Initiators : Opened(i, PeerKey(d)) /\ HandedOver(i)
    BY <2>3 DEF ResponderOK
  <2> QED BY <2>1, <2>2, <2>4 DEF ToResponder
<1> QED BY <1>1, <1>2 DEF Client

LEMMA SentBySilent ==
  ASSUME PathInv, OwnFrames, NEW c \in Client, NEW p \in Elements(outbox[c]), p.type = "handover"
  PROVE  Silent(c, p.key) /\ p.key[1] = "session"
<1>1. CASE c \in Initiators
  <2>1. OfInitiator(p)
    BY <1>1 DEF PathInv, StreamsOK
  <2>2. PICK i \in Initiators : Opened(i, p.key) /\ HandedOver(i)
    BY <2>1 DEF OfInitiator, ToResponder
  <2>3. p.key[1] = "session" /\ \A j \in Initiators : Half(j, p.key) => j = i
    BY <2>2, OpenedKey
  <2>4. i = c
    BY <1>1, <2>3 DEF OwnFrames
  <2> QED BY <1>1, <2>2, <2>3, <2>4 DEF Silent, InSession, PeerKey, Opened
<1>2. CASE c \in Responders
  <2>1. OfResponder(p)
    BY <1>2 DEF PathInv, StreamsOK
  <2>2. PICK r \in Responders : Entered(r, p.key) /\ HandedOver(r)
    BY <2>1 DEF OfResponder, ToInitiator
  <2>3. p.key[1] = "session" /\ \A s \in Responders : Half(s, p.key) => s = r
    BY <2>2, EnteredKey
  <2>4. r = c
    BY <1>2, <2>3 DEF OwnFrames
  <2> QED BY <1>2, <2>2, <2>3, <2>4, Sides DEF Silent, InSession, PeerKey, Entered
<1> QED BY <1>1, <1>2 DEF Client

-----------------------------------------------------------------------------
(* What a step of one client does.                                         *)

(* It takes the first frame of its stream, and leaves the rest or nothing. *)
Reads(c) == inbox[c] # <<>> /\ inbox'[c] \in {Tail(inbox[c]), <<>>}

Hears(c) ==
  /\ \A d \in Client \ {c} : inbox'[d] = inbox[d]
  /\ \/ inbox'[c] \in {inbox[c], <<>>} \/ Reads(c)
     \/ \E p : p.type = "server-hello" /\ p.key = Plain /\ inbox'[c] = <<p>>

(* Whom an initiator drops, it has not chosen.                             *)
MayDrop(i, id) ==
  \/ chosen'[i].n = 0
  \/ chosen[i].n = 0 /\ chosen'[i].id # id
  \/ Reads(i) /\ Head(inbox[i]).type = "new-responder" /\ Head(inbox[i]).body = id

Says(c, p) ==
  /\ p.type \notin {"new-responder", "server-auth"}
  /\ p.key[1] = "session" => Half(c, p.key) /\ MaySay(c)
  /\ p.type = "handover" => p.key[1] = "session"
  /\ p.type = "key" =>
       /\ \E k \in Nat : p.body = <<c, k>>
       /\ c \in Responders => addr'[c] # 0 /\ p.src = addr'[c]
  /\ p.type = "drop-responder" => MayDrop(c, p.body.id)

Speaks(c) ==
  \E q : /\ Appends(c, q)
         /\ \A p \in Elements(q) : Says(c, p)
         /\ \A x, y : Follows(q, x, y) /\ x.type = "handover" => y.key[1] # "session"

(* It is given its address by server-auth, and greeted when it connects.   *)
Sits(c) ==
  /\ slot' = slot
  /\ \/ addr' = addr /\ (conn'[c].state = "peer-handshake" => conn[c].state = "peer-handshake")
     \/ /\ Reads(c) /\ Head(inbox[c]).type = "server-auth"
        /\ conn[c].state = "server-handshake" /\ conn'[c].state = "peer-handshake"
        /\ addr' = [addr EXCEPT ![c] = Head(inbox[c]).dst]
        /\ c \in Responders => Head(inbox[c]).dst \in ResponderIds
  /\ \/ phase' = phase
     \/ /\ conn[c].state = "ws-connecting" /\ conn'[c].state = "server-handshake"
        /\ phase' = [phase EXCEPT ![c] = "greeted"]

(* An initiator learns the half of a responder by a key message.           *)
Learns(c) ==
  \A i \in Initiators : \A id \in ResponderIds : responders'[i][id].hs = "key-sent" =>
    \/ responders[i][id].hs = "key-sent" /\ responders'[i][id].sess = responders[i][id].sess
    \/ /\ i = c /\ Reads(i) /\ Head(inbox[i]).type = "key" /\ Head(inbox[i]).src = id
       /\ \E n \in Nat : responders'[i][id].sess = SessionKey(<<i, n>>, Head(inbox[i]).body)

ToldOfHandover(c) ==
  \A d \in Client : handover'[d].peer =>
    \/ handover[d].peer
    \/ /\ d = c /\ Reads(d) /\ Head(inbox[d]).type = "handover"
       /\ InSession(d) /\ Head(inbox[d]).key = PeerKey(d)

Turn(c) ==
  Apart(c) /\ Hears(c) /\ Speaks(c) /\ Sits(c) /\ Learns(c) /\ ToldOfHandover(c)

(* What PathStep says of the sessions and of the states of all clients.    *)
Shifts(d) ==
  \/ conn'[d].state = conn[d].state /\ conn'[d].used = conn[d].used
  \/ conn'[d].used /\ conn'[d].state \in {"new", "closed"}
  \/ ~conn[d].used /\ conn'[d].used /\ conn'[d].state = "ws-connecting"
  \/ /\ conn[d].state \in {"ws-connecting", "server-handshake"}
     /\ conn'[d].state \in {"server-handshake", "peer-handshake"}
     /\ conn'[d].used = conn[d].used
  \/ conn[d].state = "peer-handshake" /\ conn'[d].state = "task" /\ conn'[d].used = conn[d].used

SessionsMove ==
  /\ \A d \in Client : Shifts(d)
  /\ \A d \in Client : InSession(d) => InSession(d)' /\ PeerKey(d)' = PeerKey(d)
  /\ \A i \in Initiators : chosen'[i].n # 0 /\ chosen[i].n = 0 =>
       /\ Head(inbox[i]).type = "auth"
       /\ \E id \in ResponderIds :
            /\ responders[i][id].hs = "key-sent"
            /\ chosen'[i].id = id /\ chosen'[i].sess = responders[i][id].sess
  /\ \A r \in Responders : \A key : Entered(r, key)' =>
       Entered(r, key) \/ (inbox[r] # <<>> /\ AuthUnder(Head(inbox[r]), key))

LEMMA HeardOf ==
  ASSUME InboxInv, NEW c \in Client, Hears(c)
  PROVE  /\ \A d \in Client : \A p \in Elements(inbox'[d]) :
              p \in Elements(inbox[d]) \/ (p.type = "server-hello" /\ p.key = Plain)
         /\ \A d \in Client : \A x, y : Follows(inbox'[d], x, y) => Follows(inbox[d], x, y)
<1> SUFFICES /\ \A p \in Elements(inbox'[c]) :
                  p \in Elements(inbox[c]) \/ (p.type = "server-hello" /\ p.key = Plain)
             /\ \A x, y : Follows(inbox'[c], x, y) => Follows(inbox[c], x, y)
  BY DEF Hears
<1>1. IsSeq(inbox[c])
  BY DEF InboxInv
<1>2. CASE inbox'[c] = inbox[c]
  BY <1>2
<1>3. CASE inbox'[c] = <<>>
  BY <1>3, NothingFollows, Single
<1>4. CASE inbox[c] # <<>> /\ inbox'[c] = Tail(inbox[c])
  BY <1>1, <1>4, FollowsTail, Read1
<1>5. CASE \E p : p.type = "server-hello" /\ p.key = Plain /\ inbox'[c] = <<p>>
  BY <1>5, NothingFollows, Single
<1> QED BY <1>2, <1>3, <1>4, <1>5 DEF Hears, Reads

LEMMA ReadOn ==
  ASSUME InboxInv, NEW c \in Client, Reads(c)
  PROVE  /\ Head(inbox[c]) \in Elements(inbox[c])
         /\ \A p \in Elements(inbox'[c]) :
              p \in Elements(inbox[c]) /\ Follows(inbox[c], Head(inbox[c]), p)
<1>1. IsSeq(inbox[c]) /\ inbox[c] # <<>>
  BY DEF InboxInv, Reads
<1>2. CASE inbox'[c] = <<>>
  BY <1>1, <1>2, Read1, Single
<1>3. CASE inbox'[c] = Tail(inbox[c])
  BY <1>1, <1>3, FollowsTail, Read1
<1> QED BY <1>2, <1>3 DEF Reads

(* What a client has added to its stream follows what was there.           *)
LEMMA SpokenOn ==
  ASSUME OutboxInv, NEW c \in Client, NEW q, Appends(c, q)
  PROVE  /\ \A d \in Client \ {c} : outbox'[d] = outbox[d]
         /\ \A p : p \in Elements(outbox'[c]) <=> p \in Elements(outbox[c]) \/ p \in Elements(q)
         /\ \A x, y : Follows(outbox'[c], x, y) =>
              \/ Follows(outbox[c], x, y)
              \/ x \in Elements(outbox[c]) /\ y \in Elements(q)
              \/ Follows(q, x, y)
<1>1. /\ outbox'[c] = outbox[c] \o q
      /\ \A d \in Client \ {c} : outbox'[d] = outbox[d]
      /\ IsSeq(outbox[c]) /\ IsSeq(q)
  BY DEF OutboxInv, Appends
<1>2. Elements(outbox'[c]) = Elements(outbox[c]) \cup Elements(q)
  BY <1>1, JoinedElements
<1> QED BY <1>1, <1>2, FollowsJoined

-----------------------------------------------------------------------------
(* What is said in a session.                                              *)

LEMMA TurnOwnFrames ==
  ASSUME PathInv, OrderInv, NEW c \in Client, Turn(c)
  PROVE  OwnFrames'
<1>1. PICK q : Appends(c, q) /\ \A p \in Elements(q) : Says(c, p)
  BY DEF Turn, Speaks
<1>2. \A d \in Client : \A p \in Elements(outbox'[d]) :
        p \in Elements(outbox[d]) \/ (d = c /\ p \in Elements(q))
  BY <1>1, SpokenOn, Streams
<1>3. \A d \in Client : \A p \in Elements(outbox[d]) :
        /\ p.key[1] = "session" => Half(d, p.key)
        /\ p.type \notin {"new-responder", "server-auth"}
  BY DEF OrderInv, OwnFrames
<1>4. \A p \in Elements(q) :
        /\ p.key[1] = "session" => Half(c, p.key)
        /\ p.type \notin {"new-responder", "server-auth"}
  BY <1>1 DEF Says
<1> QED BY <1>2, <1>3, <1>4 DEF OwnFrames, Half

(* Somebody silent in a session says nothing more in it.                   *)
LEMMA SilentSays ==
  ASSUME PathInv, NEW c \in Client, NEW p, Says(c, p), NEW d \in Client, NEW e \in Client,
         Opposite(c, e), Opposite(d, e), NEW key, Silent(d, key)
  PROVE  p.key # key
<1> SUFFICES ASSUME p.key = key PROVE FALSE
  OBVIOUS
<1>1. InSession(d) /\ PeerKey(d) = key /\ HandedOver(d)
  BY DEF Silent
<1>2. p.key[1] = "session"
  BY <1>1, Members
<1>3. Half(c, key) /\ MaySay(c)
  BY <1>2 DEF Says
<1>4. c = d
  BY <1>1, <1>3, Members
<1> QED BY <1>1, <1>3, <1>4 DEF MaySay

LEMMA TurnHandoverLast ==
  ASSUME PathInv, PathInv', OrderInv, NEW c \in Client, Turn(c), SessionsMove
  PROVE  HandoverLast'
<1>1. PICK q : /\ Appends(c, q) /\ \A p \in Elements(q) : Says(c, p)
               /\ \A x, y : Follows(q, x, y) /\ x.type = "handover" => y.key[1] # "session"
  BY DEF Turn, Speaks
<1>2. /\ \A d \in Client : \A p \in Elements(outbox'[d]) :
           p \in Elements(outbox[d]) \/ (d = c /\ p \in Elements(q))
      /\ \A d \in Client \ {c} : outbox'[d] = outbox[d]
      /\ \A p \in Elements(q) : p \in Elements(outbox'[c])
      /\ \A x, y : Follows(outbox'[c], x, y) =>
           \/ Follows(outbox[c], x, y)
           \/ x \in Elements(outbox[c]) /\ y \in Elements(q)
           \/ Follows(q, x, y)
  BY <1>1, SpokenOn, Streams
<1>3. /\ \A d \in Client : \A p \in Elements(inbox'[d]) :
           p \in Elements(inbox[d]) \/ (p.type = "server-hello" /\ p.key = Plain)
      /\ \A d \in Client : \A x, y : Follows(inbox'[d], x, y) => Follows(inbox[d], x, y)
  BY HeardOf, Streams DEF Turn
<1>4. OwnFrames /\ HandoverLast /\ OwnFrames'
  BY TurnOwnFrames DEF OrderInv
<1>5. ASSUME NEW d \in Client PROVE HandoverEnds(inbox'[d])
  BY <1>3, <1>4 DEF HandoverLast, HandoverEnds
<1>6. ASSUME NEW d \in Client PROVE HandoverEnds(outbox'[d])
  <2>1. CASE d # c
    BY <1>2, <1>4, <2>1 DEF HandoverLast
  <2>2. CASE d = c
    <3> SUFFICES ASSUME NEW x, NEW y, Follows(outbox'[c], x, y), x.type = "handover"
                 PROVE  y.key # x.key
      BY <2>2 DEF HandoverEnds
    <3>1. CASE Follows(outbox[c], x, y)
      BY <1>4, <3>1 DEF HandoverLast, HandoverEnds
    <3>2. CASE x \in Elements(outbox[c]) /\ y \in Elements(q)
      <4>1. Silent(c, x.key) /\ x.key[1] = "session"
        BY <1>4, <3>2, SentBySilent
      <4>2. y.key[1] = "session" => MaySay(c)
        BY <1>1, <3>2 DEF Says
      <4> QED BY <4>1, <4>2 DEF Silent, MaySay
    <3>3. CASE Follows(q, x, y)
      <4>1. x.key[1] = "session"
        BY <1>1, <3>3, FollowsIn DEF Says
      <4> QED BY <1>1, <3>3, <4>1
    <3> QED BY <1>2, <3>1, <3>2, <3>3
  <2> QED BY <2>1, <2>2
<1>7. ASSUME NEW d \in Client, NEW key,
             \E e \in Client : Opposite(e, d) /\ Silent(e, key), NoMore(d, key, outbox)
      PROVE  NoMore(d, key, outbox')
  <2> SUFFICES ASSUME NEW e \in Client, Opposite(e, d), NEW p \in Elements(outbox'[e])
               PROVE  p.key # key
    BY DEF NoMore, Opposite
  <2>1. CASE p \in Elements(outbox[e])
    BY <1>7, <2>1 DEF NoMore
  <2>2. CASE e = c /\ p \in Elements(q)
    BY <1>1, <1>7, <2>2, SilentSays
  <2> QED BY <1>2, <2>1, <2>2
<1>8. ASSUME NEW d \in Client, NEW p \in Elements(inbox'[d]), p.type = "handover"
      PROVE  NoMore(d, p.key, outbox')
  <2>1. p \in Elements(inbox[d])
    BY <1>3, <1>8
  <2>2. NoMore(d, p.key, outbox) /\ \E e \in Client : Opposite(e, d) /\ Silent(e, p.key)
    BY <1>4, <1>8, <2>1, SaidBySilent DEF HandoverLast
  <2> QED BY <1>7, <2>2
<1>9. ASSUME NEW d \in Client, handover'[d].peer
      PROVE  NoMore(d, PeerKey(d)', outbox') /\ \A p \in Elements(inbox'[d]) : p.key # PeerKey(d)'
  <2>1. CASE handover[d].peer
    <3>1. NoMore(d, PeerKey(d), outbox) /\ \A p \in Elements(inbox[d]) : p.key # PeerKey(d)
      BY <1>4, <2>1 DEF HandoverLast
    <3>2. \E e \in Client : Opposite(e, d) /\ Silent(e, PeerKey(d))
      BY <2>1, SaidBySilent
    <3>3. InSession(d)
      BY <2>1, Mine, Its, Sides DEF InSession, InitiatorOK, ResponderOK, Client
    <3>4. PeerKey(d)' = PeerKey(d) /\ PeerKey(d)[1] = "session"
      BY <3>3, Members DEF SessionsMove
    <3>5. \A p \in Elements(inbox'[d]) : p.key # PeerKey(d)
      BY <1>3, <3>1, <3>4 DEF Plain
    <3>6. NoMore(d, PeerKey(d), outbox')
      BY <1>7, <3>1, <3>2
    <3> QED BY <3>4, <3>5, <3>6
  <2>2. CASE /\ Reads(d) /\ Head(inbox[d]).type = "handover"
             /\ InSession(d) /\ Head(inbox[d]).key = PeerKey(d)
    <3> DEFINE m == Head(inbox[d])
    <3>1. /\ m \in Elements(inbox[d])
          /\ \A p \in Elements(inbox'[d]) : Follows(inbox[d], m, p)
      BY <2>2, ReadOn, Streams
    <3>2. NoMore(d, m.key, outbox) /\ \E e \in Client : Opposite(e, d) /\ Silent(e, m.key)
      BY <1>4, <2>2, <3>1, SaidBySilent DEF HandoverLast
    <3>3. \A p \in Elements(inbox'[d]) : p.key # m.key
      BY <1>4, <2>2, <3>1 DEF HandoverLast, HandoverEnds
    <3>4. PeerKey(d)' = m.key
      BY <2>2 DEF SessionsMove
    <3>5. NoMore(d, m.key, outbox')
      BY <1>7, <3>2
    <3> QED BY <3>3, <3>4, <3>5
  <2> QED BY <1>9, <2>1, <2>2 DEF Turn, ToldOfHandover
<1> QED BY <1>5, <1>6, <1>8, <1>9 DEF HandoverLast

-----------------------------------------------------------------------------
(* Where everybody sits.                                                   *)

(* Nobody who waits for a message of the server is unused, and an address  *)
(* is not taken back.                                                      *)
LEMMA UsedState ==
  ASSUME PathInv, NEW c \in Client, conn[c].state \in {"ws-connecting", "server-handshake", "peer-handshake"}
  PROVE  conn[c].used
BY DEF PathInv, ConnInv, Link

LEMMA AddressKept ==
  ASSUME PathInv, OrderInv, NEW c \in Client, Turn(c), NEW r \in Responders, addr[r] # 0
  PROVE  addr'[r] = addr[r]
<1>1. r \in Client /\ SeatOK(r)
  BY Sides DEF OrderInv, SeatsOK
<1>2. CASE addr' = addr
  BY <1>2
<1>3. CASE /\ conn[c].state = "server-handshake"
           /\ addr' = [addr EXCEPT ![c] = Head(inbox[c]).dst]
  <2>1. r # c
    BY <1>1, <1>3 DEF SeatOK
  <2> QED BY <1>3, <2>1
<1> QED BY <1>2, <1>3 DEF Turn, Sits

LEMMA TurnSeats ==
  ASSUME PathInv, PathInv', OrderInv, NEW c \in Client, Turn(c), SessionsMove
  PROVE  SeatsOK'
<1>1. /\ addr = [d \in Client |-> addr[d]] /\ phase = [d \in Client |-> phase[d]]
      /\ \A r \in Responders : phase[r] # "none" => conn[r].used /\ conn[r].state # "ws-connecting"
      /\ \A a, b \in ResponderIds : slot[a] = slot[b] /\ slot[a] # NoPeer => a = b
      /\ \A r \in Responders : SeatOK(r)
  BY DEF OrderInv, SeatsOK
<1>2. slot' = slot /\ \A d \in Client : Shifts(d)
  BY DEF Turn, Sits, SessionsMove
<1>3. \/ addr' = addr /\ (conn'[c].state = "peer-handshake" => conn[c].state = "peer-handshake")
      \/ /\ Reads(c) /\ Head(inbox[c]).type = "server-auth"
         /\ conn[c].state = "server-handshake" /\ conn'[c].state = "peer-handshake"
         /\ addr' = [addr EXCEPT ![c] = Head(inbox[c]).dst]
         /\ c \in Responders => Head(inbox[c]).dst \in ResponderIds
  BY DEF Turn, Sits
<1>4. \/ phase' = phase
      \/ /\ conn[c].state = "ws-connecting" /\ conn'[c].state = "server-handshake"
         /\ phase' = [phase EXCEPT ![c] = "greeted"]
  BY DEF Turn, Sits
<1>5. \A d \in Client : \A p \in Elements(inbox'[d]) :
        p \in Elements(inbox[d]) \/ p.type = "server-hello"
  BY HeardOf, Streams DEF Turn
<1>6. addr' = [d \in Client |-> addr'[d]] /\ phase' = [d \in Client |-> phase'[d]]
  BY <1>1, <1>3, <1>4
<1>7. ASSUME NEW d \in Responders, phase'[d] # "none"
      PROVE  conn'[d].used /\ conn'[d].state # "ws-connecting"
  <2> d \in Client
    BY Sides
  <2>1. CASE phase'[d] = phase[d]
    BY <1>1, <1>2, <1>7, <2>1 DEF Shifts
  <2>2. CASE d = c /\ conn[c].state = "ws-connecting" /\ conn'[c].state = "server-handshake"
    <3>1. conn[c].used
      BY <2>2, UsedState
    <3> QED BY <1>2, <2>2, <3>1 DEF Shifts
  <2> QED BY <1>1, <1>4, <2>1, <2>2
<1>8. ASSUME NEW r \in Responders PROVE SeatOK(r)'
  <2>1. r \in Client /\ SeatOK(r) /\ Shifts(r)
    BY <1>1, <1>2, Sides
  <2>2. \/ /\ addr'[r] = addr[r]
           /\ conn'[r].state = "peer-handshake" => conn[r].state = "peer-handshake"
        \/ /\ r = c /\ addr[r] = 0 /\ addr'[r] = Head(inbox[r]).dst /\ addr'[r] \in ResponderIds
           /\ Head(inbox[r]) \in Elements(inbox[r]) /\ Head(inbox[r]).type = "server-auth"
           /\ conn[r].state = "server-handshake" /\ conn'[r].state = "peer-handshake"
    <3>1. CASE r # c
      <4>1. addr'[r] = addr[r]
        BY <1>1, <1>3, <2>1, <3>1
      <4>2. conn'[r] = conn[r]
        BY <2>1, <3>1 DEF Turn, Apart
      <4> QED BY <4>1, <4>2
    <3>2. CASE /\ r = c /\ addr' = addr
               /\ conn'[c].state = "peer-handshake" => conn[c].state = "peer-handshake"
      BY <3>2
    <3>3. CASE /\ r = c /\ Reads(c) /\ Head(inbox[c]).type = "server-auth"
               /\ conn[c].state = "server-handshake" /\ conn'[c].state = "peer-handshake"
               /\ addr' = [addr EXCEPT ![c] = Head(inbox[c]).dst]
               /\ Head(inbox[c]).dst \in ResponderIds
      <4>1. Head(inbox[c]) \in Elements(inbox[c])
        BY <3>3, ReadOn, Streams
      <4>2. addr'[c] = Head(inbox[c]).dst
        BY <1>1, <3>3
      <4> QED BY <2>1, <3>3, <4>1, <4>2 DEF SeatOK
    <3> QED BY <1>3, <3>1, <3>2, <3>3
  <2>3. \/ phase'[r] = phase[r]
        \/ /\ r = c /\ conn[r].state = "ws-connecting" /\ conn'[r].state = "server-handshake"
           /\ phase[r] = "none" /\ phase'[r] = "greeted" /\ addr[r] = 0
    <3>1. r = c /\ conn[c].state = "ws-connecting" => phase[c] = "none"
      BY <1>1
    <3> QED BY <1>1, <1>4, <2>1, <3>1 DEF SeatOK
  <2>4. \A p \in Elements(inbox'[r]) : p.type = "server-auth" => p \in Elements(inbox[r])
    BY <1>5, <2>1
  <2>5. addr'[r] # 0 =>
          conn'[r].used /\ conn'[r].state \notin {"ws-connecting", "server-handshake"}
    <3>1. CASE addr'[r] = addr[r]
      BY <2>1, <3>1 DEF SeatOK, Shifts
    <3>2. CASE conn[r].state = "server-handshake" /\ conn'[r].state = "peer-handshake"
      <4>1. conn[r].used
        BY <2>1, <3>2, UsedState
      <4> QED BY <2>1, <3>2, <4>1 DEF Shifts
    <3> QED BY <2>2, <3>1, <3>2
  <2>6. conn'[r].state = "peer-handshake" => addr'[r] # 0
    BY <2>1, <2>2, AddressAssumption DEF SeatOK
  <2>7. phase'[r] \in {"none", "greeted"} =>
          addr'[r] = 0 /\ \A p \in Elements(inbox'[r]) : p.type # "server-auth"
    BY <2>1, <2>2, <2>3, <2>4 DEF SeatOK
  <2>8. ASSUME NEW a \in ResponderIds, slot'[a] = r
        PROVE  /\ phase'[r] = "joined" /\ addr'[r] \in {0, a}
               /\ \A p \in Elements(inbox'[r]) : p.type = "server-auth" => p.dst = a
    <3>1. /\ phase[r] = "joined" /\ addr[r] \in {0, a}
          /\ \A p \in Elements(inbox[r]) : p.type = "server-auth" => p.dst = a
      BY <1>2, <2>1, <2>8 DEF SeatOK
    <3> QED BY <2>2, <2>3, <2>4, <3>1
  <2> QED BY <2>5, <2>6, <2>7, <2>8 DEF SeatOK
<1> QED BY <1>1, <1>2, <1>6, <1>7, <1>8 DEF SeatsOK

-----------------------------------------------------------------------------
(* Halves of keys.                                                         *)

LEMMA TurnKeys ==
  ASSUME PathInv, OrderInv, NEW c \in Client, Turn(c)
  PROVE  KeysSeated'
<1>1. PICK q : Appends(c, q) /\ \A p \in Elements(q) : Says(c, p)
  BY DEF Turn, Speaks
<1>2. \A d \in Client : \A p \in Elements(outbox'[d]) :
        p \in Elements(outbox[d]) \/ p \in Elements(q)
  BY <1>1, SpokenOn, Streams
<1>3. \A d \in Client : \A p \in Elements(inbox'[d]) :
        p \in Elements(inbox[d]) \/ p.type = "server-hello"
  BY HeardOf, Streams DEF Turn
<1>4. ASSUME NEW d \in Client, NEW p \in Elements(inbox'[d]) \cup Elements(outbox'[d]),
             NEW r \in Responders, KeyFrom(r, p)
      PROVE  addr'[r] # 0 /\ p.src = addr'[r]
  <2>1. CASE p \in Elements(inbox[d]) \cup Elements(outbox[d])
    <3>1. addr[r] # 0 /\ p.src = addr[r]
      BY <1>4, <2>1 DEF OrderInv, KeysSeated
    <3> QED BY <3>1, AddressKept
  <2>2. CASE p \in Elements(q)
    <3>1. r = c
      BY <1>1, <1>4, <2>2 DEF Says, KeyFrom
    <3> QED BY <1>1, <1>4, <2>2, <3>1 DEF Says, KeyFrom
  <2>3. p.type = "key"
    BY <1>4 DEF KeyFrom
  <2> QED BY <1>2, <1>3, <2>1, <2>2, <2>3
<1> QED BY <1>4 DEF KeysSeated, KeyFrom

(* An object that has just been given a session key has it from a key      *)
(* message of a responder.                                                 *)
LEMMA Learned ==
  ASSUME PathInv, OrderInv, NEW c \in Client, Turn(c), NEW i \in Initiators, NEW r \in Responders,
         NEW id \in ResponderIds, responders'[i][id].hs = "key-sent", Half(r, responders'[i][id].sess)
  PROVE  \/ responders[i][id].hs = "key-sent" /\ Half(r, responders[i][id].sess)
         \/ /\ i = c /\ Reads(i) /\ Head(inbox[i]) \in Elements(inbox[i])
            /\ KeyFrom(r, Head(inbox[i])) /\ Head(inbox[i]).src = id
<1> SUFFICES ASSUME ~(responders[i][id].hs = "key-sent" /\ responders'[i][id].sess = responders[i][id].sess)
             PROVE  /\ i = c /\ Reads(i) /\ Head(inbox[i]) \in Elements(inbox[i])
                    /\ KeyFrom(r, Head(inbox[i])) /\ Head(inbox[i]).src = id
  OBVIOUS
<1> DEFINE m == Head(inbox[i])
<1>1. /\ i = c /\ Reads(i) /\ m.type = "key" /\ m.src = id
      /\ \E n \in Nat : responders'[i][id].sess = SessionKey(<<i, n>>, m.body)
  BY DEF Turn, Learns
<1>2. i \in Client /\ i \notin Responders
  BY Sides
<1>3. m \in Elements(inbox[i])
  BY <1>1, <1>2, ReadOn, Streams
<1>4. PICK s \in Responders : \E k \in 1 .. initiator[s].n : m.body = <<s, k>>
  BY <1>1, <1>3 DEF PathInv, StreamsOK, ToInitiator
<1>5. PICK k \in 1 .. initiator[s].n : m.body = <<s, k>>
  BY <1>4
<1>6. initiator[s].n \in Nat
  BY Its
<1>7. k \in Nat
  BY <1>6
<1>8. PICK n \in Nat : responders'[i][id].sess = SessionKey(<<i, n>>, <<s, k>>)
  BY <1>1, <1>5
<1>9. r = s
  BY <1>7, <1>8, SessionKeyIs
<1>10. KeyFrom(r, m)
  BY <1>1, <1>5, <1>7, <1>9 DEF KeyFrom
<1> QED BY <1>1, <1>3, <1>10

LEMMA TurnObjects ==
  ASSUME PathInv, OrderInv, NEW c \in Client, Turn(c), SessionsMove
  PROVE  ObjectsSeated'
<1>1. ObjectsSeated /\ KeysSeated
  BY DEF OrderInv
<1>2. ASSUME NEW i \in Initiators, NEW r \in Responders, NEW id \in ResponderIds,
             responders'[i][id].hs = "key-sent", Half(r, responders'[i][id].sess)
      PROVE  addr'[r] # 0 /\ id = addr'[r]
  <2>1. addr[r] # 0 /\ id = addr[r]
    <3>1. CASE responders[i][id].hs = "key-sent" /\ Half(r, responders[i][id].sess)
      BY <1>1, <3>1 DEF ObjectsSeated
    <3>2. CASE /\ Head(inbox[i]) \in Elements(inbox[i])
               /\ KeyFrom(r, Head(inbox[i])) /\ Head(inbox[i]).src = id
      BY <1>1, <3>2, Sides DEF KeysSeated
    <3> QED BY <1>2, <3>1, <3>2, Learned
  <2> QED BY <2>1, AddressKept
<1>3. ASSUME NEW i \in Initiators, NEW r \in Responders, chosen'[i].n # 0, Half(r, chosen'[i].sess)
      PROVE  addr'[r] # 0
  <2>1. addr[r] # 0
    <3>1. CASE chosen[i].n # 0
      <4>1. chosen'[i].sess = chosen[i].sess
        BY <3>1, Sides DEF SessionsMove, InSession, PeerKey
      <4> QED BY <1>1, <1>3, <3>1, <4>1 DEF ObjectsSeated
    <3>2. CASE chosen[i].n = 0
      <4>1. PICK id \in ResponderIds :
              responders[i][id].hs = "key-sent" /\ chosen'[i].sess = responders[i][id].sess
        BY <1>3, <3>2 DEF SessionsMove
      <4> QED BY <1>1, <1>3, <4>1 DEF ObjectsSeated
    <3> QED BY <3>1, <3>2
  <2> QED BY <2>1, AddressKept
<1> QED BY <1>2, <1>3 DEF ObjectsSeated, Half

(* Whom an initiator does not know, it meets by a key message.             *)
LEMMA StillUnknown ==
  ASSUME PathInv, OrderInv, NEW c \in Client, Turn(c), SessionsMove, NEW i \in Initiators,
         NEW r \in Responders, KnownTo(i, r)', ~KnownTo(i, r)
  PROVE  i = c /\ Reads(i) /\ KeyFrom(r, Head(inbox[i]))
<1>1. CASE \E id \in ResponderIds : responders'[i][id].hs = "key-sent" /\ Half(r, responders'[i][id].sess)
  BY <1>1, Learned DEF KnownTo
<1>2. CASE chosen'[i].n # 0 /\ Half(r, chosen'[i].sess)
  <2>1. CASE chosen[i].n # 0
    <3>1. chosen'[i].sess = chosen[i].sess
      BY <2>1, Sides DEF SessionsMove, InSession, PeerKey
    <3> QED BY <1>2, <2>1, <3>1 DEF KnownTo
  <2>2. CASE chosen[i].n = 0
    <3>1. PICK id \in ResponderIds :
            responders[i][id].hs = "key-sent" /\ chosen'[i].sess = responders[i][id].sess
      BY <1>2, <2>2 DEF SessionsMove
    <3> QED BY <1>2, <3>1 DEF KnownTo
  <2> QED BY <2>1, <2>2
<1> QED BY <1>1, <1>2 DEF KnownTo, Half

LEMMA TurnNewcomers ==
  ASSUME PathInv, OrderInv, NEW c \in Client, Turn(c), SessionsMove
  PROVE  Newcomers'
<1>1. slot' = slot /\ Newcomers /\ SlotsOK
  BY DEF Turn, Sits, OrderInv, PathInv
<1> SUFFICES ASSUME NEW i \in Initiators, NEW p \in Elements(inbox'[i]),
                    p.type = "new-responder", p.body \in Taken
             PROVE  /\ ~KnownTo(i, slot[p.body])'
                    /\ \A x : Follows(inbox'[i], x, p) => ~KeyFrom(slot[p.body], x)
  BY <1>1 DEF Newcomers, Taken, KeyFrom, KnownTo, Half
<1> DEFINE r == slot[p.body]
<1>2. i \in Client /\ r \in Responders
  BY <1>1, Sides DEF Taken, SlotsOK
<1>3. p \in Elements(inbox[i]) /\ \A x : Follows(inbox'[i], x, p) => Follows(inbox[i], x, p)
  BY <1>2, HeardOf, Streams DEF Turn
<1>4. ~KnownTo(i, r) /\ \A x : Follows(inbox[i], x, p) => ~KeyFrom(r, x)
  BY <1>1, <1>3 DEF Newcomers
<1>5. \A s \in Responders : s = r => ~KnownTo(i, s)'
  <2> SUFFICES ASSUME NEW s \in Responders, s = r, KnownTo(i, s)' PROVE FALSE
    OBVIOUS
  <2>1. i = c /\ Reads(i) /\ KeyFrom(s, Head(inbox[i]))
    BY <1>4, StillUnknown
  <2>2. Follows(inbox[i], Head(inbox[i]), p)
    BY <1>2, <2>1, ReadOn, Streams
  <2> QED BY <1>4, <2>1, <2>2
<1> QED BY <1>1, <1>2, <1>3, <1>4, <1>5

-----------------------------------------------------------------------------
(* Requests to drop a responder.                                           *)

(* Before an initiator has chosen somebody, its auth is nowhere.           *)
LEMMA NotYetSaid ==
  ASSUME PathInv, OrderInv, NEW c \in Client, Turn(c), NEW i \in Initiators, NEW id \in ResponderIds,
         chosen[i].n = 0, responders[i][id].hs = "key-sent"
  PROVE  LET key == responders[i][id].sess
         IN /\ \A r \in Responders : ~Entered(r, key)
            /\ \A s \in Responders : \A x \in Elements(inbox[s]) : ~AuthUnder(x, key)
            /\ \A x \in Elements(outbox[i]) : ~AuthUnder(x, key)
<1> DEFINE key == responders[i][id].sess
<1>1. MapOK(i, responders[i], counter[i])
  BY Mine
<1>2. ObjectOK(i, id, responders[i][id])
  BY <1>1 DEF MapOK
<1>3. PICK r \in Responders : SharedKey(i, responders[i][id].n, r, key)
  BY <1>2 DEF ObjectOK
<1>4. PICK k \in 1 .. initiator[r].n : key = SessionKey(<<i, responders[i][id].n>>, <<r, k>>)
  BY <1>3 DEF SharedKey
<1>5. initiator[r].n \in Nat /\ responders[i][id].n \in Nat
  BY <1>2, Its DEF ObjectOK
<1>6. k \in Nat
  BY <1>5
<1>7. Half(i, key)
  BY <1>4, <1>5, <1>6, SessionKeyIs
<1> HIDE DEF key
<1>8. \A j \in Initiators : ~Opened(j, key)
  <2> SUFFICES ASSUME NEW j \in Initiators, Opened(j, key) PROVE FALSE
    OBVIOUS
  <2>1. i = j
    BY <1>7, OpenedKey
  <2> QED BY <2>1 DEF Opened
<1>9. \A s \in Responders : ~Entered(s, key)
  BY <1>8, EnteredNames DEF Entered
<1>10. \A s \in Responders : \A x \in Elements(inbox[s]) : ~AuthUnder(x, key)
  BY <1>8 DEF PathInv, StreamsOK, ToResponder, AuthUnder
<1>11. \A x \in Elements(outbox[i]) : ~AuthUnder(x, key)
  BY <1>8 DEF PathInv, StreamsOK, OfInitiator, ToResponder, AuthUnder
<1> QED BY <1>9, <1>10, <1>11 DEF key

(* A new request asks for somebody who is not chosen.                      *)
LEMMA NewRequest ==
  ASSUME PathInv, OrderInv, NEW i \in Initiators, Turn(i), SessionsMove,
         NEW id \in Taken, MayDrop(i, id), chosen'[i].n # 0
  PROVE  ~Half(slot[id], chosen'[i].sess)
<1> DEFINE r == slot[id]
<1>1. i \in Client /\ r \in Responders /\ id \in ResponderIds
  BY Sides DEF PathInv, SlotsOK, Taken
<1>2. CASE chosen[i].n = 0 /\ chosen'[i].id # id
  <2> SUFFICES ASSUME Half(r, chosen'[i].sess) PROVE FALSE
    OBVIOUS
  <2>1. PICK a \in ResponderIds :
          /\ responders[i][a].hs = "key-sent"
          /\ chosen'[i].id = a /\ chosen'[i].sess = responders[i][a].sess
    BY <1>2 DEF SessionsMove
  <2>2. addr[r] # 0 /\ a = addr[r]
    BY <1>1, <2>1 DEF OrderInv, ObjectsSeated
  <2>3. addr[r] \in {0, id}
    BY <1>1 DEF OrderInv, SeatsOK, SeatOK
  <2> QED BY <1>2, <2>1, <2>2, <2>3
<1>3. CASE Reads(i) /\ Head(inbox[i]).type = "new-responder" /\ Head(inbox[i]).body = id
  <2>1. chosen[i].n # 0
    BY <1>3 DEF SessionsMove
  <2>2. chosen'[i].sess = chosen[i].sess
    BY <1>1, <2>1 DEF SessionsMove, InSession, PeerKey
  <2>3. Head(inbox[i]) \in Elements(inbox[i])
    BY <1>1, <1>3, ReadOn, Streams
  <2>4. ~KnownTo(i, r)
    BY <1>3, <2>3 DEF OrderInv, Newcomers
  <2> QED BY <2>1, <2>2, <2>4 DEF KnownTo
<1> QED BY <1>2, <1>3 DEF MayDrop

LEMMA TurnDrops ==
  ASSUME PathInv, OrderInv, NEW c \in Client, Turn(c), SessionsMove
  PROVE  DropsFirst'
<1>1. slot' = slot /\ DropsFirst /\ SlotsOK
  BY DEF Turn, Sits, OrderInv, PathInv
<1>2. PICK q : Appends(c, q) /\ \A p \in Elements(q) : Says(c, p)
  BY DEF Turn, Speaks
<1>3. /\ \A d \in Client : \A p \in Elements(outbox'[d]) :
           p \in Elements(outbox[d]) \/ (d = c /\ p \in Elements(q))
      /\ \A d \in Client \ {c} : outbox'[d] = outbox[d]
      /\ \A x, y : Follows(outbox'[c], x, y) =>
           \/ Follows(outbox[c], x, y)
           \/ x \in Elements(outbox[c]) /\ y \in Elements(q)
           \/ Follows(q, x, y)
  BY <1>2, SpokenOn, Streams
<1>4. \A d \in Client : \A p \in Elements(inbox'[d]) :
        p \in Elements(inbox[d]) \/ p.type = "server-hello"
  BY HeardOf, Streams DEF Turn
<1> SUFFICES ASSUME NEW i \in Initiators, NEW p \in Elements(outbox'[i]),
                    p.type = "drop-responder", p.body.id \in Taken,
                    NEW key, key = chosen'[i].sess,
                    chosen'[i].n # 0, Half(slot[p.body.id], key)
             PROVE  /\ ~Entered(slot[p.body.id], key)'
                    /\ \A s \in Responders : \A x \in Elements(inbox'[s]) : ~AuthUnder(x, key)
                    /\ \A x : Follows(outbox'[i], x, p) => ~AuthUnder(x, key)
  BY <1>1 DEF DropsFirst, Taken, Half, AuthUnder, Entered
<1> DEFINE r == slot[p.body.id]
<1>5. i \in Client /\ r \in Responders
  BY <1>1, Sides DEF Taken, SlotsOK
<1>6. ~(i = c /\ p \in Elements(q))
  <2> SUFFICES ASSUME i = c, p \in Elements(q) PROVE FALSE
    OBVIOUS
  <2>1. MayDrop(i, p.body.id)
    BY <1>2 DEF Says
  <2> QED BY <2>1, NewRequest
<1>7. p \in Elements(outbox[i]) /\ \A x : Follows(outbox'[i], x, p) => Follows(outbox[i], x, p)
  <2>1. p \in Elements(outbox[i])
    BY <1>3, <1>5, <1>6
  <2>2. CASE i = c
    BY <1>3, <1>6, <2>1, <2>2, FollowsIn
  <2>3. CASE i # c
    BY <1>3, <1>5, <2>3
  <2> QED BY <2>1, <2>2, <2>3
<1>8. /\ ~Entered(r, key)
      /\ \A s \in Responders : \A x \in Elements(inbox[s]) : ~AuthUnder(x, key)
      /\ \A x : Follows(outbox[i], x, p) => ~AuthUnder(x, key)
  <2>1. CASE chosen[i].n # 0
    <3>1. chosen'[i].sess = chosen[i].sess
      BY <1>5, <2>1 DEF SessionsMove, InSession, PeerKey
    <3> QED BY <1>1, <1>7, <2>1, <3>1 DEF DropsFirst
  <2>2. CASE chosen[i].n = 0
    <3>1. PICK id \in ResponderIds :
            responders[i][id].hs = "key-sent" /\ chosen'[i].sess = responders[i][id].sess
      BY <2>2 DEF SessionsMove
    <3> QED BY <1>5, <2>2, <3>1, NotYetSaid, FollowsIn
  <2> QED BY <2>1, <2>2
<1>9. ~Entered(r, key)'
  <2> SUFFICES ASSUME NEW s \in Responders, s = r, Entered(s, key)' PROVE FALSE
    BY <1>1, <1>5 DEF Entered
  <2>1. inbox[s] # <<>> /\ AuthUnder(Head(inbox[s]), key)
    BY <1>8 DEF SessionsMove
  <2>2. Head(inbox[s]) \in Elements(inbox[s])
    BY <2>1, Read1, Streams, Sides DEF InboxInv
  <2> QED BY <1>8, <2>1, <2>2
<1>10. \A s \in Responders : \A x \in Elements(inbox'[s]) : ~AuthUnder(x, key)
  BY <1>4, <1>8, Sides DEF AuthUnder
<1> QED BY <1>7, <1>8, <1>9, <1>10

LEMMA TurnKeeps ==
  ASSUME PathInv, PathInv', OrderInv, NEW c \in Client, Turn(c), SessionsMove
  PROVE  OrderInv'
BY TurnSeats, TurnKeys, TurnObjects, TurnNewcomers, TurnDrops, TurnOwnFrames, TurnHandoverLast
   DEF OrderInv

-----------------------------------------------------------------------------
(* Sessions begin by an auth message, and do not change.                   *)

LEMMA NothingNewMoves ==
  ASSUME PathInv, NothingNew
  PROVE  SessionsMove
<1>1. Lasts
  BY DEF NothingNew
<1>2. \A d \in Client : Shifts(d)
  BY DEF NothingNew, Drift, Shifts
<1>3. ASSUME NEW d \in Client, InSession(d) PROVE InSession(d)' /\ PeerKey(d)' = PeerKey(d)
  <2>1. CASE d \in Initiators
    BY <1>1, <1>3, <2>1 DEF Lasts, InSession, PeerKey
  <2>2. CASE d \in Responders
    BY <1>1, <1>3, <2>2, Sides DEF Lasts, InSession, PeerKey
  <2> QED BY <2>1, <2>2 DEF Client
<1>4. \A i \in Initiators : ~(chosen'[i].n # 0 /\ chosen[i].n = 0)
  BY DEF NothingNew
<1>5. \A r \in Responders : \A key : Entered(r, key)' => Entered(r, key)
  BY <1>1 DEF NothingNew, Lasts, Entered
<1> QED BY <1>2, <1>3, <1>4, <1>5 DEF SessionsMove

LEMMA HandleAuthMoves ==
  ASSUME PathInv, NEW i \in Initiators, inbox[i] # <<>>, UNCHANGED initiator,
         HandleAuth(i, Head(inbox[i]))
  PROVE  SessionsMove
<1> DEFINE m == Head(inbox[i])
           o == [Saved(i, m) EXCEPT !.cookie = m.cookie, !.hs = "auth-sent", !.out = @ + 1]
<1>1. i \in Client /\ m \in Elements(inbox[i])
  BY Read1, Streams, Sides DEF InboxInv
<1>2. ToInitiator(m)
  BY <1>1 DEF PathInv, StreamsOK
<1>3. /\ chosen' = [chosen EXCEPT ![i] = o] /\ m.type = "auth"
      /\ conn' = [conn EXCEPT ![i].state = "task"]
  BY DEF HandleAuth, AuthWellFormed
<1>4. /\ conn[i].state = "peer-handshake" /\ chosen[i].n = 0
      /\ m.src \in ResponderIds /\ responders[i][m.src].hs = "key-sent"
      /\ ResponderFields(Saved(i, m)) /\ Saved(i, m).id = m.src
      /\ Saved(i, m).sess = responders[i][m.src].sess
  <2>1. HandleAuth(i, m)
    OBVIOUS
  <2>2. FromResponder(i, m, "key-sent")
    BY <2>1 DEF HandleAuth, AuthDecrypted
  <2> HIDE DEF m
  <2>3. conn[i].state = "peer-handshake" /\ chosen[i].n = 0 /\ m.src \in ResponderIds
    BY <1>2, <2>1, HandleAuthSees
  <2>4. /\ ResponderFields(Saved(i, m)) /\ Saved(i, m).id = m.src
        /\ Saved(i, m).sess = responders[i][m.src].sess
    BY <1>2, <2>1, HandleAuthSees
  <2>5. responders[i][m.src].hs = "key-sent"
    BY <2>2, FromResponderIs
  <2> QED BY <2>3, <2>4, <2>5
<1>5. o.id = m.src /\ o.sess = responders[i][m.src].sess
  BY <1>4 DEF ResponderFields
<1> HIDE DEF o
<1>6. chosen'[i] = o /\ \A j \in Initiators \ {i} : chosen'[j] = chosen[j]
  BY <1>3 DEF PathInv, DomainsOK
<1>7. /\ conn'[i].state = "task" /\ conn'[i].used = conn[i].used
      /\ \A d \in Client \ {i} : conn'[d] = conn[d]
  BY <1>1, <1>3 DEF PathInv, ConnInv, ConnRecord
<1>8. \A d \in Client : Shifts(d)
  BY <1>4, <1>7 DEF Shifts
<1>9. ASSUME NEW d \in Client, InSession(d) PROVE InSession(d)' /\ PeerKey(d)' = PeerKey(d)
  BY <1>4, <1>6, <1>9 DEF InSession, PeerKey
<1>10. ASSUME NEW j \in Initiators, chosen'[j].n # 0, chosen[j].n = 0
       PROVE  /\ Head(inbox[j]).type = "auth"
              /\ \E id \in ResponderIds :
                   /\ responders[j][id].hs = "key-sent"
                   /\ chosen'[j].id = id /\ chosen'[j].sess = responders[j][id].sess
  BY <1>3, <1>4, <1>5, <1>6, <1>10
<1>11. \A r \in Responders : \A key : Entered(r, key)' => Entered(r, key)
  BY DEF Entered
<1> QED BY <1>8, <1>9, <1>10, <1>11 DEF SessionsMove

LEMMA InitiatorAuthMoves ==
  ASSUME PathInv, NEW r \in Responders, inbox[r] # <<>>, UNCHANGED peerVars,
         InitiatorAuth(r, Head(inbox[r]))
  PROVE  SessionsMove
<1> DEFINE m == Head(inbox[r])
           o == [initiator[r] EXCEPT !.hs = "auth-received", !.in = m.csn, !.cookie = m.cookie]
<1>1. /\ m.type = "auth" /\ m.key = initiator[r].sess /\ initiator[r].hs = "auth-sent"
      /\ conn[r].state = "peer-handshake"
      /\ initiator' = [initiator EXCEPT ![r] = o]
      /\ conn' = [conn EXCEPT ![r].state = "task"]
  BY DEF InitiatorAuth, AuthArrived, AuthExpectedFrom, FromInitiator
<1>2. InitiatorFields(initiator[r]) /\ r \in Client /\ r \notin Initiators
  BY Its
<1>3. o.hs = "auth-received" /\ o.sess = initiator[r].sess
  BY <1>2 DEF InitiatorFields
<1> HIDE DEF o
<1>4. initiator'[r] = o /\ \A s \in Responders \ {r} : initiator'[s] = initiator[s]
  BY <1>1 DEF PathInv, DomainsOK
<1>5. /\ conn'[r].state = "task" /\ conn'[r].used = conn[r].used
      /\ \A d \in Client \ {r} : conn'[d] = conn[d]
  BY <1>1, <1>2 DEF PathInv, ConnInv, ConnRecord
<1>6. \A d \in Client : Shifts(d)
  BY <1>1, <1>5 DEF Shifts
<1>7. ASSUME NEW d \in Client, InSession(d) PROVE InSession(d)' /\ PeerKey(d)' = PeerKey(d)
  <2>1. CASE d \in Initiators
    BY <1>7, <2>1 DEF InSession, PeerKey, peerVars
  <2>2. CASE d \in Responders
    <3>1. d # r
      BY <1>1, <1>2, <1>7 DEF InSession
    <3> QED BY <1>4, <1>7, <2>2, <3>1, Sides DEF InSession, PeerKey
  <2> QED BY <2>1, <2>2 DEF Client
<1>8. \A i \in Initiators : ~(chosen'[i].n # 0 /\ chosen[i].n = 0)
  BY DEF peerVars
<1>9. ASSUME NEW s \in Responders, NEW key, Entered(s, key)', ~Entered(s, key)
      PROVE  inbox[s] # <<>> /\ AuthUnder(Head(inbox[s]), key)
  <2>1. s = r
    BY <1>4, <1>9 DEF Entered
  <2> QED BY <1>1, <1>3, <1>4, <1>9, <2>1 DEF Entered, AuthUnder
<1> QED BY <1>6, <1>7, <1>8, <1>9 DEF SessionsMove

LEMMA SessionsMoved ==
  ASSUME PathInv, NEW c \in Client, Step(c) \/ Leaves(c) \/ Sends(c)
  PROVE  PathInv' /\ SessionsMove
BY PathStep, NothingNewMoves, HandleAuthMoves, InitiatorAuthMoves

-----------------------------------------------------------------------------
(* The parts of a turn.                                                    *)

LEMMA HearsNothing ==
  ASSUME NEW c \in Client, inbox' = inbox
  PROVE  Hears(c)
BY DEF Hears

LEMMA HearsOut ==
  ASSUME PathInv, NEW c \in Client, inbox' = [inbox EXCEPT ![c] = <<>>]
  PROVE  Hears(c) /\ (inbox[c] # <<>> => Reads(c))
<1>1. inbox'[c] = <<>> /\ \A d \in Client \ {c} : inbox'[d] = inbox[d]
  BY Streams DEF InboxInv
<1> QED BY <1>1 DEF Hears, Reads

LEMMA HearsOne ==
  ASSUME PathInv, NEW c \in Client, inbox[c] # <<>>, inbox' = [inbox EXCEPT ![c] = Tail(inbox[c])]
  PROVE  Hears(c) /\ Reads(c)
<1>1. inbox'[c] = Tail(inbox[c]) /\ \A d \in Client \ {c} : inbox'[d] = inbox[d]
  BY Streams DEF InboxInv
<1> QED BY <1>1 DEF Hears, Reads

LEMMA SpeaksNot ==
  ASSUME PathInv, NEW c \in Client, outbox' = outbox
  PROVE  Speaks(c)
<1>1. IsSeq(<<>>) /\ Elements(<<>>) = {} /\ \A x, y : ~Follows(<<>>, x, y)
  BY Single, NothingFollows
<1>2. outbox[c] \o <<>> = outbox[c]
  BY Streams, NothingAdded DEF OutboxInv
<1>3. Appends(c, <<>>)
  BY <1>1, <1>2, Streams DEF OutboxInv, Appends
<1> QED BY <1>1, <1>3 DEF Speaks

LEMMA SpeaksOf ==
  ASSUME NEW c \in Client, NEW q, IsSeq(q), outbox' = [outbox EXCEPT ![c] = @ \o q],
         \A p \in Elements(q) : Says(c, p) /\ p.type # "handover"
  PROVE  Speaks(c)
<1>1. Appends(c, q)
  BY DEF Appends
<1>2. \A x, y : Follows(q, x, y) => x.type # "handover"
  BY FollowsIn
<1> QED BY <1>1, <1>2 DEF Speaks

LEMMA SpeaksOne ==
  ASSUME PathInv, NEW c \in Client, NEW p, Says(c, p),
         outbox' = [outbox EXCEPT ![c] = Append(@, p)]
  PROVE  Speaks(c)
<1>1. Append(outbox[c], p) = outbox[c] \o <<p>>
  BY Streams, Appended DEF OutboxInv
<1>2. IsSeq(<<p>>) /\ Elements(<<p>>) = {p} /\ \A x, y : ~Follows(<<p>>, x, y)
  BY Single, NothingFollows
<1>3. Appends(c, <<p>>)
  BY <1>1, <1>2 DEF Appends
<1> QED BY <1>2, <1>3 DEF Speaks

(* Two parts, of which the second has nothing to do with a session.        *)
LEMMA SpeaksTwice ==
  ASSUME PathInv, NEW c \in Client, NEW a, IsSeq(a), NEW b, IsSeq(b),
         outbox' = [outbox EXCEPT ![c] = @ \o a \o b],
         \A p \in Elements(a) : Says(c, p), \A x, y : ~Follows(a, x, y),
         \A p \in Elements(b) : Says(c, p) /\ p.type # "handover" /\ p.key[1] # "session"
  PROVE  Speaks(c)
<1> DEFINE q == a \o b
<1>1. (outbox[c] \o a) \o b = outbox[c] \o q
  BY Streams, Regrouped DEF OutboxInv
<1>2. IsSeq(q) /\ Elements(q) = Elements(a) \cup Elements(b)
  BY JoinedElements
<1>3. Appends(c, q)
  BY <1>1, <1>2 DEF Appends
<1>4. \A x, y : Follows(q, x, y) /\ x.type = "handover" => y.key[1] # "session"
  BY FollowsJoined, FollowsIn
<1> HIDE DEF q
<1> QED BY <1>2, <1>3, <1>4 DEF Speaks

(* What a client says outside a session, without a request.                *)
LEMMA Quiet ==
  ASSUME NEW c, NEW p,
         p.type \in {"ws-close", "client-hello", "client-auth", "token"}, p.key[1] # "session"
  PROVE  Says(c, p)
BY DEF Says

LEMMA KindsOfKeys ==
  /\ Plain[1] # "session"
  /\ \A c : /\ ServerKey(c)[1] # "session" /\ TokenKey(c)[1] # "session"
            /\ PermanentKey(c)[1] # "session"
BY DEF Plain, ServerKey, TokenKey, PermanentKey

LEMMA HangupSaid ==
  ASSUME NEW c, NEW cn, NEW code
  PROVE  /\ IsSeq(Hangup(cn, code))
         /\ \A p \in Elements(Hangup(cn, code)) :
              Says(c, p) /\ p.type # "handover" /\ p.key[1] # "session"
<1> DEFINE frame == CloseFrame(WireCode(code))
<1>1. frame.type = "ws-close" /\ frame.key[1] # "session"
  BY KindsOfKeys DEF CloseFrame
<1> HIDE DEF frame
<1>2. Says(c, frame)
  BY <1>1, Quiet
<1>3. Hangup(cn, code) = <<frame>> \/ Hangup(cn, code) = <<>>
  BY DEF Hangup, frame
<1>4. IsSeq(Hangup(cn, code)) /\ Elements(Hangup(cn, code)) \subseteq {frame}
  BY <1>3, Single
<1> QED BY <1>1, <1>2, <1>4

(* What it says in a session it says before it hands over.                 *)
LEMMA SaidInSession ==
  ASSUME PathInv, NEW c \in Client, conn[c].state = "task", ~handover[c].local,
         NEW p, p.key = PeerKey(c), p.type \in {"close", "application", "handover"}
  PROVE  Says(c, p)
<1>1. InSession(c)
  BY TaskInSession
<1>2. PeerKey(c)[1] = "session" /\ Half(c, PeerKey(c))
  BY <1>1, Members
<1>3. MaySay(c)
  BY DEF MaySay, HandedOver
<1> QED BY <1>2, <1>3 DEF Says

LEMMA SendCloseSaid ==
  ASSUME PathInv, NEW c \in Client, conn[c].state = "task", NEW peer, peer.sess = PeerKey(c),
         NEW dst, NEW reason
  PROVE  LET sent == SendClose(c, peer, dst, reason)
         IN /\ IsSeq(sent) /\ \A p \in Elements(sent) : Says(c, p)
            /\ \A x, y : ~Follows(sent, x, y)
<1> DEFINE p == BuildPacket(c, peer, dst, peer.sess, "close", reason)
           sent == SendClose(c, peer, dst, reason)
<1>1. p.key = PeerKey(c) /\ p.type = "close"
  BY BuiltPacket
<1> HIDE DEF p
<1>2. sent = <<>> \/ (sent = <<p>> /\ ~handover[c].local)
  BY DEF SendClose, p
<1>3. ~handover[c].local => Says(c, p)
  BY <1>1, SaidInSession
<1> HIDE DEF sent
<1>4. IsSeq(sent) /\ \A q \in Elements(sent) : Says(c, q)
  BY <1>2, <1>3, Single
<1>5. \A x, y : ~Follows(sent, x, y)
  BY <1>2, NothingFollows
<1> QED BY <1>4, <1>5 DEF sent

(* drop-responder requests.                                                *)
LEMMA DropsSaid ==
  ASSUME NEW i \in Initiators, NEW s, NEW ids, IsSeq(ids), NEW reason,
         \A id \in Elements(ids) : MayDrop(i, id)
  PROVE  LET drops == DropRequests(i, s, ids, reason)
         IN /\ IsSeq(drops)
            /\ \A p \in Elements(drops) :
                 Says(i, p) /\ p.type # "handover" /\ p.key[1] # "session"
<1> DEFINE n == Len(ids)
           drop(k) == [BuildPacket(i, s, 0, ServerKey(i), "drop-responder",
                                   [id |-> ids[k], reason |-> reason])
                         EXCEPT !.src = 1, !.csn = s.out + k]
           D == {drop(k) : k \in 1 .. n}
           drops == DropRequests(i, s, ids, reason)
<1>1. n \in Nat
  BY DEF IsSeq
<1>2. \A k \in 1 .. n : /\ drop(k).type = "drop-responder" /\ drop(k).key = ServerKey(i)
                        /\ drop(k).body.id = ids[k]
  BY DEF BuildPacket
<1>3. \A k \in 1 .. n : MayDrop(i, ids[k])
  BY DEF Elements
<1>4. drops = [k \in 1 .. n |-> drop(k)]
  BY DEF DropRequests
<1> HIDE DEF drop, n, drops
<1>5. \A k \in 1 .. n : Says(i, drop(k)) /\ drop(k).type # "handover" /\ drop(k).key[1] # "session"
  BY <1>2, <1>3, KindsOfKeys DEF Says
<1>6. drops \in [1 .. n -> D]
  BY <1>4
<1>7. drops \in Seq(D) /\ Len(drops) = n
  <2> HIDE DEF D
  <2> QED BY <1>1, <1>6
<1>8. \A p \in Elements(drops) : p \in D
  BY <1>6, <1>7 DEF Elements
<1> QED BY <1>5, <1>7, <1>8 DEF IsSeq, drops

LEMMA LearnsNot ==
  ASSUME NEW c \in Client, responders' = responders
  PROVE  Learns(c)
BY DEF Learns

NothingLearned(old, new) ==
  \A id \in ResponderIds : new[id].hs = "key-sent" =>
    old[id].hs = "key-sent" /\ new[id].sess = old[id].sess

LEMMA LearnsLess ==
  ASSUME PathInv, NEW c \in Client, NEW i \in Initiators, NEW new,
         responders' = [responders EXCEPT ![i] = new], NothingLearned(responders[i], new)
  PROVE  Learns(c)
<1>1. responders'[i] = new /\ \A j \in Initiators \ {i} : responders'[j] = responders[j]
  BY DEF PathInv, DomainsOK
<1> QED BY <1>1 DEF Learns, NothingLearned

-----------------------------------------------------------------------------
(* Turns that both roles take.                                             *)

(* It handles a message and stays where it is.                             *)
LEMMA HeardTurn ==
  ASSUME PathInv, NEW c \in Client, inbox[c] # <<>>, Consume(c),
         UNCHANGED <<conn, handover, addr, slot, phase>>, Speaks(c), Learns(c)
  PROVE  Turn(c)
<1>1. Hears(c)
  BY HearsOne DEF Consume
<1>2. Apart(c) /\ Sits(c) /\ ToldOfHandover(c)
  BY DEF Apart, Sits, ToldOfHandover
<1> QED BY <1>1, <1>2 DEF Turn

LEMMA ResetTurn ==
  ASSUME PathInv, NEW c \in Client, NEW reason \in CloseCode, NEW sent, IsSeq(sent),
         \A p \in Elements(sent) : Says(c, p), \A x, y : ~Follows(sent, x, y),
         Reset(c, reason, sent), UNCHANGED <<responders, slot, phase>>
  PROVE  Turn(c)
<1>1. Apart(c) /\ conn'[c].state = "new"
  BY Streams, ResetConn
<1>2. Hears(c)
  BY HearsOut DEF Reset
<1>3. Speaks(c)
  <2> DEFINE hangup == Hangup(conn[c], reason)
  <2>1. /\ IsSeq(hangup)
        /\ \A p \in Elements(hangup) : Says(c, p) /\ p.type # "handover" /\ p.key[1] # "session"
    BY HangupSaid
  <2>2. outbox' = [outbox EXCEPT ![c] = @ \o sent \o hangup]
    BY DEF Reset
  <2> HIDE DEF hangup
  <2> QED BY <2>1, <2>2, SpeaksTwice
<1>4. Sits(c)
  BY <1>1 DEF Sits, Reset
<1>5. ToldOfHandover(c)
  <2>1. /\ handover'[c] = NoHandover /\ \A d \in Client \ {c} : handover'[d] = handover[d]
    BY Streams DEF Reset, ConnInv
  <2> QED BY <2>1, NoHandoverType DEF ToldOfHandover
<1> QED BY <1>1, <1>2, <1>3, <1>4, <1>5, LearnsNot DEF Turn

LEMMA SilentResetTurn ==
  ASSUME PathInv, NEW c \in Client, NEW reason \in CloseCode, Reset(c, reason, <<>>),
         UNCHANGED <<responders, slot, phase>>
  PROVE  Turn(c)
BY ResetTurn, Single, NothingFollows

LEMMA ServerHelloTurn ==
  ASSUME PathInv, NEW c \in Client, inbox[c] # <<>>, NEW m, HandleServerHello(c, m),
         UNCHANGED <<responders, slot, phase>>
  PROVE  Turn(c)
<1> DEFINE first == BuildPacket(c, srv[c], 0, Plain, "client-hello", NoTask)
           hello == IF c \in Responders THEN <<first>> ELSE <<>>
           said == [srv[c] EXCEPT !.out = @ + Len(hello)]
           auth == BuildPacket(c, said, 0, ServerKey(c), "client-auth", m.cookie)
<1>1. Says(c, first) /\ Says(c, auth) /\ auth.type # "handover" /\ auth.key[1] # "session"
  BY BuiltPacket, KindsOfKeys, Quiet
<1>2. outbox' = [outbox EXCEPT ![c] = @ \o hello \o <<auth>>]
  BY DEF HandleServerHello
<1> HIDE DEF first, auth
<1>3. /\ IsSeq(hello) /\ \A p \in Elements(hello) : Says(c, p)
      /\ \A x, y : ~Follows(hello, x, y)
  BY <1>1, Single, NothingFollows
<1> HIDE DEF hello
<1>4. IsSeq(<<auth>>) /\ Elements(<<auth>>) = {auth}
  BY Single
<1>5. Speaks(c)
  BY <1>1, <1>2, <1>3, <1>4, SpeaksTwice
<1> QED BY <1>5, LearnsNot, HeardTurn DEF HandleServerHello

LEMMA UndecryptableTurn ==
  ASSUME PathInv, NEW c \in Client, inbox[c] # <<>>, NEW m, ServerAuthUndecryptable(c, m),
         UNCHANGED <<responders, slot, phase>>
  PROVE  Turn(c)
BY SpeaksNot, LearnsNot, HeardTurn DEF ServerAuthUndecryptable

LEMMA SetHandoverTurn ==
  ASSUME PathInv, NEW c \in Client, NEW flags \in HandoverRecord, NEW rest, NEW sent,
         SetHandover(c, flags, rest, sent), ~Both(c), conn[c].state = "task",
         IsSeq(sent), \A p \in Elements(sent) : Says(c, p), \A x, y : ~Follows(sent, x, y),
         \/ rest = inbox[c] /\ flags.peer = handover[c].peer
         \/ /\ rest = Tail(inbox[c]) /\ inbox[c] # <<>>
            /\ Head(inbox[c]).type = "handover" /\ Head(inbox[c]).key = PeerKey(c),
         UNCHANGED <<addr, responders, slot, phase>>
  PROVE  Turn(c)
<1> DEFINE done == flags.local /\ flags.peer /\ ~Both(c)
           hangup == IF done THEN Hangup(conn[c], Handover) ELSE <<>>
<1>1. Apart(c) /\ conn'[c].state = "task"
  BY Streams, SetHandoverConn
<1>2. /\ handover' = [handover EXCEPT ![c] = flags]
      /\ inbox' = [inbox EXCEPT ![c] = IF done THEN <<>> ELSE rest]
      /\ outbox' = [outbox EXCEPT ![c] = @ \o sent \o hangup]
  BY DEF SetHandover
<1>3. /\ IsSeq(hangup)
      /\ \A p \in Elements(hangup) : Says(c, p) /\ p.type # "handover" /\ p.key[1] # "session"
  BY HangupSaid, Single
<1> HIDE DEF hangup
<1>4. Speaks(c)
  BY <1>2, <1>3, SpeaksTwice
<1> HIDE DEF done
<1>5. ASSUME inbox' = [inbox EXCEPT ![c] = <<>>] PROVE Hears(c)
  BY <1>5, HearsOut
<1>6. ASSUME inbox' = [inbox EXCEPT ![c] = inbox[c]] PROVE Hears(c)
  <2>1. inbox' = inbox
    BY <1>6, Streams DEF InboxInv
  <2> QED BY <2>1, HearsNothing
<1>7. ASSUME inbox[c] # <<>>, inbox' = [inbox EXCEPT ![c] = Tail(inbox[c])] PROVE Hears(c)
  BY <1>7, HearsOne
<1>8. Hears(c) /\ (flags.peer = handover[c].peer \/ Reads(c))
  <2>1. Hears(c)
    BY <1>2, <1>5, <1>6, <1>7
  <2>2. CASE rest = Tail(inbox[c]) /\ inbox[c] # <<>>
    BY <1>2, <2>2, HearsOut, HearsOne
  <2> QED BY <2>1, <2>2
<1>9. Sits(c)
  BY <1>1 DEF Sits
<1>10. ToldOfHandover(c)
  <2>1. handover'[c] = flags /\ \A d \in Client \ {c} : handover'[d] = handover[d]
    BY <1>2, Streams DEF ConnInv
  <2>2. InSession(c)
    BY TaskInSession
  <2> QED BY <1>8, <2>1, <2>2 DEF ToldOfHandover
<1> QED BY <1>1, <1>4, <1>8, <1>9, <1>10, LearnsNot DEF Turn

LEMMA PeerMessageTurn ==
  ASSUME PathInv, NEW c \in Client, conn[c].state = "task", inbox[c] # <<>>, ~handover[c].peer,
         NEW m, m = Head(inbox[c]), m.key = PeerKey(c), PeerMessage(c, m),
         UNCHANGED <<responders, slot, phase>>
  PROVE  Turn(c)
<1>1. ASSUME NEW reason \in CloseCode, ResetConnection(c, reason, <<>>) PROVE Turn(c)
  BY <1>1, SilentResetTurn DEF ResetConnection
<1>2. CASE HandleClose(c)
  BY <1>1, <1>2, Codes DEF HandleClose
<1>3. CASE ResetConnection(c, ProtocolError, <<>>)
  BY <1>1, <1>3, Codes
<1>4. CASE Consume(c) /\ UNCHANGED <<conn, srv, handover, task, addr, outbox>>
  BY <1>4, SpeaksNot, LearnsNot, HeardTurn
<1>5. CASE /\ m.type = "handover"
           /\ SetHandover(c, [handover[c] EXCEPT !.peer = TRUE], Tail(inbox[c]), <<>>)
           /\ UNCHANGED <<srv, task, addr>>
  <2> DEFINE flags == [handover[c] EXCEPT !.peer = TRUE]
             rest == Tail(inbox[c])
  <2>1. flags \in HandoverRecord /\ ~Both(c)
    BY Streams DEF ConnInv, HandoverRecord, Both
  <2>2. SetHandover(c, flags, rest, <<>>) /\ rest = Tail(inbox[c]) /\ addr' = addr
    BY <1>5
  <2>3. IsSeq(<<>>) /\ Elements(<<>>) = {} /\ \A x, y : ~Follows(<<>>, x, y)
    BY Single, NothingFollows
  <2> HIDE DEF flags, rest
  <2> QED BY <1>5, <2>1, <2>2, <2>3, SetHandoverTurn
<1> QED BY <1>2, <1>3, <1>4, <1>5 DEF PeerMessage

LEMMA LocalHandoverTurn ==
  ASSUME PathInv, NEW c \in Client, NEW peer, peer.sess = PeerKey(c), NEW dst,
         LocalHandover(c, peer, dst), UNCHANGED <<responders, slot, phase>>
  PROVE  Turn(c)
<1> DEFINE p == BuildPacket(c, peer, dst, peer.sess, "handover", NoTask)
           flags == [handover[c] EXCEPT !.local = TRUE]
<1>1. flags \in HandoverRecord /\ flags.peer = handover[c].peer
  BY Streams DEF ConnInv, HandoverRecord
<1>2. /\ SetHandover(c, flags, inbox[c], <<p>>) /\ ~Both(c) /\ conn[c].state = "task"
      /\ ~handover[c].local /\ addr' = addr
  BY DEF LocalHandover, Both
<1>3. p.key = PeerKey(c) /\ p.type = "handover"
  BY BuiltPacket
<1> HIDE DEF p, flags
<1>4. Says(c, p)
  BY <1>2, <1>3, SaidInSession
<1>5. IsSeq(<<p>>) /\ Elements(<<p>>) = {p} /\ \A x, y : ~Follows(<<p>>, x, y)
  BY Single, NothingFollows
<1> QED BY <1>1, <1>2, <1>4, <1>5, SetHandoverTurn

LEMMA SendApplicationTurn ==
  ASSUME PathInv, NEW c \in Client, NEW peer, peer.sess = PeerKey(c), NEW dst,
         SendApplication(c, peer, dst), UNCHANGED <<responders, slot, phase>>
  PROVE  Turn(c)
<1> DEFINE p == BuildPacket(c, peer, dst, peer.sess, "application", NoTask)
<1>1. p.key = PeerKey(c) /\ p.type = "application"
  BY BuiltPacket
<1>2. outbox' = [outbox EXCEPT ![c] = Append(@, p)] /\ conn[c].state = "task" /\ ~handover[c].local
  BY DEF SendApplication
<1> HIDE DEF p
<1>3. Speaks(c)
  BY <1>1, <1>2, SaidInSession, SpeaksOne
<1>4. Hears(c) /\ Apart(c) /\ Sits(c) /\ ToldOfHandover(c)
  BY HearsNothing DEF SendApplication, Apart, Sits, ToldOfHandover
<1> QED BY <1>3, <1>4, LearnsNot DEF Turn

-----------------------------------------------------------------------------
(* The turns of an initiator.                                              *)

LEMMA LearnsWithout ==
  ASSUME PathInv, NEW i \in Initiators, NEW ids,
         responders' = [responders EXCEPT ![i] = Without(@, ids)]
  PROVE  Learns(i)
<1> DEFINE new == Without(responders[i], ids)
<1>1. NothingLearned(responders[i], new)
  <2>1. \A id \in ResponderIds : new[id] = responders[i][id] \/ new[id].hs = "new"
    BY DEF Without, NoResponder
  <2> HIDE DEF new
  <2> QED BY <2>1 DEF NothingLearned
<1>2. responders' = [responders EXCEPT ![i] = new] /\ i \in Client
  BY Mine
<1> HIDE DEF new
<1> QED BY <1>1, <1>2, LearnsLess

LEMMA LearnsObject ==
  ASSUME PathInv, NEW i \in Initiators, NEW id \in ResponderIds, NEW o,
         responders' = [responders EXCEPT ![i][id] = o],
         \/ o.hs # "key-sent"
         \/ /\ Reads(i) /\ Head(inbox[i]).type = "key" /\ Head(inbox[i]).src = id
            /\ \E n \in Nat : o.sess = SessionKey(<<i, n>>, Head(inbox[i]).body)
  PROVE  Learns(i)
<1>1. /\ \A j \in Initiators \ {i} : responders'[j] = responders[j]
      /\ \A a \in ResponderIds \ {id} : responders'[i][a] = responders[i][a]
      /\ responders'[i][id] = o
  <2>1. responders[i] = [a \in ResponderIds |-> responders[i][a]]
    BY Mine
  <2> QED BY <2>1 DEF PathInv, DomainsOK
<1>2. ASSUME NEW j \in Initiators, NEW a \in ResponderIds, responders'[j][a].hs = "key-sent",
             ~(responders[j][a].hs = "key-sent" /\ responders'[j][a].sess = responders[j][a].sess)
      PROVE  j = i /\ a = id
  BY <1>1, <1>2
<1> QED BY <1>1, <1>2 DEF Learns

LEMMA ChosenByNow ==
  ASSUME PathInv, NEW i \in Initiators, conn[i].state \in {"server-handshake", "peer-handshake"},
         chosen' = chosen, NEW id
  PROVE  MayDrop(i, id)
<1>1. chosen[i].n = 0
  BY DEF PathInv, InitiatorOK, Late
<1> QED BY <1>1 DEF MayDrop

LEMMA HandleServerAuthTurn ==
  ASSUME PathInv, NEW i \in Initiators, inbox[i] # <<>>, conn[i].socket = "open",
         NEW m, m = Head(inbox[i]), ToInitiator(m), HandleServerAuth(i, m),
         UNCHANGED <<slot, phase>>
  PROVE  Turn(i)
<1> DEFINE ids == m.body.responders
           surplus == IF Trusts(i) \/ Len(ids) <= Limit THEN 0 ELSE Len(ids) - Limit
           kept == {k \in 1 .. Len(ids) : k > surplus}
           entry(id) == CHOOSE k \in kept : ids[k] = id
           new == [id \in ResponderIds |->
                     IF \E k \in kept : ids[k] = id
                     THEN NewResponder(i, id, counter[i] + entry(id)) ELSE NoResponder]
           dropped == SubSeq(ids, 1, surplus)
           drops == DropRequests(i, srv[i], dropped, DroppedByInitiator)
<1>1. /\ conn[i].state = "server-handshake" /\ m.type = "server-auth"
      /\ conn' = [conn EXCEPT ![i].state = "peer-handshake"]
      /\ addr' = [addr EXCEPT ![i] = m.dst] /\ handover' = handover /\ chosen' = chosen
      /\ responders' = [responders EXCEPT ![i] = new]
      /\ outbox' = [outbox EXCEPT ![i] = @ \o drops]
      /\ inbox' = [inbox EXCEPT ![i] = Tail(inbox[i])]
  BY DEF HandleServerAuth, ServerAuthDone, ServerHandshake, AuthExpected, Consume
<1>2. i \in Client /\ i \notin Responders
  BY Sides
<1>3. Hears(i) /\ Reads(i)
  BY <1>1, <1>2, HearsOne
<1>4. Apart(i) /\ conn'[i].state = "peer-handshake"
  BY <1>1, <1>2, Streams, AdvanceConn
<1>5. Sits(i)
  BY <1>1, <1>2, <1>3, <1>4 DEF Sits
<1>6. ToldOfHandover(i)
  BY <1>1 DEF ToldOfHandover
<1>7. Learns(i)
  <2>1. \A id, n : NewResponder(i, id, n).hs # "key-sent"
    BY DEF NewResponder, NoResponder
  <2>2. NoResponder.hs # "key-sent"
    BY DEF NoResponder
  <2>3. \A id \in ResponderIds : new[id].hs # "key-sent"
    BY <2>1, <2>2
  <2> HIDE DEF new
  <2>4. NothingLearned(responders[i], new)
    BY <2>3 DEF NothingLearned
  <2> QED BY <1>1, <1>2, <2>4, LearnsLess
<1>8. IsSeq(dropped)
  <2>1. PICK S : ids \in Seq(S)
    BY <1>1 DEF ToInitiator, IsSeq
  <2>2. surplus \in 0 .. Len(ids)
    BY <2>1, InitiatorAssumption
  <2> HIDE DEF ids
  <2>3. \A k \in 1 .. surplus : ids[k] \in S
    BY <2>1, <2>2
  <2> HIDE DEF surplus
  <2>4. dropped \in Seq(S)
    BY <2>1, <2>2, <2>3, SubSeqProperties
  <2> QED BY <2>4 DEF IsSeq
<1>9. \A id : MayDrop(i, id)
  BY <1>1, ChosenByNow
<1> HIDE DEF dropped
<1>10. /\ IsSeq(drops)
       /\ \A p \in Elements(drops) : Says(i, p) /\ p.type # "handover" /\ p.key[1] # "session"
  BY <1>8, <1>9, DropsSaid
<1> HIDE DEF drops
<1>11. Speaks(i)
  BY <1>1, <1>2, <1>10, SpeaksOf
<1> QED BY <1>3, <1>4, <1>5, <1>6, <1>7, <1>11 DEF Turn

LEMMA ProcessNewResponderTurn ==
  ASSUME PathInv, NEW i \in Initiators, inbox[i] # <<>>, conn[i].state = "peer-handshake",
         NEW s, NEW id \in ResponderIds, ProcessNewResponder(i, s, id), Consume(i),
         UNCHANGED <<conn, handover, addr, chosen, slot, phase>>
  PROVE  Turn(i)
<1> DEFINE o == NewResponder(i, id, counter[i] + 1)
           added == [responders[i] EXCEPT ![id] = o]
           evicted == Evicted(added)
           order == InsertionOrder(added, evicted)
           drops == DropRequests(i, s, order, DroppedByInitiator)
           new == Without(added, evicted)
<1>1. /\ responders' = [responders EXCEPT ![i] = new]
      /\ outbox' = [outbox EXCEPT ![i] = @ \o drops]
  BY DEF ProcessNewResponder
<1>2. i \in Client
  BY Sides
<1>3. MapOK(i, added, counter[i] + 1)
  <2>1. counter[i] \in Nat
    BY Mine, Zenon
  <2>2. ObjectOK(i, id, o) /\ o.n = counter[i] + 1
    BY <2>1, NewResponderOK
  <2> HIDE DEF o
  <2> QED BY <2>2, Mine, MapAdded
<1>4. Learns(i)
  <2>1. o.hs # "key-sent"
    BY DEF NewResponder, NoResponder
  <2> HIDE DEF o
  <2>2. responders[i] = [a \in ResponderIds |-> responders[i][a]]
    BY Mine
  <2>3. \A a \in ResponderIds : added[a] = o \/ added[a] = responders[i][a]
    BY <2>2
  <2> HIDE DEF added, evicted
  <2>4. \A a \in ResponderIds : new[a] = added[a] \/ new[a].hs = "new"
    BY DEF Without, NoResponder
  <2> HIDE DEF new
  <2>5. NothingLearned(responders[i], new)
    BY <2>1, <2>3, <2>4 DEF NothingLearned
  <2> QED BY <1>1, <1>2, <2>5, LearnsLess
<1>5. evicted \in SUBSET Present(added)
  BY DEF Evicted
<1> HIDE DEF added, evicted
<1>6. IsSeq(order)
  BY <1>3, <1>5, OrderIsSeq
<1>7. \A a : MayDrop(i, a)
  BY ChosenByNow
<1> HIDE DEF order
<1>8. /\ IsSeq(drops)
      /\ \A p \in Elements(drops) : Says(i, p) /\ p.type # "handover" /\ p.key[1] # "session"
  BY <1>6, <1>7, DropsSaid
<1> HIDE DEF drops
<1>9. Speaks(i)
  BY <1>1, <1>2, <1>8, SpeaksOf
<1> QED BY <1>2, <1>4, <1>9, HeardTurn

LEMMA OneDropSaid ==
  ASSUME NEW i \in Initiators, NEW s, NEW id, MayDrop(i, id), NEW reason,
         outbox' = [outbox EXCEPT ![i] = @ \o DropRequests(i, s, <<id>>, reason)]
  PROVE  Speaks(i)
<1> DEFINE drops == DropRequests(i, s, <<id>>, reason)
<1>1. IsSeq(<<id>>) /\ Elements(<<id>>) = {id}
  BY Single
<1>2. /\ IsSeq(drops)
      /\ \A p \in Elements(drops) : Says(i, p) /\ p.type # "handover" /\ p.key[1] # "session"
  BY <1>1, DropsSaid
<1>3. outbox' = [outbox EXCEPT ![i] = @ \o drops]
  OBVIOUS
<1> HIDE DEF drops
<1> QED BY <1>2, <1>3, Sides, SpeaksOf

LEMMA HandleNewResponderTurn ==
  ASSUME PathInv, NEW i \in Initiators, inbox[i] # <<>>, NEW m, m = Head(inbox[i]),
         HandleNewResponder(i, m), UNCHANGED <<slot, phase>>
  PROVE  Turn(i)
<1>1. CASE /\ FromServer(i, m, "peer-handshake", "new-responder")
           /\ m.body \in ResponderIds
           /\ ProcessNewResponder(i, Heard(i, m), m.body)
           /\ Consume(i)
           /\ UNCHANGED <<conn, handover, task, addr, chosen>>
  BY <1>1, ProcessNewResponderTurn DEF FromServer, ServerMessage
<1>2. CASE /\ FromServer(i, m, "task", "new-responder")
           /\ responders' = [responders EXCEPT ![i] = Without(@, {m.body})]
           /\ outbox' = [outbox EXCEPT ![i] =
                           @ \o DropRequests(i, srv[i], <<m.body>>, DroppedByInitiator)]
           /\ Consume(i)
           /\ UNCHANGED <<conn, handover, task, addr, counter, chosen>>
  <2>1. Reads(i)
    BY <1>2, Sides, HearsOne DEF Consume
  <2>2. MayDrop(i, m.body)
    BY <1>2, <2>1 DEF MayDrop, FromServer
  <2>3. Speaks(i)
    BY <1>2, <2>2, OneDropSaid
  <2> QED BY <1>2, <2>3, Sides, LearnsWithout, HeardTurn
<1> QED BY <1>1, <1>2 DEF HandleNewResponder

LEMMA HandleSendErrorTurn ==
  ASSUME PathInv, NEW i \in Initiators, inbox[i] # <<>>, NEW m, HandleSendError(i, m),
         UNCHANGED <<slot, phase>>
  PROVE  Turn(i)
<1>1. CASE /\ responders' = [responders EXCEPT ![i] = Without(@, {m.body.dst})]
           /\ Consume(i)
           /\ UNCHANGED <<conn, handover, task, addr, outbox, counter, chosen>>
  BY <1>1, Sides, SpeaksNot, LearnsWithout, HeardTurn
<1>2. CASE ResetConnection(i, ProtocolError, <<>>) /\ UNCHANGED peerVars
  BY <1>2, Sides, Codes, SilentResetTurn DEF ResetConnection, peerVars
<1>3. CASE Consume(i) /\ UNCHANGED <<conn, handover, task, addr, outbox>> /\ UNCHANGED peerVars
  BY <1>3, Sides, SpeaksNot, LearnsNot, HeardTurn DEF peerVars
<1> QED BY <1>1, <1>2, <1>3 DEF HandleSendError

LEMMA HandleTokenTurn ==
  ASSUME PathInv, NEW i \in Initiators, inbox[i] # <<>>, NEW m, HandleToken(i, m),
         UNCHANGED <<slot, phase>>
  PROVE  Turn(i)
<1> DEFINE s == Saved(i, m)
           o == [s EXCEPT !.hs = "token-received", !.perm = PermanentKey(m.body)]
<1>1. ResponderFields(s) /\ m.src \in ResponderIds
  BY FromResponderIs DEF HandleToken
<1>2. responders' = [responders EXCEPT ![i][m.src] = o]
  BY DEF HandleToken
<1>3. o.hs = "token-received"
  <2> HIDE DEF s
  <2> QED BY <1>1 DEF ResponderFields
<1> HIDE DEF o
<1>4. Learns(i)
  BY <1>1, <1>2, <1>3, LearnsObject
<1> QED BY <1>4, Sides, SpeaksNot, HeardTurn DEF HandleToken

LEMMA HandleKeyTurn ==
  ASSUME PathInv, NEW i \in Initiators, inbox[i] # <<>>, NEW m, m = Head(inbox[i]),
         HandleKey(i, m), UNCHANGED <<slot, phase>>
  PROVE  Turn(i)
<1> DEFINE s == Saved(i, m)
           sess == SessionKey(<<i, s.n>>, m.body)
           o == [s EXCEPT !.hs = "key-sent", !.out = @ + 1, !.sess = sess]
<1> PICK p : p = BuildPacket(i, s, s.id, s.perm, "key", <<i, s.n>>)
  OBVIOUS
<1>1. /\ FromResponder(i, m, "token-received") /\ m.type = "key"
      /\ responders' = [responders EXCEPT ![i][m.src] = o]
      /\ outbox' = [outbox EXCEPT ![i] = Append(@, p)]
  BY DEF HandleKey
<1>2. /\ m.src \in ResponderIds /\ ResponderFields(s) /\ ObjectOK(i, m.src, s)
      /\ s.hs = "token-received"
  BY <1>1, FromResponderIs
<1>3. o.sess = sess
  <2> HIDE DEF s, sess
  <2> QED BY <1>2 DEF ResponderFields
<1> HIDE DEF s, o
<1>4. s.n \in Nat /\ \E r \in Responders : s.perm = PermanentKey(r)
  BY <1>2 DEF ObjectOK
<1>5. i \in Client /\ i \notin Responders
  BY Sides
<1>6. Reads(i)
  BY <1>5, HearsOne DEF HandleKey, Consume
<1>7. Learns(i)
  BY <1>1, <1>2, <1>3, <1>4, <1>6, LearnsObject
<1>8. Says(i, p)
  <2>1. p.key = s.perm /\ p.type = "key" /\ p.body = <<i, s.n>>
    BY BuiltPacket
  <2> QED BY <1>4, <1>5, <2>1, KindsOfKeys DEF Says
<1> QED BY <1>1, <1>5, <1>7, <1>8, SpeaksOne, HeardTurn DEF HandleKey

LEMMA KeyUndecryptableTurn ==
  ASSUME PathInv, NEW i \in Initiators, inbox[i] # <<>>, NEW m, KeyUndecryptable(i, m),
         UNCHANGED <<slot, phase>>
  PROVE  Turn(i)
<1>1. m.src \in ResponderIds /\ Saved(i, m).hs = "token-received"
  BY FromResponderIs DEF KeyUndecryptable
<1>2. Learns(i)
  BY <1>1, LearnsObject DEF KeyUndecryptable
<1> QED BY <1>2, Sides, SpeaksNot, HeardTurn DEF KeyUndecryptable

LEMMA DropSourceTurn ==
  ASSUME PathInv, NEW i \in Initiators, inbox[i] # <<>>, conn[i].state = "peer-handshake",
         NEW m, NEW reason, DropSource(i, m, reason), UNCHANGED <<slot, phase>>
  PROVE  Turn(i)
<1> DEFINE s == IF m.src = 0 THEN StoreCsn(i, srv[i], m) ELSE srv[i]
<1>1. outbox' = [outbox EXCEPT ![i] = @ \o DropRequests(i, s, <<m.src>>, reason)]
  BY DEF DropSource
<1> HIDE DEF s
<1>2. MayDrop(i, m.src)
  BY ChosenByNow DEF DropSource
<1>3. Speaks(i)
  BY <1>1, <1>2, OneDropSaid
<1> QED BY <1>3, Sides, LearnsWithout, HeardTurn DEF DropSource

LEMMA SignalingErrorTurn ==
  ASSUME PathInv, NEW i \in Initiators, inbox[i] # <<>>, NEW m, NEW code \in CloseCode,
         OnSignalingError(i, m, code), UNCHANGED <<slot, phase>>
  PROVE  Turn(i)
<1>1. CASE ResetConnection(i, code, <<>>) /\ UNCHANGED peerVars
  BY <1>1, Sides, SilentResetTurn DEF ResetConnection, peerVars
<1>2. CASE conn[i].state = "peer-handshake" /\ DropSource(i, m, code)
  BY <1>2, DropSourceTurn
<1>3. CASE CloseWithError(i, code)
  <2> DEFINE sent == SendClose(i, chosen[i], chosen[i].id, code)
  <2>1. chosen[i].sess = PeerKey(i) /\ i \in Client
    BY Sides DEF PeerKey
  <2>2. /\ IsSeq(sent) /\ \A p \in Elements(sent) : Says(i, p)
        /\ \A x, y : ~Follows(sent, x, y)
    BY <1>3, <2>1, SendCloseSaid DEF CloseWithError
  <2>3. Reset(i, ClosingNormal, sent) /\ ClosingNormal \in CloseCode /\ responders' = responders
    BY <1>3, Codes DEF CloseWithError, ResetConnection
  <2> HIDE DEF sent
  <2> QED BY <2>1, <2>2, <2>3, ResetTurn
<1> QED BY <1>1, <1>2, <1>3 DEF OnSignalingError

LEMMA HandleAuthTurn ==
  ASSUME PathInv, NEW i \in Initiators, inbox[i] # <<>>, conn[i].socket = "open",
         NEW m, m = Head(inbox[i]), ToInitiator(m), HandleAuth(i, m), UNCHANGED <<slot, phase>>
  PROVE  Turn(i)
<1> DEFINE s == Saved(i, m)
           o == [s EXCEPT !.cookie = m.cookie, !.hs = "auth-sent", !.out = @ + 1]
           others == Others(i, m)
           order == InsertionOrder(responders[i], others)
           drops == DropRequests(i, srv[i], order, DroppedByInitiator)
           body == [cookie |-> m.cookie, task |-> ChosenTask(i, m)]
<1> PICK auth : auth = BuildPacket(i, responders[i][m.src], o.id, o.sess, "auth", body)
  OBVIOUS
<1>1. /\ chosen' = [chosen EXCEPT ![i] = o]
      /\ outbox' = [outbox EXCEPT ![i] = @ \o <<auth>> \o drops]
      /\ responders' = [responders EXCEPT ![i] = Without(@, ResponderIds)]
      /\ conn' = [conn EXCEPT ![i].state = "task"]
      /\ inbox' = [inbox EXCEPT ![i] = Tail(inbox[i])]
      /\ handover' = handover /\ addr' = addr
  BY DEF HandleAuth, Consume
<1>2. /\ conn[i].state = "peer-handshake" /\ chosen[i].n = 0 /\ m.src \in ResponderIds
      /\ ResponderFields(s) /\ s.n \in Nat \ {0} /\ s.id = m.src
      /\ \E r \in Responders : SharedKey(i, s.n, r, s.sess)
  BY HandleAuthSees
<1>3. ResponderFields(o) /\ o.id = m.src /\ o.sess = s.sess
  <2> HIDE DEF s
  <2> QED BY <1>2 DEF ResponderFields
<1> HIDE DEF o, s
<1>4. i \in Client /\ i \in Initiators /\ chosen'[i] = o
  BY <1>1, Sides DEF PathInv, DomainsOK
<1>5. Half(i, s.sess)
  <2>1. PICK r \in Responders : SharedKey(i, s.n, r, s.sess)
    BY <1>2
  <2>2. PICK k \in 1 .. initiator[r].n : s.sess = SessionKey(<<i, s.n>>, <<r, k>>)
    BY <2>1 DEF SharedKey
  <2>3. initiator[r].n \in Nat
    BY Its
  <2>4. k \in Nat
    BY <2>3
  <2> QED BY <1>2, <2>2, <2>4, SessionKeyIs
<1>6. Says(i, auth) /\ auth.type = "auth"
  <2>1. auth.key = s.sess /\ auth.type = "auth"
    BY <1>3, BuiltPacket
  <2>2. MaySay(i)
    BY <1>2, <1>4 DEF MaySay, InSession
  <2> QED BY <1>5, <2>1, <2>2 DEF Says
<1>7. /\ IsSeq(drops)
      /\ \A p \in Elements(drops) : Says(i, p) /\ p.type # "handover" /\ p.key[1] # "session"
  <2>1. MapOK(i, responders[i], counter[i])
    BY Mine
  <2>2. others \in SUBSET Present(responders[i]) /\ m.src \notin others
    BY DEF Others
  <2> HIDE DEF others
  <2>3. IsSeq(order) /\ Elements(order) = others
    <3>1. IsFiniteSet(others)
      BY <2>2, AddressAssumption, FS_Subset DEF Present
    <3>2. /\ \A id \in others : responders[i][id].n \in Nat
          /\ \A a, b \in others : responders[i][a].n = responders[i][b].n => a = b
      BY <2>1, <2>2 DEF MapOK, ObjectOK, Present
    <3> QED BY <3>1, <3>2, OrderedListing DEF InsertionOrder
  <2> HIDE DEF order
  <2>4. \A id \in Elements(order) : MayDrop(i, id)
    BY <1>2, <1>3, <1>4, <2>2, <2>3 DEF MayDrop
  <2> QED BY <2>3, <2>4, DropsSaid
<1> HIDE DEF drops
<1>8. Speaks(i)
  <2>1. IsSeq(<<auth>>) /\ Elements(<<auth>>) = {auth} /\ \A x, y : ~Follows(<<auth>>, x, y)
    BY Single, NothingFollows
  <2> QED BY <1>1, <1>4, <1>6, <1>7, <2>1, SpeaksTwice
<1>9. Hears(i)
  BY <1>1, <1>4, HearsOne
<1>10. Apart(i) /\ conn'[i].state = "task"
  BY <1>1, <1>4, Streams, AdvanceConn
<1>11. Sits(i) /\ ToldOfHandover(i)
  BY <1>1, <1>10 DEF Sits, ToldOfHandover
<1> QED BY <1>1, <1>8, <1>9, <1>10, <1>11, LearnsWithout DEF Turn

LEMMA InitiatorOnMessageTurn ==
  ASSUME PathInv, NEW i \in Initiators, InitiatorOnMessage(i), UNCHANGED <<slot, phase>>
  PROVE  Turn(i)
<1> PICK m : m = Head(inbox[i])
  OBVIOUS
<1>1. /\ inbox[i] # <<>> /\ conn[i].socket = "open" /\ ToInitiator(m) /\ i \in Client
  BY Mine, Arrived DEF InitiatorOnMessage
<1>2. ASSUME NEW code \in CloseCode, OnSignalingError(i, m, code) PROVE Turn(i)
  BY <1>1, <1>2, SignalingErrorTurn
<1>3. CASE AfterPeerHandover(i) /\ UNCHANGED peerVars
  BY <1>1, <1>3, Codes, SilentResetTurn DEF AfterPeerHandover, ResetConnection, peerVars
<1>4. CASE HandleServerHello(i, m) /\ UNCHANGED peerVars
  BY <1>1, <1>4, ServerHelloTurn DEF peerVars
<1>5. CASE ServerAuthUndecryptable(i, m) /\ UNCHANGED peerVars
  BY <1>1, <1>5, UndecryptableTurn DEF peerVars
<1>6. CASE HandleServerAuth(i, m)
  BY <1>1, <1>6, HandleServerAuthTurn
<1>7. CASE HandleNewResponder(i, m)
  BY <1>1, <1>7, HandleNewResponderTurn
<1>8. CASE HandleSendError(i, m)
  BY <1>1, <1>8, HandleSendErrorTurn
<1>9. CASE HandleDisconnected(i, m) \/ IgnoreUnknown(i, m)
  BY <1>1, <1>9, SpeaksNot, LearnsNot, HeardTurn DEF HandleDisconnected, IgnoreUnknown, peerVars
<1>10. CASE HandleToken(i, m)
  BY <1>1, <1>10, HandleTokenTurn
<1>11. CASE HandleKey(i, m)
  BY <1>1, <1>11, HandleKeyTurn
<1>12. CASE HandleAuth(i, m)
  BY <1>1, <1>12, HandleAuthTurn
<1>13. CASE InvalidNonce(i, m) \/ InvalidServerMessage(i, m) \/ InvalidResponderMessage(i, m)
  BY <1>2, <1>13, Codes DEF InvalidNonce, InvalidServerMessage, InvalidResponderMessage
<1>14. CASE CouldNotDecrypt(i, m)
  BY <1>1, <1>14, DropSourceTurn DEF CouldNotDecrypt, FromResponder
<1>15. CASE AuthWithOurCookie(i, m)
  BY <1>1, <1>15, DropSourceTurn DEF AuthWithOurCookie, AuthDecrypted, FromResponder
<1>16. CASE KeyUndecryptable(i, m)
  BY <1>1, <1>16, KeyUndecryptableTurn
<1>17. CASE ~handover[i].peer /\ HandlePeerMessage(i, m)
  <2>1. conn[i].state = "task" /\ m.key = PeerKey(i) /\ PeerMessage(i, m) /\ responders' = responders
    BY <1>17 DEF HandlePeerMessage, FromChosen, PeerKey
  <2> QED BY <1>1, <1>17, <2>1, PeerMessageTurn
<1>18. CASE PeerMessageUndecryptable(i, m)
  BY <1>1, <1>18, SpeaksNot, LearnsNot, HeardTurn DEF PeerMessageUndecryptable
<1> QED BY <1>3, <1>4, <1>5, <1>6, <1>7, <1>8, <1>9, <1>10, <1>11, <1>12, <1>13, <1>14, <1>15,
           <1>16, <1>17, <1>18 DEF InitiatorOnMessage

-----------------------------------------------------------------------------
(* The turns of a responder.                                               *)

(* It greets from the address it has, or is about to have.                 *)
LEMMA GreetingFrom ==
  ASSUME NEW r, NEW peer
  PROVE  \A p \in Elements(Greeting(r, peer)) : p.src = addr[r]
<1> DEFINE token == BuildPacket(r, peer, 1, TokenKey(AuthToken[r]), "token", r)
           tokens == IF Tokens(r) THEN <<token>> ELSE <<>>
           next == [peer EXCEPT !.out = @ + Len(tokens)]
           key == BuildPacket(r, next, 1, PermanentKey(r), "key", <<r, peer.n>>)
<1>1. token.src = addr[r] /\ key.src = addr[r]
  BY DEF BuildPacket
<1>2. Greeting(r, peer) \in {<<>>, <<key>>, <<token>> \o <<key>>}
  <2>1. Append(<<token>>, key) = <<token>> \o <<key>> /\ Append(<<>>, key) = <<key>>
    BY Pair
  <2> QED BY <2>1 DEF Greeting
<1> HIDE DEF token, key
<1>3. /\ IsSeq(<<token>>) /\ Elements(<<token>>) = {token}
      /\ IsSeq(<<key>>) /\ Elements(<<key>>) = {key}
      /\ Elements(<<>>) = {}
  BY Single
<1>4. Elements(<<token>> \o <<key>>) = Elements(<<token>>) \cup Elements(<<key>>)
  BY <1>3, JoinedElements
<1>5. Elements(<<token>> \o <<key>>) = {token, key}
  BY <1>3, <1>4
<1> DEFINE greeting == Greeting(r, peer)
<1>6. greeting \in {<<>>, <<key>>, <<token>> \o <<key>>}
  BY <1>2
<1> HIDE DEF greeting
<1>7. Elements(greeting) \subseteq {token, key}
  BY <1>3, <1>5, <1>6
<1> QED BY <1>1, <1>7 DEF greeting

LEMMA GreetingSaid ==
  ASSUME NEW r \in Responders, NEW n \in Nat, NEW p, Greets(r, n, p),
         addr'[r] # 0, p.src = addr'[r]
  PROVE  Says(r, p) /\ p.type # "handover"
<1>1. CASE p.type = "token" /\ p.key = TokenKey(AuthToken[r])
  BY <1>1, KindsOfKeys, Quiet
<1>2. CASE p.type = "key" /\ p.body = <<r, n>> /\ p.key = PermanentKey(r)
  BY <1>2, KindsOfKeys DEF Says
<1> QED BY <1>1, <1>2 DEF Greets

LEMMA ServerAuthHandledTurn ==
  ASSUME PathInv, NEW r \in Responders, inbox[r] # <<>>, conn[r].socket = "open",
         NEW m, m = Head(inbox[r]), ServerAuthHandled(r, m), addr = [c \in Client |-> addr[c]],
         UNCHANGED <<peerVars, slot, phase>>
  PROVE  Turn(r)
<1> DEFINE peer == [initiator[r] EXCEPT !.connected = m.body.connected]
           g == Greeting(r, peer)
           sent == [k \in DOMAIN g |-> [g[k] EXCEPT !.src = m.dst]]
<1>1. /\ conn[r].state = "server-handshake" /\ m.type = "server-auth"
      /\ conn' = [conn EXCEPT ![r].state = "peer-handshake"]
      /\ addr' = [addr EXCEPT ![r] = m.dst] /\ handover' = handover
      /\ outbox' = [outbox EXCEPT ![r] = @ \o sent]
      /\ inbox' = [inbox EXCEPT ![r] = Tail(inbox[r])]
      /\ srv[r].hs = "auth-sent" /\ DestinationAccepted(r, m)
  BY DEF ServerAuthHandled, ServerAuthDone, ServerHandshake, AuthExpected, NonceAccepted, Consume
<1>2. r \in Client /\ r \notin Initiators
  BY Sides
<1>3. m.dst \in ResponderIds
  BY <1>1, <1>2 DEF DestinationAccepted
<1>4. addr'[r] = m.dst /\ m.dst # 0
  BY <1>1, <1>2, <1>3, AddressAssumption
<1>5. Hears(r) /\ Reads(r)
  BY <1>1, <1>2, HearsOne
<1>6. Apart(r) /\ conn'[r].state = "peer-handshake"
  BY <1>1, <1>2, Streams, AdvanceConn
<1>7. Sits(r)
  BY <1>1, <1>3, <1>5, <1>6 DEF Sits
<1>8. ToldOfHandover(r)
  BY <1>1 DEF ToldOfHandover
<1>9. peer.n \in Nat
  <2>1. InitiatorFields(initiator[r]) /\ initiator[r].n \in Nat
    BY Its
  <2> QED BY <2>1 DEF InitiatorFields
<1> HIDE DEF peer
<1>10. IsSeq(g) /\ DOMAIN g = 1 .. Len(g) /\ \A p \in Elements(g) : Greets(r, peer.n, p)
  BY GreetingGreets
<1> HIDE DEF g
<1>11. IsSeq(sent) /\ \A p \in Elements(sent) : Greets(r, peer.n, p) /\ p.src = m.dst
  <2>1. Len(g) \in Nat
    BY <1>10 DEF IsSeq
  <2>2. ASSUME NEW k \in 1 .. Len(g)
        PROVE  /\ Greets(r, peer.n, [g[k] EXCEPT !.src = m.dst])
               /\ [g[k] EXCEPT !.src = m.dst].src = m.dst
    <3>1. g[k] \in Elements(g)
      BY DEF Elements
    <3>2. g[k].src = addr[r]
      BY <3>1, GreetingFrom DEF g
    <3>3. \A q : LET s == [q EXCEPT !.src = m.dst]
                 IN s.dst = q.dst /\ s.type = q.type /\ s.body = q.body /\ s.key = q.key
      OBVIOUS
    <3>4. Greets(r, peer.n, [g[k] EXCEPT !.src = m.dst])
      BY <1>10, <3>1, <3>3 DEF Greets
    <3> QED BY <3>4
  <2> DEFINE Q == {[g[k] EXCEPT !.src = m.dst] : k \in 1 .. Len(g)}
  <2>3. sent \in [1 .. Len(g) -> Q]
    BY <1>10
  <2>4. \A p \in Q : Greets(r, peer.n, p) /\ p.src = m.dst
    BY <2>2
  <2> HIDE DEF sent, Q
  <2>5. sent \in Seq(Q) /\ Len(sent) = Len(g)
    BY <2>1, <2>3
  <2>6. \A k \in 1 .. Len(sent) : sent[k] \in Q
    BY <2>3, <2>5
  <2> QED BY <2>4, <2>5, <2>6 DEF IsSeq, Elements
<1> HIDE DEF sent
<1>12. \A p \in Elements(sent) : Says(r, p) /\ p.type # "handover"
  BY <1>4, <1>9, <1>11, GreetingSaid
<1>13. Speaks(r)
  BY <1>1, <1>2, <1>11, <1>12, SpeaksOf
<1> QED BY <1>2, <1>5, <1>6, <1>7, <1>8, <1>13, LearnsNot DEF Turn, peerVars

LEMMA HandleNewInitiatorTurn ==
  ASSUME PathInv, NEW r \in Responders, inbox[r] # <<>>, SeatOK(r), NEW m,
         HandleNewInitiator(r, m), UNCHANGED <<peerVars, slot, phase>>
  PROVE  Turn(r)
<1>1. CASE /\ ServerTells(r, m, "peer-handshake", "new-initiator")
           /\ \E start \in CsnStarts :
                LET peer == [NewInitiator(initiator[r].n + 1, start) EXCEPT !.connected = TRUE]
                IN outbox' = [outbox EXCEPT ![r] = @ \o Greeting(r, peer)]
           /\ Consume(r)
           /\ UNCHANGED <<conn, handover, task, addr>>
  <2>1. PICK start \in CsnStarts :
          LET peer == [NewInitiator(initiator[r].n + 1, start) EXCEPT !.connected = TRUE]
          IN outbox' = [outbox EXCEPT ![r] = @ \o Greeting(r, peer)]
    BY <1>1
  <2> DEFINE n == initiator[r].n + 1
             peer == [NewInitiator(n, start) EXCEPT !.connected = TRUE]
             g == Greeting(r, peer)
  <2>2. n \in Nat /\ peer.n = n
    <3>1. initiator[r].n \in Nat
      BY Its
    <3> QED BY <3>1 DEF NewInitiator
  <2> HIDE DEF peer, n
  <2>3. IsSeq(g) /\ \A p \in Elements(g) : Greets(r, n, p) /\ p.src = addr[r]
    BY <2>2, GreetingGreets, GreetingFrom
  <2>4. outbox' = [outbox EXCEPT ![r] = @ \o g]
    BY <2>1 DEF peer, n
  <2> HIDE DEF g
  <2>5. addr[r] # 0 /\ addr' = addr
    BY <1>1 DEF ServerTells, ServerSays, SeatOK
  <2>6. \A p \in Elements(g) : Says(r, p) /\ p.type # "handover"
    BY <2>2, <2>3, <2>5, GreetingSaid
  <2>7. Speaks(r)
    BY <2>3, <2>4, <2>6, Sides, SpeaksOf
  <2> QED BY <1>1, <2>7, Sides, LearnsNot, HeardTurn DEF peerVars
<1>2. CASE ResetConnection(r, ClosingNormal, <<>>)
  BY <1>2, Sides, Codes, SilentResetTurn DEF ResetConnection, peerVars
<1> QED BY <1>1, <1>2 DEF HandleNewInitiator

LEMMA InitiatorKeyTurn ==
  ASSUME PathInv, NEW r \in Responders, inbox[r] # <<>>, NEW m, ToResponder(m),
         InitiatorKey(r, m), UNCHANGED <<peerVars, slot, phase>>
  PROVE  Turn(r)
<1> DEFINE sess == SessionKey(<<r, initiator[r].n>>, m.body)
           body == [cookie |-> m.cookie, tasks |-> OfferedTasks[r]]
<1> PICK p : p = BuildPacket(r, initiator[r], 1, sess, "auth", body)
  OBVIOUS
<1>1. /\ outbox' = [outbox EXCEPT ![r] = Append(@, p)] /\ m.type = "key"
      /\ initiator[r].hs = "key-sent"
  BY DEF InitiatorKey, KeyArrived
<1>2. p.key = sess /\ p.type = "auth"
  BY BuiltPacket
<1>3. r \in Client /\ r \notin Initiators /\ initiator[r].n \in Nat
  BY Its
<1>4. PICK i \in Initiators, k \in Nat : m.body = <<i, k>>
  BY <1>1 DEF ToResponder
<1>5. sess = SessionKey(<<i, k>>, <<r, initiator[r].n>>)
  BY <1>4, KeyHalves
<1>6. Half(r, sess)
  BY <1>3, <1>5, SessionKeyIs
<1>7. MaySay(r)
  BY <1>1, <1>3 DEF MaySay, InSession
<1> HIDE DEF sess
<1>8. Says(r, p)
  BY <1>2, <1>6, <1>7 DEF Says
<1> QED BY <1>1, <1>3, <1>8, SpeaksOne, LearnsNot, HeardTurn DEF InitiatorKey, peerVars

LEMMA InitiatorAuthTurn ==
  ASSUME PathInv, NEW r \in Responders, inbox[r] # <<>>, conn[r].socket = "open", NEW m,
         InitiatorAuth(r, m), UNCHANGED <<peerVars, slot, phase>>
  PROVE  Turn(r)
<1>1. /\ conn' = [conn EXCEPT ![r].state = "task"]
      /\ inbox' = [inbox EXCEPT ![r] = Tail(inbox[r])]
      /\ UNCHANGED <<handover, addr, outbox, responders>>
  BY DEF InitiatorAuth, Consume, peerVars
<1>2. r \in Client
  BY Sides
<1>3. Apart(r) /\ conn'[r].state = "task"
  BY <1>1, <1>2, Streams, AdvanceConn
<1>4. Hears(r) /\ Speaks(r) /\ Learns(r)
  BY <1>1, <1>2, HearsOne, SpeaksNot, LearnsNot
<1>5. Sits(r) /\ ToldOfHandover(r)
  BY <1>1, <1>3 DEF Sits, ToldOfHandover
<1> QED BY <1>3, <1>4, <1>5 DEF Turn

LEMMA ProtocolErrorTurn ==
  ASSUME PathInv, NEW r \in Responders, OnProtocolError(r), UNCHANGED <<peerVars, slot, phase>>
  PROVE  Turn(r)
<1>1. CASE CloseOnError(r)
  <2> DEFINE sent == SendClose(r, initiator[r], 1, ProtocolError)
  <2>1. initiator[r].sess = PeerKey(r) /\ r \in Client
    BY Sides DEF PeerKey
  <2>2. /\ IsSeq(sent) /\ \A p \in Elements(sent) : Says(r, p)
        /\ \A x, y : ~Follows(sent, x, y)
    BY <1>1, <2>1, SendCloseSaid DEF CloseOnError
  <2>3. Reset(r, ClosingNormal, sent) /\ ClosingNormal \in CloseCode /\ responders' = responders
    BY <1>1, Codes DEF CloseOnError, ResetConnection, peerVars
  <2> HIDE DEF sent
  <2> QED BY <2>1, <2>2, <2>3, ResetTurn
<1>2. CASE ResetConnection(r, ProtocolError, <<>>)
  BY <1>2, Sides, Codes, SilentResetTurn DEF ResetConnection, peerVars
<1> QED BY <1>1, <1>2 DEF OnProtocolError

LEMMA ResponderOnMessageTurn ==
  ASSUME PathInv, OrderInv, NEW r \in Responders, ResponderOnMessage(r),
         UNCHANGED <<peerVars, slot, phase>>
  PROVE  Turn(r)
<1> PICK m : m = Head(inbox[r])
  OBVIOUS
<1>1. /\ inbox[r] # <<>> /\ conn[r].socket = "open" /\ ToResponder(m) /\ r \in Client
      /\ r \notin Initiators
  BY Its, Arrived DEF ResponderOnMessage
<1>2. SeatOK(r) /\ addr = [c \in Client |-> addr[c]] /\ responders' = responders
  BY DEF OrderInv, SeatsOK, peerVars
<1>3. CASE AfterPeerHandover(r)
  BY <1>1, <1>2, <1>3, Codes, SilentResetTurn DEF AfterPeerHandover, ResetConnection
<1>4. CASE HandleServerHello(r, m)
  BY <1>1, <1>2, <1>4, ServerHelloTurn
<1>5. CASE ServerAuthUndecryptable(r, m)
  BY <1>1, <1>2, <1>5, UndecryptableTurn
<1>6. CASE ServerAuthHandled(r, m)
  BY <1>1, <1>2, <1>6, ServerAuthHandledTurn
<1>7. CASE HandleNewInitiator(r, m)
  BY <1>1, <1>2, <1>7, HandleNewInitiatorTurn
<1>8. CASE InitiatorLost(r, m)
  BY <1>1, <1>2, <1>8, Codes, SilentResetTurn DEF InitiatorLost, ResetConnection
<1>9. CASE ServerNotice(r, m) \/ DiscardEarly(r, m) \/ InitiatorUndecryptable(r, m)
  BY <1>1, <1>2, <1>9, SpeaksNot, LearnsNot, HeardTurn
     DEF ServerNotice, DiscardEarly, InitiatorUndecryptable
<1>10. CASE InitiatorKey(r, m)
  BY <1>1, <1>10, InitiatorKeyTurn
<1>11. CASE InitiatorAuth(r, m)
  BY <1>1, <1>11, InitiatorAuthTurn
<1>12. CASE InvalidNonceAt(r, m) \/ InvalidFromServer(r, m) \/ InvalidFromInitiator(r, m)
  BY <1>12, ProtocolErrorTurn DEF InvalidNonceAt, InvalidFromServer, InvalidFromInitiator
<1>13. CASE AuthRepeatsOurCookie(r, m)
  BY <1>1, <1>2, <1>13, Codes, SilentResetTurn DEF AuthRepeatsOurCookie
<1>14. CASE ~handover[r].peer /\ InitiatorMessage(r, m)
  <2>1. conn[r].state = "task" /\ m.key = PeerKey(r) /\ PeerMessage(r, m)
    BY <1>1, <1>14 DEF InitiatorMessage, FromInitiator, PeerKey
  <2> QED BY <1>1, <1>2, <1>14, <2>1, PeerMessageTurn
<1> QED BY <1>3, <1>4, <1>5, <1>6, <1>7, <1>8, <1>9, <1>10, <1>11, <1>12, <1>13, <1>14
        DEF ResponderOnMessage

-----------------------------------------------------------------------------
(* The turns of applications, sockets and tasks.                           *)

LEMMA OpensTurn ==
  ASSUME PathInv, NEW c \in Client, Opens(c)
  PROVE  Turn(c)
<1> DEFINE hello == ServerPacket(c, 0, Plain, "server-hello", NoTask)
<1>1. /\ OnOpen(c) /\ inbox' = [inbox EXCEPT ![c] = <<hello>>]
      /\ phase' = [phase EXCEPT ![c] = "greeted"]
      /\ UNCHANGED <<handover, addr, outbox, responders, slot>>
  BY DEF Opens, Accept, OnOpen, peerVars
<1>2. hello.type = "server-hello" /\ hello.key = Plain
  BY DEF ServerPacket
<1> HIDE DEF hello
<1>3. inbox'[c] = <<hello>> /\ \A d \in Client \ {c} : inbox'[d] = inbox[d]
  BY <1>1, Streams DEF InboxInv
<1>4. Hears(c)
  BY <1>2, <1>3 DEF Hears
<1>5. /\ Apart(c) /\ conn[c].state = "ws-connecting" /\ conn'[c].state = "server-handshake"
  BY <1>1, Streams, OnOpenConn
<1>6. Sits(c) /\ ToldOfHandover(c)
  BY <1>1, <1>5 DEF Sits, ToldOfHandover
<1>7. Speaks(c) /\ Learns(c)
  BY <1>1, SpeaksNot, LearnsNot
<1> QED BY <1>4, <1>5, <1>6, <1>7 DEF Turn

(* The connection ends, or begins.                                         *)
LEMMA ConnectionTurn ==
  ASSUME PathInv, NEW c \in Client, Apart(c),
         conn'[c].state \in {conn[c].state, "closed", "ws-connecting"},
         \/ handover' = handover
         \/ handover' = [handover EXCEPT ![c] = NoHandover],
         Hears(c), Speaks(c), UNCHANGED <<addr, responders, slot, phase>>
  PROVE  Turn(c)
<1>1. Sits(c)
  BY DEF Sits
<1>2. ToldOfHandover(c)
  BY Streams, NoHandoverType DEF ToldOfHandover, ConnInv
<1> QED BY <1>1, <1>2, LearnsNot DEF Turn

LEMMA OnCloseTurn ==
  ASSUME PathInv, NEW c \in Client, NEW code \in CloseCode, OnClose(c, code),
         handover' = handover, conn[c].socket # "none",
         code = Handover => conn[c].socket = "closing", Hears(c), Speaks(c),
         UNCHANGED <<addr, responders, slot, phase>>
  PROVE  Turn(c)
<1>1. Apart(c) /\ conn'[c].state \in {conn[c].state, "closed"}
  BY Streams, OnCloseConn
<1> QED BY <1>1, ConnectionTurn

LEMMA SocketEventTurn ==
  ASSUME PathInv, NEW c \in Client, SocketEvent(c)
  PROVE  Turn(c)
<1>1. UNCHANGED <<responders, slot, phase>>
  BY DEF SocketEvent, peerVars, serverVars
<1>2. CASE CloseEvent(c)
  <2>1. PICK code \in {conn[c].code, AbnormalClosure} : OnClose(c, code)
    BY <1>2 DEF CloseEvent
  <2>2. conn[c].socket = "closing" /\ conn[c] \in ConnRecord /\ Link(conn[c], handover[c])
    BY <1>2, Streams DEF CloseEvent, ConnInv
  <2>3. code \in CloseCode
    BY <2>1, <2>2, Codes DEF Link, ConnRecord
  <2>4. Hears(c) /\ Speaks(c) /\ handover' = handover /\ addr' = addr
    BY <1>2, HearsNothing, SpeaksNot DEF CloseEvent
  <2> QED BY <1>1, <2>1, <2>2, <2>3, <2>4, OnCloseTurn
<1>3. CASE ServerCloses(c)
  <2> DEFINE m == Head(inbox[c])
  <2>1. m \in Elements(inbox[c]) /\ m.type = "ws-close"
    BY <1>3, Streams, Read1 DEF InboxInv, ServerCloses
  <2>2. m.body \in KickCode
    <3>1. CASE c \in Initiators
      BY <2>1, <3>1 DEF PathInv, StreamsOK, ToInitiator
    <3>2. CASE c \in Responders
      BY <2>1, <3>2 DEF PathInv, StreamsOK, ToResponder
    <3> QED BY <3>1, <3>2 DEF Client
  <2>3. /\ OnClose(c, m.body) /\ conn[c].socket = "open" /\ handover' = handover /\ addr' = addr
        /\ Hears(c) /\ Speaks(c)
    BY <1>3, HearsOut, SpeaksNot DEF ServerCloses
  <2>4. m.body \in CloseCode /\ m.body # Handover
    BY <2>2 DEF KickCode
  <2> HIDE DEF m
  <2> QED BY <1>1, <2>3, <2>4, OnCloseTurn
<1> QED BY <1>2, <1>3 DEF SocketEvent

LEMMA ConnectsTurn ==
  ASSUME PathInv, NEW c \in Client, Connects(c)
  PROVE  Turn(c)
<1>1. /\ Connect(c) /\ handover' = [handover EXCEPT ![c] = NoHandover]
      /\ UNCHANGED <<inbox, outbox, addr, responders, slot, phase>>
  BY DEF Connects, Connect, peerVars, serverVars
<1>2. Apart(c) /\ conn'[c].state = "ws-connecting"
  BY <1>1, Streams, ConnectConn
<1> QED BY <1>1, <1>2, HearsNothing, SpeaksNot, ConnectionTurn

LEMMA LeavesTurn ==
  ASSUME PathInv, NEW c \in Client, Leaves(c)
  PROVE  Turn(c)
<1>1. UNCHANGED <<responders, slot, phase>>
  BY DEF Leaves, peerVars, serverVars
<1>2. CASE Disconnect(c, FALSE)
  <2> DEFINE hangup == Hangup(conn[c], ClosingNormal)
  <2>1. /\ IsSeq(hangup)
        /\ \A p \in Elements(hangup) : Says(c, p) /\ p.type # "handover" /\ p.key[1] # "session"
    BY HangupSaid
  <2>2. /\ outbox' = [outbox EXCEPT ![c] = @ \o hangup]
        /\ inbox' = [inbox EXCEPT ![c] = <<>>] /\ UNCHANGED <<handover, addr>>
    BY <1>2 DEF Disconnect
  <2> HIDE DEF hangup
  <2>3. Speaks(c) /\ Hears(c)
    BY <2>1, <2>2, SpeaksOf, HearsOut
  <2>4. Apart(c) /\ conn'[c].state = "closed"
    BY <1>2, Streams, DisconnectConn
  <2> QED BY <1>1, <2>2, <2>3, <2>4, ConnectionTurn
<1>3. CASE ConnectionLost(c)
  <2>1. /\ OnClose(c, AbnormalClosure) /\ AbnormalClosure \in CloseCode
        /\ AbnormalClosure # Handover /\ conn[c].socket # "none"
        /\ inbox' = [inbox EXCEPT ![c] = <<>>] /\ UNCHANGED <<handover, addr>>
    BY <1>3, Codes DEF ConnectionLost, AbnormalClosure, Handover
  <2>2. Speaks(c)
    <3>1. CASE conn[c].socket = "open"
      <4> DEFINE frame == CloseFrame(AbnormalClosure)
      <4>1. frame.type = "ws-close" /\ frame.key[1] # "session"
        BY KindsOfKeys DEF CloseFrame
      <4>2. outbox' = [outbox EXCEPT ![c] = Append(@, frame)]
        BY <1>3, <3>1 DEF ConnectionLost
      <4> HIDE DEF frame
      <4>3. Says(c, frame)
        BY <4>1, Quiet
      <4> QED BY <4>2, <4>3, SpeaksOne
    <3>2. CASE conn[c].socket # "open"
      <4>1. outbox' = outbox
        BY <1>3, <3>2, Streams DEF ConnectionLost, OutboxInv
      <4> QED BY <4>1, SpeaksNot
    <3> QED BY <3>1, <3>2
  <2> QED BY <1>1, <2>1, <2>2, HearsOut, OnCloseTurn
<1> QED BY <1>2, <1>3 DEF Leaves

LEMMA HandOverTurn ==
  ASSUME PathInv, NEW c \in Client, HandOver(c)
  PROVE  Turn(c)
<1>1. CASE c \in Initiators /\ InitiatorHandover(c) /\ UNCHANGED serverVars
  <2>1. chosen[c].sess = PeerKey(c)
    BY <1>1 DEF PeerKey
  <2> QED BY <1>1, <2>1, LocalHandoverTurn DEF InitiatorHandover, serverVars
<1>2. CASE c \in Responders /\ ResponderHandover(c) /\ UNCHANGED <<peerVars, serverVars>>
  <2>1. initiator[c].sess = PeerKey(c)
    BY <1>2, Sides DEF PeerKey
  <2> QED BY <1>2, <2>1, LocalHandoverTurn DEF ResponderHandover, peerVars, serverVars
<1> QED BY <1>1, <1>2 DEF HandOver

LEMMA SendsTurn ==
  ASSUME PathInv, NEW c \in Client, Sends(c)
  PROVE  Turn(c)
<1>1. CASE c \in Initiators /\ InitiatorSends(c) /\ UNCHANGED serverVars
  <2>1. chosen[c].sess = PeerKey(c)
    BY <1>1 DEF PeerKey
  <2> QED BY <1>1, <2>1, SendApplicationTurn DEF InitiatorSends, serverVars
<1>2. CASE c \in Responders /\ ResponderSends(c) /\ UNCHANGED <<peerVars, serverVars>>
  <2>1. initiator[c].sess = PeerKey(c)
    BY <1>2, Sides DEF PeerKey
  <2> QED BY <1>2, <2>1, SendApplicationTurn DEF ResponderSends, peerVars, serverVars
<1> QED BY <1>1, <1>2 DEF Sends

LEMMA OnMessageTurn ==
  ASSUME PathInv, OrderInv, NEW c \in Client, OnMessage(c)
  PROVE  Turn(c)
<1>1. UNCHANGED <<slot, phase>>
  BY DEF OnMessage, serverVars
<1> QED BY <1>1, InitiatorOnMessageTurn, ResponderOnMessageTurn DEF OnMessage

(* Every step but those of the server.                                     *)
LEMMA ClientTurn ==
  ASSUME PathInv, OrderInv, NEW c \in Client,
         \/ OnMessage(c) \/ Opens(c) \/ SocketEvent(c) \/ Connects(c) \/ HandOver(c)
         \/ Leaves(c) \/ Sends(c)
  PROVE  OrderInv'
<1>1. Turn(c)
  BY OnMessageTurn, OpensTurn, SocketEventTurn, ConnectsTurn, HandOverTurn, LeavesTurn, SendsTurn
<1>2. PathInv' /\ SessionsMove
  BY SessionsMoved DEF Step
<1> QED BY <1>1, <1>2, TurnKeeps

-----------------------------------------------------------------------------
(* What the server does: it reads a frame and relays it, or tells clients  *)
(* of its own what has become of the path.                                 *)

Relayed(c, d, p) == p = Head(outbox[c]) /\ Opposite(c, d)

(* Who is announced has just been given the address that is announced, and *)
(* a responder that is accepted is told its own.                           *)
Made(d, p) ==
  /\ p.type \in {"server-auth", "new-initiator", "new-responder", "send-error", "disconnected",
                 "ws-close"}
  /\ p.key[1] # "session"
  /\ p.type = "new-responder" => p.body \in ResponderIds /\ phase[slot'[p.body]] = "greeted"
  /\ p.type = "server-auth" /\ d \in Responders =>
       p.dst \in ResponderIds /\ slot'[p.dst] = d /\ phase[d] = "greeted" /\ phase'[d] = "joined"

Tells(c) ==
  \A d \in Client :
    /\ \A p \in Elements(inbox'[d]) : p \in Elements(inbox[d]) \/ Made(d, p) \/ Relayed(c, d, p)
    /\ \A x, y : Follows(inbox'[d], x, y) =>
         \/ Follows(inbox[d], x, y)
         \/ x \in Elements(inbox[d]) /\ (Made(d, y) \/ Relayed(c, d, y))
         \/ Made(d, x) /\ Made(d, y)

(* One address changes hands: it becomes free, or goes to a responder that *)
(* had none.  Whoever is gone has none.                                    *)
Reseats ==
  /\ phase' = [d \in Client |-> phase'[d]]
  /\ \A r \in Responders :
       \/ phase'[r] = phase[r]
       \/ phase[r] # "none" /\ phase'[r] = "gone" /\ \A a \in ResponderIds : slot'[a] # r
       \/ phase[r] = "greeted" /\ phase'[r] = "joined"
  /\ \A a \in ResponderIds : slot'[a] # slot[a] =>
       /\ \/ slot'[a] = NoPeer
          \/ slot'[a] \in Responders /\ phase[slot'[a]] = "greeted" /\ phase'[slot'[a]] = "joined"
       /\ \A b \in ResponderIds \ {a} : slot'[b] = slot[b]

Serves(c) ==
  /\ outbox[c] # <<>> /\ Read(c)
  /\ UNCHANGED <<conn, handover, addr, responders, chosen, initiator>>
  /\ Tells(c) /\ Reseats

LEMMA Unread ==
  ASSUME OutboxInv, NEW c \in Client, outbox[c] # <<>>, Read(c)
  PROVE  /\ Head(outbox[c]) \in Elements(outbox[c])
         /\ \A d \in Client : \A p \in Elements(outbox'[d]) : p \in Elements(outbox[d])
         /\ \A d \in Client : \A x, y : Follows(outbox'[d], x, y) => Follows(outbox[d], x, y)
         /\ \A p \in Elements(outbox'[c]) : Follows(outbox[c], Head(outbox[c]), p)
<1>1. /\ IsSeq(outbox[c]) /\ outbox = [d \in Client |-> outbox[d]]
      /\ outbox' = [outbox EXCEPT ![c] = Tail(outbox[c])]
  BY DEF OutboxInv, Read
<1>2. outbox'[c] = Tail(outbox[c]) /\ \A d \in Client \ {c} : outbox'[d] = outbox[d]
  BY <1>1
<1>3. /\ Head(outbox[c]) \in Elements(outbox[c])
      /\ \A p \in Elements(Tail(outbox[c])) : p \in Elements(outbox[c])
      /\ \A x, y : Follows(Tail(outbox[c]), x, y) => Follows(outbox[c], x, y)
      /\ \A p \in Elements(Tail(outbox[c])) : Follows(outbox[c], Head(outbox[c]), p)
  BY <1>1, Read1, FollowsTail
<1> QED BY <1>2, <1>3

(* A responder that has just been accepted has no address yet, so nobody   *)
(* knows it.                                                               *)
LEMMA Stranger ==
  ASSUME PathInv, OrderInv, NEW r \in Responders, addr[r] = 0
  PROVE  /\ \A i \in Initiators : ~KnownTo(i, r)
         /\ \A c \in Client : \A p \in Elements(inbox[c]) \cup Elements(outbox[c]) : ~KeyFrom(r, p)
BY DEF OrderInv, ObjectsSeated, KeysSeated, KnownTo

LEMMA GreetedHasNone ==
  ASSUME OrderInv, NEW r \in Responders, phase[r] = "greeted"
  PROVE  addr[r] = 0 /\ \A p \in Elements(inbox[r]) : p.type # "server-auth"
BY DEF OrderInv, SeatsOK, SeatOK

LEMMA ServesSeats ==
  ASSUME PathInv, OrderInv, NEW c \in Client, Serves(c)
  PROVE  SeatsOK'
<1>1. /\ addr = [d \in Client |-> addr[d]]
      /\ \A r \in Responders : phase[r] # "none" => conn[r].used /\ conn[r].state # "ws-connecting"
      /\ \A a, b \in ResponderIds : slot[a] = slot[b] /\ slot[a] # NoPeer => a = b
      /\ \A r \in Responders : SeatOK(r)
  BY DEF OrderInv, SeatsOK
<1>2. /\ conn' = conn /\ addr' = addr /\ phase' = [d \in Client |-> phase'[d]]
      /\ \A r \in Responders :
           \/ phase'[r] = phase[r]
           \/ phase[r] # "none" /\ phase'[r] = "gone" /\ \A a \in ResponderIds : slot'[a] # r
           \/ phase[r] = "greeted" /\ phase'[r] = "joined"
      /\ \A a \in ResponderIds : slot'[a] # slot[a] =>
           /\ \/ slot'[a] = NoPeer
              \/ slot'[a] \in Responders /\ phase[slot'[a]] = "greeted" /\ phase'[slot'[a]] = "joined"
           /\ \A b \in ResponderIds \ {a} : slot'[b] = slot[b]
  BY DEF Serves, Reseats
<1>3. \A d \in Client : \A p \in Elements(inbox'[d]) :
        p.type = "server-auth" => p \in Elements(inbox[d]) \/ Made(d, p)
  <2>1. Head(outbox[c]).type # "server-auth"
    BY Unread, Streams DEF OrderInv, OwnFrames, Serves
  <2> QED BY <2>1 DEF Serves, Tells, Relayed
<1>4. \A a \in ResponderIds : slot[a] \in Responders => phase[slot[a]] = "joined"
  BY <1>1 DEF SeatOK
<1>5. ASSUME NEW a \in ResponderIds, NEW b \in ResponderIds, slot'[a] = slot'[b], slot'[a] # NoPeer
      PROVE  a = b
  <2>1. CASE slot'[a] = slot[a] /\ slot'[b] = slot[b]
    BY <1>1, <1>5, <2>1
  <2>2. CASE slot'[a] # slot[a] /\ slot'[b] = slot[b]
    BY <1>2, <1>4, <1>5, <2>2
  <2>3. CASE slot'[b] # slot[b] /\ slot'[a] = slot[a]
    <3>1. slot'[b] \in Responders /\ phase[slot'[b]] = "greeted"
      BY <1>2, <1>5, <2>3
    <3>2. slot[a] = slot'[b]
      BY <1>5, <2>3
    <3> QED BY <1>4, <3>1, <3>2
  <2>4. CASE slot'[a] # slot[a] /\ slot'[b] # slot[b]
    BY <1>2, <2>4
  <2> QED BY <2>1, <2>2, <2>3, <2>4
<1>6. ASSUME NEW r \in Responders PROVE SeatOK(r)'
  <2>1. r \in Client /\ SeatOK(r)
    BY <1>1, Sides
  <2>2. phase'[r] \in {"none", "greeted"} =>
          addr'[r] = 0 /\ \A p \in Elements(inbox'[r]) : p.type # "server-auth"
    <3>1. phase'[r] \in {"none", "greeted"} => phase'[r] = phase[r]
      BY <1>2
    <3>2. \A p \in Elements(inbox'[r]) : p.type = "server-auth" =>
            p \in Elements(inbox[r]) \/ phase'[r] = "joined"
      BY <1>3, <2>1 DEF Made
    <3> QED BY <1>2, <2>1, <3>1, <3>2 DEF SeatOK
  <2>3. ASSUME NEW a \in ResponderIds, slot'[a] = r
        PROVE  /\ phase'[r] = "joined" /\ addr'[r] \in {0, a}
               /\ \A p \in Elements(inbox'[r]) : p.type = "server-auth" => p.dst = a
    <3>1. r # NoPeer
      BY ClientAssumption
    <3>2. /\ phase'[r] = "joined" /\ addr'[r] \in {0, a}
          /\ \A p \in Elements(inbox[r]) : p.type = "server-auth" => p.dst = a
      <4>1. CASE slot[a] = r
        <5>1. /\ phase[r] = "joined" /\ addr[r] \in {0, a}
              /\ \A p \in Elements(inbox[r]) : p.type = "server-auth" => p.dst = a
          BY <2>1, <4>1 DEF SeatOK
        <5>2. phase'[r] = "joined"
          BY <1>2, <2>3, <5>1
        <5> QED BY <1>2, <5>1, <5>2
      <4>2. CASE slot[a] # r
        <5>1. phase[r] = "greeted" /\ phase'[r] = "joined"
          BY <1>2, <2>3, <3>1, <4>2
        <5> QED BY <1>2, <5>1, GreetedHasNone
      <4> QED BY <4>1, <4>2
    <3>3. ASSUME NEW p \in Elements(inbox'[r]), p.type = "server-auth", p \notin Elements(inbox[r])
          PROVE  p.dst = a
      <4>1. p.dst \in ResponderIds /\ slot'[p.dst] = r
        BY <1>3, <2>1, <3>3 DEF Made
      <4> QED BY <1>5, <2>3, <3>1, <4>1
    <3> QED BY <3>2, <3>3
  <2>4. /\ addr'[r] # 0 =>
             conn'[r].used /\ conn'[r].state \notin {"ws-connecting", "server-handshake"}
        /\ conn'[r].state = "peer-handshake" => addr'[r] # 0
    BY <1>2, <2>1 DEF SeatOK
  <2> QED BY <2>2, <2>3, <2>4 DEF SeatOK
<1>7. \A r \in Responders : phase'[r] # "none" => conn'[r].used /\ conn'[r].state # "ws-connecting"
  BY <1>1, <1>2
<1> QED BY <1>1, <1>2, <1>5, <1>6, <1>7 DEF SeatsOK

LEMMA ServesKeys ==
  ASSUME PathInv, OrderInv, NEW c \in Client, Serves(c)
  PROVE  KeysSeated' /\ ObjectsSeated' /\ OwnFrames'
<1>1. UNCHANGED <<addr, responders, chosen>>
  BY DEF Serves
<1>2. /\ Head(outbox[c]) \in Elements(outbox[c])
      /\ \A d \in Client : \A p \in Elements(outbox'[d]) : p \in Elements(outbox[d])
  BY Unread, Streams DEF Serves
<1>3. KeysSeated'
  <2>1. \A d \in Client : \A p \in Elements(inbox[d]) \cup Elements(outbox[d]) :
          \A r \in Responders : KeyFrom(r, p) => addr[r] # 0 /\ p.src = addr[r]
    BY DEF OrderInv, KeysSeated
  <2>2. \A d \in Client : \A p \in Elements(inbox'[d]) : p.type = "key" =>
          p \in Elements(inbox[d]) \/ p \in Elements(outbox[c])
    BY <1>2 DEF Serves, Tells, Made, Relayed
  <2>3. \A d \in Client : \A p \in Elements(inbox'[d]) \cup Elements(outbox'[d]) :
          \A r \in Responders : KeyFrom(r, p) => addr[r] # 0 /\ p.src = addr[r]
    BY <1>2, <2>1, <2>2 DEF KeyFrom
  <2> QED BY <1>1, <2>3 DEF KeysSeated, KeyFrom
<1>4. ObjectsSeated'
  BY <1>1 DEF OrderInv, ObjectsSeated, Half
<1>5. OwnFrames'
  BY <1>2 DEF OrderInv, OwnFrames, Half
<1> QED BY <1>3, <1>4, <1>5

LEMMA ServesNewcomers ==
  ASSUME PathInv, PathInv', OrderInv, NEW c \in Client, Serves(c)
  PROVE  Newcomers'
<1>2. UNCHANGED <<responders, chosen>>
  BY DEF Serves
<1> SUFFICES ASSUME NEW i \in Initiators, NEW p \in Elements(inbox'[i]),
                    p.type = "new-responder", p.body \in ResponderIds, slot'[p.body] # NoPeer
             PROVE  /\ ~KnownTo(i, slot'[p.body])
                    /\ \A x : Follows(inbox'[i], x, p) => ~KeyFrom(slot'[p.body], x)
  BY <1>2 DEF Newcomers, Taken, KeyFrom, KnownTo, Half
<1> DEFINE r == slot'[p.body]
<1>1. i \in Client /\ r \in Responders
  BY Sides DEF PathInv, SlotsOK
<1>3. Head(outbox[c]) \in Elements(outbox[c])
  BY Unread, Streams DEF Serves
<1>4. CASE addr[r] = 0
  <2>1. addr'[r] = 0 /\ KeysSeated'
    BY <1>4, ServesKeys DEF Serves
  <2>2. \A x \in Elements(inbox'[i]) : ~KeyFrom(r, x)
    BY <1>1, <2>1 DEF KeysSeated, KeyFrom
  <2>3. ~KnownTo(i, r)
    BY <1>1, <1>4, Stranger
  <2> QED BY <2>2, <2>3, FollowsIn
<1>5. CASE addr[r] # 0
  <2>1. ~Made(i, p)
    BY <1>1, <1>5, GreetedHasNone DEF Made
  <2>2. ~Relayed(c, i, p)
    BY <1>3 DEF OrderInv, OwnFrames, Relayed
  <2>3. p \in Elements(inbox[i])
    BY <1>1, <2>1, <2>2 DEF Serves, Tells
  <2>4. slot'[p.body] = slot[p.body]
    <3>1. phase[r] # "greeted" /\ r # NoPeer
      BY <1>1, <1>5, GreetedHasNone
    <3> QED BY <3>1 DEF Serves, Reseats
  <2>5. /\ ~KnownTo(i, r)
        /\ \A x : Follows(inbox[i], x, p) => ~KeyFrom(r, x)
    BY <2>3, <2>4 DEF OrderInv, Newcomers, Taken
  <2>6. \A x : Follows(inbox'[i], x, p) => Follows(inbox[i], x, p)
    BY <1>1, <2>1, <2>2 DEF Serves, Tells
  <2> QED BY <2>5, <2>6
<1> QED BY <1>4, <1>5

LEMMA ServesDropsFirst ==
  ASSUME PathInv, PathInv', OrderInv, NEW c \in Client, Serves(c)
  PROVE  DropsFirst'
<1>1. UNCHANGED <<addr, chosen, initiator>> /\ outbox[c] # <<>> /\ Read(c)
  BY DEF Serves
<1>2. /\ Head(outbox[c]) \in Elements(outbox[c])
      /\ \A d \in Client : \A p \in Elements(outbox'[d]) : p \in Elements(outbox[d])
      /\ \A d \in Client : \A x, y : Follows(outbox'[d], x, y) => Follows(outbox[d], x, y)
      /\ \A p \in Elements(outbox'[c]) : Follows(outbox[c], Head(outbox[c]), p)
  BY <1>1, Unread, Streams
<1> SUFFICES ASSUME NEW i \in Initiators, NEW p \in Elements(outbox'[i]),
                    p.type = "drop-responder", p.body.id \in ResponderIds,
                    slot'[p.body.id] # NoPeer, chosen[i].n # 0,
                    Half(slot'[p.body.id], chosen[i].sess)
             PROVE  /\ ~Entered(slot'[p.body.id], chosen[i].sess)
                    /\ \A s \in Responders : \A x \in Elements(inbox'[s]) :
                         ~AuthUnder(x, chosen[i].sess)
                    /\ \A x : Follows(outbox'[i], x, p) => ~AuthUnder(x, chosen[i].sess)
  BY <1>1 DEF DropsFirst, Taken, Half, Entered, AuthUnder
<1> DEFINE r == slot'[p.body.id]
           key == chosen[i].sess
<1>3. i \in Client /\ r \in Responders /\ p \in Elements(outbox[i])
  BY <1>2, Sides DEF PathInv, SlotsOK
<1>4. r = slot[p.body.id]
  <2>1. addr[r] # 0
    BY <1>3 DEF OrderInv, ObjectsSeated
  <2>2. phase[r] # "greeted" /\ r # NoPeer
    BY <1>3, <2>1, GreetedHasNone
  <2> QED BY <2>2 DEF Serves, Reseats
<1>5. /\ ~Entered(r, key)
      /\ \A s \in Responders : \A x \in Elements(inbox[s]) : ~AuthUnder(x, key)
      /\ \A x : Follows(outbox[i], x, p) => ~AuthUnder(x, key)
  BY <1>3, <1>4 DEF OrderInv, DropsFirst, Taken
<1>6. ASSUME NEW s \in Responders, NEW x \in Elements(inbox'[s]), AuthUnder(x, key) PROVE FALSE
  <2>1. x \notin Elements(inbox[s]) /\ ~Made(s, x)
    BY <1>5, <1>6 DEF AuthUnder, Made
  <2>2. x = Head(outbox[c]) /\ c \in Initiators
    BY <2>1, Sides DEF Serves, Tells, Relayed, Opposite
  <2>3. key[1] = "session" /\ \A d \in Initiators : Half(d, key) => d = i
    BY OpenedKey DEF Opened
  <2>4. Half(c, key)
    BY <1>2, <1>6, <2>2, <2>3 DEF OrderInv, OwnFrames, AuthUnder
  <2>5. Follows(outbox[i], x, p)
    BY <1>2, <2>2, <2>3, <2>4
  <2> QED BY <1>5, <1>6, <2>5
<1> QED BY <1>2, <1>3, <1>5, <1>6

LEMMA ServesHandoverLast ==
  ASSUME PathInv, OrderInv, NEW c \in Client, Serves(c)
  PROVE  HandoverLast'
<1>1. UNCHANGED <<chosen, initiator, handover>> /\ outbox[c] # <<>> /\ Read(c)
  BY DEF Serves
<1>2. /\ Head(outbox[c]) \in Elements(outbox[c])
      /\ \A d \in Client : \A p \in Elements(outbox'[d]) : p \in Elements(outbox[d])
      /\ \A d \in Client : \A x, y : Follows(outbox'[d], x, y) => Follows(outbox[d], x, y)
      /\ \A p \in Elements(outbox'[c]) : Follows(outbox[c], Head(outbox[c]), p)
  BY <1>1, Unread, Streams
<1>3. OwnFrames /\ HandoverLast
  BY DEF OrderInv
<1>4. ASSUME NEW d \in Client, NEW key, NoMore(d, key, outbox) PROVE NoMore(d, key, outbox')
  BY <1>2, <1>4 DEF NoMore
<1>5. ASSUME NEW d \in Client, NEW key, NoMore(d, key, outbox), NEW y, Relayed(c, d, y)
      PROVE  y.key # key
  BY <1>2, <1>5 DEF NoMore, Relayed
<1>6. \A d \in Client : \A p \in Elements(inbox'[d]) :
        p \in Elements(inbox[d]) \/ Made(d, p) \/ Relayed(c, d, p)
  BY DEF Serves, Tells
<1>7. ASSUME NEW d \in Client, NEW x, NEW y, Follows(inbox'[d], x, y), x.type = "handover"
      PROVE  y.key # x.key
  <2>1. CASE Follows(inbox[d], x, y)
    BY <1>3, <1>7, <2>1 DEF HandoverLast, HandoverEnds
  <2>2. CASE x \in Elements(inbox[d]) /\ (Made(d, y) \/ Relayed(c, d, y))
    <3>1. NoMore(d, x.key, outbox)
      BY <1>3, <1>7, <2>2 DEF HandoverLast
    <3>2. PICK e \in Client : Silent(e, x.key)
      BY <1>7, <2>2, SaidBySilent
    <3>3. x.key[1] = "session"
      BY <3>2, Members DEF Silent
    <3> QED BY <1>5, <2>2, <3>1, <3>3 DEF Made
  <2>3. ~Made(d, x)
    BY <1>7 DEF Made
  <2> QED BY <1>7, <2>1, <2>2, <2>3 DEF Serves, Tells
<1>8. ASSUME NEW d \in Client, NEW p \in Elements(inbox'[d]), p.type = "handover"
      PROVE  NoMore(d, p.key, outbox')
  <2>1. CASE p \in Elements(inbox[d])
    BY <1>3, <1>4, <1>8, <2>1 DEF HandoverLast
  <2>2. CASE Relayed(c, d, p)
    <3>1. p = Head(outbox[c]) /\ Opposite(c, d) /\ p \in Elements(outbox[c])
      BY <1>2, <2>2 DEF Relayed
    <3>2. Silent(c, p.key) /\ p.key[1] = "session"
      BY <1>3, <1>8, <3>1, SentBySilent
    <3> SUFFICES ASSUME NEW e \in Client, Opposite(e, d), NEW y \in Elements(outbox'[e])
                 PROVE  y.key # p.key
      BY DEF NoMore
    <3>3. CASE e = c
      BY <1>2, <1>3, <1>8, <3>1, <3>3 DEF HandoverLast, HandoverEnds
    <3>4. CASE e # c
      <4>1. y.key = p.key => Half(e, p.key)
        BY <1>2, <1>3, <3>2 DEF OwnFrames
      <4>2. ~Half(e, p.key)
        BY <3>1, <3>2, <3>4, Members DEF Silent
      <4> QED BY <4>1, <4>2
    <3> QED BY <3>3, <3>4
  <2>3. ~Made(d, p)
    BY <1>8 DEF Made
  <2> QED BY <1>6, <2>1, <2>2, <2>3
<1>9. ASSUME NEW d \in Client, handover[d].peer
      PROVE  NoMore(d, PeerKey(d), outbox') /\ \A p \in Elements(inbox'[d]) : p.key # PeerKey(d)
  <2>1. NoMore(d, PeerKey(d), outbox) /\ \A p \in Elements(inbox[d]) : p.key # PeerKey(d)
    BY <1>3, <1>9 DEF HandoverLast
  <2>2. PICK e \in Client : Silent(e, PeerKey(d))
    BY <1>9, SaidBySilent
  <2>3. PeerKey(d)[1] = "session"
    BY <2>2, Members DEF Silent
  <2>4. ASSUME NEW p \in Elements(inbox'[d]) PROVE p.key # PeerKey(d)
    BY <1>5, <1>6, <2>1, <2>3 DEF Made
  <2> QED BY <1>4, <2>1, <2>4
<1>10. \A d \in Client : PeerKey(d)' = PeerKey(d)
  BY <1>1 DEF PeerKey
<1>11. \A d \in Client : HandoverEnds(outbox'[d])
  BY <1>2, <1>3 DEF HandoverLast, HandoverEnds
<1> QED BY <1>1, <1>7, <1>8, <1>9, <1>10, <1>11 DEF HandoverLast, HandoverEnds

LEMMA ServesKeeps ==
  ASSUME PathInv, PathInv', OrderInv, NEW c \in Client, Serves(c)
  PROVE  OrderInv'
BY ServesSeats, ServesKeys, ServesNewcomers, ServesDropsFirst, ServesHandoverLast DEF OrderInv

-----------------------------------------------------------------------------
(* Every way of the server to handle what it has read.                     *)

Sent(posts, d, p) == \E q \in posts : q.to = d /\ p = q.frame

LEMMA PostedOn ==
  ASSUME InboxInv, NEW posts, IsFiniteSet(posts), Post(posts), NEW d \in Client
  PROVE  /\ \A p \in Elements(inbox'[d]) : p \in Elements(inbox[d]) \/ Sent(posts, d, p)
         /\ \A x, y : Follows(inbox'[d], x, y) =>
              \/ Follows(inbox[d], x, y)
              \/ x \in Elements(inbox[d]) /\ Sent(posts, d, y)
              \/ x # y /\ Sent(posts, d, x) /\ Sent(posts, d, y)
<1> DEFINE frames == {p.frame : p \in {q \in posts : q.to = d}}
           new == SetToSeq(frames)
<1>1. IsFiniteSet(frames) /\ IsSeq(inbox[d])
  BY FramesFinite DEF InboxInv
<1>2. inbox'[d] = IF conn[d].socket = "open" THEN inbox[d] \o new ELSE inbox[d]
  BY DEF Post
<1>3. \A p \in frames : Sent(posts, d, p)
  BY DEF Sent
<1> HIDE DEF frames
<1>4. IsSeq(new) /\ Elements(new) \subseteq frames /\ \A x : ~Follows(new, x, x)
  BY <1>1, Listed, ListedOnce
<1> HIDE DEF new
<1>5. \A x, y : Follows(inbox'[d], x, y) =>
        \/ Follows(inbox[d], x, y)
        \/ x \in Elements(inbox[d]) /\ y \in Elements(new)
        \/ Follows(new, x, y)
  BY <1>1, <1>2, <1>4, FollowsJoined
<1>6. \A x, y : Follows(new, x, y) => x # y /\ x \in Elements(new) /\ y \in Elements(new)
  BY <1>4, FollowsIn
<1>7. \A p \in Elements(inbox'[d]) : p \in Elements(inbox[d]) \/ Sent(posts, d, p)
  BY Posted DEF Sent
<1> QED BY <1>3, <1>4, <1>5, <1>6, <1>7

ServerTurn(c) ==
  /\ outbox[c] # <<>> /\ Read(c)
  /\ UNCHANGED <<conn, handover, addr, responders, chosen, initiator>>

(* It tells of its own, or relays one frame.                               *)
LEMMA TellsAll ==
  ASSUME PathInv, NEW c \in Client, ServerTurn(c), Reseats,
         NEW posts, IsFiniteSet(posts), Post(posts),
         \A q \in posts : q.to \in Client => Made(q.to, q.frame)
  PROVE  Serves(c)
<1> SUFFICES ASSUME NEW d \in Client
             PROVE  /\ \A p \in Elements(inbox'[d]) : p \in Elements(inbox[d]) \/ Made(d, p)
                    /\ \A x, y : Follows(inbox'[d], x, y) =>
                         \/ Follows(inbox[d], x, y)
                         \/ x \in Elements(inbox[d]) /\ Made(d, y)
                         \/ Made(d, x) /\ Made(d, y)
  BY DEF Serves, ServerTurn, Tells
<1>1. \A p : Sent(posts, d, p) => Made(d, p)
  BY DEF Sent
<1> QED BY <1>1, PostedOn, Streams

LEMMA TellsOne ==
  ASSUME PathInv, NEW c \in Client, ServerTurn(c), Reseats, NEW to, NEW frame,
         Post({[to |-> to, frame |-> frame]}), to \in Client => Made(to, frame)
  PROVE  Serves(c)
<1> DEFINE post == [to |-> to, frame |-> frame]
<1>1. post.to = to /\ post.frame = frame
  OBVIOUS
<1> HIDE DEF post
<1>2. IsFiniteSet({post}) /\ \A q \in {post} : q.to \in Client => Made(q.to, q.frame)
  BY <1>1, FS_Singleton
<1> QED BY <1>2, TellsAll DEF post

LEMMA TellsNobody ==
  ASSUME PathInv, NEW c \in Client, ServerTurn(c), Reseats, Post({})
  PROVE  Serves(c)
BY FS_EmptySet, TellsAll

LEMMA PassesOn ==
  ASSUME PathInv, NEW c \in Client, ServerTurn(c), Reseats, NEW to,
         Post({[to |-> to, frame |-> Head(outbox[c])]}), to \in Client => Opposite(c, to)
  PROVE  Serves(c)
<1> DEFINE post == [to |-> to, frame |-> Head(outbox[c])]
<1>1. post.to = to /\ post.frame = Head(outbox[c])
  OBVIOUS
<1> HIDE DEF post
<1> SUFFICES ASSUME NEW d \in Client
             PROVE  /\ \A p \in Elements(inbox'[d]) : p \in Elements(inbox[d]) \/ Relayed(c, d, p)
                    /\ \A x, y : Follows(inbox'[d], x, y) =>
                         \/ Follows(inbox[d], x, y)
                         \/ x \in Elements(inbox[d]) /\ Relayed(c, d, y)
  BY DEF Serves, ServerTurn, Tells
<1>2. \A p : Sent({post}, d, p) => Relayed(c, d, p) /\ p = Head(outbox[c])
  BY <1>1 DEF Sent, Relayed
<1>3. IsFiniteSet({post}) /\ Post({post})
  BY FS_Singleton DEF post
<1> QED BY <1>2, <1>3, PostedOn, Streams

(* Notices and close frames say nothing in a session.                      *)
LEMMA NoticeMade ==
  ASSUME NEW d, NEW c, NEW dst, NEW type, NEW body,
         type \in {"new-initiator", "send-error", "disconnected"}
  PROVE  Made(d, ServerPacket(c, dst, ServerKey(c), type, body))
BY KindsOfKeys DEF Made, ServerPacket

LEMMA KickMade ==
  ASSUME NEW d, NEW code
  PROVE  Made(d, CloseFrame(code))
BY KindsOfKeys DEF Made, CloseFrame

LEMMA NobodyMoves ==
  ASSUME OrderInv, UNCHANGED <<slot, phase>>
  PROVE  Reseats
BY DEF OrderInv, SeatsOK, Reseats

LEMMA InitiatorJoinsServes ==
  ASSUME PathInv, OrderInv, NEW c \in Client, ServerTurn(c), NEW m, InitiatorJoins(c, m)
  PROVE  Serves(c)
<1> DEFINE old == {slot[1]} \ {NoPeer}
           auth == ServerPacket(c, 1, ServerKey(c), "server-auth",
                     [cookie |-> m.cookie, responders |-> SetToSeq(Taken)])
           posts == {[to |-> c, frame |-> auth]}
                    \cup {Kick(o, DroppedByInitiator) : o \in old}
                    \cup {Notice(slot[a], "new-initiator", NoTask) : a \in Taken}
<1>1. /\ c \in Initiators /\ slot' = [slot EXCEPT ![1] = c] /\ Post(posts)
      /\ phase' = [d \in Client |-> IF d = c THEN "joined" ELSE IF d \in old THEN "gone" ELSE phase[d]]
  BY DEF InitiatorJoins
<1>2. Reseats
  <2>1. old \subseteq Initiators
    BY DEF PathInv, SlotsOK
  <2>2. \A r \in Responders : phase'[r] = phase[r]
    BY <1>1, <2>1, Sides
  <2>3. \A a \in ResponderIds : slot'[a] = slot[a]
    BY <1>1, AddressAssumption
  <2>4. phase' = [d \in Client |-> phase'[d]]
    BY <1>1
  <2> QED BY <2>2, <2>3, <2>4 DEF Reseats
<1>3. Made(c, auth)
  <2> DEFINE body == [cookie |-> m.cookie, responders |-> SetToSeq(Taken)]
  <2> HIDE DEF body
  <2>1. Made(c, ServerPacket(c, 1, ServerKey(c), "server-auth", body))
    BY <1>1, Sides, KindsOfKeys DEF Made, ServerPacket
  <2> QED BY <2>1 DEF body
<1> HIDE DEF auth
<1>4. IsFiniteSet(posts)
  BY TakeoverPosts
<1>5. \A q \in posts : Made(q.to, q.frame)
  <2>1. \A o : Made(Kick(o, DroppedByInitiator).to, Kick(o, DroppedByInitiator).frame)
    BY KickMade DEF Kick
  <2>2. \A a : LET n == Notice(slot[a], "new-initiator", NoTask) IN Made(n.to, n.frame)
    BY NoticeMade DEF Notice
  <2> QED BY <1>3, <2>1, <2>2
<1> HIDE DEF posts
<1> QED BY <1>1, <1>2, <1>4, <1>5, TellsAll

LEMMA ResponderJoinsServes ==
  ASSUME PathInv, OrderInv, NEW c \in Client, ServerTurn(c), NEW m, ResponderJoins(c, m)
  PROVE  Serves(c)
<1>1. /\ c \in Responders /\ phase[c] = "greeted" /\ phase = [d \in Client |-> phase[d]]
      /\ \A a \in ResponderIds : slot[a] # c
  BY DEF ResponderJoins, OrderInv, SeatsOK, SeatOK
<1>2. CASE Taken = ResponderIds
  <2>1. Post({Kick(c, PathFull)}) /\ UNCHANGED slot /\ phase' = [phase EXCEPT ![c] = "gone"]
    BY <1>2 DEF ResponderJoins
  <2>2. Reseats
    BY <1>1, <2>1 DEF Reseats
  <2>3. Made(c, CloseFrame(PathFull))
    BY KickMade
  <2> QED BY <2>1, <2>2, <2>3, TellsOne DEF Kick
<1>3. CASE Taken # ResponderIds
  <2> DEFINE a == CHOOSE b \in ResponderIds \ Taken : \A o \in ResponderIds \ Taken : b <= o
             auth == ServerPacket(c, a, ServerKey(c), "server-auth",
                       [cookie |-> m.cookie, connected |-> slot[1] # NoPeer])
             posts == {[to |-> c, frame |-> auth]}
                      \cup {Notice(i, "new-responder", a) : i \in {slot[1]} \ {NoPeer}}
  <2>1. /\ slot' = [slot EXCEPT ![a] = c] /\ phase' = [phase EXCEPT ![c] = "joined"]
        /\ Post(posts)
    BY <1>3 DEF ResponderJoins
  <2>2. a \in ResponderIds
    <3>1. ResponderIds \ Taken \in SUBSET Nat /\ ResponderIds \ Taken # {}
      BY <1>3, TakenFinite, AddressAssumption
    <3> QED BY <3>1, Smallest
  <2> HIDE DEF a
  <2>3. slot'[a] = c /\ \A b \in ResponderIds \ {a} : slot'[b] = slot[b]
    BY <2>1, <2>2 DEF PathInv, SlotsOK
  <2>4. phase'[c] = "joined" /\ phase' = [d \in Client |-> phase'[d]]
        /\ \A d \in Client \ {c} : phase'[d] = phase[d]
    BY <1>1, <2>1
  <2>5. Reseats
    BY <1>1, <2>3, <2>4, Sides DEF Reseats
  <2>6. Made(c, auth)
    <3> DEFINE body == [cookie |-> m.cookie, connected |-> slot[1] # NoPeer]
    <3> HIDE DEF body
    <3>1. Made(c, ServerPacket(c, a, ServerKey(c), "server-auth", body))
      BY <1>1, <2>2, <2>3, <2>4, KindsOfKeys DEF Made, ServerPacket
    <3> QED BY <3>1 DEF body
  <2> HIDE DEF auth
  <2>7. IsFiniteSet(posts)
    BY NewcomerPosts
  <2>8. \A q \in posts : Made(q.to, q.frame)
    <3>1. \A i, dst : Made(i, ServerPacket(i, dst, ServerKey(i), "new-responder", a))
      BY <1>1, <2>2, <2>3, KindsOfKeys DEF Made, ServerPacket
    <3>2. \A i : LET n == Notice(i, "new-responder", a) IN Made(n.to, n.frame)
      BY <3>1 DEF Notice
    <3> QED BY <2>6, <3>2
  <2> HIDE DEF posts
  <2> QED BY <2>1, <2>5, <2>7, <2>8, TellsAll
<1> QED BY <1>2, <1>3

LEMMA ServerDropsServes ==
  ASSUME PathInv, OrderInv, NEW c \in Client, ServerTurn(c), NEW m, ServerDrops(c, m)
  PROVE  Serves(c)
<1>1. CASE m.body.id \in Taken
  <2> DEFINE d == slot[m.body.id]
  <2>1. /\ slot' = [slot EXCEPT ![m.body.id] = NoPeer] /\ Post({Kick(d, m.body.reason)})
        /\ phase' = [phase EXCEPT ![d] = "gone"]
    BY <1>1 DEF ServerDrops
  <2>2. m.body.id \in ResponderIds /\ d \in Responders /\ d \in Client /\ d # NoPeer
    BY <1>1, Sides DEF Taken, PathInv, SlotsOK
  <2>3. slot'[m.body.id] = NoPeer /\ \A b \in ResponderIds \ {m.body.id} : slot'[b] = slot[b]
    BY <2>1, <2>2 DEF PathInv, SlotsOK
  <2>4. phase = [e \in Client |-> phase[e]] /\ phase[d] = "joined"
    BY <2>2 DEF OrderInv, SeatsOK, SeatOK
  <2>5. /\ phase'[d] = "gone" /\ phase' = [e \in Client |-> phase'[e]]
        /\ \A e \in Client \ {d} : phase'[e] = phase[e]
    BY <2>1, <2>2, <2>4
  <2>6. \A a \in ResponderIds : slot'[a] # d
    BY <2>2, <2>3 DEF OrderInv, SeatsOK
  <2>7. Reseats
    BY <2>3, <2>4, <2>5, <2>6, Sides DEF Reseats
  <2>8. Made(d, CloseFrame(m.body.reason))
    BY KickMade
  <2> HIDE DEF d
  <2> QED BY <2>1, <2>7, <2>8, TellsOne DEF Kick
<1>2. CASE m.body.id \notin Taken
  <2>1. Post({}) /\ UNCHANGED <<slot, phase>>
    BY <1>2 DEF ServerDrops
  <2> QED BY <2>1, NobodyMoves, TellsNobody
<1> QED BY <1>1, <1>2

LEMMA RelayServes ==
  ASSUME PathInv, OrderInv, NEW c \in Client, ServerTurn(c), Relay(c, Head(outbox[c]))
  PROVE  Serves(c)
<1> DEFINE m == Head(outbox[c])
<1>1. m \in Elements(outbox[c])
  BY Unread, Streams DEF ServerTurn
<1>2. Reseats /\ m.dst # 0 /\ m.type # "ws-close" /\ SlotsOK
  BY NobodyMoves DEF Relay, PathInv
<1>3. CASE slot[m.dst] # NoPeer
  <2> DEFINE d == slot[m.dst]
  <2>1. Post({[to |-> d, frame |-> m]})
    BY <1>3 DEF Relay
  <2>2. CASE c \in Initiators
    <3>1. OfInitiator(m)
      BY <1>1, <2>2 DEF PathInv, StreamsOK
    <3>2. d \in Responders
      BY <1>2, <1>3, <3>1 DEF OfInitiator, SlotsOK
    <3>3. Opposite(c, d)
      BY <2>2, <3>2 DEF Opposite
    <3> HIDE DEF d
    <3> QED BY <1>2, <2>1, <3>3, PassesOn
  <2>3. CASE c \in Responders
    <3>1. OfResponder(m)
      BY <1>1, <2>3 DEF PathInv, StreamsOK
    <3>2. d \in Initiators
      BY <1>2, <1>3, <3>1 DEF OfResponder, SlotsOK
    <3>3. Opposite(c, d)
      BY <2>3, <3>2 DEF Opposite
    <3> HIDE DEF d
    <3> QED BY <1>2, <2>1, <3>3, PassesOn
  <2> QED BY <2>2, <2>3 DEF Client
<1>4. CASE slot[m.dst] = NoPeer
  <2> DEFINE body == [src |-> m.src, dst |-> m.dst]
             frame == ServerPacket(c, AddressOf(c), ServerKey(c), "send-error", body)
  <2>1. Post({[to |-> c, frame |-> frame]})
    BY <1>4 DEF Relay, Notice
  <2>2. Made(c, frame)
    <3> HIDE DEF body
    <3> QED BY NoticeMade
  <2> HIDE DEF frame
  <2> QED BY <1>2, <2>1, <2>2, TellsOne
<1> QED BY <1>3, <1>4

LEMMA ClientLeavesServes ==
  ASSUME PathInv, OrderInv, NEW c \in Client, ServerTurn(c), NEW m, ClientLeaves(c, m)
  PROVE  Serves(c)
<1>1. /\ phase = [e \in Client |-> phase[e]] /\ phase[c] \in {"greeted", "joined"}
      /\ phase' = [phase EXCEPT ![c] = "gone"]
  BY DEF ClientLeaves, OrderInv, SeatsOK
<1>2. /\ phase'[c] = "gone" /\ phase' = [e \in Client |-> phase'[e]]
      /\ \A e \in Client \ {c} : phase'[e] = phase[e]
  BY <1>1
<1>3. CASE c \notin Joined
  <2>1. Post({}) /\ UNCHANGED slot
    BY <1>3 DEF ClientLeaves
  <2>2. c \in Responders => \A a \in ResponderIds : slot[a] # c
    BY <1>3, Sides DEF Joined, OrderInv, SeatsOK, SeatOK
  <2>3. Reseats
    BY <1>1, <1>2, <2>1, <2>2, Sides DEF Reseats
  <2> QED BY <2>1, <2>3, TellsNobody
<1>4. CASE c \in Joined
  <2> DEFINE a == AddressOf(c)
             peers == IF a = 1 THEN {slot[b] : b \in Taken} ELSE {slot[1]} \ {NoPeer}
             posts == {Notice(p, "disconnected", a) : p \in peers}
  <2>1. slot' = [slot EXCEPT ![a] = NoPeer] /\ Post(posts)
    BY <1>4 DEF ClientLeaves
  <2>2. \A q \in posts : Made(q.to, q.frame)
    BY NoticeMade DEF Notice
  <2>3. IsFiniteSet(posts)
    BY DeparturePosts
  <2>4. ASSUME c \in Responders, NEW b \in ResponderIds PROVE slot'[b] # c
    <3>1. c # NoPeer /\ c \notin Initiators
      BY <2>4, Sides, ClientAssumption
    <3>2. CASE slot[b] = c
      <4>1. b \in DOMAIN slot
        BY DEF PathInv, SlotsOK
      <4>2. a \in DOMAIN slot /\ slot[a] = c
        BY <3>2, <4>1 DEF AddressOf
      <4>3. a \in ResponderIds
        BY <3>1, <4>2 DEF PathInv, SlotsOK
      <4>4. a = b
        BY <3>1, <3>2, <4>2, <4>3 DEF OrderInv, SeatsOK
      <4>5. slot'[b] = NoPeer
        BY <2>1, <4>1, <4>4
      <4> QED BY <3>1, <4>5
    <3>3. CASE slot[b] # c
      <4> HIDE DEF a
      <4>1. slot'[b] \in {slot[b], NoPeer}
        BY <2>1 DEF PathInv, SlotsOK
      <4> QED BY <3>1, <3>3, <4>1
    <3> QED BY <3>2, <3>3
  <2> HIDE DEF a, peers
  <2>5. \A b \in ResponderIds : slot'[b] # slot[b] =>
          slot'[b] = NoPeer /\ \A e \in ResponderIds \ {b} : slot'[e] = slot[e]
    BY <2>1 DEF PathInv, SlotsOK
  <2>6. Reseats
    BY <1>1, <1>2, <2>4, <2>5, Sides DEF Reseats
  <2> HIDE DEF posts
  <2> QED BY <2>1, <2>2, <2>3, <2>6, TellsAll
<1> QED BY <1>3, <1>4

LEMMA ServerReadsServes ==
  ASSUME PathInv, OrderInv, NEW c \in Client, ServerReads(c)
  PROVE  Serves(c)
<1> DEFINE m == Head(outbox[c])
<1>1. /\ ServerTurn(c)
      /\ \/ InitiatorJoins(c, m) \/ ResponderJoins(c, m) \/ ServerDrops(c, m)
         \/ Relay(c, m) \/ ClientLeaves(c, m)
         \/ Post({}) /\ UNCHANGED <<slot, phase>>
  BY DEF ServerReads, ServerTurn, peerVars
<1>2. CASE Post({}) /\ UNCHANGED <<slot, phase>>
  BY <1>1, <1>2, NobodyMoves, TellsNobody
<1> HIDE DEF m
<1>3. CASE Relay(c, m)
  BY <1>1, <1>3, RelayServes DEF m
<1> QED BY <1>1, <1>2, <1>3, InitiatorJoinsServes, ResponderJoinsServes, ServerDropsServes,
           ClientLeavesServes

-----------------------------------------------------------------------------
(* The invariant.                                                          *)

LEMMA OrderInit == Init => OrderInv
<1> SUFFICES ASSUME Init PROVE OrderInv
  OBVIOUS
<1>1. /\ \A c \in Client : /\ inbox[c] = <<>> /\ outbox[c] = <<>> /\ addr[c] = 0
                           /\ phase[c] = "none" /\ conn[c] = NoConn /\ handover[c] = NoHandover
      /\ \A a \in ResponderIds : slot[a] = NoPeer
      /\ \A i \in Initiators : /\ chosen[i].n = 0
                               /\ \A id \in ResponderIds : responders[i][id].hs = "new"
      /\ addr = [c \in Client |-> addr[c]] /\ phase = [c \in Client |-> phase[c]]
  BY Sides DEF Init, InitCommon, InitInitiator, NoResponder
<1>2. Elements(<<>>) = {} /\ \A x, y : ~Follows(<<>>, x, y)
  BY Single, NothingFollows
<1>3. \A c \in Client : /\ \A p : p \notin Elements(inbox[c]) /\ p \notin Elements(outbox[c])
                        /\ \A x, y : ~Follows(inbox[c], x, y) /\ ~Follows(outbox[c], x, y)
  BY <1>1, <1>2
<1>4. NoConn.state = "new" /\ ~NoHandover.peer
  BY DEF NoConn, NoHandover
<1>5. SeatsOK
  <2>1. \A r \in Responders : SeatOK(r)
    BY <1>1, <1>3, <1>4, Sides, ClientAssumption DEF SeatOK
  <2> QED BY <1>1, <2>1, Sides DEF SeatsOK
<1>6. KeysSeated /\ ObjectsSeated /\ Newcomers /\ DropsFirst /\ OwnFrames
  BY <1>1, <1>3, Sides DEF KeysSeated, ObjectsSeated, Newcomers, DropsFirst, OwnFrames
<1>7. HandoverLast
  BY <1>1, <1>3, <1>4 DEF HandoverLast, HandoverEnds
<1> QED BY <1>5, <1>6, <1>7 DEF OrderInv

LEMMA OrderStep ==
  ASSUME PathInv, OrderInv, NEW c \in Client, Step(c) \/ Leaves(c) \/ Sends(c)
  PROVE  OrderInv'
<1>1. CASE ServerReads(c)
  <2>1. PathInv'
    BY <1>1, ServerReadsKeeps
  <2> QED BY <1>1, <2>1, ServerReadsServes, ServesKeeps
<1>2. CASE ~ServerReads(c)
  BY <1>2, ClientTurn DEF Step
<1> QED BY <1>1, <1>2

LEMMA OrderStutters == ASSUME OrderInv, UNCHANGED vars PROVE OrderInv'
<1>1. UNCHANGED <<conn, handover, addr, responders, chosen, initiator, slot, phase, inbox, outbox>>
  BY DEF vars, commonVars, peerVars, serverVars
<1>2. SeatsOK'
  BY <1>1 DEF OrderInv, SeatsOK, SeatOK
<1>6. KeysSeated' /\ ObjectsSeated'
  BY <1>1 DEF OrderInv, KeysSeated, ObjectsSeated, KeyFrom, Half
<1>3. Newcomers'
  BY <1>1 DEF OrderInv, Newcomers, KnownTo, Taken, KeyFrom, Half
<1>4. DropsFirst'
  BY <1>1 DEF OrderInv, DropsFirst, Taken, Half, Entered, AuthUnder
<1>5. OwnFrames' /\ HandoverLast'
  BY <1>1 DEF OrderInv, OwnFrames, HandoverLast, HandoverEnds, NoMore, PeerKey, Half
<1> QED BY <1>2, <1>3, <1>4, <1>5, <1>6 DEF OrderInv

LEMMA OrderInvariant == Spec => [](PathInv /\ OrderInv)
<1>1. Init => PathInv /\ OrderInv
  BY PathInit, OrderInit
<1>2. PathInv /\ OrderInv /\ [Next]_vars => (PathInv /\ OrderInv)'
  BY PathNext, OrderStep, OrderStutters DEF Next
<1> QED BY <1>1, <1>2, PTL DEF Spec

-----------------------------------------------------------------------------
(* What the order guarantees.                                              *)

(* Once a client knows that its peer has handed over, no message of the    *)
(* peer is left in its WebSocket, and none will come: sendTaskMessage and  *)
(* sendClose in common.ts take the channel of the task as soon as          *)
(* handoverState.local is set, and a stream keeps its order.  So it is     *)
(* never a message of the peer that onMessage answers, in that state, by   *)
(* resetting the connection with ProtocolError.                            *)
THEOREM NothingIsLate == Spec => []NothingAfterHandover
<1>1. PathInv /\ OrderInv => NothingAfterHandover
  <2> SUFFICES ASSUME PathInv, OrderInv, NEW c \in Client, handover[c].peer,
                      NEW k \in DOMAIN inbox[c]
               PROVE  inbox[c][k].key # PeerKey(c)
    BY DEF NothingAfterHandover
  <2>1. IsSeq(inbox[c])
    BY Streams DEF InboxInv
  <2>2. inbox[c][k] \in Elements(inbox[c])
    BY <2>1 DEF IsSeq, Elements
  <2> QED BY <2>2 DEF OrderInv, HandoverLast
<1> QED BY <1>1, OrderInvariant, PTL

(* An initiator never asks the server to drop the responder that is in     *)
(* state `task` with it.  dropResponder in initiator.ts names a responder  *)
(* by its address: one whose message was wrong, the oldest of too many,    *)
(* all others once one is chosen, and who is announced after that.  When   *)
(* the server reads the request, the address may be another responder's,   *)
(* but never that of the chosen one.                                       *)
THEOREM ChosenOneIsKept == Spec => []ChosenIsKept
<1>1. PathInv /\ OrderInv => ChosenIsKept
  <2> SUFFICES ASSUME PathInv, OrderInv, NEW i \in Initiators, NEW k \in DOMAIN outbox[i],
                      outbox[i][k].type = "drop-responder", outbox[i][k].body.id \in Taken,
                      conn[slot[outbox[i][k].body.id]].state = "task",
                      i \in Partner(slot[outbox[i][k].body.id])
               PROVE  FALSE
    BY DEF ChosenIsKept
  <2> DEFINE p == outbox[i][k]
             r == slot[p.body.id]
             key == chosen[i].sess
  <2>1. p \in Elements(outbox[i])
    <3>1. i \in Client /\ IsSeq(outbox[i])
      BY Sides, Streams DEF OutboxInv
    <3> QED BY <3>1 DEF IsSeq, Elements
  <2>2. r \in Responders
    BY DEF Taken, PathInv, SlotsOK
  <2>3. chosen[i].n # 0 /\ initiator[r].sess = key
    BY DEF Partner
  <2>4. Entered(r, key)
    BY <2>2, <2>3 DEF PathInv, ResponderOK, Entered
  <2>5. Half(r, key)
    BY <2>2, <2>4, EnteredKey
  <2> QED BY <2>1, <2>3, <2>4, <2>5 DEF OrderInv, DropsFirst
<1> QED BY <1>1, OrderInvariant, PTL

(* Addresses are given out again, and yet nobody is taken for somebody     *)
(* else: a responder that the server has seated has, from handleServerAuth *)
(* on, the address the server holds for it, and an object in `key-sent`    *)
(* that initiator.ts keeps under an address has agreed on its session key  *)
(* with the responder whose address it is.                                 *)
AddressesAgree ==
  /\ \A a \in ResponderIds : slot[a] # NoPeer => addr[slot[a]] \in {0, a}
  /\ \A i \in Initiators, r \in Responders, id \in ResponderIds :
       responders[i][id].hs = "key-sent" /\ Half(r, responders[i][id].sess) => addr[r] = id

THEOREM NobodyIsMistaken == Spec => []AddressesAgree
<1>1. PathInv /\ OrderInv => AddressesAgree
  <2> SUFFICES ASSUME PathInv, OrderInv PROVE AddressesAgree
    OBVIOUS
  <2>1. ASSUME NEW a \in ResponderIds, slot[a] # NoPeer PROVE addr[slot[a]] \in {0, a}
    <3>1. slot[a] \in Responders
      BY <2>1 DEF PathInv, SlotsOK
    <3>2. SeatOK(slot[a])
      BY <3>1 DEF OrderInv, SeatsOK
    <3> QED BY <3>2 DEF SeatOK
  <2> QED BY <2>1 DEF AddressesAgree, OrderInv, ObjectsSeated
<1> QED BY <1>1, OrderInvariant, PTL
=============================================================================
