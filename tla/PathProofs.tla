----------------------------- MODULE PathProofs -----------------------------
(***************************************************************************)
(* What a path guarantees for any number of initiators, responders,        *)
(* addresses and tasks: whoever is in a session is in it with a partner it *)
(* invited, that partner knows the same key and the same task, both agree  *)
(* on the handover, and the path implements module Session.                *)
(*                                                                         *)
(* The argument is about keys and what is said under them, so it needs     *)
(* nothing of sequence numbers, cookies or the order of arrival.           *)
(***************************************************************************)
EXTENDS Path, SignalingProofs, FiniteSetTheorems, FunctionTheorems, TLAPS

(* The fields of the two kinds of peer objects, whatever they hold.        *)
ResponderFields(o) ==
  o \in [id : {o.id}, n : {o.n}, hs : {o.hs}, out : {o.out}, in : {o.in},
         cookie : {o.cookie}, perm : {o.perm}, sess : {o.sess}]
InitiatorFields(o) ==
  o \in [n : {o.n}, hs : {o.hs}, connected : {o.connected}, out : {o.out}, in : {o.in},
         cookie : {o.cookie}, sess : {o.sess}]

-----------------------------------------------------------------------------
(* What the clients know of each other.                                    *)

Late(c) == conn[c].used /\ conn[c].state \in {"task", "new", "closing", "closed"}
HandedOver(c) == handover[c].local \/ conn[c].state # "task"

(* Initiator i has chosen somebody, with this session key; responder r has *)
(* authenticated somebody with it.                                         *)
Opened(i, key) == chosen[i].n # 0 /\ chosen[i].sess = key
Entered(r, key) == initiator[r].hs = "auth-received" /\ initiator[r].sess = key

(* Whom an initiator may talk to, and the keys it can share with it.       *)
Invited(i, r) == IF Trusts(i) THEN r = PeerTrustedKey[i] ELSE AuthToken[r] = i
SharedKey(i, n, r, key) == \E k \in 1 .. initiator[r].n : key = SessionKey(<<i, n>>, <<r, k>>)

(* The first of the tasks of i that r offers.                              *)
Agreed(i, r, t) ==
  \E k \in DOMAIN OurTasks[i] :
    /\ t = OurTasks[i][k] /\ t \in OfferedTasks[r]
    /\ \A j \in DOMAIN OurTasks[i] : OurTasks[i][j] \in OfferedTasks[r] => k <= j

(* A Responder object has a permanent key once it has received a token, or *)
(* from the start with a trusted one, and a session key once it has sent   *)
(* its half.                                                               *)
ObjectOK(i, id, o) ==
  /\ ResponderFields(o)
  /\ o.n \in Nat
  /\ o.n # 0 => o.id = id /\ (Trusts(i) => o.hs # "new")
  /\ o.hs \in {"new", "token-received", "key-sent"}
  /\ o.hs # "new" =>
       \E r \in Responders :
         /\ Invited(i, r) /\ o.perm = PermanentKey(r)
         /\ o.hs = "key-sent" => SharedKey(i, o.n, r, o.sess)

(* The map of an initiator; no two objects in it have the same number.     *)
MapOK(i, rs, k) ==
  /\ k \in Nat
  /\ \A id \in ResponderIds : ObjectOK(i, id, rs[id]) /\ rs[id].n <= k
  /\ \A a, b \in Present(rs) : rs[a].n = rs[b].n => a = b

(* The responder it has chosen was invited, and agrees on the task.        *)
ChosenOK(i, o, t) ==
  /\ ResponderFields(o)
  /\ o.n \in Nat
  /\ o.n # 0 =>
       /\ o.id \in ResponderIds
       /\ \E r \in Responders : Invited(i, r) /\ SharedKey(i, o.n, r, o.sess) /\ Agreed(i, r, t)

(* It has chosen nobody before state `task`, and is told of a handover     *)
(* only by the responder it has chosen.                                    *)
InitiatorOK(i) ==
  /\ MapOK(i, responders[i], counter[i])
  /\ ChosenOK(i, chosen[i], task[i])
  /\ conn[i].state = "task" => chosen[i].n # 0
  /\ chosen[i].n # 0 => Late(i)
  /\ handover[i].peer =>
       chosen[i].n # 0 /\ \E r \in Responders : Entered(r, chosen[i].sess) /\ HandedOver(r)

OwnKey(r, n, key) == \E i \in Initiators, k \in Nat : key = SessionKey(<<r, n>>, <<i, k>>)

(* A responder in state `task` has authenticated an initiator that has     *)
(* chosen it.                                                              *)
ResponderOK(r) ==
  LET o == initiator[r] IN
    /\ InitiatorFields(o)
    /\ o.n \in Nat \ {0}
    /\ o.hs \in {"new", "token-sent", "key-sent", "auth-sent", "auth-received"}
    /\ o.hs \in {"auth-sent", "auth-received"} => OwnKey(r, o.n, o.sess)
    /\ o.hs = "auth-received" =>
         Late(r) /\ \E i \in Initiators : Opened(i, o.sess) /\ task[i] = task[r]
    /\ conn[r].state = "task" => o.hs = "auth-received"
    /\ handover[r].peer =>
         /\ o.hs = "auth-received"
         /\ \E i \in Initiators : Opened(i, o.sess) /\ HandedOver(i)

-----------------------------------------------------------------------------
(* What is in flight.  A frame says who sent it by what it is encrypted    *)
(* with and by what it contains.                                           *)

KickCode == CloseCode \ {Handover}

ToResponder(p) ==
  /\ p.type = "ws-close" => p.body \in KickCode
  /\ p.type = "key" => p.body \in Initiators \X Nat
  /\ p.type = "auth" => \E i \in Initiators : Opened(i, p.key) /\ task[i] = p.body.task
  /\ p.type = "handover" => \E i \in Initiators : Opened(i, p.key) /\ HandedOver(i)

ToInitiator(p) ==
  /\ p.type = "ws-close" => p.body \in KickCode
  /\ p.type = "server-auth" => IsSeq(p.body.responders)
  /\ p.type = "token" => p.body \in Responders /\ p.key = TokenKey(AuthToken[p.body])
  /\ p.type = "key" =>
       \E r \in Responders : \E k \in 1 .. initiator[r].n :
         p.key = PermanentKey(r) /\ p.body = <<r, k>>
  /\ p.type = "auth" =>
       \E r \in Responders : (\E k \in Nat : <<r, k>> \in p.key[2]) /\ p.body.tasks = OfferedTasks[r]
  /\ p.type = "handover" => \E r \in Responders : Entered(r, p.key) /\ HandedOver(r)

(* What the server is sent: packets for the other side of the path, and    *)
(* the reasons of dropped responders.  The close frame of a client goes no *)
(* further.                                                                *)
OfInitiator(p) ==
  /\ p.dst \in {0} \cup ResponderIds
  /\ p.type # "ws-close" => ToResponder(p)
  /\ p.type = "drop-responder" => p.body.reason \in KickCode

OfResponder(p) ==
  /\ p.dst \in {0, 1}
  /\ p.type # "ws-close" => ToInitiator(p)
  /\ p.type # "drop-responder"

InboxInv == inbox = [c \in Client |-> inbox[c]] /\ \A c \in Client : IsSeq(inbox[c])

StreamsOK ==
  /\ InboxInv /\ OutboxInv
  /\ \A i \in Initiators : /\ \A p \in Elements(outbox[i]) : OfInitiator(p)
                           /\ \A p \in Elements(inbox[i]) : ToInitiator(p)
  /\ \A r \in Responders : /\ \A p \in Elements(outbox[r]) : OfResponder(p)
                           /\ \A p \in Elements(inbox[r]) : ToResponder(p)

(* The two sides of a path keep to their addresses.                        *)
SlotsOK ==
  /\ slot \in [{1} \cup ResponderIds -> Client \cup {NoPeer}]
  /\ slot[1] \in Initiators \cup {NoPeer}
  /\ \A a \in ResponderIds : slot[a] \in Responders \cup {NoPeer}

DomainsOK ==
  /\ responders = [i \in Initiators |-> [id \in ResponderIds |-> responders[i][id]]]
  /\ chosen = [i \in Initiators |-> chosen[i]]
  /\ counter = [i \in Initiators |-> counter[i]]
  /\ initiator = [r \in Responders |-> initiator[r]]
  /\ task \in [Client -> TaskNames \cup {NoTask}]

PathInv ==
  /\ ConnInv /\ DomainsOK /\ SlotsOK
  /\ \A i \in Initiators : InitiatorOK(i)
  /\ \A r \in Responders : ResponderOK(r)
  /\ StreamsOK

-----------------------------------------------------------------------------
(* Clients, keys and streams.                                              *)

LEMMA Sides ==
  /\ \A i \in Initiators : i \in Client /\ i \notin Responders
  /\ \A r \in Responders : r \in Client /\ r \notin Initiators
BY ClientAssumption DEF Client

LEMMA KickCodes ==
  /\ {ClosingNormal, PathFull, ProtocolError, DroppedByInitiator, InitiatorCouldNotDecrypt,
      NoSharedTask} \subseteq KickCode
  /\ KickCode \subseteq CloseCode
BY Codes DEF KickCode, ClosingNormal, PathFull, ProtocolError, Handover, DroppedByInitiator,
             InitiatorCouldNotDecrypt, NoSharedTask

(* A session key belongs to one initiator and one responder.               *)
LEMMA KeyHalves ==
  ASSUME NEW a, NEW b
  PROVE  SessionKey(a, b)[2] = {a, b} /\ SessionKey(a, b) = SessionKey(b, a)
BY DEF SessionKey

LEMMA OneSession ==
  ASSUME NEW i \in Initiators, NEW n, NEW r \in Responders, NEW k,
         NEW j \in Initiators, NEW l, NEW s \in Responders, NEW m,
         SessionKey(<<i, n>>, <<r, k>>) = SessionKey(<<s, m>>, <<j, l>>)
  PROVE  i = j /\ n = l /\ r = s /\ k = m
<1>1. {<<i, n>>, <<r, k>>} = {<<s, m>>, <<j, l>>}
  BY KeyHalves
<1>2. i # r /\ i # s /\ j # r /\ j # s
  BY Sides
<1>3. <<i, n>> \in {<<s, m>>, <<j, l>>} /\ <<r, k>> \in {<<s, m>>, <<j, l>>}
  BY <1>1
<1> QED BY <1>2, <1>3

LEMMA HalfIsOf ==
  ASSUME NEW i \in Initiators, NEW n, NEW r \in Responders, NEW k, NEW s \in Responders, NEW m,
         <<s, m>> \in SessionKey(<<i, n>>, <<r, k>>)[2]
  PROVE  s = r /\ m = k
BY KeyHalves, Sides

LEMMA SinglyNamed ==
  /\ \A r, s : PermanentKey(r) = PermanentKey(s) => r = s
  /\ \A i, j : TokenKey(i) = TokenKey(j) => i = j
<1>1. ASSUME NEW r, NEW s, PermanentKey(r) = PermanentKey(s) PROVE r = s
  <2>1. {<<r, 0>>} = {<<s, 0>>}
    BY <1>1 DEF PermanentKey
  <2>2. <<r, 0>> \in {<<s, 0>>}
    BY <2>1
  <2> QED BY <2>2
<1>2. ASSUME NEW r, NEW s, TokenKey(r) = TokenKey(s) PROVE r = s
  <2>1. {<<r, 0>>} = {<<s, 0>>}
    BY <1>2 DEF TokenKey
  <2>2. <<r, 0>> \in {<<s, 0>>}
    BY <2>1
  <2> QED BY <2>2
<1> QED BY <1>1, <1>2

LEMMA Read1 ==
  ASSUME NEW q, IsSeq(q), q # <<>>
  PROVE  IsSeq(Tail(q)) /\ Elements(Tail(q)) \subseteq Elements(q) /\ Head(q) \in Elements(q)
<1>1. PICK S : q \in Seq(S)
  BY DEF IsSeq
<1>2. /\ Tail(q) \in Seq(S) /\ Len(Tail(q)) = Len(q) - 1 /\ Len(q) \in Nat \ {0}
      /\ \A k \in 1 .. Len(q) - 1 : Tail(q)[k] = q[k + 1]
      /\ Head(q) = q[1]
  BY <1>1
<1>3. 1 \in 1 .. Len(q) /\ \A k \in 1 .. Len(q) - 1 : k + 1 \in 1 .. Len(q)
  BY <1>2
<1> QED BY <1>2, <1>3 DEF IsSeq, Elements

(* A set handed over as a sequence.                                        *)
LEMMA Listed ==
  ASSUME NEW S, IsFiniteSet(S)
  PROVE  IsSeq(SetToSeq(S)) /\ Elements(SetToSeq(S)) \subseteq S
<1>1. PICK f \in Bijection(1 .. Cardinality(S), S) : TRUE
  BY FS_NatBijection, FS_CardinalityType DEF ExistsBijection
<1>2. SetToSeq(S) \in [1 .. Cardinality(S) -> S] /\ Cardinality(S) \in Nat
  BY <1>1, FS_CardinalityType DEF SetToSeq, Bijection, Injection
<1> DEFINE s == SetToSeq(S)
           n == Cardinality(S)
<1> HIDE DEF s, n
<1>3. s \in [1 .. n -> S] /\ n \in Nat
  BY <1>2 DEF s, n
<1>4. s \in Seq(S) /\ Len(s) = n
  BY <1>3
<1> QED BY <1>3, <1>4 DEF s, IsSeq, Elements

-----------------------------------------------------------------------------
(* What a step of one client does to the streams.                          *)

(* It reads, or drops, what has arrived, or is greeted by the server.      *)
Drained(c) ==
  /\ InboxInv'
  /\ \A d \in Client \ {c} : inbox'[d] = inbox[d]
  /\ \A p \in Elements(inbox'[c]) : p \in Elements(inbox[c]) \/ p.type = "server-hello"

(* What anybody may send at any time.                                      *)
Harmless(c, p) ==
  /\ p.type \in {"ws-close", "client-hello", "client-auth", "close", "application", "drop-responder"}
  /\ p.dst \in IF c \in Initiators THEN {0} \cup ResponderIds ELSE {0, 1}
  /\ p.type = "drop-responder" => c \in Initiators /\ p.body.reason \in KickCode

(* It sends P, and what is harmless.                                       *)
SendsOnly(c, P) ==
  /\ OutboxInv'
  /\ \A d \in Client \ {c} : outbox'[d] = outbox[d]
  /\ \A p \in Elements(outbox'[c]) : p \in Elements(outbox[c]) \/ p \in P \/ Harmless(c, p)

LEMMA NothingRead ==
  ASSUME InboxInv, NEW c \in Client, inbox' = inbox
  PROVE  Drained(c)
BY DEF InboxInv, Drained

LEMMA RestIs ==
  ASSUME InboxInv, NEW c \in Client, NEW rest, IsSeq(rest), Elements(rest) \subseteq Elements(inbox[c]),
         inbox' = [inbox EXCEPT ![c] = rest]
  PROVE  Drained(c)
<1>1. /\ inbox'[c] = rest /\ inbox' = [d \in Client |-> inbox'[d]]
      /\ \A d \in Client \ {c} : inbox'[d] = inbox[d]
  BY DEF InboxInv
<1>2. \A d \in Client : IsSeq(inbox'[d])
  BY <1>1 DEF InboxInv
<1> QED BY <1>1, <1>2 DEF InboxInv, Drained

LEMMA Dropped ==
  ASSUME InboxInv, NEW c \in Client, inbox' = [inbox EXCEPT ![c] = <<>>]
  PROVE  Drained(c)
BY RestIs, Single

LEMMA Consumed ==
  ASSUME InboxInv, NEW c \in Client, inbox[c] # <<>>, Consume(c)
  PROVE  Drained(c)
<1>1. inbox' = [inbox EXCEPT ![c] = Tail(inbox[c])]
  BY DEF Consume
<1>2. IsSeq(Tail(inbox[c])) /\ Elements(Tail(inbox[c])) \subseteq Elements(inbox[c])
  BY Read1 DEF InboxInv
<1> QED BY <1>1, <1>2, RestIs

LEMMA NothingSentOn ==
  ASSUME OutboxInv, NEW c \in Client, outbox' = outbox, NEW P
  PROVE  SendsOnly(c, P)
BY DEF OutboxInv, SendsOnly

LEMMA AppendsOnly ==
  ASSUME OutboxInv, NEW c \in Client, NEW q, Appends(c, q), NEW P,
         \A p \in Elements(q) : p \in P \/ Harmless(c, p)
  PROVE  SendsOnly(c, P)
<1>1. /\ outbox'[c] = outbox[c] \o q
      /\ \A d \in Client \ {c} : outbox'[d] = outbox[d]
      /\ IsSeq(outbox[c]) /\ IsSeq(q)
  BY DEF OutboxInv, Appends
<1>2. Elements(outbox'[c]) = Elements(outbox[c]) \cup Elements(q)
  BY <1>1, JoinedElements
<1>3. OutboxInv'
  BY SentNowIs
<1> QED BY <1>1, <1>2, <1>3 DEF SendsOnly

(* One packet, and two in a row.                                           *)
LEMMA OneSent ==
  ASSUME OutboxInv, NEW c \in Client, NEW p, outbox' = [outbox EXCEPT ![c] = @ \o <<p>>]
  PROVE  SendsOnly(c, {p}) /\ (Harmless(c, p) => SendsOnly(c, {}))
<1>1. Appends(c, <<p>>)
  BY Single DEF Appends
<1> QED BY <1>1, Single, AppendsOnly

LEMMA OneAppended ==
  ASSUME OutboxInv, NEW c \in Client, NEW p, outbox' = [outbox EXCEPT ![c] = Append(@, p)]
  PROVE  SendsOnly(c, {p}) /\ (Harmless(c, p) => SendsOnly(c, {}))
<1>1. Append(outbox[c], p) = outbox[c] \o <<p>>
  BY Appended DEF OutboxInv
<1> QED BY <1>1, OneSent

(* Building a packet for the other side.                                   *)
LEMMA BuiltPacket ==
  ASSUME NEW c, NEW peer, NEW dst, NEW key, NEW type, NEW body
  PROVE  LET p == BuildPacket(c, peer, dst, key, type, body)
         IN p.dst = dst /\ p.key = key /\ p.type = type /\ p.body = body
BY DEF BuildPacket

LEMMA HangupHarmless ==
  ASSUME NEW c, NEW cn, NEW code
  PROVE  IsSeq(Hangup(cn, code)) /\ \A p \in Elements(Hangup(cn, code)) : Harmless(c, p)
BY HangupFrame DEF Harmless

(* drop-responder requests, whatever they ask for.                         *)
LEMMA DropsHarmless ==
  ASSUME NEW i \in Initiators, NEW s, NEW ids, IsSeq(ids), NEW reason \in KickCode
  PROVE  LET drops == DropRequests(i, s, ids, reason)
         IN IsSeq(drops) /\ \A p \in Elements(drops) : Harmless(i, p)
<1> DEFINE n == Len(ids)
           drop(k) == [BuildPacket(i, s, 0, ServerKey(i), "drop-responder",
                                   [id |-> ids[k], reason |-> reason])
                         EXCEPT !.src = 1, !.csn = s.out + k]
           D == {drop(k) : k \in 1 .. n}
           drops == DropRequests(i, s, ids, reason)
<1>1. n \in Nat
  BY DEF IsSeq
<1>2. \A k : drop(k).dst = 0 /\ drop(k).type = "drop-responder" /\ drop(k).body.reason = reason
  BY DEF BuildPacket
<1>3. \A k : Harmless(i, drop(k))
  BY <1>2 DEF Harmless
<1>4. drops = [k \in 1 .. n |-> drop(k)]
  BY DEF DropRequests
<1> HIDE DEF drop, n, drops
<1>5. drops \in [1 .. n -> D]
  BY <1>4
<1>6. drops \in Seq(D) /\ Len(drops) = n
  <2> HIDE DEF D
  <2> QED BY <1>1, <1>5
<1>7. \A p \in Elements(drops) : p \in D
  BY <1>5, <1>6 DEF Elements
<1> QED BY <1>3, <1>6, <1>7 DEF IsSeq, drops

LEMMA DropsOnly ==
  ASSUME OutboxInv, NEW i \in Initiators, NEW s, NEW ids, IsSeq(ids), NEW reason \in KickCode,
         outbox' = [outbox EXCEPT ![i] = @ \o DropRequests(i, s, ids, reason)]
  PROVE  SendsOnly(i, {})
<1> DEFINE drops == DropRequests(i, s, ids, reason)
<1>1. IsSeq(drops) /\ \A p \in Elements(drops) : Harmless(i, p)
  BY DropsHarmless
<1>2. outbox' = [outbox EXCEPT ![i] = @ \o drops]
  OBVIOUS
<1> HIDE DEF drops
<1>3. Appends(i, drops)
  BY <1>1, <1>2 DEF Appends
<1> QED BY <1>1, <1>3, AppendsOnly, Sides

-----------------------------------------------------------------------------
(* Steps that open no session and enter none.                              *)

Lone(c) ==
  /\ ConnInv'
  /\ task' \in [Client -> TaskNames \cup {NoTask}]
  /\ \A d \in Client \ {c} :
       conn'[d] = conn[d] /\ handover'[d] = handover[d] /\ task'[d] = task[d]

(* The client stays where it is, goes down, connects or moves on before    *)
(* the end of its handshake.                                               *)
Drift(c) ==
  /\ \/ conn'[c].state = conn[c].state /\ conn'[c].used = conn[c].used
     \/ conn'[c].used /\ conn'[c].state \in {"new", "closed"}
     \/ ~conn[c].used /\ conn'[c].used /\ conn'[c].state = "ws-connecting"
     \/ /\ conn[c].state \in {"ws-connecting", "server-handshake"}
        /\ conn'[c].state \in {"server-handshake", "peer-handshake"}
        /\ conn'[c].used = conn[c].used
  /\ handover[c].local /\ conn'[c].state = "task" => handover'[c].local

(* What was known of a session stays known.                                *)
Lasts ==
  /\ \A i \in Initiators : chosen[i].n # 0 =>
       chosen'[i].n = chosen[i].n /\ chosen'[i].sess = chosen[i].sess /\ task'[i] = task[i]
  /\ \A r \in Responders :
       /\ initiator'[r].n \in Nat /\ initiator'[r].n >= initiator[r].n
       /\ initiator[r].hs = "auth-received" =>
            /\ initiator'[r].hs = "auth-received" /\ initiator'[r].sess = initiator[r].sess
            /\ task'[r] = task[r]
  /\ \A c \in Client : Late(c) /\ HandedOver(c) => HandedOver(c)'

(* At most one client moves, and no session is opened or entered.          *)
NothingNew ==
  /\ Lasts
  /\ \E c \in Client : Drift(c) /\ \A d \in Client \ {c} : conn'[d] = conn[d]
  /\ \A i \in Initiators : chosen'[i].n # 0 => chosen[i].n # 0
  /\ \A r \in Responders : initiator'[r].hs = "auth-received" => initiator[r].hs = "auth-received"

LEMMA StillHandedOver ==
  ASSUME NEW c \in Client, Lone(c), Drift(c)
  PROVE  \A d \in Client : HandedOver(d) => HandedOver(d)'
BY DEF Lone, Drift, HandedOver

LEMMA SessionsLast ==
  ASSUME PathInv, Lasts
  PROVE  /\ \A i \in Initiators : \A key : Opened(i, key) =>
              /\ chosen'[i].n # 0 /\ chosen'[i].sess = key
              /\ task'[i] = task[i] /\ (HandedOver(i) => HandedOver(i)')
         /\ \A r \in Responders : \A key : Entered(r, key) =>
              /\ initiator'[r].hs = "auth-received" /\ initiator'[r].sess = key
              /\ task'[r] = task[r] /\ (HandedOver(r) => HandedOver(r)')
<1>1. ASSUME NEW i \in Initiators, NEW key, Opened(i, key)
      PROVE  /\ chosen'[i].n # 0 /\ chosen'[i].sess = key
             /\ task'[i] = task[i] /\ (HandedOver(i) => HandedOver(i)')
  <2>1. Late(i) /\ i \in Client
    BY <1>1, Sides DEF PathInv, InitiatorOK, Opened
  <2> QED BY <1>1, <2>1 DEF Opened, Lasts
<1>2. ASSUME NEW r \in Responders, NEW key, Entered(r, key)
      PROVE  /\ initiator'[r].hs = "auth-received" /\ initiator'[r].sess = key
             /\ task'[r] = task[r] /\ (HandedOver(r) => HandedOver(r)')
  <2>1. Late(r) /\ r \in Client
    BY <1>2, Sides DEF PathInv, ResponderOK, Entered
  <2> QED BY <1>2, <2>1 DEF Entered, Lasts
<1> QED BY <1>1, <1>2

LEMMA NumbersLast ==
  ASSUME PathInv, Lasts, NEW r \in Responders
  PROVE  \A k \in 1 .. initiator[r].n : k \in 1 .. initiator'[r].n
<1>1. initiator[r].n \in Nat
  BY DEF PathInv, ResponderOK
<1> QED BY <1>1 DEF Lasts

LEMMA KeysLast ==
  ASSUME PathInv, Lasts
  PROVE  \A i, n, key : \A r \in Responders : SharedKey(i, n, r, key) => SharedKey(i, n, r, key)'
BY NumbersLast DEF SharedKey

LEMMA ToResponderLasts ==
  ASSUME PathInv, Lasts, NEW p, ToResponder(p)
  PROVE  ToResponder(p)'
BY SessionsLast DEF ToResponder, Opened

LEMMA ToInitiatorLasts ==
  ASSUME PathInv, Lasts, NEW p, ToInitiator(p)
  PROVE  ToInitiator(p)'
<1>1. p.type = "key" =>
        \E r \in Responders : \E k \in 1 .. initiator'[r].n :
          p.key = PermanentKey(r) /\ p.body = <<r, k>>
  BY NumbersLast DEF ToInitiator
<1>2. p.type = "handover" => \E r \in Responders : Entered(r, p.key)' /\ HandedOver(r)'
  BY SessionsLast DEF ToInitiator, Entered
<1> QED BY <1>1, <1>2 DEF ToInitiator

(* The streams after a step of one client, if what it has sent is true.    *)
LEMMA StreamsKept ==
  ASSUME PathInv, Lasts, NEW c \in Client, NEW P, Drained(c), SendsOnly(c, P),
         \A p \in P : IF c \in Initiators THEN OfInitiator(p)' ELSE OfResponder(p)'
  PROVE  StreamsOK'
<1>1. InboxInv' /\ OutboxInv'
  BY DEF Drained, SendsOnly
<1>2. ASSUME NEW i \in Initiators, NEW p \in Elements(outbox'[i]) PROVE OfInitiator(p)'
  <2>1. CASE p \in Elements(outbox[i])
    BY <2>1, ToResponderLasts DEF OfInitiator, PathInv, StreamsOK
  <2>2. CASE p \notin Elements(outbox[i])
    <3>1. i = c /\ (p \in P \/ Harmless(i, p))
      BY <2>2, Sides DEF SendsOnly
    <3>2. CASE Harmless(i, p)
      BY <3>2 DEF Harmless, OfInitiator, ToResponder
    <3> QED BY <3>1, <3>2
  <2> QED BY <2>1, <2>2
<1>3. ASSUME NEW r \in Responders, NEW p \in Elements(outbox'[r]) PROVE OfResponder(p)'
  <2>1. CASE p \in Elements(outbox[r])
    BY <2>1, ToInitiatorLasts DEF OfResponder, PathInv, StreamsOK
  <2>2. CASE p \notin Elements(outbox[r])
    <3>1. r = c /\ r \notin Initiators /\ (p \in P \/ Harmless(r, p))
      BY <2>2, Sides DEF SendsOnly
    <3>2. CASE Harmless(r, p)
      BY <3>1, <3>2 DEF Harmless, OfResponder, ToInitiator
    <3> QED BY <3>1, <3>2
  <2> QED BY <2>1, <2>2
<1>4. \A d \in Client : \A p \in Elements(inbox'[d]) :
        p \in Elements(inbox[d]) \/ p.type = "server-hello"
  BY DEF Drained
<1>5. ASSUME NEW i \in Initiators, NEW p \in Elements(inbox'[i]) PROVE ToInitiator(p)'
  <2>1. CASE p \in Elements(inbox[i])
    BY <2>1, ToInitiatorLasts DEF PathInv, StreamsOK
  <2>2. CASE p.type = "server-hello"
    BY <2>2 DEF ToInitiator
  <2> QED BY <1>4, <2>1, <2>2, Sides
<1>6. ASSUME NEW r \in Responders, NEW p \in Elements(inbox'[r]) PROVE ToResponder(p)'
  <2>1. CASE p \in Elements(inbox[r])
    BY <2>1, ToResponderLasts DEF PathInv, StreamsOK
  <2>2. CASE p.type = "server-hello"
    BY <2>2 DEF ToResponder
  <2> QED BY <1>4, <2>1, <2>2, Sides
<1> QED BY <1>1, <1>2, <1>3, <1>5, <1>6 DEF StreamsOK

(* An initiator does something else than choose a responder.               *)
SameKeys(old, new) ==
  /\ ResponderFields(new)
  /\ new.n = old.n /\ new.id = old.id /\ new.sess = old.sess

OthersKeepPeers(i) ==
  \A j \in Initiators \ {i} :
    responders'[j] = responders[j] /\ counter'[j] = counter[j] /\ chosen'[j] = chosen[j]

IStep(i, P) ==
  /\ Lone(i) /\ Drift(i) /\ Drained(i) /\ SendsOnly(i, P)
  /\ UNCHANGED <<initiator, slot>>
  /\ DomainsOK' /\ OthersKeepPeers(i)
  /\ MapOK(i, responders'[i], counter'[i])
  /\ SameKeys(chosen[i], chosen'[i])
  /\ task'[i] = task[i] \/ chosen[i].n = 0
  /\ handover'[i].peer =>
       \/ handover[i].peer
       \/ chosen[i].n # 0 /\ \E r \in Responders : Entered(r, chosen[i].sess) /\ HandedOver(r)

(* A responder does something else than authenticate an initiator.         *)
RStep(r, P) ==
  /\ Lone(r) /\ Drift(r) /\ Drained(r) /\ SendsOnly(r, P)
  /\ UNCHANGED <<peerVars, slot>>
  /\ DomainsOK' /\ \A s \in Responders \ {r} : initiator'[s] = initiator[s]
  /\ LET old == initiator[r]
         new == initiator'[r]
     IN /\ InitiatorFields(new)
        /\ new.n \in Nat /\ new.n >= old.n
        /\ new.hs \in {"new", "token-sent", "key-sent", "auth-sent", "auth-received"}
        /\ new.hs = "auth-sent" => OwnKey(r, new.n, new.sess)
        /\ new.hs = "auth-received" <=> old.hs = "auth-received"
        /\ old.hs = "auth-received" =>
             new.n = old.n /\ new.sess = old.sess /\ task'[r] = task[r]
        /\ handover'[r].peer =>
             \/ handover[r].peer
             \/ old.hs = "auth-received" /\ \E i \in Initiators : Opened(i, old.sess) /\ HandedOver(i)

LEMMA IStepLasts ==
  ASSUME PathInv, NEW i \in Initiators, NEW P, IStep(i, P)
  PROVE  Lasts
<1>1. i \in Client /\ \A r \in Responders : r \in Client \ {i} /\ initiator[r].n \in Nat \ {0}
  BY Sides DEF PathInv, ResponderOK
<1>2. \A j \in Initiators : chosen[j].n # 0 =>
        chosen'[j].n = chosen[j].n /\ chosen'[j].sess = chosen[j].sess /\ task'[j] = task[j]
  <2> SUFFICES ASSUME NEW j \in Initiators, chosen[j].n # 0
               PROVE  chosen'[j].n = chosen[j].n /\ chosen'[j].sess = chosen[j].sess /\ task'[j] = task[j]
    OBVIOUS
  <2>1. CASE j = i
    BY <2>1 DEF IStep, SameKeys
  <2>2. CASE j # i
    BY <2>2, Sides DEF IStep, OthersKeepPeers, Lone
  <2> QED BY <2>1, <2>2
<1>3. \A r \in Responders : initiator'[r] = initiator[r] /\ task'[r] = task[r]
  BY <1>1 DEF IStep, Lone
<1>4. \A d \in Client : HandedOver(d) => HandedOver(d)'
  BY <1>1, StillHandedOver DEF IStep
<1> QED BY <1>1, <1>2, <1>3, <1>4 DEF Lasts

LEMMA RStepLasts ==
  ASSUME PathInv, NEW r \in Responders, NEW P, RStep(r, P)
  PROVE  Lasts
<1>1. r \in Client /\ \A i \in Initiators : i \in Client \ {r}
  BY Sides
<1>2. \A i \in Initiators : chosen'[i] = chosen[i] /\ task'[i] = task[i]
  BY <1>1 DEF RStep, Lone, peerVars
<1>3. ASSUME NEW s \in Responders
      PROVE  /\ initiator'[s].n \in Nat /\ initiator'[s].n >= initiator[s].n
             /\ initiator[s].hs = "auth-received" =>
                  /\ initiator'[s].hs = "auth-received" /\ initiator'[s].sess = initiator[s].sess
                  /\ task'[s] = task[s]
  <2>1. CASE s = r
    BY <2>1 DEF RStep
  <2>2. CASE s # r
    <3>1. initiator'[s] = initiator[s] /\ task'[s] = task[s] /\ initiator[s].n \in Nat
      BY <2>2, Sides DEF RStep, Lone, PathInv, ResponderOK
    <3> QED BY <3>1
  <2> QED BY <2>1, <2>2
<1>4. \A d \in Client : HandedOver(d) => HandedOver(d)'
  BY <1>1, StillHandedOver DEF RStep
<1> QED BY <1>2, <1>3, <1>4 DEF Lasts

(* What is known of the clients that do not move.                          *)
LEMMA InitiatorStands ==
  ASSUME PathInv, Lasts, NEW i \in Initiators, InitiatorOK(i),
         responders'[i] = responders[i], counter'[i] = counter[i], chosen'[i] = chosen[i],
         task'[i] = task[i], conn'[i] = conn[i], handover'[i] = handover[i]
  PROVE  InitiatorOK(i)'
<1>1. MapOK(i, responders[i], counter[i])'
  BY KeysLast DEF InitiatorOK, MapOK, ObjectOK
<1>2. ChosenOK(i, chosen[i], task[i])'
  BY KeysLast DEF InitiatorOK, ChosenOK
<1>3. handover[i].peer =>
        chosen[i].n # 0 /\ \E r \in Responders : Entered(r, chosen[i].sess)' /\ HandedOver(r)'
  BY SessionsLast DEF InitiatorOK, Entered
<1> QED BY <1>1, <1>2, <1>3 DEF InitiatorOK, MapOK, ObjectOK, ChosenOK, Late, SharedKey, Present, Entered

LEMMA ResponderStands ==
  ASSUME PathInv, Lasts, NEW r \in Responders, ResponderOK(r),
         initiator'[r] = initiator[r], task'[r] = task[r], conn'[r] = conn[r], handover'[r] = handover[r]
  PROVE  ResponderOK(r)'
<1>1. initiator[r].hs = "auth-received" =>
        \E i \in Initiators : Opened(i, initiator[r].sess)' /\ task'[i] = task[r]
  BY SessionsLast DEF ResponderOK, Opened
<1>2. handover[r].peer =>
        /\ initiator[r].hs = "auth-received"
        /\ \E i \in Initiators : Opened(i, initiator[r].sess)' /\ HandedOver(i)'
  BY SessionsLast DEF ResponderOK, Opened
<1> QED BY <1>1, <1>2 DEF ResponderOK, Late, Opened

LEMMA SlotsStand == ASSUME SlotsOK, UNCHANGED slot PROVE SlotsOK'
BY DEF SlotsOK

(* Both kinds of steps keep the invariant, if what they say is true.       *)
LEMMA IStepKeeps ==
  ASSUME PathInv, NEW i \in Initiators, NEW P, IStep(i, P), \A p \in P : OfInitiator(p)'
  PROVE  PathInv' /\ NothingNew
<1>1. Lasts /\ i \in Client
  BY IStepLasts, Sides
<1>2. ConnInv' /\ DomainsOK' /\ SlotsOK'
  BY SlotsStand DEF IStep, Lone, PathInv
<1>3. InitiatorOK(i)'
  <2>1. InitiatorOK(i)
    BY DEF PathInv
  <2>2. MapOK(i, responders[i], counter[i])'
    BY DEF IStep, MapOK, ObjectOK, SharedKey, Present
  <2>3. ChosenOK(i, chosen[i], task[i])'
    <3>1. ResponderFields(chosen'[i]) /\ chosen'[i].n \in Nat
      BY <2>1 DEF IStep, SameKeys, InitiatorOK, ChosenOK
    <3>2. ASSUME chosen'[i].n # 0
          PROVE  /\ chosen'[i].id \in ResponderIds
                 /\ \E r \in Responders : /\ Invited(i, r) /\ SharedKey(i, chosen'[i].n, r, chosen'[i].sess)
                                          /\ Agreed(i, r, task'[i])
      <4>1. /\ chosen[i].n # 0 /\ chosen'[i].n = chosen[i].n /\ chosen'[i].id = chosen[i].id
            /\ chosen'[i].sess = chosen[i].sess /\ task'[i] = task[i]
        BY <3>2 DEF IStep, SameKeys
      <4> QED BY <2>1, <4>1 DEF InitiatorOK, ChosenOK
    <3>3. initiator' = initiator
      BY DEF IStep
    <3> QED BY <3>1, <3>2, <3>3 DEF ChosenOK, SharedKey
  <2>4. conn'[i].state = "task" => chosen'[i].n # 0
    BY <2>1 DEF IStep, Drift, SameKeys, InitiatorOK
  <2>5. chosen'[i].n # 0 => Late(i)'
    BY <2>1 DEF IStep, Drift, SameKeys, InitiatorOK, Late
  <2>6. ASSUME handover'[i].peer
        PROVE  /\ chosen'[i].n # 0
               /\ \E r \in Responders : Entered(r, chosen[i].sess)' /\ HandedOver(r)'
    <3>1. chosen[i].n # 0 /\ \E r \in Responders : Entered(r, chosen[i].sess) /\ HandedOver(r)
      BY <2>1, <2>6 DEF IStep, InitiatorOK
    <3>2. chosen'[i].n = chosen[i].n /\ chosen'[i].sess = chosen[i].sess
      BY DEF IStep, SameKeys
    <3> QED BY <1>1, <3>1, <3>2, SessionsLast DEF Entered
  <2> QED BY <2>2, <2>3, <2>4, <2>5, <2>6 DEF InitiatorOK, Entered
<1>4. ASSUME NEW j \in Initiators, j # i PROVE InitiatorOK(j)'
  BY <1>1, <1>4, Sides, InitiatorStands DEF IStep, OthersKeepPeers, Lone, PathInv
<1>5. ASSUME NEW r \in Responders PROVE ResponderOK(r)'
  <2>1. initiator'[r] = initiator[r] /\ task'[r] = task[r] /\ conn'[r] = conn[r] /\ handover'[r] = handover[r]
    BY Sides DEF IStep, Lone
  <2> QED BY <1>1, <2>1, ResponderStands DEF PathInv
<1>6. StreamsOK'
  BY <1>1, StreamsKept DEF IStep
<1>7. NothingNew
  <2>1. \A j \in Initiators : chosen'[j].n # 0 => chosen[j].n # 0
    BY DEF IStep, SameKeys, OthersKeepPeers
  <2> QED BY <1>1, <2>1 DEF NothingNew, IStep, Lone
<1> QED BY <1>2, <1>3, <1>4, <1>5, <1>6, <1>7 DEF PathInv

LEMMA RStepKeeps ==
  ASSUME PathInv, NEW r \in Responders, NEW P, RStep(r, P), \A p \in P : OfResponder(p)'
  PROVE  PathInv' /\ NothingNew
<1>1. Lasts /\ r \in Client /\ r \notin Initiators
  BY RStepLasts, Sides
<1>2. ConnInv' /\ DomainsOK' /\ SlotsOK'
  BY SlotsStand DEF RStep, Lone, PathInv
<1>3. ResponderOK(r)'
  <2> DEFINE old == initiator[r]
             new == initiator'[r]
  <2>1. ResponderOK(r)
    BY DEF PathInv
  <2>2. /\ InitiatorFields(new) /\ new.n \in Nat \ {0}
        /\ new.hs \in {"new", "token-sent", "key-sent", "auth-sent", "auth-received"}
    BY <2>1 DEF RStep, ResponderOK
  <2>3. new.hs \in {"auth-sent", "auth-received"} => OwnKey(r, new.n, new.sess)
    BY <2>1 DEF RStep, ResponderOK
  <2>4. ASSUME new.hs = "auth-received"
        PROVE  Late(r)' /\ \E i \in Initiators : Opened(i, initiator[r].sess)' /\ task'[i] = task'[r]
    <3>1. old.hs = "auth-received" /\ new.sess = old.sess /\ task'[r] = task[r]
      BY <2>4 DEF RStep
    <3>2. Late(r) /\ \E i \in Initiators : Opened(i, old.sess) /\ task[i] = task[r]
      BY <2>1, <3>1 DEF ResponderOK
    <3>3. Late(r)'
      BY <3>2 DEF RStep, Drift, Late
    <3> QED BY <1>1, <3>1, <3>2, <3>3, SessionsLast DEF Opened
  <2>5. conn'[r].state = "task" => new.hs = "auth-received"
    BY <2>1 DEF RStep, Drift, ResponderOK
  <2>6. ASSUME handover'[r].peer
        PROVE  /\ new.hs = "auth-received"
               /\ \E i \in Initiators : Opened(i, initiator[r].sess)' /\ HandedOver(i)'
    <3>1. old.hs = "auth-received" /\ \E i \in Initiators : Opened(i, old.sess) /\ HandedOver(i)
      BY <2>1, <2>6 DEF RStep, ResponderOK
    <3>2. new.hs = "auth-received" /\ new.sess = old.sess
      BY <3>1 DEF RStep
    <3> QED BY <1>1, <3>1, <3>2, SessionsLast DEF Opened
  <2> QED BY <2>2, <2>3, <2>4, <2>5, <2>6 DEF ResponderOK, Opened
<1>4. ASSUME NEW s \in Responders, s # r PROVE ResponderOK(s)'
  BY <1>1, <1>4, Sides, ResponderStands DEF RStep, Lone, PathInv
<1>5. ASSUME NEW i \in Initiators PROVE InitiatorOK(i)'
  <2>1. /\ responders'[i] = responders[i] /\ counter'[i] = counter[i] /\ chosen'[i] = chosen[i]
        /\ task'[i] = task[i] /\ conn'[i] = conn[i] /\ handover'[i] = handover[i]
    BY Sides DEF RStep, Lone, peerVars
  <2> QED BY <1>1, <2>1, InitiatorStands DEF PathInv
<1>6. StreamsOK'
  BY <1>1, StreamsKept DEF RStep
<1>7. NothingNew
  <2>1. \A s \in Responders : initiator'[s].hs = "auth-received" => initiator[s].hs = "auth-received"
    BY DEF RStep
  <2> QED BY <1>1, <2>1 DEF NothingNew, RStep, Lone, peerVars
<1> QED BY <1>2, <1>3, <1>4, <1>5, <1>6, <1>7 DEF PathInv

-----------------------------------------------------------------------------
(* What the operations both roles share do to a client.                    *)

Moved(c, P) == Lone(c) /\ Drift(c) /\ Drained(c) /\ SendsOnly(c, P)
Mild(c, P) == Moved(c, P) /\ (handover'[c].peer => handover[c].peer)

LEMMA Streams ==
  ASSUME PathInv
  PROVE  ConnInv /\ InboxInv /\ OutboxInv /\ task \in [Client -> TaskNames \cup {NoTask}]
BY DEF PathInv, StreamsOK, DomainsOK

LEMMA Unmoved ==
  ASSUME PathInv, NEW c \in Client, NEW P, UNCHANGED <<conn, handover>>,
         NEW t \in TaskNames \cup {NoTask}, task' = [task EXCEPT ![c] = t],
         Drained(c), SendsOnly(c, P)
  PROVE  Mild(c, P)
<1>1. ConnInv'
  BY Streams DEF ConnInv
<1>2. task' \in [Client -> TaskNames \cup {NoTask}] /\ \A d \in Client \ {c} : task'[d] = task[d]
  BY Streams
<1> QED BY <1>1, <1>2 DEF Mild, Moved, Lone, Drift

LEMMA Unmoving ==
  ASSUME PathInv, NEW c \in Client, NEW P, UNCHANGED <<conn, handover, task>>,
         Drained(c), SendsOnly(c, P)
  PROVE  Mild(c, P)
<1>1. task' = [task EXCEPT ![c] = task[c]] /\ task[c] \in TaskNames \cup {NoTask}
  BY Streams
<1> QED BY <1>1, Unmoved

(* The connection of one client changes, its handover does not.            *)
LEMMA Reconnected ==
  ASSUME PathInv, NEW c \in Client, NEW P, ConnInv', Apart(c), UNCHANGED <<handover, task>>,
         Drained(c), SendsOnly(c, P), Drift(c)
  PROVE  Mild(c, P)
BY Streams DEF Mild, Moved, Lone, Apart

LEMMA OpenIsUsed ==
  ASSUME PathInv, NEW c \in Client, conn[c].socket # "none"
  PROVE  conn[c].used
BY DEF PathInv, ConnInv, Link

LEMMA ResetMild ==
  ASSUME PathInv, NEW c \in Client, NEW reason \in CloseCode, NEW sent, IsSeq(sent),
         \A p \in Elements(sent) : Harmless(c, p), conn[c].used, Reset(c, reason, sent),
         task' \in [Client -> TaskNames \cup {NoTask}],
         \A d \in Client \ {c} : task'[d] = task[d]
  PROVE  Mild(c, {})
<1>1. ConnInv' /\ Apart(c) /\ conn'[c].state = "new" /\ conn'[c].used
  BY Streams, ResetConn
<1>2. /\ handover'[c] = NoHandover /\ \A d \in Client \ {c} : handover'[d] = handover[d]
  BY Streams DEF Reset, ConnInv
<1>3. Drained(c)
  BY Streams, Dropped DEF Reset
<1>4. SendsOnly(c, {})
  <2> DEFINE hangup == Hangup(conn[c], reason)
  <2>1. IsSeq(hangup) /\ \A p \in Elements(hangup) : Harmless(c, p)
    BY HangupHarmless
  <2>2. outbox' = [outbox EXCEPT ![c] = outbox[c] \o sent \o hangup]
    BY DEF Reset
  <2> HIDE DEF hangup
  <2>3. (outbox[c] \o sent) \o hangup = outbox[c] \o (sent \o hangup)
    BY <2>1, Streams, Regrouped DEF OutboxInv
  <2>4. IsSeq(sent \o hangup) /\ Elements(sent \o hangup) = Elements(sent) \cup Elements(hangup)
    BY <2>1, JoinedElements
  <2>5. Appends(c, sent \o hangup)
    BY <2>2, <2>3, <2>4 DEF Appends
  <2> QED BY <2>1, <2>4, <2>5, Streams, AppendsOnly
<1>5. Lone(c) /\ Drift(c)
  BY <1>1, <1>2 DEF Lone, Drift, Apart, NoHandover
<1> QED BY <1>2, <1>3, <1>4, <1>5 DEF Mild, Moved, NoHandover

LEMMA ResetConnectionMild ==
  ASSUME PathInv, NEW c \in Client, NEW reason \in CloseCode, NEW sent, IsSeq(sent),
         \A p \in Elements(sent) : Harmless(c, p), conn[c].used, ResetConnection(c, reason, sent)
  PROVE  Mild(c, {}) /\ task' = task
<1>1. Reset(c, reason, sent) /\ task' = task
  BY DEF ResetConnection
<1> QED BY <1>1, ResetMild, Streams

(* The calls of the application and the events of the socket.              *)
LEMMA ConnectMild ==
  ASSUME PathInv, NEW c \in Client, Connect(c)
  PROVE  Mild(c, {}) /\ task' = task
<1>1. /\ ConnInv' /\ Apart(c) /\ conn'[c].used /\ conn'[c].state = "ws-connecting"
      /\ ~conn[c].used
  BY Streams, ConnectConn
<1>2. /\ handover'[c] = NoHandover /\ \A d \in Client \ {c} : handover'[d] = handover[d]
      /\ inbox' = inbox /\ outbox' = outbox /\ task' = task
  BY Streams DEF Connect, ConnInv
<1>3. Drained(c) /\ SendsOnly(c, {})
  BY <1>2, Streams, NothingRead, NothingSentOn
<1>4. Lone(c) /\ Drift(c)
  BY <1>1, <1>2, Streams DEF Lone, Drift, Apart
<1> QED BY <1>2, <1>3, <1>4 DEF Mild, Moved, NoHandover

LEMMA DisconnectMild ==
  ASSUME PathInv, NEW c \in Client, conn[c].used, Disconnect(c, FALSE)
  PROVE  Mild(c, {}) /\ task' = task
<1>1. ConnInv' /\ Apart(c) /\ conn'[c].state = "closed" /\ conn'[c].used
  BY Streams, DisconnectConn
<1>2. UNCHANGED <<handover, task>> /\ Drained(c)
  BY Streams, Dropped DEF Disconnect
<1>3. SendsOnly(c, {})
  <2> DEFINE hangup == Hangup(conn[c], ClosingNormal)
  <2>1. IsSeq(hangup) /\ \A p \in Elements(hangup) : Harmless(c, p)
    BY HangupHarmless
  <2>2. outbox' = [outbox EXCEPT ![c] = @ \o hangup]
    BY DEF Disconnect
  <2> HIDE DEF hangup
  <2> QED BY <2>1, <2>2, Streams, AppendsOnly DEF Appends
<1> QED BY <1>1, <1>2, <1>3, Reconnected DEF Drift

LEMMA OnCloseMild ==
  ASSUME PathInv, NEW c \in Client, NEW code \in CloseCode, OnClose(c, code),
         UNCHANGED <<handover, task>>, conn[c].socket # "none",
         code = Handover => conn[c].socket = "closing", Drained(c), SendsOnly(c, {})
  PROVE  Mild(c, {})
<1>1. /\ ConnInv' /\ Apart(c) /\ conn'[c].used = conn[c].used /\ conn[c].used
      /\ conn'[c].state \in {conn[c].state, "closed"}
  BY Streams, OnCloseConn, OpenIsUsed
<1> QED BY <1>1, Reconnected DEF Drift

LEMMA CloseEventMild ==
  ASSUME PathInv, NEW c \in Client, CloseEvent(c)
  PROVE  Mild(c, {}) /\ task' = task
<1>1. PICK code \in {conn[c].code, AbnormalClosure} : OnClose(c, code)
  BY DEF CloseEvent
<1>2. /\ conn[c].socket = "closing" /\ conn[c] \in ConnRecord /\ Link(conn[c], handover[c])
  BY Streams DEF CloseEvent, ConnInv
<1>3. code \in CloseCode
  BY <1>1, <1>2, Codes DEF Link, ConnRecord
<1>4. UNCHANGED <<handover, task>> /\ Drained(c) /\ SendsOnly(c, {})
  BY Streams, NothingRead, NothingSentOn DEF CloseEvent
<1> QED BY <1>1, <1>2, <1>3, <1>4, OnCloseMild

LEMMA ConnectionLostMild ==
  ASSUME PathInv, NEW c \in Client, ConnectionLost(c)
  PROVE  Mild(c, {}) /\ task' = task
<1>1. /\ AbnormalClosure \in CloseCode /\ AbnormalClosure # Handover
      /\ OnClose(c, AbnormalClosure) /\ conn[c].socket # "none" /\ UNCHANGED <<handover, task>>
  BY Codes DEF ConnectionLost, AbnormalClosure, Handover
<1>2. Drained(c)
  BY Streams, Dropped DEF ConnectionLost
<1>3. SendsOnly(c, {})
  <2>1. CASE conn[c].socket = "open"
    <3> DEFINE frame == CloseFrame(AbnormalClosure)
    <3>1. Harmless(c, frame)
      BY DEF Harmless, CloseFrame
    <3>2. outbox' = [outbox EXCEPT ![c] = Append(@, frame)]
      BY <2>1 DEF ConnectionLost
    <3> HIDE DEF frame
    <3> QED BY <3>1, <3>2, Streams, OneAppended
  <2>2. CASE conn[c].socket # "open"
    <3>1. outbox' = outbox
      BY <2>2, Streams DEF ConnectionLost, OutboxInv
    <3> QED BY <3>1, Streams, NothingSentOn
  <2> QED BY <2>1, <2>2
<1> QED BY <1>1, <1>2, <1>3, OnCloseMild

LEMMA ServerClosesMild ==
  ASSUME PathInv, NEW c \in Client, ServerCloses(c)
  PROVE  Mild(c, {}) /\ task' = task
<1> DEFINE m == Head(inbox[c])
<1>1. m \in Elements(inbox[c]) /\ m.type = "ws-close"
  BY Streams, Read1 DEF InboxInv, ServerCloses
<1>2. m.body \in KickCode
  <2>1. CASE c \in Initiators
    BY <1>1, <2>1 DEF PathInv, StreamsOK, ToInitiator
  <2>2. CASE c \in Responders
    BY <1>1, <2>2 DEF PathInv, StreamsOK, ToResponder
  <2> QED BY <2>1, <2>2 DEF Client
<1>3. /\ OnClose(c, m.body) /\ conn[c].socket = "open" /\ UNCHANGED <<handover, task>>
      /\ Drained(c) /\ SendsOnly(c, {})
  BY Streams, Dropped, NothingSentOn DEF ServerCloses
<1>4. m.body \in CloseCode /\ m.body # Handover
  BY <1>2 DEF KickCode
<1> HIDE DEF m
<1> QED BY <1>3, <1>4, OnCloseMild

(* The messages of the server during its handshake.                        *)
LEMMA TwoPartsSent ==
  ASSUME OutboxInv, NEW c \in Client, NEW a, IsSeq(a), NEW b, IsSeq(b),
         outbox' = [outbox EXCEPT ![c] = @ \o a \o b], NEW P,
         \A p \in Elements(a) : p \in P \/ Harmless(c, p),
         \A p \in Elements(b) : p \in P \/ Harmless(c, p)
  PROVE  SendsOnly(c, P)
<1>1. (outbox[c] \o a) \o b = outbox[c] \o (a \o b)
  BY Regrouped DEF OutboxInv
<1>2. IsSeq(a \o b) /\ Elements(a \o b) = Elements(a) \cup Elements(b)
  BY JoinedElements
<1>3. Appends(c, a \o b)
  BY <1>1, <1>2 DEF Appends
<1> QED BY <1>2, <1>3, AppendsOnly

LEMMA ServerHelloMild ==
  ASSUME PathInv, NEW c \in Client, inbox[c] # <<>>, NEW m, HandleServerHello(c, m)
  PROVE  Mild(c, {}) /\ task' = task
<1> DEFINE hello == IF c \in Responders
                    THEN <<BuildPacket(c, srv[c], 0, Plain, "client-hello", NoTask)>> ELSE <<>>
           said == [srv[c] EXCEPT !.out = @ + Len(hello)]
           auth == BuildPacket(c, said, 0, ServerKey(c), "client-auth", m.cookie)
<1>1. IsSeq(hello) /\ \A p \in Elements(hello) : Harmless(c, p)
  BY Single, BuiltPacket DEF Harmless
<1>2. IsSeq(<<auth>>) /\ \A p \in Elements(<<auth>>) : Harmless(c, p)
  BY Single, BuiltPacket DEF Harmless
<1>3. outbox' = [outbox EXCEPT ![c] = @ \o hello \o <<auth>>]
  BY DEF HandleServerHello
<1> HIDE DEF hello, auth
<1>4. SendsOnly(c, {})
  BY <1>1, <1>2, <1>3, Streams, TwoPartsSent
<1>5. Drained(c) /\ UNCHANGED <<conn, handover, task>>
  BY Streams, Consumed DEF HandleServerHello
<1> QED BY <1>4, <1>5, Unmoving

LEMMA ServerAuthUndecryptableMild ==
  ASSUME PathInv, NEW c \in Client, inbox[c] # <<>>, NEW m, ServerAuthUndecryptable(c, m)
  PROVE  Mild(c, {}) /\ task' = task
<1>1. Drained(c) /\ SendsOnly(c, {}) /\ UNCHANGED <<conn, handover, task>>
  BY Streams, Consumed, NothingSentOn DEF ServerAuthUndecryptable
<1> QED BY <1>1, Unmoving

LEMMA ServerAuthDoneMild ==
  ASSUME PathInv, NEW c \in Client, conn[c].socket = "open", inbox[c] # <<>>, NEW m,
         ServerAuthDone(c, m), Consume(c), UNCHANGED <<handover, task>>,
         NEW P, SendsOnly(c, P)
  PROVE  Mild(c, P)
<1>1. conn[c].state = "server-handshake"
  BY DEF ServerAuthDone, ServerHandshake
<1>2. ConnInv' /\ Apart(c) /\ conn'[c].state = "peer-handshake" /\ conn'[c].used = conn[c].used
  BY Streams, AdvanceConn DEF ServerAuthDone
<1>3. Drained(c)
  BY Streams, Consumed
<1> QED BY <1>1, <1>2, <1>3, Reconnected DEF Drift

(* The messages of the peers after the handshake, and the handover.        *)
LEMMA SetHandoverMoved ==
  ASSUME PathInv, NEW c \in Client, NEW flags \in HandoverRecord, NEW rest, IsSeq(rest),
         Elements(rest) \subseteq Elements(inbox[c]), NEW sent, IsSeq(sent), NEW P,
         \A p \in Elements(sent) : p \in P \/ Harmless(c, p),
         SetHandover(c, flags, rest, sent), ~Both(c), conn[c].state = "task",
         handover[c].local => flags.local, task' = task
  PROVE  Moved(c, P) /\ handover'[c] = flags
<1> DEFINE done == flags.local /\ flags.peer /\ ~Both(c)
           hangup == IF done THEN Hangup(conn[c], Handover) ELSE <<>>
           left == IF done THEN <<>> ELSE rest
<1>1. ConnInv' /\ Apart(c) /\ conn'[c].state = "task" /\ conn'[c].used = conn[c].used
  BY Streams, SetHandoverConn
<1>2. /\ handover' = [handover EXCEPT ![c] = flags]
      /\ inbox' = [inbox EXCEPT ![c] = left]
      /\ outbox' = [outbox EXCEPT ![c] = @ \o sent \o hangup]
  BY DEF SetHandover
<1>3. IsSeq(hangup) /\ \A p \in Elements(hangup) : Harmless(c, p)
  BY HangupHarmless, Single
<1>4. IsSeq(left) /\ Elements(left) \subseteq Elements(inbox[c])
  BY Single
<1> HIDE DEF hangup, left
<1>5. Drained(c) /\ SendsOnly(c, P)
  BY <1>2, <1>3, <1>4, Streams, RestIs, TwoPartsSent
<1>6. handover'[c] = flags /\ \A d \in Client \ {c} : handover'[d] = handover[d]
  BY <1>2, Streams DEF ConnInv
<1>7. Lone(c) /\ Drift(c)
  BY <1>1, <1>6, Streams DEF Lone, Drift, Apart
<1> QED BY <1>5, <1>6, <1>7 DEF Moved

LEMMA PeerMessageMoved ==
  ASSUME PathInv, NEW c \in Client, conn[c].state = "task", conn[c].socket = "open",
         inbox[c] # <<>>, ~handover[c].peer, NEW m, PeerMessage(c, m)
  PROVE  Moved(c, {}) /\ task' = task /\ (handover'[c].peer => m.type = "handover")
<1>1. conn[c].used
  BY OpenIsUsed
<1>2. ASSUME NEW reason \in CloseCode, ResetConnection(c, reason, <<>>)
      PROVE  Mild(c, {}) /\ task' = task
  BY <1>1, <1>2, Single, ResetConnectionMild
<1>3. CASE HandleClose(c)
  BY <1>2, <1>3, Codes DEF HandleClose, Mild
<1>4. CASE ResetConnection(c, ProtocolError, <<>>)
  BY <1>2, <1>4, Codes DEF Mild
<1>5. CASE Consume(c) /\ UNCHANGED <<conn, srv, handover, task, addr, outbox>>
  <2>1. Drained(c) /\ SendsOnly(c, {}) /\ UNCHANGED <<conn, handover, task>>
    BY <1>5, Streams, Consumed, NothingSentOn
  <2> QED BY <2>1, Unmoving DEF Mild
<1>6. CASE /\ m.type = "handover"
           /\ SetHandover(c, [handover[c] EXCEPT !.peer = TRUE], Tail(inbox[c]), <<>>)
           /\ UNCHANGED <<srv, task, addr>>
  <2> DEFINE flags == [handover[c] EXCEPT !.peer = TRUE]
             rest == Tail(inbox[c])
  <2>1. flags \in HandoverRecord /\ flags.local = handover[c].local /\ ~Both(c)
    BY Streams DEF ConnInv, HandoverRecord, Both
  <2>2. IsSeq(rest) /\ Elements(rest) \subseteq Elements(inbox[c])
    BY Streams, Read1 DEF InboxInv
  <2>3. SetHandover(c, flags, rest, <<>>) /\ task' = task
    BY <1>6
  <2>4. IsSeq(<<>>) /\ Elements(<<>>) = {}
    BY Single
  <2> HIDE DEF flags, rest
  <2>5. Moved(c, {})
    BY <2>1, <2>2, <2>3, <2>4, SetHandoverMoved
  <2> QED BY <1>6, <2>5
<1> QED BY <1>3, <1>4, <1>5, <1>6 DEF PeerMessage

LEMMA LocalHandoverMild ==
  ASSUME PathInv, NEW c \in Client, NEW peer, NEW dst, LocalHandover(c, peer, dst)
  PROVE  /\ Mild(c, {BuildPacket(c, peer, dst, peer.sess, "handover", NoTask)})
         /\ task' = task /\ handover'[c].local
<1> DEFINE p == BuildPacket(c, peer, dst, peer.sess, "handover", NoTask)
           flags == [handover[c] EXCEPT !.local = TRUE]
<1>1. flags \in HandoverRecord /\ flags.local /\ flags.peer = handover[c].peer
  BY Streams DEF ConnInv, HandoverRecord
<1>2. /\ SetHandover(c, flags, inbox[c], <<p>>) /\ ~Both(c) /\ conn[c].state = "task"
      /\ task' = task
  BY DEF LocalHandover, Both
<1> HIDE DEF p, flags
<1>3. /\ IsSeq(<<p>>) /\ \A q \in Elements(<<p>>) : q \in {p}
      /\ IsSeq(inbox[c]) /\ Elements(inbox[c]) \subseteq Elements(inbox[c])
  BY Single, Streams DEF InboxInv
<1>4. Moved(c, {p}) /\ handover'[c] = flags
  BY <1>1, <1>2, <1>3, SetHandoverMoved
<1> QED BY <1>1, <1>2, <1>4 DEF Mild, p

LEMMA SendApplicationMild ==
  ASSUME PathInv, NEW c \in Client, NEW peer, NEW dst,
         dst \in IF c \in Initiators THEN {0} \cup ResponderIds ELSE {0, 1},
         SendApplication(c, peer, dst)
  PROVE  Mild(c, {}) /\ task' = task
<1> DEFINE p == BuildPacket(c, peer, dst, peer.sess, "application", NoTask)
<1>1. Harmless(c, p)
  BY BuiltPacket DEF Harmless
<1>2. outbox' = [outbox EXCEPT ![c] = Append(@, p)]
  BY DEF SendApplication
<1> HIDE DEF p
<1>3. SendsOnly(c, {})
  BY <1>1, <1>2, Streams, OneAppended
<1>4. Drained(c) /\ UNCHANGED <<conn, handover, task>>
  BY Streams, NothingRead DEF SendApplication
<1> QED BY <1>3, <1>4, Unmoving

LEMMA SendCloseHarmless ==
  ASSUME NEW c \in Client, NEW peer, NEW dst, NEW reason,
         dst \in IF c \in Initiators THEN {0} \cup ResponderIds ELSE {0, 1}
  PROVE  /\ IsSeq(SendClose(c, peer, dst, reason))
         /\ \A p \in Elements(SendClose(c, peer, dst, reason)) : Harmless(c, p)
<1> DEFINE p == BuildPacket(c, peer, dst, peer.sess, "close", reason)
<1>1. Harmless(c, p)
  BY BuiltPacket DEF Harmless
<1>2. SendClose(c, peer, dst, reason) \in {<<>>, <<p>>}
  BY DEF SendClose
<1> HIDE DEF p
<1> QED BY <1>1, <1>2, Single

(* What a client reads was said to it.                                     *)
LEMMA Arrived ==
  ASSUME PathInv, NEW c \in Client, Receives(c)
  PROVE  /\ inbox[c] # <<>> /\ conn[c].socket = "open" /\ conn[c].used
         /\ c \in Initiators => ToInitiator(Head(inbox[c]))
         /\ c \in Responders => ToResponder(Head(inbox[c]))
<1>1. Head(inbox[c]) \in Elements(inbox[c])
  BY Streams, Read1 DEF InboxInv, Receives
<1> QED BY <1>1, OpenIsUsed DEF Receives, PathInv, StreamsOK

-----------------------------------------------------------------------------
(* The steps of an initiator.                                              *)

LEMMA Mine ==
  ASSUME PathInv, NEW i \in Initiators
  PROVE  /\ i \in Client /\ InitiatorOK(i)
         /\ MapOK(i, responders[i], counter[i]) /\ ChosenOK(i, chosen[i], task[i])
         /\ responders[i] = [id \in ResponderIds |-> responders[i][id]]
         /\ counter[i] \in Nat
         /\ conn[i].state = "peer-handshake" => chosen[i].n = 0
         /\ conn[i].state = "task" => chosen[i].n # 0 /\ chosen[i].id \in ResponderIds
BY Sides DEF PathInv, DomainsOK, InitiatorOK, MapOK, ChosenOK, Late

LEMMA PeersStep ==
  ASSUME PathInv, NEW i \in Initiators, NEW P, Moved(i, P), UNCHANGED <<initiator, slot>>,
         NEW rs, NEW k, NEW o, responders' = [responders EXCEPT ![i] = rs],
         counter' = [counter EXCEPT ![i] = k], chosen' = [chosen EXCEPT ![i] = o],
         rs = [id \in ResponderIds |-> rs[id]], MapOK(i, rs, k), SameKeys(chosen[i], o),
         task'[i] = task[i] \/ chosen[i].n = 0,
         handover'[i].peer =>
           \/ handover[i].peer
           \/ chosen[i].n # 0 /\ \E r \in Responders : Entered(r, chosen[i].sess) /\ HandedOver(r)
  PROVE  IStep(i, P)
<1>1. DomainsOK
  BY DEF PathInv
<1>2. /\ responders'[i] = rs /\ counter'[i] = k /\ chosen'[i] = o
      /\ \A j \in Initiators \ {i} :
           responders'[j] = responders[j] /\ counter'[j] = counter[j] /\ chosen'[j] = chosen[j]
  BY <1>1 DEF DomainsOK
<1>3. DomainsOK'
  <2>1. responders' = [j \in Initiators |-> responders'[j]]
    BY <1>1 DEF DomainsOK
  <2>2. \A j \in Initiators : responders'[j] = [id \in ResponderIds |-> responders'[j][id]]
    BY <1>1, <1>2 DEF DomainsOK
  <2>3. /\ chosen' = [j \in Initiators |-> chosen'[j]]
        /\ counter' = [j \in Initiators |-> counter'[j]]
        /\ initiator' = [r \in Responders |-> initiator'[r]]
        /\ task' \in [Client -> TaskNames \cup {NoTask}]
    BY <1>1 DEF DomainsOK, Moved, Lone
  <2> QED BY <2>1, <2>2, <2>3 DEF DomainsOK
<1> QED BY <1>2, <1>3 DEF IStep, Moved, OthersKeepPeers

LEMMA Itself ==
  ASSUME PathInv, NEW i \in Initiators
  PROVE  /\ responders = [responders EXCEPT ![i] = responders[i]]
         /\ counter = [counter EXCEPT ![i] = counter[i]]
         /\ chosen = [chosen EXCEPT ![i] = chosen[i]]
         /\ SameKeys(chosen[i], chosen[i])
BY DEF PathInv, DomainsOK, InitiatorOK, ChosenOK, SameKeys

(* It keeps its peers, its map changes, and its chosen responder does.     *)
LEMMA PeersKeptStep ==
  ASSUME PathInv, NEW i \in Initiators, NEW P, Mild(i, P), UNCHANGED <<initiator, slot>>,
         UNCHANGED peerVars, task'[i] = task[i] \/ chosen[i].n = 0
  PROVE  IStep(i, P)
BY Mine, Itself, PeersStep DEF Mild, peerVars

LEMMA MapStep ==
  ASSUME PathInv, NEW i \in Initiators, NEW P, Mild(i, P), UNCHANGED <<initiator, slot>>,
         NEW rs, NEW k, responders' = [responders EXCEPT ![i] = rs],
         counter' = [counter EXCEPT ![i] = k], chosen' = chosen,
         rs = [id \in ResponderIds |-> rs[id]], MapOK(i, rs, k),
         task'[i] = task[i] \/ chosen[i].n = 0
  PROVE  IStep(i, P)
BY Itself, PeersStep DEF Mild

LEMMA ChosenStep ==
  ASSUME PathInv, NEW i \in Initiators, NEW P, Moved(i, P), UNCHANGED <<initiator, slot>>,
         UNCHANGED <<responders, counter>>, NEW o, chosen' = [chosen EXCEPT ![i] = o],
         SameKeys(chosen[i], o), task' = task,
         handover'[i].peer =>
           \/ handover[i].peer
           \/ chosen[i].n # 0 /\ \E r \in Responders : Entered(r, chosen[i].sess) /\ HandedOver(r)
  PROVE  IStep(i, P)
BY Mine, Itself, PeersStep

(* Its map: somebody is forgotten, an object changes, one is added.        *)
LEMMA NobodyOK == \A i, id : ObjectOK(i, id, NoResponder) /\ NoResponder.n = 0
BY DEF ObjectOK, ResponderFields, NoResponder

LEMMA MapWithout ==
  ASSUME NEW i, NEW rs, NEW k, MapOK(i, rs, k), NEW ids
  PROVE  /\ MapOK(i, Without(rs, ids), k)
         /\ Without(rs, ids) = [id \in ResponderIds |-> Without(rs, ids)[id]]
<1> DEFINE new == Without(rs, ids)
<1>1. /\ \A id \in ResponderIds : new[id] = IF id \in ids THEN NoResponder ELSE rs[id]
      /\ new = [id \in ResponderIds |-> new[id]]
  BY DEF Without
<1> HIDE DEF new
<1>2. \A id \in ResponderIds : ObjectOK(i, id, new[id]) /\ new[id].n <= k
  BY <1>1, NobodyOK DEF MapOK
<1>3. \A id \in Present(new) : id \in Present(rs) /\ new[id] = rs[id]
  BY <1>1, NobodyOK DEF Present
<1>4. \A a, b \in Present(new) : new[a].n = new[b].n => a = b
  BY <1>3 DEF MapOK
<1>5. MapOK(i, new, k)
  BY <1>2, <1>4 DEF MapOK
<1> QED BY <1>1, <1>5 DEF new

LEMMA MapChanged ==
  ASSUME NEW i, NEW rs, rs = [id \in ResponderIds |-> rs[id]], NEW k, MapOK(i, rs, k),
         NEW id \in ResponderIds, NEW o, ObjectOK(i, id, o), o.n = rs[id].n
  PROVE  LET new == [rs EXCEPT ![id] = o]
         IN MapOK(i, new, k) /\ new = [a \in ResponderIds |-> new[a]]
<1> DEFINE new == [rs EXCEPT ![id] = o]
<1>1. /\ \A a \in ResponderIds : new[a] = IF a = id THEN o ELSE rs[a]
      /\ new = [a \in ResponderIds |-> new[a]]
  OBVIOUS
<1> HIDE DEF new
<1>2. \A a \in ResponderIds : new[a].n = rs[a].n
  BY <1>1
<1>3. \A a \in ResponderIds : ObjectOK(i, a, new[a]) /\ new[a].n <= k
  BY <1>1, <1>2 DEF MapOK
<1>4. \A a, b \in Present(new) : new[a].n = new[b].n => a = b
  BY <1>2 DEF MapOK, Present
<1>5. MapOK(i, new, k)
  BY <1>3, <1>4 DEF MapOK
<1> QED BY <1>1, <1>5 DEF new

LEMMA MapAdded ==
  ASSUME NEW i, NEW rs, rs = [id \in ResponderIds |-> rs[id]], NEW k, MapOK(i, rs, k),
         NEW id \in ResponderIds, NEW o, ObjectOK(i, id, o), o.n = k + 1
  PROVE  LET new == [rs EXCEPT ![id] = o]
         IN MapOK(i, new, k + 1) /\ new = [a \in ResponderIds |-> new[a]]
<1> DEFINE new == [rs EXCEPT ![id] = o]
<1>1. /\ \A a \in ResponderIds : new[a] = IF a = id THEN o ELSE rs[a]
      /\ new = [a \in ResponderIds |-> new[a]]
  OBVIOUS
<1> HIDE DEF new
<1>2. k \in Nat /\ \A a \in ResponderIds : rs[a].n \in Nat /\ rs[a].n <= k
  BY DEF MapOK, ObjectOK
<1>3. \A a \in ResponderIds : ObjectOK(i, a, new[a]) /\ new[a].n <= k + 1
  BY <1>1, <1>2 DEF MapOK
<1>4. ASSUME NEW a \in Present(new), NEW b \in Present(new), new[a].n = new[b].n PROVE a = b
  <2>1. CASE a = id \/ b = id
    BY <1>1, <1>2, <1>4, <2>1 DEF Present
  <2>2. CASE a # id /\ b # id
    <3>1. a \in Present(rs) /\ b \in Present(rs) /\ rs[a].n = rs[b].n
      BY <1>1, <1>4, <2>2 DEF Present
    <3> QED BY <3>1 DEF MapOK
  <2> QED BY <2>1, <2>2
<1>5. MapOK(i, new, k + 1)
  BY <1>2, <1>3, <1>4 DEF MapOK
<1> QED BY <1>1, <1>5 DEF new

(* A trusted responder is invited from the start.                          *)
LEMMA NewResponderOK ==
  ASSUME NEW i \in Initiators, NEW id, NEW n \in Nat
  PROVE  ObjectOK(i, id, NewResponder(i, id, n)) /\ NewResponder(i, id, n).n = n
<1> DEFINE o == NewResponder(i, id, n)
<1>1. /\ ResponderFields(o) /\ o.n = n /\ o.id = id
      /\ o.hs = IF Trusts(i) THEN "token-received" ELSE "new"
      /\ o.perm = IF Trusts(i) THEN PermanentKey(PeerTrustedKey[i]) ELSE NoKey
  BY DEF NewResponder, NoResponder, ResponderFields
<1> HIDE DEF o
<1>2. Trusts(i) => PeerTrustedKey[i] \in Responders /\ Invited(i, PeerTrustedKey[i])
  BY InitiatorAssumption DEF Trusts, Invited
<1> QED BY <1>1, <1>2 DEF ObjectOK, o

(* The order in which it drops several.                                    *)
LEMMA OrderIsSeq ==
  ASSUME NEW i, NEW rs, NEW k, MapOK(i, rs, k), NEW ids \in SUBSET Present(rs)
  PROVE  IsSeq(InsertionOrder(rs, ids))
<1>1. IsFiniteSet(ids)
  BY AddressAssumption, FS_Subset DEF Present
<1>2. \A id \in ids : rs[id].n \in Nat
  BY DEF MapOK, ObjectOK, Present
<1>3. \A a, b \in ids : rs[a].n = rs[b].n => a = b
  BY DEF MapOK
<1> QED BY <1>1, <1>2, <1>3, OrderedListing DEF InsertionOrder

(* The task it chooses.                                                    *)
LEMMA ChosenTaskAgreed ==
  ASSUME NEW i \in Initiators, NEW m, Common(i, m) # {}
  PROVE  /\ ChosenTask(i, m) \in TaskNames
         /\ \A r : m.body.tasks = OfferedTasks[r] => Agreed(i, r, ChosenTask(i, m))
<1> DEFINE first == CHOOSE k \in Common(i, m) : \A j \in Common(i, m) : k <= j
<1>1. /\ OurTasks[i] \in Seq(TaskNames) /\ Common(i, m) \in SUBSET Nat
      /\ DOMAIN OurTasks[i] = 1 .. Len(OurTasks[i])
  BY InitiatorAssumption DEF Common
<1>2. first \in Common(i, m) /\ \A j \in Common(i, m) : first <= j
  BY <1>1, Smallest
<1>3. ChosenTask(i, m) = OurTasks[i][first]
  BY DEF ChosenTask
<1> HIDE DEF first
<1>4. first \in DOMAIN OurTasks[i] /\ OurTasks[i][first] \in m.body.tasks
  BY <1>2 DEF Common
<1>5. OurTasks[i][first] \in TaskNames
  BY <1>1, <1>4
<1>6. \A j \in DOMAIN OurTasks[i] : OurTasks[i][j] \in m.body.tasks => first <= j
  BY <1>2 DEF Common
<1> QED BY <1>3, <1>4, <1>5, <1>6 DEF Agreed

(* Its operations.                                                         *)
LEMMA IResetStep ==
  ASSUME PathInv, NEW i \in Initiators, conn[i].used, NEW reason \in CloseCode, NEW sent,
         IsSeq(sent), \A p \in Elements(sent) : Harmless(i, p), ResetConnection(i, reason, sent),
         UNCHANGED <<peerVars, initiator, slot>>
  PROVE  IStep(i, {})
BY Mine, ResetConnectionMild, PeersKeptStep

(* The server is heard and nothing else happens.                           *)
LEMMA IHeardStep ==
  ASSUME PathInv, NEW i \in Initiators, inbox[i] # <<>>, Consume(i),
         UNCHANGED <<conn, handover, task, outbox, peerVars, initiator, slot>>
  PROVE  IStep(i, {})
<1>1. Mild(i, {}) /\ i \in Client
  BY Mine, Streams, Consumed, NothingSentOn, Unmoving
<1> QED BY <1>1, PeersKeptStep

LEMMA HandleServerAuthIStep ==
  ASSUME PathInv, NEW i \in Initiators, inbox[i] # <<>>, conn[i].socket = "open",
         NEW m, ToInitiator(m), HandleServerAuth(i, m), UNCHANGED <<initiator, slot>>
  PROVE  IStep(i, {})
<1> DEFINE ids == m.body.responders
           n == Len(ids)
           surplus == IF Trusts(i) \/ Len(ids) <= Limit THEN 0 ELSE Len(ids) - Limit
           kept == {k \in 1 .. Len(ids) : k > surplus}
           entry(id) == CHOOSE k \in kept : ids[k] = id
           k0 == counter[i]
           new == [id \in ResponderIds |->
                     IF \E k \in kept : ids[k] = id
                     THEN NewResponder(i, id, k0 + entry(id)) ELSE NoResponder]
<1>1. IsSeq(ids) /\ n \in Nat /\ k0 \in Nat
  <2>1. m.type = "server-auth"
    BY DEF HandleServerAuth, ServerAuthDone, AuthExpected
  <2>2. IsSeq(ids)
    BY <2>1 DEF ToInitiator
  <2>3. counter[i] \in Nat
    BY Mine, Zenon
  <2>4. Len(ids) \in Nat
    BY <2>2 DEF IsSeq
  <2> QED BY <2>2, <2>3, <2>4
<1>2. Mild(i, {})
  <2> DEFINE dropped == SubSeq(ids, 1, surplus)
  <2>1. surplus \in 0 .. n
    BY <1>1, InitiatorAssumption
  <2>2. IsSeq(dropped)
    <3>1. PICK S : ids \in Seq(S)
      BY <1>1 DEF IsSeq
    <3> HIDE DEF ids
    <3>2. \A k \in 1 .. surplus : ids[k] \in S
      BY <2>1, <3>1
    <3> HIDE DEF surplus
    <3>3. SubSeq(ids, 1, surplus) \in Seq(S)
      BY <2>1, <3>1, <3>2, SubSeqProperties
    <3> QED BY <3>3 DEF IsSeq
  <2>3. DroppedByInitiator \in KickCode
    BY KickCodes
  <2>4. outbox' = [outbox EXCEPT ![i] = @ \o DropRequests(i, srv[i], dropped, DroppedByInitiator)]
    BY DEF HandleServerAuth
  <2> HIDE DEF dropped, surplus, ids
  <2>5. SendsOnly(i, {})
    BY <2>2, <2>3, <2>4, Streams, DropsOnly
  <2> QED BY <2>5, Mine, ServerAuthDoneMild DEF HandleServerAuth
<1>3. /\ responders' = [responders EXCEPT ![i] = new]
      /\ counter' = [counter EXCEPT ![i] = k0 + n] /\ chosen' = chosen /\ task' = task
  BY DEF HandleServerAuth
<1>4. kept \in SUBSET (1 .. n)
  OBVIOUS
<1> HIDE DEF ids, kept, n, k0
<1>5. \A id : (\E k \in kept : ids[k] = id) => entry(id) \in kept /\ ids[entry(id)] = id
  OBVIOUS
<1> HIDE DEF entry
<1>6. \A id \in ResponderIds :
        \/ new[id] = NoResponder
        \/ /\ new[id] = NewResponder(i, id, k0 + entry(id))
           /\ entry(id) \in 1 .. n /\ ids[entry(id)] = id
  BY <1>4, <1>5
<1>7. new = [id \in ResponderIds |-> new[id]]
  OBVIOUS
<1> HIDE DEF new
<1>8. \A id \in ResponderIds : ObjectOK(i, id, new[id]) /\ new[id].n <= k0 + n
  <2> SUFFICES ASSUME NEW id \in ResponderIds PROVE ObjectOK(i, id, new[id]) /\ new[id].n <= k0 + n
    OBVIOUS
  <2>1. CASE new[id] = NoResponder
    BY <1>1, <2>1, NobodyOK
  <2>2. CASE /\ new[id] = NewResponder(i, id, k0 + entry(id)) /\ entry(id) \in 1 .. n
    <3>1. k0 + entry(id) \in Nat /\ k0 + entry(id) <= k0 + n
      BY <1>1, <2>2
    <3> QED BY <2>2, <3>1, NewResponderOK
  <2> QED BY <1>6, <2>1, <2>2
<1>9. ASSUME NEW a \in Present(new), NEW b \in Present(new), new[a].n = new[b].n PROVE a = b
  <2>1. \A id \in Present(new) :
          entry(id) \in 1 .. n /\ ids[entry(id)] = id /\ new[id].n = k0 + entry(id)
    <3> SUFFICES ASSUME NEW id \in Present(new)
                 PROVE  entry(id) \in 1 .. n /\ ids[entry(id)] = id /\ new[id].n = k0 + entry(id)
      OBVIOUS
    <3>1. id \in ResponderIds /\ new[id] # NoResponder
      BY NobodyOK DEF Present
    <3>2. k0 + entry(id) \in Nat /\ entry(id) \in 1 .. n /\ ids[entry(id)] = id
      BY <1>1, <1>6, <3>1
    <3> QED BY <1>6, <3>1, <3>2, NewResponderOK
  <2>2. entry(a) = entry(b)
    BY <1>1, <1>9, <2>1
  <2> QED BY <2>1, <2>2
<1>10. MapOK(i, new, k0 + n)
  BY <1>1, <1>8, <1>9 DEF MapOK
<1> QED BY <1>2, <1>3, <1>7, <1>10, MapStep

LEMMA ProcessNewResponderIStep ==
  ASSUME PathInv, NEW i \in Initiators, inbox[i] # <<>>, NEW s, NEW id \in ResponderIds,
         ProcessNewResponder(i, s, id), Consume(i),
         UNCHANGED <<conn, handover, task, chosen, initiator, slot>>
  PROVE  IStep(i, {})
<1> DEFINE k0 == counter[i]
           added == [responders[i] EXCEPT ![id] = NewResponder(i, id, k0 + 1)]
           evicted == Evicted(added)
           order == InsertionOrder(added, evicted)
<1>1. k0 + 1 \in Nat /\ ObjectOK(i, id, NewResponder(i, id, k0 + 1))
      /\ NewResponder(i, id, k0 + 1).n = k0 + 1
  <2>1. counter[i] \in Nat
    BY Mine, Zenon
  <2>2. k0 + 1 \in Nat
    BY <2>1
  <2> QED BY <2>2, NewResponderOK
<1>2. MapOK(i, added, k0 + 1) /\ added = [a \in ResponderIds |-> added[a]]
  BY <1>1, Mine, MapAdded
<1>3. /\ responders' = [responders EXCEPT ![i] = Without(added, evicted)]
      /\ counter' = [counter EXCEPT ![i] = k0 + 1]
      /\ outbox' = [outbox EXCEPT ![i] = @ \o DropRequests(i, s, order, DroppedByInitiator)]
  BY DEF ProcessNewResponder
<1>4. evicted \in SUBSET Present(added)
  BY DEF Evicted
<1> HIDE DEF added, evicted, k0
<1>5. IsSeq(order) /\ DroppedByInitiator \in KickCode
  BY <1>2, <1>4, OrderIsSeq, KickCodes
<1>6. MapOK(i, Without(added, evicted), k0 + 1)
      /\ Without(added, evicted) = [a \in ResponderIds |-> Without(added, evicted)[a]]
  BY <1>2, MapWithout
<1> HIDE DEF order
<1>7. SendsOnly(i, {})
  BY <1>3, <1>5, Streams, DropsOnly
<1>8. Mild(i, {})
  BY <1>7, Mine, Streams, Consumed, Unmoving
<1> QED BY <1>3, <1>6, <1>8, MapStep

LEMMA WithoutIStep ==
  ASSUME PathInv, NEW i \in Initiators, NEW P, Mild(i, P), NEW ids,
         responders' = [responders EXCEPT ![i] = Without(@, ids)],
         task'[i] = task[i] \/ chosen[i].n = 0, UNCHANGED <<counter, chosen, initiator, slot>>
  PROVE  IStep(i, P)
<1>1. MapOK(i, Without(responders[i], ids), counter[i])
      /\ Without(responders[i], ids) = [a \in ResponderIds |-> Without(responders[i], ids)[a]]
  <2>1. MapOK(i, responders[i], counter[i])
    BY Mine
  <2> QED BY <2>1, MapWithout
<1>2. responders' = [responders EXCEPT ![i] = Without(responders[i], ids)]
  OBVIOUS
<1> QED BY <1>1, <1>2, Itself, MapStep

LEMMA HandleNewResponderIStep ==
  ASSUME PathInv, NEW i \in Initiators, inbox[i] # <<>>, NEW m, HandleNewResponder(i, m),
         UNCHANGED <<initiator, slot>>
  PROVE  IStep(i, {})
<1>1. CASE /\ m.body \in ResponderIds
           /\ ProcessNewResponder(i, Heard(i, m), m.body)
           /\ Consume(i)
           /\ UNCHANGED <<conn, handover, task, addr, chosen>>
  BY <1>1, ProcessNewResponderIStep
<1>2. CASE /\ responders' = [responders EXCEPT ![i] = Without(@, {m.body})]
           /\ outbox' = [outbox EXCEPT ![i] =
                           @ \o DropRequests(i, srv[i], <<m.body>>, DroppedByInitiator)]
           /\ Consume(i)
           /\ UNCHANGED <<conn, handover, task, addr, counter, chosen>>
  <2>1. IsSeq(<<m.body>>) /\ DroppedByInitiator \in KickCode
    BY Single, KickCodes
  <2>2. SendsOnly(i, {})
    BY <1>2, <2>1, Streams, DropsOnly
  <2>3. Mild(i, {})
    BY <1>2, <2>2, Mine, Streams, Consumed, Unmoving
  <2> QED BY <1>2, <2>3, WithoutIStep
<1> QED BY <1>1, <1>2 DEF HandleNewResponder

LEMMA HandleSendErrorIStep ==
  ASSUME PathInv, NEW i \in Initiators, inbox[i] # <<>>, conn[i].used, NEW m,
         HandleSendError(i, m), UNCHANGED <<initiator, slot>>
  PROVE  IStep(i, {})
<1>1. CASE /\ responders' = [responders EXCEPT ![i] = Without(@, {m.body.dst})]
           /\ Consume(i)
           /\ UNCHANGED <<conn, handover, task, addr, outbox, counter, chosen>>
  <2>1. Mild(i, {})
    BY <1>1, Mine, Streams, Consumed, NothingSentOn, Unmoving
  <2> QED BY <1>1, <2>1, WithoutIStep
<1>2. CASE ResetConnection(i, ProtocolError, <<>>) /\ UNCHANGED peerVars
  BY <1>2, Codes, Single, IResetStep
<1>3. CASE Consume(i) /\ UNCHANGED <<conn, handover, task, addr, outbox>> /\ UNCHANGED peerVars
  BY <1>3, IHeardStep
<1> QED BY <1>1, <1>2, <1>3 DEF HandleSendError

(* A responder proves itself, step by step.                                *)
LEMMA ObjectIStep ==
  ASSUME PathInv, NEW i \in Initiators, NEW P, Mild(i, P), NEW id \in ResponderIds, NEW o,
         ObjectOK(i, id, o), o.n = responders[i][id].n,
         responders' = [responders EXCEPT ![i][id] = o],
         UNCHANGED <<task, counter, chosen, initiator, slot>>
  PROVE  IStep(i, P)
<1> DEFINE new == [responders[i] EXCEPT ![id] = o]
<1>1. MapOK(i, new, counter[i]) /\ new = [a \in ResponderIds |-> new[a]]
  BY Mine, MapChanged
<1>2. responders' = [responders EXCEPT ![i] = new]
  OBVIOUS
<1> HIDE DEF new
<1> QED BY <1>1, <1>2, Itself, MapStep

LEMMA FromResponderIs ==
  ASSUME PathInv, NEW i \in Initiators, NEW m, NEW hs, FromResponder(i, m, hs)
  PROVE  /\ m.src \in ResponderIds /\ m.src \in Present(responders[i])
         /\ responders[i][m.src].hs = hs /\ conn[i].state = "peer-handshake"
         /\ LET o == responders[i][m.src]
                s == Saved(i, m)
            IN /\ o.n # 0 /\ ObjectOK(i, m.src, o) /\ ResponderFields(s) /\ ObjectOK(i, m.src, s)
               /\ s.n = o.n /\ s.id = o.id /\ s.hs = o.hs /\ s.perm = o.perm /\ s.sess = o.sess
<1> DEFINE o == responders[i][m.src]
           s == Saved(i, m)
<1>1. /\ m.src \in ResponderIds /\ m.src \in Present(responders[i]) /\ o.n # 0
      /\ o.hs = hs /\ conn[i].state = "peer-handshake"
  BY DEF FromResponder, Present
<1>2. ObjectOK(i, m.src, o)
  BY <1>1, Mine DEF MapOK
<1>3. /\ ResponderFields(s) /\ s.n = o.n /\ s.id = o.id /\ s.hs = o.hs
      /\ s.perm = o.perm /\ s.sess = o.sess
  <2>1. s = [o EXCEPT !.in = m.csn] /\ ResponderFields(o)
    BY <1>2 DEF Saved, ObjectOK
  <2> HIDE DEF o, s
  <2> QED BY <2>1 DEF ResponderFields
<1> HIDE DEF s, o
<1>4. ObjectOK(i, m.src, s)
  BY <1>2, <1>3 DEF ObjectOK
<1> QED BY <1>1, <1>2, <1>3, <1>4 DEF s, o

LEMMA HandleTokenIStep ==
  ASSUME PathInv, NEW i \in Initiators, inbox[i] # <<>>, NEW m, ToInitiator(m), HandleToken(i, m),
         UNCHANGED <<initiator, slot>>
  PROVE  IStep(i, {})
<1> DEFINE s == Saved(i, m)
           o == [s EXCEPT !.hs = "token-received", !.perm = PermanentKey(m.body)]
<1>1. FromResponder(i, m, "new") /\ responders' = [responders EXCEPT ![i][m.src] = o]
  BY DEF HandleToken
<1>2. /\ m.src \in ResponderIds /\ ResponderFields(s) /\ ObjectOK(i, m.src, s)
      /\ s.n = responders[i][m.src].n
  BY <1>1, FromResponderIs
<1>3. m.body \in Responders /\ AuthToken[m.body] = i
  <2>1. m.type = "token" /\ m.key = TokenKey(i)
    BY DEF HandleToken, TokenDecrypts
  <2> QED BY <2>1, SinglyNamed DEF ToInitiator
<1>4. ~Trusts(i) /\ Invited(i, m.body)
  BY <1>1, <1>3, FromResponderIs DEF ObjectOK, Invited
<1>5. /\ ResponderFields(o) /\ o.n = s.n /\ o.id = s.id
      /\ o.hs = "token-received" /\ o.perm = PermanentKey(m.body)
  <2> HIDE DEF s
  <2> QED BY <1>2 DEF ResponderFields
<1> HIDE DEF s, o
<1>6. ObjectOK(i, m.src, o) /\ o.n = responders[i][m.src].n
  BY <1>2, <1>3, <1>4, <1>5 DEF ObjectOK
<1>7. Mild(i, {})
  BY Mine, Streams, Consumed, NothingSentOn, Unmoving DEF HandleToken
<1> QED BY <1>1, <1>2, <1>6, <1>7, ObjectIStep DEF HandleToken

LEMMA HandleKeyIStep ==
  ASSUME PathInv, NEW i \in Initiators, inbox[i] # <<>>, NEW m, ToInitiator(m), HandleKey(i, m),
         UNCHANGED <<initiator, slot>>
  PROVE  \E P : IStep(i, P) /\ \A p \in P : OfInitiator(p)'
<1> DEFINE s == Saved(i, m)
           sess == SessionKey(<<i, s.n>>, m.body)
           o == [s EXCEPT !.hs = "key-sent", !.out = @ + 1, !.sess = sess]
<1> PICK p : p = BuildPacket(i, s, s.id, s.perm, "key", <<i, s.n>>)
  OBVIOUS
<1>1. /\ FromResponder(i, m, "token-received")
      /\ m.key = responders[i][m.src].perm /\ m.type = "key"
      /\ responders' = [responders EXCEPT ![i][m.src] = o]
      /\ outbox' = [outbox EXCEPT ![i] = Append(@, p)]
  BY DEF HandleKey
<1>2. /\ m.src \in ResponderIds /\ ResponderFields(s) /\ ObjectOK(i, m.src, s)
      /\ s.n = responders[i][m.src].n /\ s.n # 0 /\ s.hs = "token-received"
      /\ s.perm = responders[i][m.src].perm
  BY <1>1, FromResponderIs
<1>3. PICK r \in Responders : \E k \in 1 .. initiator[r].n :
        m.key = PermanentKey(r) /\ m.body = <<r, k>>
  BY <1>1 DEF ToInitiator
<1>4. /\ ResponderFields(o) /\ o.n = s.n /\ o.id = s.id
      /\ o.hs = "key-sent" /\ o.perm = s.perm /\ o.sess = sess
  <2> HIDE DEF s, sess
  <2> QED BY <1>2 DEF ResponderFields
<1>5. s.n \in Nat /\ s.id = m.src
  BY <1>2 DEF ObjectOK
<1> HIDE DEF s, o
<1>6. ObjectOK(i, m.src, o) /\ o.n = responders[i][m.src].n
  <2>1. Invited(i, r) /\ s.perm = PermanentKey(r)
    <3>1. PICK q \in Responders : Invited(i, q) /\ s.perm = PermanentKey(q)
      BY <1>2 DEF ObjectOK
    <3> QED BY <1>1, <1>2, <1>3, <3>1, SinglyNamed
  <2>2. SharedKey(i, o.n, r, sess)
    BY <1>3, <1>4 DEF SharedKey
  <2> QED BY <1>2, <1>4, <1>5, <2>1, <2>2 DEF ObjectOK
<1>7. OfInitiator(p)'
  <2>1. p.dst = s.id /\ p.type = "key" /\ p.body = <<i, s.n>>
    BY BuiltPacket
  <2>2. p.body \in Initiators \X Nat
    BY <1>5, <2>1
  <2> QED BY <1>2, <1>5, <2>1, <2>2 DEF OfInitiator, ToResponder
<1>8. Mild(i, {p})
  BY <1>1, Mine, Streams, Consumed, OneAppended, Unmoving DEF HandleKey
<1>9. IStep(i, {p})
  BY <1>1, <1>2, <1>6, <1>8, ObjectIStep DEF HandleKey
<1> QED BY <1>7, <1>9

LEMMA KeyUndecryptableIStep ==
  ASSUME PathInv, NEW i \in Initiators, inbox[i] # <<>>, NEW m, KeyUndecryptable(i, m),
         UNCHANGED <<initiator, slot>>
  PROVE  IStep(i, {})
<1>1. FromResponder(i, m, "token-received")
  BY DEF KeyUndecryptable
<1>2. /\ m.src \in ResponderIds /\ ObjectOK(i, m.src, Saved(i, m))
      /\ Saved(i, m).n = responders[i][m.src].n
  BY <1>1, FromResponderIs
<1>3. Mild(i, {})
  BY Mine, Streams, Consumed, NothingSentOn, Unmoving DEF KeyUndecryptable
<1> QED BY <1>2, <1>3, ObjectIStep DEF KeyUndecryptable

(* Errors.                                                                 *)
LEMMA DropSourceIStep ==
  ASSUME PathInv, NEW i \in Initiators, inbox[i] # <<>>, conn[i].state = "peer-handshake",
         NEW m, NEW reason \in KickCode, DropSource(i, m, reason),
         NEW t \in TaskNames \cup {NoTask}, task' = [task EXCEPT ![i] = t],
         UNCHANGED <<initiator, slot>>
  PROVE  IStep(i, {})
<1> DEFINE s == IF m.src = 0 THEN StoreCsn(i, srv[i], m) ELSE srv[i]
<1>1. outbox' = [outbox EXCEPT ![i] = @ \o DropRequests(i, s, <<m.src>>, reason)]
  BY DEF DropSource
<1> HIDE DEF s
<1>2. SendsOnly(i, {})
  BY <1>1, Single, Streams, DropsOnly
<1>3. Mild(i, {})
  BY <1>2, Mine, Streams, Consumed, Unmoved DEF DropSource
<1>4. chosen[i].n = 0
  BY Mine
<1> QED BY <1>3, <1>4, WithoutIStep DEF DropSource

(* Counting leaves the keys alone.                                         *)
LEMMA ChosenEdited ==
  ASSUME NEW o, ResponderFields(o), NEW x, NEW y
  PROVE  SameKeys(o, [o EXCEPT !.in = x]) /\ SameKeys(o, [o EXCEPT !.out = y])
BY DEF SameKeys, ResponderFields

LEMMA SignalingErrorIStep ==
  ASSUME PathInv, NEW i \in Initiators, inbox[i] # <<>>, conn[i].used,
         NEW m, NEW code \in KickCode, OnSignalingError(i, m, code), UNCHANGED <<initiator, slot>>
  PROVE  IStep(i, {})
<1>1. CASE ResetConnection(i, code, <<>>) /\ UNCHANGED peerVars
  BY <1>1, KickCodes, Single, IResetStep
<1>2. CASE conn[i].state = "peer-handshake" /\ DropSource(i, m, code) /\ UNCHANGED task
  <2>1. task' = [task EXCEPT ![i] = task[i]] /\ task[i] \in TaskNames \cup {NoTask}
    BY <1>2, Mine, Streams
  <2> QED BY <1>2, <2>1, DropSourceIStep
<1>3. CASE CloseWithError(i, code)
  <2> DEFINE sent == SendClose(i, chosen[i], chosen[i].id, code)
             o == [chosen[i] EXCEPT !.out = @ + Len(sent)]
  <2>1. IsSeq(sent) /\ \A p \in Elements(sent) : Harmless(i, p)
    BY <1>3, Mine, SendCloseHarmless DEF CloseWithError
  <2>2. /\ ResetConnection(i, ClosingNormal, sent) /\ ClosingNormal \in CloseCode
        /\ chosen' = [chosen EXCEPT ![i] = o] /\ UNCHANGED <<responders, counter>>
    BY <1>3, Codes DEF CloseWithError
  <2>3. SameKeys(chosen[i], o)
    BY Mine, ChosenEdited DEF ChosenOK
  <2> HIDE DEF sent, o
  <2>4. Mild(i, {}) /\ task' = task
    BY <2>1, <2>2, Mine, ResetConnectionMild
  <2> QED BY <2>2, <2>3, <2>4, ChosenStep DEF Mild
<1> QED BY <1>1, <1>2, <1>3 DEF OnSignalingError

LEMMA AuthWithOurCookieIStep ==
  ASSUME PathInv, NEW i \in Initiators, inbox[i] # <<>>, NEW m, AuthWithOurCookie(i, m),
         UNCHANGED <<initiator, slot>>
  PROVE  IStep(i, {})
<1>1. conn[i].state = "peer-handshake"
  BY DEF AuthWithOurCookie, AuthDecrypted, FromResponder
<1>2. ChosenTask(i, m) \in TaskNames /\ task' = [task EXCEPT ![i] = ChosenTask(i, m)]
  BY ChosenTaskAgreed DEF AuthWithOurCookie
<1>3. DropSource(i, m, ProtocolError) /\ ProtocolError \in KickCode
  BY KickCodes DEF AuthWithOurCookie
<1> QED BY <1>1, <1>2, <1>3, DropSourceIStep

(* After the handshake.                                                    *)
LEMMA HandlePeerMessageIStep ==
  ASSUME PathInv, NEW i \in Initiators, inbox[i] # <<>>, conn[i].socket = "open",
         ~handover[i].peer, NEW m, ToInitiator(m), HandlePeerMessage(i, m),
         UNCHANGED <<initiator, slot>>
  PROVE  IStep(i, {})
<1>1. conn[i].state = "task" /\ m.key = chosen[i].sess /\ PeerMessage(i, m)
  BY DEF HandlePeerMessage, FromChosen
<1>2. Moved(i, {}) /\ task' = task /\ (handover'[i].peer => m.type = "handover")
  BY <1>1, Mine, PeerMessageMoved
<1>3. handover'[i].peer =>
        chosen[i].n # 0 /\ \E r \in Responders : Entered(r, chosen[i].sess) /\ HandedOver(r)
  BY <1>1, <1>2, Mine DEF ToInitiator
<1>4. SameKeys(chosen[i], [chosen[i] EXCEPT !.in = m.csn])
  BY Mine, ChosenEdited DEF ChosenOK
<1>5. /\ chosen' = [chosen EXCEPT ![i] = [chosen[i] EXCEPT !.in = m.csn]]
      /\ UNCHANGED <<responders, counter>>
  BY DEF HandlePeerMessage, StoreChosenCsn
<1> QED BY <1>2, <1>3, <1>4, <1>5, ChosenStep

LEMMA PeerMessageUndecryptableIStep ==
  ASSUME PathInv, NEW i \in Initiators, inbox[i] # <<>>, NEW m, PeerMessageUndecryptable(i, m),
         UNCHANGED <<initiator, slot>>
  PROVE  IStep(i, {})
<1>1. Mild(i, {}) /\ task' = task
  BY Mine, Streams, Consumed, NothingSentOn, Unmoving DEF PeerMessageUndecryptable
<1>2. SameKeys(chosen[i], [chosen[i] EXCEPT !.in = m.csn])
  BY Mine, ChosenEdited DEF ChosenOK
<1>3. /\ chosen' = [chosen EXCEPT ![i] = [chosen[i] EXCEPT !.in = m.csn]]
      /\ UNCHANGED <<responders, counter>>
  BY DEF PeerMessageUndecryptable, StoreChosenCsn
<1> QED BY <1>1, <1>2, <1>3, ChosenStep DEF Mild

LEMMA InitiatorHandoverIStep ==
  ASSUME PathInv, NEW i \in Initiators, InitiatorHandover(i), UNCHANGED <<initiator, slot>>
  PROVE  \E P : IStep(i, P) /\ \A p \in P : OfInitiator(p)'
<1> PICK p : p = BuildPacket(i, chosen[i], chosen[i].id, chosen[i].sess, "handover", NoTask)
  OBVIOUS
<1> DEFINE o == [chosen[i] EXCEPT !.out = @ + 1]
<1>1. LocalHandover(i, chosen[i], chosen[i].id) /\ conn[i].state = "task"
  BY DEF InitiatorHandover, LocalHandover
<1>2. Mild(i, {p}) /\ task' = task /\ handover'[i].local
  BY <1>1, Mine, LocalHandoverMild
<1>3. SameKeys(chosen[i], o)
  BY Mine, ChosenEdited DEF ChosenOK
<1>4. chosen' = [chosen EXCEPT ![i] = o] /\ UNCHANGED <<responders, counter>>
  BY DEF InitiatorHandover
<1>5. OfInitiator(p)'
  <2>1. p.dst = chosen[i].id /\ p.type = "handover" /\ p.key = chosen[i].sess
    BY BuiltPacket
  <2>2. chosen'[i] = o /\ chosen[i].n # 0 /\ chosen[i].id \in ResponderIds
    BY <1>1, <1>4, Mine DEF PathInv, DomainsOK
  <2> HIDE DEF o
  <2>3. chosen'[i].n # 0 /\ chosen'[i].sess = p.key
    BY <1>3, <2>1, <2>2 DEF SameKeys
  <2> QED BY <1>2, <2>1, <2>2, <2>3 DEF OfInitiator, ToResponder, Opened, HandedOver
<1> HIDE DEF o
<1>6. IStep(i, {p})
  BY <1>2, <1>3, <1>4, ChosenStep DEF Mild
<1> QED BY <1>5, <1>6

LEMMA InitiatorSendsIStep ==
  ASSUME PathInv, NEW i \in Initiators, InitiatorSends(i), UNCHANGED <<initiator, slot>>
  PROVE  IStep(i, {})
<1> DEFINE o == [chosen[i] EXCEPT !.out = @ + 1]
<1>1. SendApplication(i, chosen[i], chosen[i].id) /\ conn[i].state = "task"
  BY DEF InitiatorSends, SendApplication
<1>2. Mild(i, {}) /\ task' = task
  BY <1>1, Mine, SendApplicationMild
<1>3. SameKeys(chosen[i], o)
  BY Mine, ChosenEdited DEF ChosenOK
<1>4. chosen' = [chosen EXCEPT ![i] = o] /\ UNCHANGED <<responders, counter>>
  BY DEF InitiatorSends
<1> HIDE DEF o
<1> QED BY <1>2, <1>3, <1>4, ChosenStep DEF Mild

(* The one step with which an initiator chooses.                           *)
LEMMA HandleAuthSees ==
  ASSUME PathInv, NEW i \in Initiators, NEW m, ToInitiator(m), HandleAuth(i, m)
  PROVE  /\ conn[i].state = "peer-handshake" /\ chosen[i].n = 0
         /\ m.src \in ResponderIds /\ ChosenTask(i, m) \in TaskNames
         /\ LET o == Saved(i, m)
            IN /\ ResponderFields(o) /\ o.n \in Nat \ {0} /\ o.id = m.src
               /\ o.sess = responders[i][m.src].sess
               /\ \E r \in Responders :
                    /\ Invited(i, r) /\ SharedKey(i, o.n, r, o.sess)
                    /\ Agreed(i, r, ChosenTask(i, m))
<1> DEFINE o == Saved(i, m)
<1>1. /\ FromResponder(i, m, "key-sent") /\ m.key = responders[i][m.src].sess
      /\ m.type = "auth" /\ Common(i, m) # {}
  BY DEF HandleAuth, AuthDecrypted, AuthWellFormed
<1>2. /\ conn[i].state = "peer-handshake" /\ m.src \in ResponderIds
      /\ ResponderFields(o) /\ ObjectOK(i, m.src, o) /\ o.n # 0 /\ o.hs = "key-sent"
      /\ o.sess = responders[i][m.src].sess
  BY <1>1, FromResponderIs
<1>3. chosen[i].n = 0
  BY <1>2, Mine
<1> HIDE DEF o
<1>4. o.n \in Nat /\ o.id = m.src
  BY <1>2 DEF ObjectOK
<1>5. PICK r \in Responders : Invited(i, r) /\ SharedKey(i, o.n, r, o.sess)
  BY <1>2 DEF ObjectOK
<1>6. PICK k \in 1 .. initiator[r].n : o.sess = SessionKey(<<i, o.n>>, <<r, k>>)
  BY <1>5 DEF SharedKey
<1>7. PICK q \in Responders : (\E l \in Nat : <<q, l>> \in m.key[2]) /\ m.body.tasks = OfferedTasks[q]
  BY <1>1 DEF ToInitiator
<1>8. q = r
  BY <1>1, <1>2, <1>6, <1>7, HalfIsOf
<1>9. ChosenTask(i, m) \in TaskNames /\ Agreed(i, r, ChosenTask(i, m))
  BY <1>1, <1>7, <1>8, ChosenTaskAgreed
<1> QED BY <1>2, <1>3, <1>4, <1>5, <1>9 DEF o

LEMMA HandleAuthKeeps ==
  ASSUME PathInv, NEW i \in Initiators, inbox[i] # <<>>, conn[i].socket = "open",
         ~handover[i].peer, NEW m, ToInitiator(m), HandleAuth(i, m), UNCHANGED <<initiator, slot>>
  PROVE  PathInv'
<1> DEFINE s == Saved(i, m)
           o == [s EXCEPT !.cookie = m.cookie, !.hs = "auth-sent", !.out = @ + 1]
           order == InsertionOrder(responders[i], Others(i, m))
           drops == DropRequests(i, srv[i], order, DroppedByInitiator)
<1> PICK t : t = ChosenTask(i, m)
  OBVIOUS
<1> PICK p : p = BuildPacket(i, responders[i][m.src], o.id, o.sess, "auth",
                             [cookie |-> m.cookie, task |-> t])
  OBVIOUS
<1>1. /\ conn[i].state = "peer-handshake" /\ chosen[i].n = 0
      /\ m.src \in ResponderIds /\ t \in TaskNames
      /\ ResponderFields(s) /\ s.n \in Nat \ {0} /\ s.id = m.src
      /\ \E r \in Responders : Invited(i, r) /\ SharedKey(i, s.n, r, s.sess) /\ Agreed(i, r, t)
  BY HandleAuthSees
<1>2. /\ task' = [task EXCEPT ![i] = t] /\ chosen' = [chosen EXCEPT ![i] = o]
      /\ outbox' = [outbox EXCEPT ![i] = @ \o <<p>> \o drops]
      /\ responders' = [responders EXCEPT ![i] = Without(@, ResponderIds)]
      /\ conn' = [conn EXCEPT ![i].state = "task"]
      /\ Consume(i) /\ UNCHANGED <<handover, counter>>
  BY DEF HandleAuth
<1>3. ResponderFields(o) /\ o.n = s.n /\ o.id = s.id /\ o.sess = s.sess
  <2> HIDE DEF s
  <2> QED BY <1>1 DEF ResponderFields
<1>4. p.dst = m.src /\ p.type = "auth" /\ p.key = o.sess /\ p.body.task = t
  BY <1>1, <1>3, BuiltPacket
<1> HIDE DEF s, o
<1>5. i \in Client /\ conn[i].used /\ ConnInv /\ DomainsOK
  BY Mine, OpenIsUsed DEF PathInv
<1>6. ConnInv' /\ Apart(i) /\ conn'[i].state = "task" /\ conn'[i].used
  BY <1>2, <1>5, AdvanceConn
<1>7. /\ task' \in [Client -> TaskNames \cup {NoTask}] /\ task'[i] = t
      /\ \A d \in Client \ {i} : task'[d] = task[d]
  BY <1>1, <1>2, <1>5, Streams
<1>8. /\ chosen'[i] = o /\ responders'[i] = Without(responders[i], ResponderIds)
      /\ \A j \in Initiators \ {i} : chosen'[j] = chosen[j] /\ responders'[j] = responders[j]
  BY <1>2, <1>5 DEF DomainsOK
<1>9. DomainsOK'
  <2>1. ASSUME NEW j \in Initiators PROVE responders'[j] = [id \in ResponderIds |-> responders'[j][id]]
    <3>1. CASE j = i
      BY <1>8, <3>1 DEF Without
    <3>2. CASE j # i
      BY <1>5, <1>8, <3>2 DEF DomainsOK
    <3> QED BY <3>1, <3>2
  <2> QED BY <1>2, <1>5, <1>7, <2>1 DEF DomainsOK
<1>10. Lasts
  <2>1. \A r \in Responders : r \in Client \ {i} /\ initiator[r].n \in Nat
    BY Sides DEF PathInv, ResponderOK
  <2>2. \A j \in Initiators : chosen[j].n # 0 =>
          chosen'[j].n = chosen[j].n /\ chosen'[j].sess = chosen[j].sess /\ task'[j] = task[j]
    BY <1>1, <1>7, <1>8, Sides
  <2>3. ASSUME NEW c \in Client, Late(c), HandedOver(c) PROVE HandedOver(c)'
    <3>1. c # i
      BY <1>1, <2>3 DEF Late
    <3> QED BY <1>2, <1>6, <2>3, <3>1 DEF Apart, HandedOver
  <2> QED BY <1>7, <2>1, <2>2, <2>3 DEF Lasts
<1>11. StreamsOK'
  <2>1. DroppedByInitiator \in KickCode /\ Others(i, m) \in SUBSET Present(responders[i])
    BY KickCodes DEF Others
  <2>2. MapOK(i, responders[i], counter[i])
    BY Mine
  <2>3. IsSeq(order)
    BY <2>1, <2>2, OrderIsSeq
  <2> HIDE DEF order
  <2>4. IsSeq(drops) /\ \A q \in Elements(drops) : Harmless(i, q)
    BY <2>1, <2>3, DropsHarmless
  <2> HIDE DEF drops
  <2>5. SendsOnly(i, {p})
    BY <1>2, <1>5, <2>4, Single, Streams, TwoPartsSent
  <2>6. OfInitiator(p)'
    <3>1. Opened(i, p.key)' /\ task'[i] = p.body.task
      BY <1>1, <1>3, <1>4, <1>7, <1>8 DEF Opened
    <3> QED BY <1>1, <1>4, <3>1 DEF OfInitiator, ToResponder
  <2>7. Drained(i)
    BY <1>2, <1>5, Streams, Consumed
  <2> QED BY <1>5, <1>10, <2>5, <2>6, <2>7, StreamsKept
<1>12. InitiatorOK(i)'
  <2>1. MapOK(i, Without(responders[i], ResponderIds), counter[i])
    <3>1. MapOK(i, responders[i], counter[i])
      BY Mine
    <3> QED BY <3>1, MapWithout
  <2>2. MapOK(i, responders[i], counter[i])'
    BY <1>2, <1>8, <2>1 DEF MapOK, ObjectOK, SharedKey, Present
  <2>3. ChosenOK(i, o, t)
    BY <1>1, <1>3 DEF ChosenOK
  <2>4. ChosenOK(i, chosen[i], task[i])'
    BY <1>7, <1>8, <2>3 DEF ChosenOK, SharedKey
  <2>5. chosen'[i].n # 0 /\ Late(i)' /\ ~handover'[i].peer
    BY <1>1, <1>2, <1>3, <1>6, <1>8 DEF Late
  <2> QED BY <2>2, <2>4, <2>5 DEF InitiatorOK
<1>13. ASSUME NEW j \in Initiators, j # i PROVE InitiatorOK(j)'
  <2>1. /\ responders'[j] = responders[j] /\ counter'[j] = counter[j] /\ chosen'[j] = chosen[j]
        /\ task'[j] = task[j] /\ conn'[j] = conn[j] /\ handover'[j] = handover[j]
    BY <1>2, <1>6, <1>7, <1>8, <1>13, Sides DEF Apart
  <2> QED BY <1>10, <2>1, InitiatorStands DEF PathInv
<1>14. ASSUME NEW r \in Responders PROVE ResponderOK(r)'
  <2>1. initiator'[r] = initiator[r] /\ task'[r] = task[r] /\ conn'[r] = conn[r] /\ handover'[r] = handover[r]
    BY <1>2, <1>6, <1>7, Sides DEF Apart
  <2> QED BY <1>10, <2>1, ResponderStands DEF PathInv
<1>15. SlotsOK'
  BY SlotsStand DEF PathInv
<1> QED BY <1>6, <1>9, <1>11, <1>12, <1>13, <1>14, <1>15 DEF PathInv

(* Every step of an initiator.                                             *)
LEMMA InitiatorOnMessageKeeps ==
  ASSUME PathInv, NEW i \in Initiators, InitiatorOnMessage(i), UNCHANGED <<initiator, slot>>
  PROVE  PathInv' /\ (NothingNew \/ HandleAuth(i, Head(inbox[i])))
<1> PICK m : m = Head(inbox[i])
  OBVIOUS
<1>1. /\ inbox[i] # <<>> /\ conn[i].socket = "open" /\ conn[i].used /\ ToInitiator(m)
  BY Mine, Arrived DEF InitiatorOnMessage
<1>2. ASSUME IStep(i, {}) PROVE PathInv' /\ NothingNew
  BY <1>2, IStepKeeps
<1>3. CASE AfterPeerHandover(i) /\ UNCHANGED peerVars
  BY <1>1, <1>2, <1>3, Codes, Single, IResetStep DEF AfterPeerHandover
<1>4. ASSUME NEW code \in KickCode, OnSignalingError(i, m, code) PROVE PathInv' /\ NothingNew
  BY <1>1, <1>2, <1>4, SignalingErrorIStep
<1>5. ProtocolError \in KickCode /\ NoSharedTask \in KickCode /\ InitiatorCouldNotDecrypt \in KickCode
  BY KickCodes
<1>6. CASE HandleServerHello(i, m) /\ UNCHANGED peerVars
  BY <1>1, <1>2, <1>6, Mine, ServerHelloMild, PeersKeptStep
<1>7. CASE ServerAuthUndecryptable(i, m) /\ UNCHANGED peerVars
  BY <1>1, <1>2, <1>7, Mine, ServerAuthUndecryptableMild, PeersKeptStep
<1>8. CASE HandleServerAuth(i, m)
  BY <1>1, <1>2, <1>8, HandleServerAuthIStep
<1>9. CASE HandleNewResponder(i, m)
  BY <1>1, <1>2, <1>9, HandleNewResponderIStep
<1>10. CASE HandleSendError(i, m)
  BY <1>1, <1>2, <1>10, HandleSendErrorIStep
<1>11. CASE HandleDisconnected(i, m)
  BY <1>1, <1>2, <1>11, IHeardStep DEF HandleDisconnected
<1>12. CASE HandleToken(i, m)
  BY <1>1, <1>2, <1>12, HandleTokenIStep
<1>13. CASE HandleKey(i, m)
  BY <1>1, <1>13, HandleKeyIStep, IStepKeeps
<1>14. CASE ~handover[i].peer /\ HandleAuth(i, m)
  BY <1>1, <1>14, HandleAuthKeeps
<1>15. CASE InvalidNonce(i, m)
  BY <1>4, <1>5, <1>15 DEF InvalidNonce
<1>16. CASE InvalidServerMessage(i, m)
  BY <1>4, <1>5, <1>16 DEF InvalidServerMessage
<1>17. CASE InvalidResponderMessage(i, m)
  BY <1>4, <1>5, <1>17 DEF InvalidResponderMessage
<1>18. CASE CouldNotDecrypt(i, m)
  <2>1. conn[i].state = "peer-handshake"
    BY <1>18 DEF CouldNotDecrypt, FromResponder
  <2>2. task' = [task EXCEPT ![i] = task[i]] /\ task[i] \in TaskNames \cup {NoTask}
    BY <1>18, Mine, Streams DEF CouldNotDecrypt
  <2>3. DropSource(i, m, InitiatorCouldNotDecrypt)
    BY <1>18 DEF CouldNotDecrypt
  <2> QED BY <1>1, <1>2, <1>5, <2>1, <2>2, <2>3, DropSourceIStep
<1>19. CASE AuthWithOurCookie(i, m)
  BY <1>1, <1>2, <1>19, AuthWithOurCookieIStep
<1>20. CASE KeyUndecryptable(i, m)
  BY <1>1, <1>2, <1>20, KeyUndecryptableIStep
<1>21. CASE IgnoreUnknown(i, m)
  BY <1>1, <1>2, <1>21, IHeardStep DEF IgnoreUnknown
<1>22. CASE ~handover[i].peer /\ HandlePeerMessage(i, m)
  BY <1>1, <1>2, <1>22, HandlePeerMessageIStep
<1>23. CASE PeerMessageUndecryptable(i, m)
  BY <1>1, <1>2, <1>23, PeerMessageUndecryptableIStep
<1> QED BY <1>3, <1>6, <1>7, <1>8, <1>9, <1>10, <1>11, <1>12, <1>13, <1>14, <1>15, <1>16, <1>17,
           <1>18, <1>19, <1>20, <1>21, <1>22, <1>23 DEF InitiatorOnMessage

-----------------------------------------------------------------------------
(* The steps of a responder.                                               *)

LEMMA Its ==
  ASSUME PathInv, NEW r \in Responders
  PROVE  /\ r \in Client /\ r \notin Initiators /\ ResponderOK(r)
         /\ InitiatorFields(initiator[r]) /\ initiator[r].n \in Nat \ {0}
         /\ initiator[r].hs \in {"new", "token-sent", "key-sent", "auth-sent", "auth-received"}
         /\ conn[r].state \in {"server-handshake", "peer-handshake"} => initiator[r].hs # "auth-received"
         /\ conn[r].state = "task" => initiator[r].hs = "auth-received"
         /\ initiator = [initiator EXCEPT ![r] = initiator[r]]
BY Sides DEF PathInv, DomainsOK, ResponderOK, Late

(* It starts over, or comes closer to a session.                           *)
Progress(r, old, new) ==
  /\ InitiatorFields(new) /\ new.n \in Nat /\ new.n >= old.n
  /\ new.hs \in {"new", "token-sent", "key-sent", "auth-sent", "auth-received"}
  /\ new.hs = "auth-sent" => OwnKey(r, new.n, new.sess)
  /\ new.hs = "auth-received" <=> old.hs = "auth-received"
  /\ old.hs = "auth-received" => new.n = old.n /\ new.sess = old.sess

LEMMA PeerStep ==
  ASSUME PathInv, NEW r \in Responders, NEW P, Moved(r, P), UNCHANGED <<peerVars, slot>>,
         NEW new, initiator' = [initiator EXCEPT ![r] = new], Progress(r, initiator[r], new),
         initiator[r].hs = "auth-received" => task'[r] = task[r],
         handover'[r].peer =>
           \/ handover[r].peer
           \/ /\ initiator[r].hs = "auth-received"
              /\ \E i \in Initiators : Opened(i, initiator[r].sess) /\ HandedOver(i)
  PROVE  RStep(r, P)
<1>1. /\ initiator' = [s \in Responders |-> initiator'[s]] /\ initiator'[r] = new
      /\ \A s \in Responders \ {r} : initiator'[s] = initiator[s]
  BY DEF PathInv, DomainsOK
<1>2. DomainsOK'
  BY <1>1 DEF PathInv, DomainsOK, Moved, Lone, peerVars
<1> QED BY <1>1, <1>2 DEF RStep, Moved, Progress

LEMMA NoProgress ==
  ASSUME PathInv, NEW r \in Responders
  PROVE  Progress(r, initiator[r], initiator[r])
BY Its DEF Progress, ResponderOK

LEMMA PeerKeptStep ==
  ASSUME PathInv, NEW r \in Responders, NEW P, Mild(r, P), UNCHANGED <<peerVars, initiator, slot>>,
         initiator[r].hs = "auth-received" => task'[r] = task[r]
  PROVE  RStep(r, P)
BY Its, NoProgress, PeerStep DEF Mild

LEMMA CountedOn ==
  ASSUME PathInv, NEW r \in Responders, NEW x, NEW y
  PROVE  /\ Progress(r, initiator[r], [initiator[r] EXCEPT !.in = x])
         /\ Progress(r, initiator[r], [initiator[r] EXCEPT !.out = y])
<1> DEFINE old == initiator[r]
<1>1. Progress(r, old, old)
  BY NoProgress
<1> HIDE DEF old
<1> QED BY <1>1 DEF Progress, InitiatorFields, old

LEMMA RResetStep ==
  ASSUME PathInv, NEW r \in Responders, conn[r].used, NEW reason \in CloseCode, NEW sent,
         IsSeq(sent), \A p \in Elements(sent) : Harmless(r, p), ResetConnection(r, reason, sent),
         UNCHANGED <<peerVars, initiator, slot>>
  PROVE  RStep(r, {})
BY Its, ResetConnectionMild, PeerKeptStep

LEMMA RHeardStep ==
  ASSUME PathInv, NEW r \in Responders, inbox[r] # <<>>, Consume(r),
         UNCHANGED <<conn, handover, task, outbox, peerVars, initiator, slot>>
  PROVE  RStep(r, {})
<1>1. Mild(r, {}) /\ r \in Client
  BY Its, Streams, Consumed, NothingSentOn, Unmoving
<1> QED BY <1>1, PeerKeptStep

(* A greeting names the responder, and its key has the number of the       *)
(* Initiator object.                                                       *)
Greets(r, n, p) ==
  /\ p.dst = 1
  /\ \/ p.type = "token" /\ p.body = r /\ p.key = TokenKey(AuthToken[r])
     \/ p.type = "key" /\ p.body = <<r, n>> /\ p.key = PermanentKey(r)

LEMMA GreetingGreets ==
  ASSUME NEW r, NEW peer
  PROVE  LET g == Greeting(r, peer)
         IN IsSeq(g) /\ DOMAIN g = 1 .. Len(g) /\ \A p \in Elements(g) : Greets(r, peer.n, p)
<1> DEFINE token == BuildPacket(r, peer, 1, TokenKey(AuthToken[r]), "token", r)
           tokens == IF Tokens(r) THEN <<token>> ELSE <<>>
           next == [peer EXCEPT !.out = @ + Len(tokens)]
           key == BuildPacket(r, next, 1, PermanentKey(r), "key", <<r, peer.n>>)
<1>1. Greets(r, peer.n, token) /\ Greets(r, peer.n, key)
  BY BuiltPacket DEF Greets
<1>2. Greeting(r, peer) \in {<<>>, <<key>>, <<token, key>>}
  <2>1. Append(<<token>>, key) = <<token, key>> /\ Append(<<>>, key) = <<key>>
    BY Pair
  <2> QED BY <2>1 DEF Greeting
<1> HIDE DEF token, key
<1>3. /\ IsSeq(<<token, key>>) /\ Elements(<<token, key>>) = {token, key}
  <2>1. <<token, key>> = <<token>> \o <<key>>
    BY Pair
  <2>2. /\ IsSeq(<<token>>) /\ Elements(<<token>>) = {token}
        /\ IsSeq(<<key>>) /\ Elements(<<key>>) = {key}
    BY Single
  <2>3. /\ IsSeq(<<token>> \o <<key>>)
        /\ Elements(<<token>> \o <<key>>) = Elements(<<token>>) \cup Elements(<<key>>)
    BY <2>2, JoinedElements
  <2> QED BY <2>1, <2>2, <2>3
<1>4. \A g : IsSeq(g) => DOMAIN g = 1 .. Len(g)
  BY DEF IsSeq
<1> QED BY <1>1, <1>2, <1>3, <1>4, Single

LEMMA GreetingTrue ==
  ASSUME NEW r \in Responders, NEW n \in Nat \ {0}, initiator'[r].n = n, NEW p, Greets(r, n, p)
  PROVE  OfResponder(p)'
<1>1. n \in 1 .. initiator'[r].n
  OBVIOUS
<1> QED BY <1>1 DEF Greets, OfResponder, ToInitiator

LEMMA GreetedIs ==
  ASSUME NEW r, NEW peer, InitiatorFields(peer)
  PROVE  LET new == Greeted(r, peer)
         IN /\ InitiatorFields(new) /\ new.n = peer.n /\ new.sess = peer.sess
            /\ new.hs = IF peer.connected THEN "key-sent" ELSE peer.hs
BY DEF Greeted, InitiatorFields

LEMMA ServerAuthHandledKeeps ==
  ASSUME PathInv, NEW r \in Responders, inbox[r] # <<>>, conn[r].socket = "open", NEW m,
         ServerAuthHandled(r, m), UNCHANGED <<peerVars, slot>>
  PROVE  PathInv' /\ NothingNew
<1> DEFINE peer == [initiator[r] EXCEPT !.connected = m.body.connected]
           g == Greeting(r, peer)
           sent == [k \in DOMAIN g |-> [g[k] EXCEPT !.src = m.dst]]
<1> PICK P : P = Elements(sent)
  OBVIOUS
<1>1. /\ initiator' = [initiator EXCEPT ![r] = Greeted(r, peer)]
      /\ outbox' = [outbox EXCEPT ![r] = @ \o sent] /\ task' = task
      /\ conn[r].state = "server-handshake"
  BY DEF ServerAuthHandled, ServerAuthDone, ServerHandshake
<1>2. /\ InitiatorFields(peer) /\ peer.n = initiator[r].n /\ peer.hs = initiator[r].hs
      /\ peer.sess = initiator[r].sess
  <2>1. InitiatorFields(initiator[r])
    BY Its
  <2> QED BY <2>1 DEF InitiatorFields
<1> HIDE DEF peer
<1>3. Progress(r, initiator[r], Greeted(r, peer))
  BY <1>1, <1>2, Its, GreetedIs DEF Progress, ResponderOK
<1>4. IsSeq(g) /\ DOMAIN g = 1 .. Len(g) /\ \A p \in Elements(g) : Greets(r, peer.n, p)
  BY GreetingGreets
<1> HIDE DEF g
<1>5. IsSeq(sent) /\ \A p \in P : Greets(r, peer.n, p)
  <2>1. Len(g) \in Nat
    BY <1>4 DEF IsSeq
  <2>2. ASSUME NEW k \in 1 .. Len(g) PROVE Greets(r, peer.n, [g[k] EXCEPT !.src = m.dst])
    <3>1. Greets(r, peer.n, g[k])
      BY <1>4 DEF Elements
    <3>2. \A q : LET s == [q EXCEPT !.src = m.dst]
                 IN s.dst = q.dst /\ s.type = q.type /\ s.body = q.body /\ s.key = q.key
      OBVIOUS
    <3> QED BY <3>1, <3>2 DEF Greets
  <2> DEFINE Q == {[g[k] EXCEPT !.src = m.dst] : k \in 1 .. Len(g)}
  <2>3. sent \in [1 .. Len(g) -> Q]
    BY <1>4
  <2>4. \A p \in Q : Greets(r, peer.n, p)
    BY <2>2
  <2> HIDE DEF sent, Q
  <2>5. sent \in Seq(Q) /\ Len(sent) = Len(g)
    BY <2>1, <2>3
  <2>6. \A k \in 1 .. Len(sent) : sent[k] \in Q
    BY <2>3, <2>5
  <2> QED BY <2>4, <2>5, <2>6 DEF IsSeq, Elements
<1> HIDE DEF sent
<1>6. SendsOnly(r, P)
  BY <1>1, <1>5, Its, Streams, AppendsOnly DEF Appends
<1>7. Mild(r, P)
  BY <1>6, Its, ServerAuthDoneMild DEF ServerAuthHandled
<1>8. RStep(r, P)
  BY <1>1, <1>3, <1>7, PeerStep DEF Mild
<1>9. \A p \in P : OfResponder(p)'
  <2>1. initiator'[r].n = peer.n /\ peer.n \in Nat \ {0}
    BY <1>1, <1>2, Its, GreetedIs DEF PathInv, DomainsOK
  <2> QED BY <1>5, <2>1, GreetingTrue
<1> QED BY <1>8, <1>9, RStepKeeps

LEMMA HandleNewInitiatorKeeps ==
  ASSUME PathInv, NEW r \in Responders, inbox[r] # <<>>, conn[r].used, NEW m,
         HandleNewInitiator(r, m), UNCHANGED <<peerVars, slot>>
  PROVE  PathInv' /\ NothingNew
<1>1. CASE /\ ServerTells(r, m, "peer-handshake", "new-initiator")
           /\ \E start \in CsnStarts :
                LET peer == [NewInitiator(initiator[r].n + 1, start) EXCEPT !.connected = TRUE]
                IN /\ initiator' = [initiator EXCEPT ![r] = Greeted(r, peer)]
                   /\ outbox' = [outbox EXCEPT ![r] = @ \o Greeting(r, peer)]
           /\ Consume(r)
           /\ UNCHANGED <<conn, handover, task, addr>>
  <2>1. PICK start \in CsnStarts :
          LET peer == [NewInitiator(initiator[r].n + 1, start) EXCEPT !.connected = TRUE]
          IN /\ initiator' = [initiator EXCEPT ![r] = Greeted(r, peer)]
             /\ outbox' = [outbox EXCEPT ![r] = @ \o Greeting(r, peer)]
    BY <1>1
  <2> DEFINE peer == [NewInitiator(initiator[r].n + 1, start) EXCEPT !.connected = TRUE]
             sent == Greeting(r, peer)
  <2> PICK P : P = Elements(sent)
    OBVIOUS
  <2>2. /\ initiator' = [initiator EXCEPT ![r] = Greeted(r, peer)]
        /\ outbox' = [outbox EXCEPT ![r] = @ \o sent]
    BY <2>1
  <2>3. InitiatorFields(peer) /\ peer.n = initiator[r].n + 1 /\ peer.connected
    BY DEF NewInitiator, InitiatorFields
  <2> HIDE DEF peer
  <2>4. initiator[r].hs # "auth-received" /\ initiator[r].n \in Nat \ {0}
    BY <1>1, Its DEF ServerTells, ServerSays
  <2>5. Progress(r, initiator[r], Greeted(r, peer))
    BY <2>3, <2>4, GreetedIs DEF Progress
  <2>6. IsSeq(sent) /\ \A p \in P : Greets(r, peer.n, p)
    BY GreetingGreets
  <2> HIDE DEF sent
  <2>7. SendsOnly(r, P)
    BY <2>2, <2>6, Its, Streams, AppendsOnly DEF Appends
  <2>8. Mild(r, P)
    BY <1>1, <2>7, Its, Streams, Consumed, Unmoving
  <2>9. RStep(r, P)
    BY <1>1, <2>2, <2>5, <2>8, PeerStep DEF Mild
  <2>10. \A p \in P : OfResponder(p)'
    <3>1. initiator'[r].n = peer.n /\ peer.n \in Nat \ {0}
      BY <2>2, <2>3, <2>4, GreetedIs DEF PathInv, DomainsOK
    <3> QED BY <2>6, <3>1, GreetingTrue
  <2> QED BY <2>9, <2>10, RStepKeeps
<1>2. CASE ResetConnection(r, ClosingNormal, <<>>) /\ UNCHANGED initiator
  <2>1. RStep(r, {})
    BY <1>2, Codes, Single, RResetStep
  <2> QED BY <2>1, RStepKeeps
<1> QED BY <1>1, <1>2 DEF HandleNewInitiator

LEMMA InitiatorKeyKeeps ==
  ASSUME PathInv, NEW r \in Responders, inbox[r] # <<>>, NEW m, ToResponder(m), InitiatorKey(r, m),
         UNCHANGED <<peerVars, slot>>
  PROVE  PathInv' /\ NothingNew
<1> DEFINE old == initiator[r]
           sess == SessionKey(<<r, initiator[r].n>>, m.body)
           new == [initiator[r] EXCEPT !.hs = "auth-sent", !.in = m.csn, !.out = @ + 1, !.sess = sess]
<1> PICK p : p = BuildPacket(r, initiator[r], 1, sess, "auth",
                             [cookie |-> m.cookie, tasks |-> OfferedTasks[r]])
  OBVIOUS
<1>1. /\ conn[r].state = "peer-handshake" /\ m.type = "key"
      /\ initiator' = [initiator EXCEPT ![r] = new]
      /\ outbox' = [outbox EXCEPT ![r] = Append(@, p)]
      /\ Consume(r) /\ UNCHANGED <<conn, handover, task>>
  BY DEF InitiatorKey, KeyArrived, FromInitiator
<1>2. InitiatorFields(old) /\ old.n \in Nat \ {0} /\ old.hs # "auth-received" /\ r \in Client
  BY <1>1, Its
<1>3. InitiatorFields(new) /\ new.n = old.n /\ new.hs = "auth-sent" /\ new.sess = sess
  <2> HIDE DEF sess
  <2> QED BY <1>2 DEF InitiatorFields
<1>4. OwnKey(r, old.n, sess)
  BY <1>1 DEF ToResponder, OwnKey
<1>5. OfResponder(p)
  <2>1. p.dst = 1 /\ p.type = "auth" /\ p.key = sess /\ p.body.tasks = OfferedTasks[r]
    BY BuiltPacket
  <2>2. <<r, old.n>> \in sess[2]
    BY KeyHalves
  <2> HIDE DEF sess
  <2> QED BY <1>2, <2>1, <2>2 DEF OfResponder, ToInitiator
<1>6. OfResponder(p)'
  <2>1. p.dst = 1 /\ p.type = "auth"
    BY BuiltPacket
  <2> QED BY <1>5, <2>1 DEF OfResponder, ToInitiator
<1> HIDE DEF old, new, sess
<1>7. Progress(r, old, new)
  BY <1>2, <1>3, <1>4 DEF Progress
<1>8. Mild(r, {p})
  BY <1>1, <1>2, Streams, Consumed, OneAppended, Unmoving
<1>9. RStep(r, {p})
  BY <1>1, <1>7, <1>8, PeerStep DEF Mild, old
<1> QED BY <1>6, <1>9, RStepKeeps

(* The one step with which a responder enters.                             *)
LEMMA InitiatorAuthKeeps ==
  ASSUME PathInv, NEW r \in Responders, inbox[r] # <<>>, conn[r].socket = "open",
         ~handover[r].peer, NEW m, ToResponder(m), InitiatorAuth(r, m), UNCHANGED <<peerVars, slot>>
  PROVE  PathInv'
<1> DEFINE old == initiator[r]
           new == [initiator[r] EXCEPT !.hs = "auth-received", !.in = m.csn, !.cookie = m.cookie]
<1>1. /\ conn[r].state = "peer-handshake" /\ old.hs = "auth-sent" /\ m.key = old.sess
      /\ m.type = "auth" /\ m.body.task \in OfferedTasks[r]
      /\ task' = [task EXCEPT ![r] = m.body.task]
      /\ initiator' = [initiator EXCEPT ![r] = new]
      /\ conn' = [conn EXCEPT ![r].state = "task"]
      /\ Consume(r) /\ UNCHANGED <<handover, outbox>>
  BY DEF InitiatorAuth, AuthArrived, FromInitiator, AuthExpectedFrom
<1>2. /\ r \in Client /\ r \notin Initiators /\ conn[r].used /\ ConnInv /\ DomainsOK
      /\ InitiatorFields(old) /\ old.n \in Nat \ {0} /\ OwnKey(r, old.n, old.sess)
  BY <1>1, Its, OpenIsUsed DEF PathInv, ResponderOK
<1>3. InitiatorFields(new) /\ new.n = old.n /\ new.hs = "auth-received" /\ new.sess = old.sess
  BY <1>2 DEF InitiatorFields
<1> HIDE DEF new
<1>4. m.body.task \in TaskNames
  BY <1>1, ResponderAssumption
<1>5. ConnInv' /\ Apart(r) /\ conn'[r].state = "task" /\ conn'[r].used
  BY <1>1, <1>2, AdvanceConn
<1>6. /\ task' \in [Client -> TaskNames \cup {NoTask}] /\ task'[r] = m.body.task
      /\ \A d \in Client \ {r} : task'[d] = task[d]
  BY <1>1, <1>2, <1>4, Streams
<1>7. /\ initiator'[r] = new /\ \A s \in Responders \ {r} : initiator'[s] = initiator[s]
      /\ initiator' = [s \in Responders |-> initiator'[s]]
  BY <1>1, <1>2 DEF DomainsOK
<1>8. DomainsOK'
  BY <1>2, <1>6, <1>7 DEF DomainsOK, peerVars
<1>9. Lasts
  <2>1. \A i \in Initiators : i \in Client \ {r} /\ chosen'[i] = chosen[i]
    BY <1>2, Sides DEF peerVars
  <2>2. ASSUME NEW s \in Responders
        PROVE  /\ initiator'[s].n \in Nat /\ initiator'[s].n >= initiator[s].n
               /\ initiator[s].hs = "auth-received" =>
                    /\ initiator'[s].hs = "auth-received" /\ initiator'[s].sess = initiator[s].sess
                    /\ task'[s] = task[s]
    <3>1. CASE s = r
      BY <1>1, <1>2, <1>3, <1>7, <3>1
    <3>2. CASE s # r
      <4>1. initiator'[s] = initiator[s] /\ task'[s] = task[s] /\ initiator[s].n \in Nat
        BY <1>6, <1>7, <3>2, Its
      <4> QED BY <4>1
    <3> QED BY <3>1, <3>2
  <2>3. ASSUME NEW c \in Client, Late(c), HandedOver(c) PROVE HandedOver(c)'
    <3>1. c # r
      BY <1>1, <2>3 DEF Late
    <3> QED BY <1>1, <1>5, <2>3, <3>1 DEF Apart, HandedOver
  <2> QED BY <1>6, <2>1, <2>2, <2>3 DEF Lasts
<1>10. StreamsOK'
  <2>1. Drained(r) /\ SendsOnly(r, {})
    BY <1>1, <1>2, Streams, Consumed, NothingSentOn
  <2> QED BY <1>2, <1>9, <2>1, StreamsKept
<1>11. ResponderOK(r)'
  <2>1. OwnKey(r, new.n, new.sess)
    BY <1>2, <1>3
  <2>2. \E i \in Initiators : Opened(i, initiator[r].sess)' /\ task'[i] = task'[r]
    <3>1. PICK i \in Initiators : Opened(i, m.key) /\ task[i] = m.body.task
      BY <1>1 DEF ToResponder
    <3>2. chosen'[i] = chosen[i] /\ task'[i] = task[i]
      BY <1>2, <1>6, Sides DEF peerVars
    <3> QED BY <1>1, <1>3, <1>6, <3>1, <3>2 DEF Opened
  <2>3. Late(r)' /\ ~handover'[r].peer
    BY <1>1, <1>5 DEF Late
  <2> QED BY <1>2, <1>3, <1>7, <2>1, <2>2, <2>3 DEF ResponderOK, Opened
<1>12. ASSUME NEW s \in Responders, s # r PROVE ResponderOK(s)'
  <2>1. initiator'[s] = initiator[s] /\ task'[s] = task[s] /\ conn'[s] = conn[s] /\ handover'[s] = handover[s]
    BY <1>1, <1>5, <1>6, <1>7, <1>12, Sides DEF Apart
  <2> QED BY <1>9, <2>1, ResponderStands DEF PathInv
<1>13. ASSUME NEW i \in Initiators PROVE InitiatorOK(i)'
  <2>1. /\ responders'[i] = responders[i] /\ counter'[i] = counter[i] /\ chosen'[i] = chosen[i]
        /\ task'[i] = task[i] /\ conn'[i] = conn[i] /\ handover'[i] = handover[i]
    BY <1>1, <1>2, <1>5, <1>6, Sides DEF Apart, peerVars
  <2> QED BY <1>9, <2>1, InitiatorStands DEF PathInv
<1>14. SlotsOK'
  BY SlotsStand DEF PathInv
<1> QED BY <1>5, <1>8, <1>10, <1>11, <1>12, <1>13, <1>14 DEF PathInv

(* Errors.                                                                 *)
LEMMA ProtocolErrorRStep ==
  ASSUME PathInv, NEW r \in Responders, conn[r].used, OnProtocolError(r),
         UNCHANGED <<peerVars, slot>>
  PROVE  RStep(r, {})
<1>1. CASE CloseOnError(r)
  <2> DEFINE sent == SendClose(r, initiator[r], 1, ProtocolError)
             new == [initiator[r] EXCEPT !.out = @ + Len(sent)]
  <2>1. IsSeq(sent) /\ \A p \in Elements(sent) : Harmless(r, p)
    BY Its, SendCloseHarmless
  <2>2. /\ ResetConnection(r, ClosingNormal, sent) /\ ClosingNormal \in CloseCode
        /\ initiator' = [initiator EXCEPT ![r] = new]
    BY <1>1, Codes DEF CloseOnError
  <2>3. Progress(r, initiator[r], new)
    BY CountedOn
  <2> HIDE DEF sent, new
  <2>4. Mild(r, {}) /\ task' = task
    BY <2>1, <2>2, Its, ResetConnectionMild
  <2> QED BY <2>2, <2>3, <2>4, PeerStep DEF Mild
<1>2. CASE ResetConnection(r, ProtocolError, <<>>) /\ UNCHANGED initiator
  BY <1>2, Codes, Single, RResetStep
<1> QED BY <1>1, <1>2 DEF OnProtocolError

LEMMA AuthRepeatsOurCookieRStep ==
  ASSUME PathInv, NEW r \in Responders, conn[r].used, NEW m, AuthRepeatsOurCookie(r, m),
         UNCHANGED <<peerVars, slot>>
  PROVE  RStep(r, {})
<1>1. /\ initiator[r].hs = "auth-sent" /\ m.body.task \in OfferedTasks[r]
      /\ task' = [task EXCEPT ![r] = m.body.task]
      /\ Reset(r, ProtocolError, <<>>) /\ initiator' = initiator
  BY DEF AuthRepeatsOurCookie, AuthArrived, AuthExpectedFrom
<1>2. /\ task' \in [Client -> TaskNames \cup {NoTask}]
      /\ \A d \in Client \ {r} : task'[d] = task[d]
  BY <1>1, ResponderAssumption, Streams
<1>3. Mild(r, {})
  BY <1>1, <1>2, Its, Codes, Single, ResetMild
<1> QED BY <1>1, <1>3, PeerKeptStep

(* After the handshake.                                                    *)
LEMMA InitiatorMessageRStep ==
  ASSUME PathInv, NEW r \in Responders, inbox[r] # <<>>, conn[r].socket = "open",
         ~handover[r].peer, NEW m, ToResponder(m), InitiatorMessage(r, m),
         UNCHANGED <<peerVars, slot>>
  PROVE  RStep(r, {})
<1>1. /\ conn[r].state = "task" /\ m.key = initiator[r].sess /\ PeerMessage(r, m)
      /\ initiator' = [initiator EXCEPT ![r] = [initiator[r] EXCEPT !.in = m.csn]]
  BY DEF InitiatorMessage, FromInitiator, StoreInitiatorCsn
<1>2. Moved(r, {}) /\ task' = task /\ (handover'[r].peer => m.type = "handover")
  BY <1>1, Its, PeerMessageMoved
<1>3. handover'[r].peer =>
        /\ initiator[r].hs = "auth-received"
        /\ \E i \in Initiators : Opened(i, initiator[r].sess) /\ HandedOver(i)
  BY <1>1, <1>2, Its DEF ToResponder
<1>4. Progress(r, initiator[r], [initiator[r] EXCEPT !.in = m.csn])
  BY CountedOn
<1> QED BY <1>1, <1>2, <1>3, <1>4, PeerStep

LEMMA InitiatorUndecryptableRStep ==
  ASSUME PathInv, NEW r \in Responders, inbox[r] # <<>>, NEW m, InitiatorUndecryptable(r, m),
         UNCHANGED <<peerVars, slot>>
  PROVE  RStep(r, {})
<1>1. /\ initiator' = [initiator EXCEPT ![r] = [initiator[r] EXCEPT !.in = m.csn]]
      /\ Consume(r) /\ UNCHANGED <<conn, handover, task, outbox>>
  BY DEF InitiatorUndecryptable, StoreInitiatorCsn
<1>2. Mild(r, {})
  BY <1>1, Its, Streams, Consumed, NothingSentOn, Unmoving
<1>3. Progress(r, initiator[r], [initiator[r] EXCEPT !.in = m.csn])
  BY CountedOn
<1> QED BY <1>1, <1>2, <1>3, PeerStep DEF Mild

LEMMA ResponderHandoverKeeps ==
  ASSUME PathInv, NEW r \in Responders, ResponderHandover(r), UNCHANGED <<peerVars, slot>>
  PROVE  PathInv' /\ NothingNew
<1> PICK p : p = BuildPacket(r, initiator[r], 1, initiator[r].sess, "handover", NoTask)
  OBVIOUS
<1> DEFINE new == [initiator[r] EXCEPT !.out = @ + 1]
<1>1. /\ LocalHandover(r, initiator[r], 1) /\ conn[r].state = "task"
      /\ initiator' = [initiator EXCEPT ![r] = new]
  BY DEF ResponderHandover, LocalHandover
<1>2. Mild(r, {p}) /\ task' = task /\ handover'[r].local
  BY <1>1, Its, LocalHandoverMild
<1>3. Progress(r, initiator[r], new)
  BY CountedOn
<1> HIDE DEF new
<1>4. RStep(r, {p})
  BY <1>1, <1>2, <1>3, PeerStep DEF Mild
<1>5. OfResponder(p)'
  <2>1. p.dst = 1 /\ p.type = "handover" /\ p.key = initiator[r].sess
    BY BuiltPacket
  <2>2. initiator'[r] = new /\ initiator[r].hs = "auth-received"
    BY <1>1, Its DEF PathInv, DomainsOK
  <2>3. Entered(r, p.key)' /\ HandedOver(r)'
    BY <1>2, <1>3, <2>1, <2>2 DEF Progress, Entered, HandedOver
  <2> QED BY <2>1, <2>3 DEF OfResponder, ToInitiator
<1> QED BY <1>4, <1>5, RStepKeeps

LEMMA ResponderSendsRStep ==
  ASSUME PathInv, NEW r \in Responders, ResponderSends(r), UNCHANGED <<peerVars, slot>>
  PROVE  RStep(r, {})
<1> DEFINE new == [initiator[r] EXCEPT !.out = @ + 1]
<1>1. SendApplication(r, initiator[r], 1) /\ initiator' = [initiator EXCEPT ![r] = new]
  BY DEF ResponderSends
<1>2. Mild(r, {}) /\ task' = task
  BY <1>1, Its, SendApplicationMild
<1>3. Progress(r, initiator[r], new)
  BY CountedOn
<1> HIDE DEF new
<1> QED BY <1>1, <1>2, <1>3, PeerStep DEF Mild

LEMMA ResponderOnMessageKeeps ==
  ASSUME PathInv, NEW r \in Responders, ResponderOnMessage(r), UNCHANGED <<peerVars, slot>>
  PROVE  PathInv' /\ (NothingNew \/ InitiatorAuth(r, Head(inbox[r])))
<1> PICK m : m = Head(inbox[r])
  OBVIOUS
<1>1. /\ inbox[r] # <<>> /\ conn[r].socket = "open" /\ conn[r].used /\ ToResponder(m)
  BY Its, Arrived DEF ResponderOnMessage
<1>2. ASSUME RStep(r, {}) PROVE PathInv' /\ NothingNew
  BY <1>2, RStepKeeps
<1>3. CASE AfterPeerHandover(r) /\ UNCHANGED initiator
  BY <1>1, <1>2, <1>3, Codes, Single, RResetStep DEF AfterPeerHandover
<1>4. CASE OnProtocolError(r)
  BY <1>1, <1>2, <1>4, ProtocolErrorRStep
<1>5. CASE HandleServerHello(r, m) /\ UNCHANGED initiator
  BY <1>1, <1>2, <1>5, Its, ServerHelloMild, PeerKeptStep
<1>6. CASE ServerAuthUndecryptable(r, m) /\ UNCHANGED initiator
  BY <1>1, <1>2, <1>6, Its, ServerAuthUndecryptableMild, PeerKeptStep
<1>7. CASE ServerAuthHandled(r, m)
  BY <1>1, <1>7, ServerAuthHandledKeeps
<1>8. CASE HandleNewInitiator(r, m)
  BY <1>1, <1>8, HandleNewInitiatorKeeps
<1>9. CASE InitiatorLost(r, m)
  BY <1>1, <1>2, <1>9, Codes, Single, RResetStep DEF InitiatorLost
<1>10. CASE ServerNotice(r, m)
  BY <1>1, <1>2, <1>10, RHeardStep DEF ServerNotice
<1>11. CASE InitiatorKey(r, m)
  BY <1>1, <1>11, InitiatorKeyKeeps
<1>12. CASE ~handover[r].peer /\ InitiatorAuth(r, m)
  BY <1>1, <1>12, InitiatorAuthKeeps
<1>13. CASE InvalidNonceAt(r, m)
  BY <1>4, <1>13 DEF InvalidNonceAt
<1>14. CASE InvalidFromServer(r, m)
  BY <1>4, <1>14 DEF InvalidFromServer
<1>15. CASE InvalidFromInitiator(r, m)
  BY <1>4, <1>15 DEF InvalidFromInitiator
<1>16. CASE AuthRepeatsOurCookie(r, m)
  BY <1>1, <1>2, <1>16, AuthRepeatsOurCookieRStep
<1>17. CASE DiscardEarly(r, m)
  BY <1>1, <1>2, <1>17, RHeardStep DEF DiscardEarly
<1>18. CASE ~handover[r].peer /\ InitiatorMessage(r, m)
  BY <1>1, <1>2, <1>18, InitiatorMessageRStep
<1>19. CASE InitiatorUndecryptable(r, m)
  BY <1>1, <1>2, <1>19, InitiatorUndecryptableRStep
<1> QED BY <1>3, <1>5, <1>6, <1>7, <1>8, <1>9, <1>10, <1>11, <1>12, <1>13, <1>14, <1>15, <1>16,
           <1>17, <1>18, <1>19 DEF ResponderOnMessage

-----------------------------------------------------------------------------
(* The steps of the server.                                                *)

LEMMA FiniteImage ==
  ASSUME NEW S, IsFiniteSet(S), NEW f, f = [x \in S |-> f[x]]
  PROVE  IsFiniteSet({f[x] : x \in S})
<1> DEFINE T == {f[x] : x \in S}
<1>1. f \in Surjection(S, T)
  BY DEF Surjection
<1> QED BY <1>1, FS_Surjection

(* What the server may tell a client.                                      *)
Told(c, p) ==
  /\ c \in Initiators => ToInitiator(p)
  /\ c \in Responders => ToResponder(p)

LEMMA NoticeTold ==
  ASSUME NEW d, NEW c, NEW dst, NEW key, NEW type, NEW body,
         type \in {"server-hello", "new-initiator", "new-responder", "send-error", "disconnected"}
  PROVE  Told(d, ServerPacket(c, dst, key, type, body))
BY DEF Told, ToInitiator, ToResponder, ServerPacket

LEMMA ServerAuthTold ==
  ASSUME NEW d, NEW c, NEW dst, NEW key, NEW body, d \in Initiators => IsSeq(body.responders)
  PROVE  Told(d, ServerPacket(c, dst, key, "server-auth", body))
BY DEF Told, ToInitiator, ToResponder, ServerPacket

LEMMA KickTold ==
  ASSUME NEW d, NEW code \in KickCode
  PROVE  Told(d, CloseFrame(code))
BY DEF Told, ToInitiator, ToResponder, CloseFrame

LEMMA FramesFinite ==
  ASSUME NEW posts, IsFiniteSet(posts), NEW c
  PROVE  IsFiniteSet({p.frame : p \in {q \in posts : q.to = c}})
<1> DEFINE S == {q \in posts : q.to = c}
           f == [q \in S |-> q.frame]
<1>1. IsFiniteSet(S) /\ f = [q \in S |-> f[q]] /\ {p.frame : p \in S} = {f[q] : q \in S}
  BY FS_Subset
<1> HIDE DEF f
<1>2. IsFiniteSet({f[q] : q \in S})
  <2> HIDE DEF S
  <2> QED BY <1>1, FiniteImage
<1> QED BY <1>1, <1>2

(* Frames handed over are all that is new in the streams to the clients.   *)
LEMMA Posted ==
  ASSUME InboxInv, NEW posts, IsFiniteSet(posts), Post(posts)
  PROVE  /\ InboxInv'
         /\ \A c \in Client : \A p \in Elements(inbox'[c]) :
              p \in Elements(inbox[c]) \/ \E q \in posts : q.to = c /\ p = q.frame
<1> DEFINE frames(c) == {p.frame : p \in {q \in posts : q.to = c}}
<1>1. inbox' = [c \in Client |->
                  IF conn[c].socket = "open" THEN inbox[c] \o SetToSeq(frames(c)) ELSE inbox[c]]
  BY DEF Post
<1>2. \A c \in Client : IsFiniteSet(frames(c))
  BY FramesFinite
<1>3. \A c \in Client : \A p \in frames(c) : \E q \in posts : q.to = c /\ p = q.frame
  OBVIOUS
<1> HIDE DEF frames
<1>4. ASSUME NEW c \in Client
      PROVE  /\ IsSeq(inbox'[c])
             /\ \A p \in Elements(inbox'[c]) :
                  p \in Elements(inbox[c]) \/ \E q \in posts : q.to = c /\ p = q.frame
  <2> DEFINE new == SetToSeq(frames(c))
  <2>1. IsSeq(new) /\ Elements(new) \subseteq frames(c) /\ IsSeq(inbox[c])
    BY <1>2, Listed DEF InboxInv
  <2>2. inbox'[c] = IF conn[c].socket = "open" THEN inbox[c] \o new ELSE inbox[c]
    BY <1>1
  <2> HIDE DEF new
  <2>3. IsSeq(inbox[c] \o new) /\ Elements(inbox[c] \o new) = Elements(inbox[c]) \cup Elements(new)
    BY <2>1, JoinedElements
  <2> QED BY <1>3, <2>1, <2>2, <2>3
<1>5. inbox' = [c \in Client |-> inbox'[c]]
  BY <1>1
<1> QED BY <1>4, <1>5 DEF InboxInv

LEMMA ServerSteps ==
  ASSUME PathInv, UNCHANGED <<conn, handover, task, peerVars, initiator>>, SlotsOK',
         NEW c \in Client, outbox[c] # <<>>, Read(c),
         NEW posts, IsFiniteSet(posts), Post(posts),
         \A q \in posts : q.to \in Client => Told(q.to, q.frame)
  PROVE  PathInv'
<1>1. Lasts
  BY Its DEF Lasts, HandedOver, peerVars
<1>2. ConnInv' /\ DomainsOK'
  BY DEF PathInv, ConnInv, DomainsOK, peerVars
<1>3. \A i \in Initiators : InitiatorOK(i)'
  BY <1>1, InitiatorStands DEF PathInv, peerVars
<1>4. \A r \in Responders : ResponderOK(r)'
  BY <1>1, ResponderStands DEF PathInv
<1>5. /\ InboxInv'
      /\ \A d \in Client : \A p \in Elements(inbox'[d]) : p \in Elements(inbox[d]) \/ Told(d, p)
  BY Posted, Streams
<1>6. OutboxInv' /\ \A d \in Client : Elements(outbox'[d]) \subseteq Elements(outbox[d])
  <2>1. /\ IsSeq(outbox[c]) /\ outbox = [d \in Client |-> outbox[d]]
        /\ outbox' = [outbox EXCEPT ![c] = Tail(outbox[c])]
    BY Streams DEF OutboxInv, Read
  <2>2. IsSeq(Tail(outbox[c])) /\ Elements(Tail(outbox[c])) \subseteq Elements(outbox[c])
    BY <2>1, Read1
  <2>3. /\ outbox' = [d \in Client |-> outbox'[d]] /\ outbox'[c] = Tail(outbox[c])
        /\ \A d \in Client \ {c} : outbox'[d] = outbox[d]
    BY <2>1
  <2> QED BY <2>2, <2>3, Streams DEF OutboxInv
<1>7. ASSUME NEW i \in Initiators
      PROVE  /\ \A p \in Elements(outbox'[i]) : OfInitiator(p)'
             /\ \A p \in Elements(inbox'[i]) : ToInitiator(p)'
  <2>1. \A p \in Elements(outbox'[i]) : OfInitiator(p)
    BY <1>6, Sides DEF PathInv, StreamsOK
  <2>2. \A p \in Elements(inbox'[i]) : ToInitiator(p)
    BY <1>5, Sides DEF PathInv, StreamsOK, Told
  <2> QED BY <1>1, <2>1, <2>2, ToResponderLasts, ToInitiatorLasts DEF OfInitiator
<1>8. ASSUME NEW r \in Responders
      PROVE  /\ \A p \in Elements(outbox'[r]) : OfResponder(p)'
             /\ \A p \in Elements(inbox'[r]) : ToResponder(p)'
  <2>1. \A p \in Elements(outbox'[r]) : OfResponder(p)
    BY <1>6, Sides DEF PathInv, StreamsOK
  <2>2. \A p \in Elements(inbox'[r]) : ToResponder(p)
    BY <1>5, Sides DEF PathInv, StreamsOK, Told
  <2> QED BY <1>1, <2>1, <2>2, ToResponderLasts, ToInitiatorLasts DEF OfResponder
<1>9. StreamsOK'
  BY <1>5, <1>6, <1>7, <1>8 DEF StreamsOK
<1> QED BY <1>2, <1>3, <1>4, <1>9 DEF PathInv

(* What it reads, and who gets what.                                       *)
LEMMA TakenFinite == IsFiniteSet(Taken) /\ Taken \subseteq ResponderIds
BY AddressAssumption, FS_Subset DEF Taken

LEMMA SlotChanged ==
  ASSUME SlotsOK, NEW a \in {1} \cup ResponderIds, NEW c,
         c = NoPeer \/ (IF a = 1 THEN c \in Initiators ELSE c \in Responders),
         slot' = [slot EXCEPT ![a] = c]
  PROVE  SlotsOK'
<1>1. 1 \notin ResponderIds
  BY AddressAssumption
<1>2. c \in Client \cup {NoPeer}
  BY Sides
<1>3. slot' \in [{1} \cup ResponderIds -> Client \cup {NoPeer}]
  BY <1>2 DEF SlotsOK
<1>4. slot'[1] = IF a = 1 THEN c ELSE slot[1]
  BY DEF SlotsOK
<1>5. \A b \in ResponderIds : slot'[b] = IF a = b THEN c ELSE slot[b]
  BY DEF SlotsOK
<1> QED BY <1>1, <1>3, <1>4, <1>5 DEF SlotsOK

LEMMA NothingPosted ==
  ASSUME PathInv, UNCHANGED <<conn, handover, task, peerVars, initiator>>, SlotsOK',
         NEW c \in Client, outbox[c] # <<>>, Read(c), Post({})
  PROVE  PathInv'
BY FS_EmptySet, ServerSteps

LEMMA OnePosted ==
  ASSUME PathInv, UNCHANGED <<conn, handover, task, peerVars, initiator>>, SlotsOK',
         NEW c \in Client, outbox[c] # <<>>, Read(c),
         NEW to, NEW frame, Post({[to |-> to, frame |-> frame]}), to \in Client => Told(to, frame)
  PROVE  PathInv'
<1> DEFINE post == [to |-> to, frame |-> frame]
<1>1. post.to = to /\ post.frame = frame
  OBVIOUS
<1> HIDE DEF post
<1>2. IsFiniteSet({post}) /\ \A q \in {post} : q.to \in Client => Told(q.to, q.frame)
  BY <1>1, FS_Singleton
<1> QED BY <1>2, ServerSteps DEF post

LEMMA NoticeIs ==
  ASSUME NEW c, NEW type, NEW body,
         type \in {"new-initiator", "new-responder", "send-error", "disconnected"}
  PROVE  Notice(c, type, body).to = c /\ Told(c, Notice(c, type, body).frame)
BY NoticeTold DEF Notice

LEMMA KickIs ==
  ASSUME NEW c, NEW code \in KickCode
  PROVE  Kick(c, code).to = c /\ Told(c, Kick(c, code).frame)
BY KickTold DEF Kick

(* Nobody is told of infinitely many things at once.                       *)
LEMMA SlotFinite == IsFiniteSet({slot[1]} \ {NoPeer}) /\ IsFiniteSet({slot[b] : b \in Taken})
<1>1. IsFiniteSet({slot[1]}) /\ {slot[1]} \ {NoPeer} \in SUBSET {slot[1]}
  BY FS_Singleton
<1>2. IsFiniteSet({slot[1]} \ {NoPeer})
  BY <1>1, FS_Subset
<1> DEFINE client == [b \in Taken |-> slot[b]]
<1>3. client = [b \in Taken |-> client[b]] /\ {slot[b] : b \in Taken} = {client[b] : b \in Taken}
  OBVIOUS
<1> HIDE DEF client
<1>4. IsFiniteSet({client[b] : b \in Taken})
  BY <1>3, TakenFinite, FiniteImage
<1> QED BY <1>2, <1>3, <1>4

LEMMA TakeoverPosts ==
  ASSUME NEW auth
  PROVE  IsFiniteSet({auth} \cup {Kick(o, DroppedByInitiator) : o \in {slot[1]} \ {NoPeer}}
                            \cup {Notice(slot[a], "new-initiator", NoTask) : a \in Taken})
<1> DEFINE old == {slot[1]} \ {NoPeer}
           K == {Kick(o, DroppedByInitiator) : o \in old}
           N == {Notice(slot[a], "new-initiator", NoTask) : a \in Taken}
           notice == [a \in Taken |-> Notice(slot[a], "new-initiator", NoTask)]
           kick == [o \in old |-> Kick(o, DroppedByInitiator)]
<1>1. IsFiniteSet({auth})
  BY FS_Singleton
<1>2. IsFiniteSet(K)
  <2>1. IsFiniteSet(old) /\ kick = [o \in old |-> kick[o]] /\ K = {kick[o] : o \in old}
    BY SlotFinite
  <2> HIDE DEF kick, K, old
  <2> QED BY <2>1, FiniteImage
<1>3. IsFiniteSet(N)
  <2>1. notice = [a \in Taken |-> notice[a]] /\ N = {notice[a] : a \in Taken}
    OBVIOUS
  <2> HIDE DEF notice, N
  <2> QED BY <2>1, TakenFinite, FiniteImage
<1> HIDE DEF K, N
<1>4. IsFiniteSet(({auth} \cup K) \cup N)
  BY <1>1, <1>2, <1>3, FS_Union
<1> QED BY <1>4 DEF K, N

LEMMA NewcomerPosts ==
  ASSUME NEW auth, NEW a
  PROVE  IsFiniteSet({auth} \cup {Notice(i, "new-responder", a) : i \in {slot[1]} \ {NoPeer}})
<1> DEFINE both == {auth} \cup {Notice(slot[1], "new-responder", a)}
           posts == {auth} \cup {Notice(i, "new-responder", a) : i \in {slot[1]} \ {NoPeer}}
<1>1. posts \subseteq both
  OBVIOUS
<1>2. IsFiniteSet(both)
  BY FS_Singleton, FS_Union
<1> HIDE DEF both, posts
<1>3. IsFiniteSet(posts)
  BY <1>1, <1>2, FS_Subset
<1> QED BY <1>3 DEF posts

LEMMA DeparturePosts ==
  ASSUME NEW a
  PROVE  IsFiniteSet({Notice(p, "disconnected", a) :
                        p \in IF a = 1 THEN {slot[b] : b \in Taken} ELSE {slot[1]} \ {NoPeer}})
<1> DEFINE peers == IF a = 1 THEN {slot[b] : b \in Taken} ELSE {slot[1]} \ {NoPeer}
           notice == [p \in peers |-> Notice(p, "disconnected", a)]
<1>1. IsFiniteSet(peers)
  BY SlotFinite
<1>2. notice = [p \in peers |-> notice[p]]
  OBVIOUS
<1>3. {Notice(p, "disconnected", a) : p \in peers} = {notice[p] : p \in peers}
  OBVIOUS
<1> HIDE DEF notice
<1>4. IsFiniteSet({notice[p] : p \in peers})
  <2> HIDE DEF peers
  <2> QED BY <1>1, <1>2, FiniteImage
<1> QED BY <1>3, <1>4

LEMMA InitiatorJoinsKeeps ==
  ASSUME PathInv, UNCHANGED <<conn, handover, task, peerVars, initiator>>,
         NEW c \in Client, outbox[c] # <<>>, Read(c), NEW m, InitiatorJoins(c, m)
  PROVE  PathInv'
<1> DEFINE old == {slot[1]} \ {NoPeer}
           auth == ServerPacket(c, 1, ServerKey(c), "server-auth",
                     [cookie |-> m.cookie, responders |-> SetToSeq(Taken)])
           posts == {[to |-> c, frame |-> auth]}
                    \cup {Kick(o, DroppedByInitiator) : o \in old}
                    \cup {Notice(slot[a], "new-initiator", NoTask) : a \in Taken}
<1>1. c \in Initiators /\ slot' = [slot EXCEPT ![1] = c] /\ Post(posts)
  BY DEF InitiatorJoins
<1>2. SlotsOK'
  BY <1>1, SlotChanged DEF PathInv
<1>3. Told(c, auth)
  <2> DEFINE body == [cookie |-> m.cookie, responders |-> SetToSeq(Taken)]
  <2>1. IsSeq(body.responders)
    BY TakenFinite, Listed
  <2> HIDE DEF body
  <2>2. Told(c, ServerPacket(c, 1, ServerKey(c), "server-auth", body))
    BY <2>1, ServerAuthTold
  <2> QED BY <2>2 DEF body
<1> HIDE DEF auth
<1>4. DroppedByInitiator \in KickCode
  BY KickCodes
<1>5. \A q \in posts : Told(q.to, q.frame)
  <2>1. \A o : Told(Kick(o, DroppedByInitiator).to, Kick(o, DroppedByInitiator).frame)
    BY <1>4, KickIs
  <2>2. \A a : LET n == Notice(slot[a], "new-initiator", NoTask) IN Told(n.to, n.frame)
    BY NoticeIs
  <2> QED BY <1>3, <2>1, <2>2
<1>6. IsFiniteSet(posts)
  BY TakeoverPosts
<1> HIDE DEF posts
<1> QED BY <1>1, <1>2, <1>5, <1>6, ServerSteps

LEMMA ResponderJoinsKeeps ==
  ASSUME PathInv, UNCHANGED <<conn, handover, task, peerVars, initiator>>,
         NEW c \in Client, outbox[c] # <<>>, Read(c), NEW m, ResponderJoins(c, m)
  PROVE  PathInv'
<1>1. CASE Taken = ResponderIds
  <2>1. Post({Kick(c, PathFull)}) /\ UNCHANGED slot
    BY <1>1 DEF ResponderJoins
  <2>2. SlotsOK' /\ PathFull \in KickCode
    BY <2>1, SlotsStand, KickCodes DEF PathInv
  <2>3. Told(c, CloseFrame(PathFull))
    BY <2>2, KickTold
  <2> QED BY <2>1, <2>2, <2>3, OnePosted DEF Kick
<1>2. CASE Taken # ResponderIds
  <2> DEFINE a == CHOOSE b \in ResponderIds \ Taken : \A o \in ResponderIds \ Taken : b <= o
             auth == ServerPacket(c, a, ServerKey(c), "server-auth",
                       [cookie |-> m.cookie, connected |-> slot[1] # NoPeer])
             told == {Notice(i, "new-responder", a) : i \in {slot[1]} \ {NoPeer}}
             posts == {[to |-> c, frame |-> auth]} \cup told
  <2>1. c \in Responders /\ slot' = [slot EXCEPT ![a] = c] /\ Post(posts)
    BY <1>2 DEF ResponderJoins
  <2>2. a \in ResponderIds
    <3>1. ResponderIds \ Taken \in SUBSET Nat /\ ResponderIds \ Taken # {}
      BY <1>2, TakenFinite, AddressAssumption
    <3> QED BY <3>1, Smallest
  <2>3. 1 \notin ResponderIds
    BY AddressAssumption
  <2> HIDE DEF a
  <2>4. SlotsOK'
    BY <2>1, <2>2, <2>3, SlotChanged DEF PathInv
  <2>5. Told(c, auth)
    BY <2>1, ServerAuthTold, Sides
  <2> HIDE DEF auth
  <2>6. \A q \in posts : Told(q.to, q.frame)
    BY <2>5, NoticeIs
  <2>7. IsFiniteSet(posts)
    BY NewcomerPosts
  <2> HIDE DEF posts
  <2> QED BY <2>1, <2>4, <2>6, <2>7, ServerSteps
<1> QED BY <1>1, <1>2

LEMMA ServerDropsKeeps ==
  ASSUME PathInv, UNCHANGED <<conn, handover, task, peerVars, initiator>>,
         NEW c \in Client, outbox[c] # <<>>, Read(c), NEW m, m \in Elements(outbox[c]),
         ServerDrops(c, m)
  PROVE  PathInv'
<1>1. m.body.reason \in KickCode
  <2>1. m.type = "drop-responder"
    BY DEF ServerDrops
  <2>2. CASE c \in Initiators
    BY <2>1, <2>2 DEF PathInv, StreamsOK, OfInitiator
  <2>3. CASE c \in Responders
    BY <2>1, <2>3 DEF PathInv, StreamsOK, OfResponder
  <2> QED BY <2>2, <2>3 DEF Client
<1>2. CASE m.body.id \in Taken
  <2> DEFINE d == slot[m.body.id]
  <2>1. slot' = [slot EXCEPT ![m.body.id] = NoPeer] /\ Post({Kick(d, m.body.reason)})
    BY <1>2 DEF ServerDrops
  <2>2. SlotsOK'
    BY <1>2, <2>1, SlotChanged, TakenFinite DEF PathInv
  <2>3. Told(d, CloseFrame(m.body.reason))
    BY <1>1, KickTold
  <2> HIDE DEF d
  <2> QED BY <2>1, <2>2, <2>3, OnePosted DEF Kick
<1>3. CASE m.body.id \notin Taken
  <2>1. Post({}) /\ SlotsOK'
    BY <1>3, SlotsStand DEF ServerDrops, PathInv
  <2> QED BY <2>1, NothingPosted
<1> QED BY <1>2, <1>3

LEMMA RelayKeeps ==
  ASSUME PathInv, UNCHANGED <<conn, handover, task, peerVars, initiator>>,
         NEW c \in Client, outbox[c] # <<>>, Read(c), NEW m, m \in Elements(outbox[c]), Relay(c, m)
  PROVE  PathInv'
<1>1. SlotsOK' /\ SlotsOK /\ m.dst # 0 /\ m.type # "ws-close"
  BY SlotsStand DEF Relay, PathInv
<1>2. CASE slot[m.dst] # NoPeer
  <2> DEFINE d == slot[m.dst]
  <2>1. Post({[to |-> d, frame |-> m]})
    BY <1>2 DEF Relay
  <2>2. CASE c \in Initiators
    <3>1. OfInitiator(m)
      BY <2>2 DEF PathInv, StreamsOK
    <3>2. d \in Responders /\ ToResponder(m)
      BY <1>1, <1>2, <3>1 DEF OfInitiator, SlotsOK
    <3>3. Told(d, m)
      BY <3>2, Sides DEF Told
    <3> HIDE DEF d
    <3> QED BY <1>1, <2>1, <3>3, OnePosted
  <2>3. CASE c \in Responders
    <3>1. OfResponder(m)
      BY <2>3 DEF PathInv, StreamsOK
    <3>2. d \in Initiators /\ ToInitiator(m)
      BY <1>1, <1>2, <3>1 DEF OfResponder, SlotsOK
    <3>3. Told(d, m)
      BY <3>2, Sides DEF Told
    <3> HIDE DEF d
    <3> QED BY <1>1, <2>1, <3>3, OnePosted
  <2> QED BY <2>2, <2>3 DEF Client
<1>3. CASE slot[m.dst] = NoPeer
  <2> DEFINE frame == ServerPacket(c, AddressOf(c), ServerKey(c), "send-error",
                                   [src |-> m.src, dst |-> m.dst])
  <2>1. Post({[to |-> c, frame |-> frame]})
    BY <1>3 DEF Relay, Notice
  <2>2. Told(c, frame)
    BY NoticeTold
  <2> HIDE DEF frame
  <2> QED BY <1>1, <2>1, <2>2, OnePosted
<1> QED BY <1>2, <1>3

LEMMA ClientLeavesKeeps ==
  ASSUME PathInv, UNCHANGED <<conn, handover, task, peerVars, initiator>>,
         NEW c \in Client, outbox[c] # <<>>, Read(c), NEW m, ClientLeaves(c, m)
  PROVE  PathInv'
<1>1. CASE c \notin Joined
  <2>1. Post({}) /\ SlotsOK'
    BY <1>1, SlotsStand DEF ClientLeaves, PathInv
  <2> QED BY <2>1, NothingPosted
<1>2. CASE c \in Joined
  <2> DEFINE a == AddressOf(c)
             peers == IF a = 1 THEN {slot[b] : b \in Taken} ELSE {slot[1]} \ {NoPeer}
             posts == {Notice(p, "disconnected", a) : p \in peers}
  <2>1. slot' = [slot EXCEPT ![a] = NoPeer] /\ Post(posts)
    BY <1>2 DEF ClientLeaves
  <2>2. \A q \in posts : Told(q.to, q.frame)
    BY NoticeIs
  <2>5. IsFiniteSet(posts)
    BY DeparturePosts
  <2> HIDE DEF a, peers
  <2>6. SlotsOK'
    <3>1. CASE a \in {1} \cup ResponderIds
      BY <2>1, <3>1, SlotChanged DEF PathInv
    <3>2. CASE a \notin {1} \cup ResponderIds
      <4>1. slot' = slot
        BY <2>1, <3>2 DEF PathInv, SlotsOK
      <4> QED BY <4>1, SlotsStand DEF PathInv
    <3> QED BY <3>1, <3>2
  <2> HIDE DEF posts
  <2> QED BY <2>1, <2>2, <2>5, <2>6, ServerSteps
<1> QED BY <1>1, <1>2

LEMMA ServerReadsKeeps ==
  ASSUME PathInv, NEW c \in Client, ServerReads(c)
  PROVE  PathInv'
<1> DEFINE m == Head(outbox[c])
<1>1. /\ UNCHANGED <<conn, handover, task, peerVars, initiator>> /\ outbox[c] # <<>> /\ Read(c)
      /\ \/ InitiatorJoins(c, m) \/ ResponderJoins(c, m) \/ ServerDrops(c, m)
         \/ Relay(c, m) \/ ClientLeaves(c, m)
         \/ Post({}) /\ UNCHANGED slot
  BY DEF ServerReads, peerVars
<1>2. m \in Elements(outbox[c])
  BY <1>1, Read1, Streams DEF OutboxInv
<1> HIDE DEF m
<1>3. CASE Post({}) /\ UNCHANGED slot
  BY <1>1, <1>3, SlotsStand, NothingPosted DEF PathInv
<1> QED BY <1>1, <1>2, <1>3, InitiatorJoinsKeeps, ResponderJoinsKeeps, ServerDropsKeeps,
           RelayKeeps, ClientLeavesKeeps

-----------------------------------------------------------------------------
(* Every step of the path.                                                 *)

(* A client whose peers stay as they are.                                  *)
LEMMA MildKeeps ==
  ASSUME PathInv, NEW c \in Client, Mild(c, {}), UNCHANGED <<task, peerVars, initiator, slot>>
  PROVE  PathInv' /\ NothingNew
<1>1. CASE c \in Initiators
  <2>1. IStep(c, {})
    BY <1>1, PeersKeptStep
  <2> QED BY <1>1, <2>1, IStepKeeps
<1>2. CASE c \in Responders
  <2>1. RStep(c, {})
    BY <1>2, PeerKeptStep
  <2> QED BY <1>2, <2>1, RStepKeeps
<1> QED BY <1>1, <1>2 DEF Client

LEMMA OpensKeeps ==
  ASSUME PathInv, NEW c \in Client, Opens(c)
  PROVE  PathInv' /\ NothingNew
<1> DEFINE hello == ServerPacket(c, 0, Plain, "server-hello", NoTask)
<1>1. /\ OnOpen(c) /\ UNCHANGED <<task, peerVars, initiator, slot>>
      /\ inbox' = [inbox EXCEPT ![c] = <<hello>>]
  BY DEF Opens, Accept, OnOpen
<1>2. hello.type = "server-hello"
  BY DEF ServerPacket
<1> HIDE DEF hello
<1>3. Drained(c)
  <2>1. IsSeq(<<hello>>) /\ Elements(<<hello>>) = {hello}
    BY Single
  <2>2. /\ inbox'[c] = <<hello>> /\ \A d \in Client \ {c} : inbox'[d] = inbox[d]
        /\ inbox' = [d \in Client |-> inbox'[d]]
    BY <1>1, Streams DEF InboxInv
  <2> QED BY <1>2, <2>1, <2>2, Streams DEF InboxInv, Drained
<1>4. UNCHANGED handover /\ SendsOnly(c, {})
  BY <1>1, Streams, NothingSentOn DEF OnOpen
<1>5. ConnInv' /\ Apart(c) /\ Drift(c)
  BY <1>1, Streams, OnOpenConn DEF OnOpen, Drift
<1>6. Mild(c, {})
  BY <1>1, <1>3, <1>4, <1>5, Reconnected
<1> QED BY <1>1, <1>6, MildKeeps

LEMMA SocketEventKeeps ==
  ASSUME PathInv, NEW c \in Client, SocketEvent(c) \/ Connects(c) \/ Leaves(c)
  PROVE  PathInv' /\ NothingNew
<1>1. UNCHANGED <<peerVars, initiator, slot>>
  BY DEF SocketEvent, Connects, Leaves, serverVars
<1>2. Mild(c, {}) /\ task' = task
  BY CloseEventMild, ServerClosesMild, ConnectMild, DisconnectMild, ConnectionLostMild
     DEF SocketEvent, Connects, Leaves
<1> QED BY <1>1, <1>2, MildKeeps

LEMMA HandOverKeeps ==
  ASSUME PathInv, NEW c \in Client, HandOver(c) \/ Sends(c)
  PROVE  PathInv' /\ NothingNew
<1>1. UNCHANGED slot
  BY DEF HandOver, Sends, serverVars
<1>2. CASE c \in Initiators /\ InitiatorHandover(c) /\ UNCHANGED initiator
  BY <1>1, <1>2, InitiatorHandoverIStep, IStepKeeps
<1>3. CASE c \in Responders /\ ResponderHandover(c) /\ UNCHANGED peerVars
  BY <1>1, <1>3, ResponderHandoverKeeps
<1>4. CASE c \in Initiators /\ InitiatorSends(c) /\ UNCHANGED initiator
  BY <1>1, <1>4, InitiatorSendsIStep, IStepKeeps
<1>5. CASE c \in Responders /\ ResponderSends(c) /\ UNCHANGED peerVars
  BY <1>1, <1>5, ResponderSendsRStep, RStepKeeps
<1> QED BY <1>2, <1>3, <1>4, <1>5 DEF HandOver, Sends

(* The server lets a client know something, and opens nothing.             *)
LEMMA ServerNew ==
  ASSUME PathInv, NEW c \in Client, ServerReads(c)
  PROVE  NothingNew
<1>1. UNCHANGED <<conn, handover, task, chosen, initiator>>
  BY DEF ServerReads, peerVars
<1>2. Lasts
  BY <1>1, Its DEF Lasts, HandedOver
<1>3. Drift(c)
  BY <1>1 DEF Drift
<1> QED BY <1>1, <1>2, <1>3 DEF NothingNew

LEMMA StutterKeeps == ASSUME PathInv, UNCHANGED vars PROVE PathInv'
<1>1. UNCHANGED <<conn, handover, task, responders, counter, chosen, initiator, slot, inbox, outbox>>
  BY DEF vars, commonVars, peerVars, serverVars
<1>2. ConnInv' /\ DomainsOK' /\ SlotsOK'
  BY <1>1 DEF PathInv, ConnInv, DomainsOK, SlotsOK
<1>3. Lasts
  BY <1>1, Its DEF Lasts, HandedOver
<1>4. \A i \in Initiators : InitiatorOK(i)'
  BY <1>1, <1>3, InitiatorStands DEF PathInv
<1>5. \A r \in Responders : ResponderOK(r)'
  BY <1>1, <1>3, ResponderStands DEF PathInv
<1>6. StreamsOK'
  <2>1. InboxInv' /\ OutboxInv'
    BY <1>1, Streams DEF InboxInv, OutboxInv
  <2>2. ASSUME NEW i \in Initiators
        PROVE  /\ \A p \in Elements(outbox'[i]) : OfInitiator(p)'
               /\ \A p \in Elements(inbox'[i]) : ToInitiator(p)'
    BY <1>1, <1>3, ToResponderLasts, ToInitiatorLasts DEF PathInv, StreamsOK, OfInitiator
  <2>3. ASSUME NEW r \in Responders
        PROVE  /\ \A p \in Elements(outbox'[r]) : OfResponder(p)'
               /\ \A p \in Elements(inbox'[r]) : ToResponder(p)'
    BY <1>1, <1>3, ToResponderLasts, ToInitiatorLasts DEF PathInv, StreamsOK, OfResponder
  <2> QED BY <2>1, <2>2, <2>3 DEF StreamsOK
<1> QED BY <1>2, <1>4, <1>5, <1>6 DEF PathInv

(* What a step of the path does: it opens a session, enters one, or        *)
(* neither.                                                                *)
LEMMA PathStep ==
  ASSUME PathInv, NEW c \in Client, Step(c) \/ Leaves(c) \/ Sends(c)
  PROVE  /\ PathInv'
         /\ \/ NothingNew
            \/ /\ c \in Initiators /\ inbox[c] # <<>> /\ UNCHANGED initiator
               /\ HandleAuth(c, Head(inbox[c]))
            \/ /\ c \in Responders /\ inbox[c] # <<>> /\ UNCHANGED peerVars
               /\ InitiatorAuth(c, Head(inbox[c]))
<1>1. CASE OnMessage(c)
  <2>1. CASE c \in Initiators /\ InitiatorOnMessage(c) /\ UNCHANGED <<initiator, slot>>
    <3>1. inbox[c] # <<>>
      BY <2>1 DEF InitiatorOnMessage, Receives
    <3>2. PathInv' /\ (NothingNew \/ HandleAuth(c, Head(inbox[c])))
      BY <2>1, InitiatorOnMessageKeeps
    <3>3. UNCHANGED initiator
      BY <2>1
    <3> QED BY <2>1, <3>1, <3>2, <3>3
  <2>2. CASE c \in Responders /\ ResponderOnMessage(c) /\ UNCHANGED <<peerVars, slot>>
    <3>1. inbox[c] # <<>>
      BY <2>2 DEF ResponderOnMessage, Receives
    <3>2. PathInv' /\ (NothingNew \/ InitiatorAuth(c, Head(inbox[c])))
      BY <2>2, ResponderOnMessageKeeps
    <3>3. UNCHANGED peerVars
      BY <2>2
    <3> QED BY <2>2, <3>1, <3>2, <3>3
  <2> QED BY <1>1, <2>1, <2>2 DEF OnMessage, serverVars
<1>2. CASE Opens(c)
  BY <1>2, OpensKeeps
<1>3. CASE SocketEvent(c) \/ Connects(c) \/ Leaves(c)
  BY <1>3, SocketEventKeeps
<1>4. CASE HandOver(c) \/ Sends(c)
  BY <1>4, HandOverKeeps
<1>5. CASE ServerReads(c)
  BY <1>5, ServerReadsKeeps, ServerNew
<1> QED BY <1>1, <1>2, <1>3, <1>4, <1>5 DEF Step

-----------------------------------------------------------------------------
(* The invariant.                                                          *)

LEMMA PathInit == Init => PathInv
<1> SUFFICES ASSUME Init PROVE PathInv
  OBVIOUS
<1> USE DEF Init, InitCommon, InitInitiator, InitResponder
<1>1. ConnInv
  BY DEF ConnInv, ConnRecord, HandoverRecord, Link, NoConn, NoHandover, SignalingState, Socket
<1>2. DomainsOK
  BY DEF DomainsOK
<1>3. SlotsOK
  BY DEF SlotsOK
<1>4. ASSUME NEW i \in Initiators PROVE InitiatorOK(i)
  <2>1. /\ responders[i] = [id \in ResponderIds |-> NoResponder] /\ counter[i] = 0
        /\ chosen[i] = NoResponder /\ i \in Client
    BY Sides
  <2>2. ResponderFields(NoResponder) /\ NoResponder.n = 0
    BY DEF ResponderFields, NoResponder
  <2>3. MapOK(i, responders[i], counter[i])
    BY <2>1, <2>2, NobodyOK DEF MapOK, Present
  <2>4. ChosenOK(i, chosen[i], task[i])
    BY <2>1, <2>2 DEF ChosenOK
  <2>5. conn[i].state = "new" /\ ~handover[i].peer
    BY <2>1 DEF NoConn, NoHandover
  <2> QED BY <2>1, <2>2, <2>3, <2>4, <2>5 DEF InitiatorOK
<1>5. ASSUME NEW r \in Responders PROVE ResponderOK(r)
  <2>1. r \in Client /\ conn[r].state = "new" /\ ~handover[r].peer
    BY Sides DEF NoConn, NoHandover
  <2>2. /\ InitiatorFields(initiator[r]) /\ initiator[r].n = 1
        /\ initiator[r].hs \in {"new", "token-sent"}
    BY DEF InitiatorFields, NewInitiator
  <2> QED BY <2>1, <2>2 DEF ResponderOK
<1>6. StreamsOK
  <2>1. \A c \in Client : inbox[c] = <<>> /\ outbox[c] = <<>>
    OBVIOUS
  <2>2. InboxInv /\ OutboxInv
    BY <2>1, Single DEF InboxInv, OutboxInv
  <2> QED BY <2>1, <2>2, Single, Sides DEF StreamsOK
<1> QED BY <1>1, <1>2, <1>3, <1>4, <1>5, <1>6 DEF PathInv

LEMMA PathNext == PathInv /\ [Next]_vars => PathInv'
BY PathStep, StutterKeeps DEF Next

LEMMA PathInvariant == Spec => []PathInv
BY PathInit, PathNext, PTL DEF Spec

-----------------------------------------------------------------------------
(* Sessions.                                                               *)

(* A key under which an initiator has opened a session and one under which *)
(* a responder has entered one name their owners.                          *)
LEMMA OpenedNames ==
  ASSUME PathInv, NEW i \in Initiators, chosen[i].n # 0
  PROVE  /\ chosen[i].n \in Nat
         /\ \E r \in Responders : /\ Invited(i, r) /\ Agreed(i, r, task[i])
                                  /\ \E k \in 1 .. initiator[r].n :
                                       chosen[i].sess = SessionKey(<<i, chosen[i].n>>, <<r, k>>)
BY DEF PathInv, InitiatorOK, ChosenOK, SharedKey

LEMMA EnteredNames ==
  ASSUME PathInv, NEW r \in Responders, initiator[r].hs = "auth-received"
  PROVE  /\ OwnKey(r, initiator[r].n, initiator[r].sess)
         /\ \E i \in Initiators : Opened(i, initiator[r].sess) /\ task[i] = task[r]
BY DEF PathInv, ResponderOK

LEMMA OneInitiator ==
  ASSUME PathInv, NEW i \in Initiators, NEW j \in Initiators, NEW key, Opened(i, key), Opened(j, key)
  PROVE  i = j
<1>1. PICK r \in Responders : \E k \in 1 .. initiator[r].n : key = SessionKey(<<i, chosen[i].n>>, <<r, k>>)
  BY OpenedNames DEF Opened
<1>2. PICK s \in Responders : \E l \in 1 .. initiator[s].n : key = SessionKey(<<j, chosen[j].n>>, <<s, l>>)
  BY OpenedNames DEF Opened
<1>3. PICK k : key = SessionKey(<<i, chosen[i].n>>, <<r, k>>)
  BY <1>1
<1>4. PICK l : key = SessionKey(<<j, chosen[j].n>>, <<s, l>>)
  BY <1>2
<1>5. SessionKey(<<i, chosen[i].n>>, <<r, k>>) = SessionKey(<<s, l>>, <<j, chosen[j].n>>)
  BY <1>3, <1>4, KeyHalves
<1> QED BY <1>5, OneSession

LEMMA OneResponder ==
  ASSUME PathInv, NEW r \in Responders, NEW s \in Responders, NEW key, Entered(r, key), Entered(s, key)
  PROVE  r = s
<1>1. PICK i \in Initiators, k \in Nat : key = SessionKey(<<r, initiator[r].n>>, <<i, k>>)
  BY EnteredNames DEF Entered, OwnKey
<1>2. PICK j \in Initiators, l \in Nat : key = SessionKey(<<s, initiator[s].n>>, <<j, l>>)
  BY EnteredNames DEF Entered, OwnKey
<1>3. SessionKey(<<i, k>>, <<r, initiator[r].n>>) = SessionKey(<<s, initiator[s].n>>, <<j, l>>)
  BY <1>1, <1>2, KeyHalves
<1>4. PICK n, m : SessionKey(<<i, k>>, <<r, n>>) = SessionKey(<<s, m>>, <<j, l>>)
  BY <1>3
<1> QED BY <1>4, OneSession

(* The two who share one were meant for each other.                        *)
LEMMA Partners ==
  ASSUME PathInv, NEW i \in Initiators, NEW r \in Responders, NEW key,
         Opened(i, key), OwnKey(r, initiator[r].n, key)
  PROVE  Invited(i, r) /\ Agreed(i, r, task[i])
<1>1. PICK s \in Responders : /\ Invited(i, s) /\ Agreed(i, s, task[i])
                              /\ \E k \in 1 .. initiator[s].n : key = SessionKey(<<i, chosen[i].n>>, <<s, k>>)
  BY OpenedNames DEF Opened
<1>2. PICK j \in Initiators, l \in Nat : key = SessionKey(<<r, initiator[r].n>>, <<j, l>>)
  BY DEF OwnKey
<1>3. PICK k : key = SessionKey(<<i, chosen[i].n>>, <<s, k>>)
  BY <1>1
<1>4. SessionKey(<<i, chosen[i].n>>, <<s, k>>) = SessionKey(<<r, initiator[r].n>>, <<j, l>>)
  BY <1>2, <1>3
<1>5. s = r
  BY <1>4, OneSession
<1> QED BY <1>1, <1>5

-----------------------------------------------------------------------------
(* The theorems.                                                           *)

(* A responder in state `task` has a partner, an initiator that has chosen *)
(* it: both have the same session key and the same task, which is the      *)
(* first of the initiator's preferences that the responder offers          *)
(* (initiator.ts handleAuth, responder.ts handleAuth).                     *)
THEOREM Pairing == Spec => []PairedInTask
<1>1. ASSUME PathInv PROVE PairedInTask
  <2> SUFFICES ASSUME NEW r \in Responders, conn[r].state = "task"
               PROVE  \E i \in Partner(r) :
                        /\ task[i] = task[r]
                        /\ \A k \in DOMAIN OurTasks[i] :
                             OurTasks[i][k] \in OfferedTasks[r] =>
                               \E j \in 1 .. k : OurTasks[i][j] = task[r]
    BY DEF PairedInTask
  <2>1. initiator[r].hs = "auth-received"
    BY <1>1, Its
  <2>2. OwnKey(r, initiator[r].n, initiator[r].sess)
    BY <1>1, <2>1, EnteredNames
  <2>3. PICK i \in Initiators : Opened(i, initiator[r].sess) /\ task[i] = task[r]
    BY <1>1, <2>1, EnteredNames
  <2>4. Agreed(i, r, task[r])
    BY <1>1, <2>2, <2>3, Partners
  <2>5. PICK k \in DOMAIN OurTasks[i] :
          /\ task[r] = OurTasks[i][k]
          /\ \A j \in DOMAIN OurTasks[i] : OurTasks[i][j] \in OfferedTasks[r] => k <= j
    BY <2>4 DEF Agreed
  <2>6. DOMAIN OurTasks[i] = 1 .. Len(OurTasks[i])
    BY InitiatorAssumption
  <2>7. \A j \in DOMAIN OurTasks[i] :
          OurTasks[i][j] \in OfferedTasks[r] => \E l \in 1 .. j : OurTasks[i][l] = task[r]
    BY <2>5, <2>6
  <2>8. i \in Partner(r)
    BY <2>3 DEF Partner, Opened
  <2> QED BY <2>3, <2>7, <2>8
<1> QED BY <1>1, PathInvariant, PTL

(* An initiator reaches state `task` only with a responder it has invited: *)
(* the one it trusts or, without a trusted key, one that has its auth      *)
(* token (initiator.ts handleToken, handleKey).                            *)
THEOREM Invitation == Spec => []OnlyInvited
<1>1. ASSUME PathInv PROVE OnlyInvited
  <2> SUFFICES ASSUME NEW i \in Initiators, conn[i].state = "task"
               PROVE  \E r \in Responders :
                        /\ \E n \in 1 .. initiator[r].n : <<r, n>> \in chosen[i].sess[2]
                        /\ IF PeerTrustedKey[i] # NoPeer THEN r = PeerTrustedKey[i] ELSE AuthToken[r] = i
    BY DEF OnlyInvited
  <2>1. chosen[i].n # 0
    BY <1>1, Mine
  <2>2. PICK r \in Responders : /\ Invited(i, r)
                                /\ \E k \in 1 .. initiator[r].n :
                                     chosen[i].sess = SessionKey(<<i, chosen[i].n>>, <<r, k>>)
    BY <1>1, <2>1, OpenedNames
  <2>3. PICK k \in 1 .. initiator[r].n : chosen[i].sess = SessionKey(<<i, chosen[i].n>>, <<r, k>>)
    BY <2>2
  <2>4. <<r, k>> \in chosen[i].sess[2]
    BY <2>3, KeyHalves
  <2> QED BY <2>2, <2>4 DEF Invited, Trusts
<1> QED BY <1>1, PathInvariant, PTL

(* The two HandoverStates of a session agree: the flag `peer` of one side  *)
(* is set only after the flag `local` of the other one, whatever else is   *)
(* in flight (common.ts handoverState, onPeerHandover).                    *)
THEOREM HandoverAgreement == Spec => []HandoverAgreed
<1>1. ASSUME PathInv PROVE HandoverAgreed
  <2> SUFFICES ASSUME NEW r \in Responders, NEW i \in Initiators, i \in Partner(r),
                      conn[r].state = "task", conn[i].state = "task"
               PROVE  /\ handover[r].peer => handover[i].local
                      /\ handover[i].peer => handover[r].local
    BY DEF HandoverAgreed, Partner
  <2>1. Entered(r, initiator[r].sess) /\ Opened(i, initiator[r].sess)
    BY <1>1, Its DEF Partner, Entered, Opened
  <2>2. ASSUME handover[r].peer PROVE handover[i].local
    <3>1. PICK j \in Initiators : Opened(j, initiator[r].sess) /\ HandedOver(j)
      BY <1>1, <2>2 DEF PathInv, ResponderOK
    <3>2. j = i
      BY <1>1, <2>1, <3>1, OneInitiator
    <3> QED BY <3>1, <3>2 DEF HandedOver
  <2>3. ASSUME handover[i].peer PROVE handover[r].local
    <3>1. PICK s \in Responders : Entered(s, chosen[i].sess) /\ HandedOver(s)
      BY <1>1, <2>3 DEF PathInv, InitiatorOK
    <3>2. s = r
      BY <1>1, <2>1, <3>1, OneResponder DEF Opened
    <3> QED BY <3>1, <3>2 DEF HandedOver
  <2> QED BY <2>2, <2>3
<1> QED BY <1>1, PathInvariant, PTL

-----------------------------------------------------------------------------
(* The path implements module Session.                                     *)

stageNow == [c \in Client |-> Stage(c)]
openedNow ==
  [i \in Initiators |-> IF chosen[i].n = 0 THEN NoPeer ELSE SessionOf(chosen[i].sess, task[i])]
enteredNow ==
  [r \in Responders |-> IF initiator[r].hs # "auth-received" THEN NoPeer
                        ELSE SessionOf(initiator[r].sess, task[r])]

(* A session key names its two holders.                                    *)
LEMMA Holders ==
  ASSUME NEW i \in Initiators, NEW n, NEW r \in Responders, NEW k
  PROVE  LET key == SessionKey(<<i, n>>, <<r, k>>)
         IN Holder(key, Initiators) = i /\ Holder(key, Responders) = r
<1>1. PICK key : key = SessionKey(<<i, n>>, <<r, k>>)
  OBVIOUS
<1>2. key[2] = {<<i, n>>, <<r, k>>}
  BY <1>1, KeyHalves
<1>3. \A c : (\E half \in key[2] : half[1] = c) <=> c \in {i, r}
  BY <1>2
<1>4. Holder(key, Initiators) = i
  <2>1. \A c \in Initiators : (\E half \in key[2] : half[1] = c) <=> c = i
    BY <1>3, Sides
  <2> QED BY <2>1 DEF Holder
<1>5. Holder(key, Responders) = r
  <2>1. \A c \in Responders : (\E half \in key[2] : half[1] = c) <=> c = r
    BY <1>3, Sides
  <2> QED BY <2>1 DEF Holder
<1> QED BY <1>1, <1>4, <1>5

LEMMA SessionNamed ==
  ASSUME NEW i \in Initiators, NEW n \in Nat, NEW r \in Responders, NEW k \in Nat, NEW t
  PROVE  LET key == SessionKey(<<i, n>>, <<r, k>>)
         IN /\ key \in Key
            /\ SessionOf(key, t) = [initiator |-> i, responder |-> r, key |-> key, task |-> t]
<1>1. PICK key : key = SessionKey(<<i, n>>, <<r, k>>)
  OBVIOUS
<1>2. Holder(key, Initiators) = i /\ Holder(key, Responders) = r
  BY <1>1, Holders
<1>3. key \in Key
  <2>1. <<i, n>> \in Name /\ <<r, k>> \in Name
    BY Sides DEF Name
  <2> QED BY <1>1, <2>1 DEF Key, KeyKind, SessionKey
<1>4. SessionOf(key, t) = [initiator |-> i, responder |-> r, key |-> key, task |-> t]
  BY <1>2 DEF SessionOf
<1> QED BY <1>1, <1>3, <1>4

LEMMA InitRefines == Init => Promise!SessionInit
<1> SUFFICES ASSUME Init PROVE Promise!SessionInit
  OBVIOUS
<1>1. \A c \in Client : Stage(c) = "idle"
  BY DEF Init, InitCommon, NoConn, Stage
<1>2. \A i \in Initiators : chosen[i].n = 0
  BY DEF Init, InitInitiator, NoResponder
<1>3. \A r \in Responders : initiator[r].hs # "auth-received"
  BY DEF Init, InitResponder, NewInitiator
<1>4. stageNow = [c \in Client |-> "idle"]
  BY <1>1 DEF stageNow
<1>5. openedNow = [i \in Initiators |-> NoPeer]
  BY <1>2 DEF openedNow
<1>6. enteredNow = [r \in Responders |-> NoPeer]
  BY <1>3 DEF enteredNow
<1> QED BY <1>4, <1>5, <1>6
       DEF Promise!SessionInit, Promise!Member, Client, stageNow, openedNow, enteredNow

(* What is opened and entered now are sessions.                            *)
LEMMA OpenedSession ==
  ASSUME PathInv, NEW i \in Initiators, chosen[i].n # 0
  PROVE  /\ openedNow[i] = SessionOf(chosen[i].sess, task[i])
         /\ openedNow[i] \in Promise!Sessions
         /\ openedNow[i].initiator = i /\ openedNow[i].key = chosen[i].sess
<1>1. PICK r \in Responders : /\ Agreed(i, r, task[i])
                              /\ \E k \in 1 .. initiator[r].n :
                                   chosen[i].sess = SessionKey(<<i, chosen[i].n>>, <<r, k>>)
  BY OpenedNames
<1>2. PICK k \in 1 .. initiator[r].n : chosen[i].sess = SessionKey(<<i, chosen[i].n>>, <<r, k>>)
  BY <1>1
<1>3. chosen[i].n \in Nat /\ k \in Nat
  <2>1. chosen[i].n \in Nat
    BY OpenedNames
  <2>2. initiator[r].n \in Nat
    BY Its
  <2> QED BY <2>1, <2>2
<1>4. /\ chosen[i].sess \in Key
      /\ SessionOf(chosen[i].sess, task[i]) =
           [initiator |-> i, responder |-> r, key |-> chosen[i].sess, task |-> task[i]]
  BY <1>2, <1>3, SessionNamed
<1>5. task[i] \in TaskNames
  BY <1>1, ResponderAssumption DEF Agreed
<1>6. openedNow[i] = SessionOf(chosen[i].sess, task[i])
  BY DEF openedNow
<1> QED BY <1>4, <1>5, <1>6 DEF Promise!Sessions

(* Nothing new is known: at most one client comes to its end.              *)
LEMMA NothingNewRefines ==
  ASSUME PathInv, NothingNew
  PROVE  [Promise!SessionNext]_(Promise!sessionVars)
<1>1. openedNow' = openedNow
  <2>1. ASSUME NEW i \in Initiators
        PROVE  (IF chosen'[i].n = 0 THEN NoPeer ELSE SessionOf(chosen'[i].sess, task'[i])) =
               (IF chosen[i].n = 0 THEN NoPeer ELSE SessionOf(chosen[i].sess, task[i]))
    BY DEF NothingNew, Lasts
  <2> QED BY <2>1 DEF openedNow, SessionOf, Holder
<1>2. enteredNow' = enteredNow
  <2>1. ASSUME NEW r \in Responders
        PROVE  (IF initiator'[r].hs # "auth-received" THEN NoPeer ELSE SessionOf(initiator'[r].sess, task'[r])) =
               (IF initiator[r].hs # "auth-received" THEN NoPeer ELSE SessionOf(initiator[r].sess, task[r]))
    BY DEF NothingNew, Lasts
  <2> QED BY <2>1 DEF enteredNow, SessionOf, Holder
<1>3. PICK c \in Client : Drift(c) /\ \A d \in Client \ {c} : conn'[d] = conn[d]
  BY DEF NothingNew
<1>4. \A d \in Client \ {c} : stageNow'[d] = stageNow[d]
  BY <1>3 DEF stageNow, Stage
<1>5. stageNow'[c] = stageNow[c] \/ stageNow'[c] = "over"
  <2>1. ~conn[c].used => conn[c].state \in {"new", "closed"}
    BY Streams DEF ConnInv, Link
  <2>2. stageNow'[c] = Stage(c)' /\ stageNow[c] = Stage(c)
    BY DEF stageNow
  <2>3. CASE conn'[c].state = conn[c].state /\ conn'[c].used = conn[c].used
    BY <2>2, <2>3 DEF Stage
  <2>4. CASE conn'[c].used /\ conn'[c].state \in {"new", "closed"}
    BY <2>2, <2>4 DEF Stage
  <2>5. CASE ~conn[c].used /\ conn'[c].used /\ conn'[c].state = "ws-connecting"
    BY <2>1, <2>2, <2>5 DEF Stage
  <2>6. CASE /\ conn[c].state \in {"ws-connecting", "server-handshake"}
             /\ conn'[c].state \in {"server-handshake", "peer-handshake"}
    BY <2>2, <2>6 DEF Stage
  <2> QED BY <1>3, <2>3, <2>4, <2>5, <2>6 DEF Drift
<1>6. stageNow = [d \in Client |-> stageNow[d]] /\ stageNow' = [d \in Client |-> stageNow'[d]]
  BY DEF stageNow
<1>7. CASE stageNow'[c] = stageNow[c]
  <2>1. stageNow' = stageNow
    BY <1>4, <1>6, <1>7
  <2> QED BY <1>1, <1>2, <2>1 DEF Promise!sessionVars, stageNow, openedNow, enteredNow
<1>8. CASE stageNow'[c] = "over" /\ stageNow[c] # "over"
  <2>1. stageNow' = [stageNow EXCEPT ![c] = "over"]
    BY <1>4, <1>6, <1>8
  <2>2. Promise!End(c)
    BY <1>1, <1>2, <1>8, <2>1 DEF Promise!End, stageNow, openedNow, enteredNow
  <2> QED BY <2>2 DEF Promise!SessionNext, Promise!Member, Client
<1> QED BY <1>5, <1>7, <1>8

(* An initiator that chooses a responder opens a session with a new key.   *)
LEMMA HandleAuthRefines ==
  ASSUME PathInv, NEW i \in Initiators, NEW m, ToInitiator(m), HandleAuth(i, m),
         UNCHANGED initiator
  PROVE  Promise!Open(i)
<1> DEFINE s == Saved(i, m)
           o == [s EXCEPT !.cookie = m.cookie, !.hs = "auth-sent", !.out = @ + 1]
<1> PICK t : t = ChosenTask(i, m)
  OBVIOUS
<1>1. /\ conn[i].state = "peer-handshake" /\ chosen[i].n = 0 /\ t \in TaskNames
      /\ ResponderFields(s) /\ s.n \in Nat \ {0}
      /\ \E r \in Responders : SharedKey(i, s.n, r, s.sess)
  BY HandleAuthSees
<1>2. /\ task' = [task EXCEPT ![i] = t] /\ chosen' = [chosen EXCEPT ![i] = o]
      /\ conn' = [conn EXCEPT ![i].state = "task"]
  BY DEF HandleAuth
<1> HIDE DEF s
<1>3. o.n = s.n /\ o.sess = s.sess
  BY <1>1 DEF ResponderFields
<1> HIDE DEF o
<1>4. PICK r \in Responders : \E k \in 1 .. initiator[r].n : o.sess = SessionKey(<<i, o.n>>, <<r, k>>)
  BY <1>1, <1>3 DEF SharedKey
<1>5. PICK k \in 1 .. initiator[r].n : o.sess = SessionKey(<<i, o.n>>, <<r, k>>)
  BY <1>4
<1>6. k \in Nat /\ o.n \in Nat
  <2>1. initiator[r].n \in Nat
    BY Its
  <2> QED BY <1>1, <1>3, <2>1
<1>7. /\ o.sess \in Key
      /\ SessionOf(o.sess, t) = [initiator |-> i, responder |-> r, key |-> o.sess, task |-> t]
  BY <1>5, <1>6, SessionNamed
<1>8. SessionOf(o.sess, t) \in Promise!Sessions
  BY <1>1, <1>7 DEF Promise!Sessions
<1>9. /\ i \in Client /\ DomainsOK /\ ConnInv
      /\ chosen'[i] = o /\ task'[i] = t
      /\ \A j \in Initiators \ {i} : chosen'[j] = chosen[j] /\ task'[j] = task[j]
  BY <1>2, Mine, Sides DEF PathInv, DomainsOK
<1>10. openedNow' = [openedNow EXCEPT ![i] = SessionOf(o.sess, t)]
  <2>1. \A j \in Initiators :
          (IF chosen'[j].n = 0 THEN NoPeer ELSE SessionOf(chosen'[j].sess, task'[j])) =
          IF j = i THEN SessionOf(o.sess, t)
          ELSE IF chosen[j].n = 0 THEN NoPeer ELSE SessionOf(chosen[j].sess, task[j])
    BY <1>1, <1>3, <1>9
  <2> QED BY <2>1 DEF openedNow, SessionOf, Holder
<1>11. openedNow'[i] = SessionOf(o.sess, t)
  BY <1>10 DEF openedNow
<1>12. stageNow[i] = "idle" /\ stageNow' = [stageNow EXCEPT ![i] = "session"]
  <2>1. /\ conn'[i].state = "task" /\ \A c \in Client \ {i} : conn'[c] = conn[c]
    BY <1>2, <1>9 DEF ConnInv, ConnRecord
  <2>2. Stage(i) = "idle" /\ \A c \in Client : Stage(c)' = IF c = i THEN "session" ELSE Stage(c)
    BY <1>1, <2>1 DEF Stage
  <2> QED BY <1>9, <2>2 DEF stageNow
<1>13. UNCHANGED enteredNow
  <2>1. \A q \in Responders : initiator'[q] = initiator[q] /\ task'[q] = task[q]
    BY <1>2, <1>9, Sides DEF DomainsOK
  <2> QED BY <2>1 DEF enteredNow, SessionOf, Holder
<1>14. o.sess \notin {openedNow[j].key : j \in {l \in Initiators : openedNow[l] # NoPeer}}
  <2> SUFFICES ASSUME NEW j \in Initiators, openedNow[j] # NoPeer, openedNow[j].key = o.sess
               PROVE  FALSE
    OBVIOUS
  <2>1. chosen[j].n # 0
    BY DEF openedNow
  <2>2. chosen[j].sess = o.sess
    BY <2>1, OpenedSession
  <2>3. PICK q \in Responders : \E l \in 1 .. initiator[q].n :
                                  chosen[j].sess = SessionKey(<<j, chosen[j].n>>, <<q, l>>)
    BY <2>1, OpenedNames
  <2>4. PICK l : chosen[j].sess = SessionKey(<<j, chosen[j].n>>, <<q, l>>)
    BY <2>3
  <2>5. SessionKey(<<i, o.n>>, <<r, k>>) = SessionKey(<<q, l>>, <<j, chosen[j].n>>)
    BY <1>5, <2>2, <2>4, KeyHalves
  <2>6. i = j
    BY <2>5, OneSession
  <2> QED BY <1>1, <2>1, <2>6
<1>15. SessionOf(o.sess, t).initiator = i /\ SessionOf(o.sess, t).key = o.sess
  BY <1>7
<1> QED BY <1>8, <1>10, <1>11, <1>12, <1>13, <1>14, <1>15
        DEF Promise!Open, Promise!Issued, openedNow, stageNow, enteredNow

(* A responder that authenticates an initiator enters the session it has   *)
(* opened for it.                                                          *)
LEMMA InitiatorAuthRefines ==
  ASSUME NoPeer \notin Promise!Sessions,
         PathInv, NEW r \in Responders, NEW m, ToResponder(m), InitiatorAuth(r, m),
         UNCHANGED peerVars
  PROVE  Promise!Enter(r)
<1> DEFINE old == initiator[r]
           new == [initiator[r] EXCEPT !.hs = "auth-received", !.in = m.csn, !.cookie = m.cookie]
<1>1. /\ conn[r].state = "peer-handshake" /\ old.hs = "auth-sent" /\ m.key = old.sess
      /\ m.type = "auth"
      /\ task' = [task EXCEPT ![r] = m.body.task]
      /\ initiator' = [initiator EXCEPT ![r] = new]
      /\ conn' = [conn EXCEPT ![r].state = "task"]
  BY DEF InitiatorAuth, AuthArrived, FromInitiator, AuthExpectedFrom
<1>2. /\ r \in Client /\ r \notin Initiators /\ InitiatorFields(old) /\ old.n \in Nat
      /\ OwnKey(r, old.n, old.sess) /\ DomainsOK /\ ConnInv
  BY <1>1, Its DEF PathInv, ResponderOK
<1>3. new.hs = "auth-received" /\ new.sess = old.sess
  BY <1>2 DEF InitiatorFields
<1> HIDE DEF new
<1>4. PICK i \in Initiators : Opened(i, old.sess) /\ task[i] = m.body.task
  BY <1>1 DEF ToResponder
<1>5. /\ chosen[i].n # 0 /\ chosen[i].sess = old.sess
      /\ openedNow[i] = SessionOf(old.sess, m.body.task) /\ openedNow[i] # NoPeer
  BY <1>4, OpenedSession DEF Opened
<1>6. openedNow[i].responder = r
  <2>1. PICK j \in Initiators, k \in Nat : old.sess = SessionKey(<<r, old.n>>, <<j, k>>)
    BY <1>2 DEF OwnKey
  <2>2. old.sess = SessionKey(<<j, k>>, <<r, old.n>>)
    BY <2>1, KeyHalves
  <2>3. Holder(old.sess, Responders) = r
    BY <2>2, Holders
  <2> QED BY <1>5, <2>3 DEF SessionOf
<1>7. /\ initiator'[r] = new /\ task'[r] = m.body.task
      /\ \A s \in Responders \ {r} : initiator'[s] = initiator[s] /\ task'[s] = task[s]
  BY <1>1, <1>2, Sides DEF DomainsOK
<1>8. enteredNow' = [enteredNow EXCEPT ![r] = openedNow[i]]
  <2>1. \A s \in Responders :
          (IF initiator'[s].hs # "auth-received" THEN NoPeer ELSE SessionOf(initiator'[s].sess, task'[s])) =
          IF s = r THEN SessionOf(old.sess, m.body.task)
          ELSE IF initiator[s].hs # "auth-received" THEN NoPeer ELSE SessionOf(initiator[s].sess, task[s])
    BY <1>3, <1>7
  <2> QED BY <1>5, <2>1 DEF enteredNow, SessionOf, Holder
<1>9. UNCHANGED openedNow
  <2>1. \A j \in Initiators : chosen'[j] = chosen[j] /\ task'[j] = task[j]
    BY <1>1, <1>2, Sides DEF peerVars, DomainsOK
  <2>2. \A j \in Initiators :
          (IF chosen'[j].n = 0 THEN NoPeer ELSE SessionOf(chosen'[j].sess, task'[j])) =
          (IF chosen[j].n = 0 THEN NoPeer ELSE SessionOf(chosen[j].sess, task[j]))
    BY <2>1
  <2> QED BY <2>2 DEF openedNow, SessionOf, Holder
<1>10. stageNow[r] = "idle" /\ stageNow' = [stageNow EXCEPT ![r] = "session"]
  <2>1. conn'[r].state = "task" /\ \A c \in Client \ {r} : conn'[c] = conn[c]
    BY <1>1, <1>2 DEF ConnInv, ConnRecord
  <2>2. Stage(r) = "idle" /\ \A c \in Client : Stage(c)' = IF c = r THEN "session" ELSE Stage(c)
    BY <1>1, <2>1 DEF Stage
  <2> QED BY <1>2, <2>2 DEF stageNow
<1> QED BY <1>5, <1>6, <1>8, <1>9, <1>10 DEF Promise!Enter, openedNow, stageNow, enteredNow

LEMMA StutterRefines == ASSUME UNCHANGED vars PROVE UNCHANGED Promise!sessionVars
BY DEF vars, commonVars, peerVars, Promise!sessionVars, Stage, SessionOf, Holder

LEMMA NextRefines ==
  ASSUME NoPeer \notin Promise!Sessions
  PROVE  PathInv /\ [Next]_vars => [Promise!SessionNext]_(Promise!sessionVars)
<1> SUFFICES ASSUME PathInv, [Next]_vars PROVE [Promise!SessionNext]_(Promise!sessionVars)
  OBVIOUS
<1>1. CASE UNCHANGED vars
  BY <1>1, StutterRefines
<1>2. ASSUME NEW c \in Client, Step(c) \/ Leaves(c) \/ Sends(c)
      PROVE  [Promise!SessionNext]_(Promise!sessionVars)
  <2> DEFINE m == Head(inbox[c])
  <2>1. \/ NothingNew
        \/ c \in Initiators /\ inbox[c] # <<>> /\ UNCHANGED initiator /\ HandleAuth(c, m)
        \/ c \in Responders /\ inbox[c] # <<>> /\ UNCHANGED peerVars /\ InitiatorAuth(c, m)
    BY <1>2, PathStep
  <2>2. inbox[c] # <<>> =>
          (c \in Initiators => ToInitiator(m)) /\ (c \in Responders => ToResponder(m))
    BY Streams, Read1 DEF InboxInv, PathInv, StreamsOK
  <2> HIDE DEF m
  <2>3. CASE NothingNew
    BY <2>3, NothingNewRefines
  <2>4. CASE c \in Initiators /\ inbox[c] # <<>> /\ UNCHANGED initiator /\ HandleAuth(c, m)
    BY <2>2, <2>4, HandleAuthRefines DEF Promise!SessionNext
  <2>5. CASE c \in Responders /\ inbox[c] # <<>> /\ UNCHANGED peerVars /\ InitiatorAuth(c, m)
    BY <2>2, <2>5, InitiatorAuthRefines DEF Promise!SessionNext
  <2> QED BY <2>1, <2>3, <2>4, <2>5
<1> QED BY <1>1, <1>2 DEF Next

(* Every path implements Session: whatever the clients and the server do,  *)
(* and whatever is lost, late or redirected, the applications see nothing  *)
(* but initiators that open sessions with keys nobody has, responders that *)
(* enter the sessions opened for them, and clients that leave.             *)
THEOREM PathImplementsSession ==
  ASSUME NoPeer \notin Promise!Sessions
  PROVE  Spec => KeepsPromise
<1>1. Init => Promise!SessionInit
  BY InitRefines
<1>2. PathInv /\ [Next]_vars => [Promise!SessionNext]_(Promise!sessionVars)
  BY NextRefines
<1> QED BY <1>1, <1>2, PathInvariant, PTL DEF Spec, KeepsPromise, Promise!SessionSpec

(* What follows for the applications of a path, in its own terms: whoever  *)
(* has entered a session has the one that its initiator opened for it, and *)
(* no session key is known to two initiators or to two responders.         *)
THEOREM PathPairs ==
  ASSUME NoPeer \notin Promise!Sessions
  PROVE  Spec => [](Promise!Agreement /\ Promise!Exclusive)
<1>1. ASSUME PathInv PROVE Promise!Agreement
  <2>1. ASSUME NEW r \in Responders, enteredNow[r] # NoPeer
        PROVE  openedNow[enteredNow[r].initiator] = enteredNow[r] /\ enteredNow[r].responder = r
    <3>1. initiator[r].hs = "auth-received" /\ enteredNow[r] = SessionOf(initiator[r].sess, task[r])
      BY <2>1 DEF enteredNow
    <3>2. PICK i \in Initiators : Opened(i, initiator[r].sess) /\ task[i] = task[r]
      BY <1>1, <3>1, EnteredNames
    <3>3. openedNow[i] = enteredNow[r] /\ enteredNow[r].initiator = i
      BY <1>1, <3>1, <3>2, OpenedSession DEF Opened
    <3>4. PICK j \in Initiators, k \in Nat : initiator[r].sess = SessionKey(<<r, initiator[r].n>>, <<j, k>>)
      BY <1>1, <3>1, EnteredNames DEF OwnKey
    <3>5. initiator[r].sess = SessionKey(<<j, k>>, <<r, initiator[r].n>>)
      BY <3>4, KeyHalves
    <3>6. Holder(initiator[r].sess, Responders) = r
      BY <3>5, Holders
    <3>7. enteredNow[r].responder = r
      BY <3>1, <3>6 DEF SessionOf
    <3> QED BY <3>3, <3>7
  <2> QED BY <2>1 DEF Promise!Agreement, enteredNow, openedNow
<1>2. ASSUME PathInv PROVE Promise!Exclusive
  <2>1. ASSUME NEW i \in Initiators, NEW j \in Initiators, openedNow[i] # NoPeer,
               openedNow[j] # NoPeer, openedNow[i].key = openedNow[j].key
        PROVE  i = j
    <3>1. chosen[i].n # 0 /\ chosen[j].n # 0
      BY <2>1 DEF openedNow
    <3>2. Opened(i, chosen[i].sess) /\ Opened(j, chosen[i].sess)
      BY <1>2, <2>1, <3>1, OpenedSession DEF Opened
    <3> QED BY <1>2, <3>2, OneInitiator
  <2>2. ASSUME NEW r \in Responders, NEW s \in Responders, enteredNow[r] # NoPeer,
               enteredNow[s] # NoPeer, enteredNow[r].key = enteredNow[s].key
        PROVE  r = s
    <3>1. /\ initiator[r].hs = "auth-received" /\ enteredNow[r].key = initiator[r].sess
          /\ initiator[s].hs = "auth-received" /\ enteredNow[s].key = initiator[s].sess
      BY <2>2 DEF enteredNow, SessionOf
    <3>2. Entered(r, initiator[r].sess) /\ Entered(s, initiator[r].sess)
      BY <2>2, <3>1 DEF Entered
    <3> QED BY <1>2, <3>2, OneResponder
  <2> QED BY <2>1, <2>2 DEF Promise!Exclusive, enteredNow, openedNow
<1> QED BY <1>1, <1>2, PathInvariant, PTL
=============================================================================
