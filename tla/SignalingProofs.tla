--------------------------- MODULE SignalingProofs ---------------------------
(***************************************************************************)
(* What the code that both roles share does to the connection and to the   *)
(* Server object of one client.  Every lemma is about one operation of     *)
(* Signaling, for any client, and leaves the other clients alone.          *)
(***************************************************************************)
EXTENDS Signaling, FiniteSetTheorems, SequenceTheorems, WellFoundedInduction, TLAPS

(* What ties the socket of one client to its state.  Beyond SocketInv: a   *)
(* socket that is connecting belongs to a client that is waiting for it,   *)
(* one that is closing has a code, and an instance that was never          *)
(* connected has none.                                                     *)
Link(cn, h) ==
  /\ cn.socket = "open" => cn.ws /\ cn.state \in {"server-handshake", "peer-handshake", "task"}
  /\ cn.state \in {"server-handshake", "peer-handshake"} => cn.socket = "open"
  /\ cn.state = "task" /\ ~(h.local /\ h.peer) => cn.socket = "open"
  /\ cn.socket = "connecting" => cn.ws /\ cn.state = "ws-connecting"
  /\ cn.socket = "closing" => cn.code # 0
  /\ ~cn.used => ~cn.ws /\ cn.socket = "none" /\ cn.state \in {"new", "closed"}

HandoverRecord == [local : BOOLEAN, peer : BOOLEAN]

ConnInv ==
  /\ conn \in [Client -> ConnRecord]
  /\ handover \in [Client -> HandoverRecord]
  /\ \A c \in Client : Link(conn[c], handover[c])

LEMMA Codes ==
  /\ {ClosingNormal, GoingAway, AbnormalClosure, PathFull, ProtocolError, InternalError, Handover,
      DroppedByInitiator, InitiatorCouldNotDecrypt, NoSharedTask} \subseteq CloseCode
  /\ \A code \in CloseCode : WireCode(code) \in CloseCode /\ WireCode(code) # 0
BY DEF CloseCode, WireCode, ClosingNormal, GoingAway, AbnormalClosure, PathFull, ProtocolError,
       InternalError, Handover, DroppedByInitiator, InitiatorCouldNotDecrypt, NoSharedTask

LEMMA CloseWebsocketType ==
  ASSUME NEW cn \in ConnRecord, NEW code \in CloseCode, NEW unbind \in BOOLEAN
  PROVE  /\ CloseWebsocket(cn, code, unbind) \in ConnRecord
         /\ CloseWebsocket(cn, code, unbind).used = cn.used
         /\ ~CloseWebsocket(cn, code, unbind).ws
         /\ unbind \/ CloseWebsocket(cn, code, unbind).state = cn.state
         /\ CloseWebsocket(cn, code, unbind).socket =
              IF cn.ws /\ cn.socket # "closed" THEN "closing" ELSE cn.socket
         /\ (cn.socket = "closing" => cn.code # 0)
              => (CloseWebsocket(cn, code, unbind).socket = "closing"
                    => CloseWebsocket(cn, code, unbind).code # 0)
<1>1. WireCode(code) \in CloseCode /\ WireCode(code) # 0
  BY Codes
<1> QED BY <1>1 DEF CloseWebsocket, ConnRecord, SignalingState, Socket

LEMMA ClosedType ==
  ASSUME NEW cn \in ConnRecord, NEW code \in CloseCode
  PROVE  /\ Closed(cn, code) \in ConnRecord
         /\ Closed(cn, code).used = cn.used /\ Closed(cn, code).socket = "closed"
         /\ Closed(cn, code).ws = cn.ws
         /\ Closed(cn, code).state = IF code = Handover THEN cn.state ELSE "closed"
<1>1. /\ (IF cn.code = 0 THEN code ELSE cn.code) \in {0} \cup CloseCode
      /\ (IF code = Handover THEN cn.closes ELSE cn.closes + 1) \in Nat
      /\ (IF code = Handover THEN cn.state ELSE "closed") \in SignalingState
      /\ "closed" \in Socket
  BY DEF ConnRecord, SignalingState, Socket
<1> QED BY <1>1 DEF Closed, ConnRecord

(* What becomes of the connection of one client leaves the others alone.   *)
Apart(c) == \A d \in Client \ {c} : conn'[d] = conn[d]

LEMMA ConnFrame ==
  ASSUME ConnInv, NEW c \in Client, NEW cn \in ConnRecord, NEW h \in HandoverRecord,
         Link(cn, h), conn' = [conn EXCEPT ![c] = cn], handover' = [handover EXCEPT ![c] = h]
  PROVE  ConnInv' /\ conn'[c] = cn /\ Apart(c)
<1> USE DEF ConnInv
<1>1. conn' \in [Client -> ConnRecord] /\ handover' \in [Client -> HandoverRecord]
  OBVIOUS
<1>2. ASSUME NEW d \in Client PROVE Link(conn'[d], handover'[d])
  <2>1. CASE d = c
    BY <2>1
  <2>2. CASE d # c
    <3>1. conn'[d] = conn[d] /\ handover'[d] = handover[d]
      BY <2>2
    <3> QED BY <3>1
  <2> QED BY <2>1, <2>2
<1> QED BY <1>1, <1>2 DEF Apart

(* The parts of the actions that touch the connection, one by one.         *)
LEMMA NoHandoverType == NoHandover \in HandoverRecord /\ ~NoHandover.local /\ ~NoHandover.peer
BY DEF NoHandover, HandoverRecord

LEMMA ConnectConn ==
  ASSUME ConnInv, NEW c \in Client, Connect(c)
  PROVE  ConnInv' /\ Apart(c) /\ conn'[c].used /\ conn'[c].state = "ws-connecting" /\ ~conn[c].used
<1> DEFINE cn == [conn[c] EXCEPT !.used = TRUE, !.ws = TRUE,
                                 !.socket = "connecting", !.state = "ws-connecting"]
<1>1. /\ cn \in ConnRecord /\ cn.used /\ cn.ws
      /\ cn.socket = "connecting" /\ cn.state = "ws-connecting"
  BY DEF ConnInv, ConnRecord, SignalingState, Socket
<1>2. conn' = [conn EXCEPT ![c] = cn] /\ handover' = [handover EXCEPT ![c] = NoHandover]
  BY DEF Connect, ConnInv
<1> HIDE DEF cn
<1>3. Link(cn, NoHandover)
  BY <1>1 DEF Link
<1>4. ConnInv' /\ conn'[c] = cn /\ Apart(c)
  BY <1>1, <1>2, <1>3, NoHandoverType, ConnFrame
<1>5. ~conn[c].used
  BY DEF Connect
<1> QED BY <1>1, <1>4, <1>5, Zenon

LEMMA ResetConn ==
  ASSUME ConnInv, NEW c \in Client, NEW reason \in CloseCode, NEW sent, Reset(c, reason, sent)
  PROVE  ConnInv' /\ Apart(c) /\ conn'[c].state = "new" /\ conn'[c].used = conn[c].used
<1> DEFINE closed == CloseWebsocket(conn[c], reason, TRUE)
           cn == [closed EXCEPT !.state = "new"]
<1>1. /\ conn[c] \in ConnRecord /\ Link(conn[c], handover[c])
      /\ conn \in [Client -> ConnRecord]
  BY DEF ConnInv
<1>2. /\ closed \in ConnRecord /\ closed.used = conn[c].used /\ ~closed.ws
      /\ closed.socket = IF conn[c].ws /\ conn[c].socket # "closed" THEN "closing"
                         ELSE conn[c].socket
      /\ closed.socket = "closing" => closed.code # 0
  BY <1>1, CloseWebsocketType DEF Link
<1>3. conn' = [conn EXCEPT ![c] = cn] /\ handover' = [handover EXCEPT ![c] = NoHandover]
  BY <1>1 DEF Reset
<1> HIDE DEF closed
<1>4. cn \in ConnRecord /\ cn.socket = closed.socket /\ cn.used = closed.used /\ ~cn.ws
      /\ cn.code = closed.code /\ cn.state = "new"
  BY <1>2 DEF ConnRecord, SignalingState
<1> HIDE DEF cn
<1>5. Link(cn, NoHandover)
  BY <1>1, <1>2, <1>4, NoHandoverType DEF Link
<1>6. conn'[c] = cn
  BY <1>1, <1>3
<1> QED BY <1>2, <1>3, <1>4, <1>5, <1>6, NoHandoverType, ConnFrame

LEMMA DisconnectConn ==
  ASSUME ConnInv, NEW c \in Client, NEW unbind \in BOOLEAN, Disconnect(c, unbind)
  PROVE  ConnInv' /\ Apart(c) /\ conn'[c].state = "closed" /\ conn'[c].used = conn[c].used
<1> DEFINE closing == [conn[c] EXCEPT !.state = "closing"]
           closed == CloseWebsocket(closing, ClosingNormal, unbind)
           cn == [closed EXCEPT !.state = "closed"]
<1>1. /\ conn[c] \in ConnRecord /\ Link(conn[c], handover[c])
      /\ conn \in [Client -> ConnRecord]
      /\ handover \in [Client -> HandoverRecord] /\ handover[c] \in HandoverRecord
  BY DEF ConnInv
<1>2. /\ closing \in ConnRecord /\ closing.used = conn[c].used
      /\ closing.socket = conn[c].socket /\ closing.ws = conn[c].ws
      /\ closing.code = conn[c].code
  BY <1>1 DEF ConnRecord, SignalingState
<1> HIDE DEF closing
<1>3. ClosingNormal \in CloseCode /\ (closing.socket = "closing" => closing.code # 0)
  BY <1>1, <1>2, Codes DEF Link
<1>4. /\ closed \in ConnRecord /\ closed.used = closing.used /\ ~closed.ws
      /\ closed.socket = IF closing.ws /\ closing.socket # "closed" THEN "closing"
                         ELSE closing.socket
      /\ closed.socket = "closing" => closed.code # 0
  BY <1>2, <1>3, CloseWebsocketType
<1>5. conn' = [conn EXCEPT ![c] = cn] /\ handover' = [handover EXCEPT ![c] = handover[c]]
  BY <1>1 DEF Disconnect, closing
<1> HIDE DEF closed
<1>6. cn \in ConnRecord /\ cn.socket = closed.socket /\ cn.used = closed.used /\ ~cn.ws
      /\ cn.code = closed.code /\ cn.state = "closed"
  BY <1>4 DEF ConnRecord, SignalingState
<1> HIDE DEF cn
<1>7. Link(cn, handover[c])
  BY <1>1, <1>2, <1>4, <1>6 DEF Link
<1>8. conn'[c] = cn
  BY <1>1, <1>5
<1> QED BY <1>1, <1>2, <1>4, <1>5, <1>6, <1>7, <1>8, ConnFrame

(* A close event never leaves a client in a state that needs a socket.     *)
LEMMA OnCloseConn ==
  ASSUME ConnInv, NEW c \in Client, NEW code \in CloseCode, OnClose(c, code),
         handover' = handover, conn[c].socket # "none",
         code = Handover => conn[c].socket = "closing"
  PROVE  /\ ConnInv' /\ Apart(c) /\ conn'[c].used = conn[c].used
         /\ conn'[c].state \in {conn[c].state, "closed"}
<1> DEFINE cn == Closed(conn[c], code)
<1>1. /\ conn[c] \in ConnRecord /\ Link(conn[c], handover[c])
      /\ conn \in [Client -> ConnRecord]
      /\ handover \in [Client -> HandoverRecord] /\ handover[c] \in HandoverRecord
  BY DEF ConnInv
<1>2. /\ cn \in ConnRecord /\ cn.socket = "closed" /\ cn.used = conn[c].used
      /\ cn.ws = conn[c].ws /\ cn.state = IF code = Handover THEN conn[c].state ELSE "closed"
  BY <1>1, ClosedType
<1>3. conn' = [conn EXCEPT ![c] = cn] /\ handover' = [handover EXCEPT ![c] = handover[c]]
  BY <1>1 DEF OnClose
<1> HIDE DEF cn
<1>4. Link(cn, handover[c])
  BY <1>1, <1>2 DEF Link
<1>5. conn'[c] = cn
  BY <1>1, <1>3
<1> QED BY <1>1, <1>2, <1>3, <1>4, <1>5, ConnFrame

(* Both flags together close the socket, and nothing else does.            *)
LEMMA SetHandoverConn ==
  ASSUME ConnInv, NEW c \in Client, NEW flags \in HandoverRecord, NEW rest, NEW sent,
         SetHandover(c, flags, rest, sent), ~Both(c), conn[c].state = "task"
  PROVE  ConnInv' /\ Apart(c) /\ conn'[c].state = "task" /\ conn'[c].used = conn[c].used
<1> DEFINE done == flags.local /\ flags.peer /\ ~Both(c)
           closed == CloseWebsocket(conn[c], Handover, FALSE)
           cn == IF done THEN closed ELSE conn[c]
<1>1. /\ conn[c] \in ConnRecord /\ Link(conn[c], handover[c])
      /\ conn \in [Client -> ConnRecord]
  BY DEF ConnInv
<1>2. /\ closed \in ConnRecord /\ closed.used = conn[c].used /\ ~closed.ws
      /\ closed.state = conn[c].state
      /\ closed.socket = IF conn[c].ws /\ conn[c].socket # "closed" THEN "closing"
                         ELSE conn[c].socket
      /\ closed.socket = "closing" => closed.code # 0
  BY <1>1, CloseWebsocketType, Codes DEF Link
<1>3. conn' = [conn EXCEPT ![c] = cn] /\ handover' = [handover EXCEPT ![c] = flags]
  BY DEF SetHandover
<1> HIDE DEF closed
<1>4. cn \in ConnRecord /\ cn.used = conn[c].used /\ cn.state = conn[c].state
  BY <1>1, <1>2
<1>5. Link(cn, flags)
  BY <1>1, <1>2 DEF Link, Both
<1> HIDE DEF cn
<1>6. conn'[c] = cn
  BY <1>1, <1>3
<1> QED BY <1>3, <1>4, <1>5, <1>6, ConnFrame

(* A handler that moves on in the handshake keeps the socket open.         *)
LEMMA AdvanceConn ==
  ASSUME ConnInv, NEW c \in Client, conn[c].socket = "open",
         NEW state \in {"peer-handshake", "task"},
         conn' = [conn EXCEPT ![c].state = state], handover' = handover
  PROVE  ConnInv' /\ Apart(c) /\ conn'[c].state = state /\ conn'[c].used = conn[c].used
<1> DEFINE cn == [conn[c] EXCEPT !.state = state]
<1>1. /\ conn[c] \in ConnRecord /\ Link(conn[c], handover[c])
      /\ conn \in [Client -> ConnRecord]
      /\ handover \in [Client -> HandoverRecord] /\ handover[c] \in HandoverRecord
  BY DEF ConnInv
<1>2. /\ cn \in ConnRecord /\ cn.used = conn[c].used /\ cn.state = state
      /\ cn.socket = "open" /\ cn.ws = conn[c].ws
  BY <1>1 DEF ConnRecord, SignalingState
<1>3. conn' = [conn EXCEPT ![c] = cn] /\ handover' = [handover EXCEPT ![c] = handover[c]]
  BY <1>1
<1> HIDE DEF cn
<1>4. Link(cn, handover[c])
  BY <1>1, <1>2 DEF Link
<1>5. conn'[c] = cn
  BY <1>1, <1>3
<1> QED BY <1>1, <1>2, <1>3, <1>4, <1>5, ConnFrame

LEMMA OnOpenConn ==
  ASSUME ConnInv, NEW c \in Client, OnOpen(c)
  PROVE  ConnInv' /\ Apart(c) /\ conn'[c].state = "server-handshake" /\ conn'[c].used = conn[c].used
         /\ conn[c].state = "ws-connecting"
<1> DEFINE cn == [conn[c] EXCEPT !.socket = "open", !.state = "server-handshake"]
<1>1. /\ conn[c] \in ConnRecord /\ Link(conn[c], handover[c])
      /\ conn \in [Client -> ConnRecord] /\ conn[c].socket = "connecting"
      /\ handover \in [Client -> HandoverRecord] /\ handover[c] \in HandoverRecord
  BY DEF ConnInv, OnOpen
<1>2. /\ cn \in ConnRecord /\ cn.used = conn[c].used /\ cn.state = "server-handshake"
      /\ cn.socket = "open" /\ cn.ws = conn[c].ws
  BY <1>1 DEF ConnRecord, SignalingState, Socket
<1>3. conn' = [conn EXCEPT ![c] = cn] /\ handover' = [handover EXCEPT ![c] = handover[c]]
  BY <1>1 DEF OnOpen
<1> HIDE DEF cn
<1>4. Link(cn, handover[c]) /\ conn[c].state = "ws-connecting"
  BY <1>1, <1>2 DEF Link
<1>5. conn'[c] = cn
  BY <1>1, <1>3
<1> QED BY <1>1, <1>2, <1>3, <1>4, <1>5, ConnFrame

-----------------------------------------------------------------------------
(* The Server object and the address.                                      *)
ServerInv == srv \in [Client -> ServerObject] /\ addr \in [Client -> Address]

LEMMA ServerFrame ==
  ASSUME ServerInv, NEW c \in Client, NEW s \in ServerObject, NEW a \in Address,
         srv' = [srv EXCEPT ![c] = s], addr' = [addr EXCEPT ![c] = a]
  PROVE  ServerInv'
BY DEF ServerInv

LEMMA ServerKept ==
  ASSUME ServerInv, srv' = srv, addr' = addr
  PROVE  ServerInv'
BY DEF ServerInv

LEMMA ServerReset ==
  ASSUME ServerInv, NEW c \in Client, srv' = [srv EXCEPT ![c] = NewServer], addr' = addr
  PROVE  ServerInv'
<1>1. NewServer \in ServerObject
  BY DEF NewServer, ServerObject, Cookie
<1>2. addr' = [addr EXCEPT ![c] = addr[c]] /\ addr[c] \in Address
  BY DEF ServerInv
<1> QED BY <1>1, <1>2, ServerFrame

LEMMA SingleTail == \A e : Tail(<<e>>) = <<>>
OBVIOUS

(* What becomes of the Server object.                                      *)
LEMMA ServerSends ==
  ASSUME NEW s \in ServerObject, NEW k \in Nat
  PROVE  [s EXCEPT !.out = @ + k] \in ServerObject
BY DEF ServerObject

LEMMA NoCookieIsNoName == NoCookie \notin Name
BY DEF NoCookie, Name

-----------------------------------------------------------------------------
(* The outbox is a sequence; what a step sends is appended to it.          *)
IsSeq(q) == \E S : q \in Seq(S)
Elements(q) == {q[k] : k \in 1 .. Len(q)}

OutboxInv == outbox = [c \in Client |-> outbox[c]] /\ \A c \in Client : IsSeq(outbox[c])

Appends(c, q) == IsSeq(q) /\ outbox' = [outbox EXCEPT ![c] = @ \o q]

LEMMA Single ==
  /\ IsSeq(<<>>) /\ Elements(<<>>) = {}
  /\ \A x : IsSeq(<<x>>) /\ Elements(<<x>>) = {x}
<1>1. IsSeq(<<>>)
  <2>1. <<>> \in Seq({})
    OBVIOUS
  <2> QED BY <2>1 DEF IsSeq
<1>2. ASSUME NEW x PROVE IsSeq(<<x>>) /\ Elements(<<x>>) = {x}
  <2>1. <<x>> \in Seq({x})
    OBVIOUS
  <2>2. Len(<<x>>) = 1 /\ <<x>>[1] = x /\ 1 .. 1 = {1}
    OBVIOUS
  <2> QED BY <2>1, <2>2 DEF IsSeq, Elements
<1>3. Elements(<<>>) = {}
  BY DEF Elements
<1> QED BY <1>1, <1>2, <1>3

LEMMA JoinedElements ==
  ASSUME NEW a, IsSeq(a), NEW b, IsSeq(b)
  PROVE  /\ IsSeq(a \o b) /\ Elements(a \o b) = Elements(a) \cup Elements(b)
         /\ {(a \o b)[k] : k \in Len(a) + 1 .. Len(a \o b)} = Elements(b)
<1>1. PICK A : a \in Seq(A)
  BY DEF IsSeq
<1>2. PICK B : b \in Seq(B)
  BY DEF IsSeq
<1>3. a \in Seq(A \cup B) /\ b \in Seq(A \cup B)
  BY <1>1, <1>2
<1>4. /\ a \o b \in Seq(A \cup B) /\ Len(a \o b) = Len(a) + Len(b)
      /\ \A k \in 1 .. Len(a) + Len(b) :
           (a \o b)[k] = IF k <= Len(a) THEN a[k] ELSE b[k - Len(a)]
  BY <1>3, ConcatProperties
<1>5. Len(a) \in Nat /\ Len(b) \in Nat
  BY <1>1, <1>2
<1> DEFINE ab == a \o b
<1> HIDE DEF ab
<1>6. \A k \in 1 .. Len(a) : k \in 1 .. Len(ab) /\ ab[k] = a[k]
  BY <1>4, <1>5 DEF ab
<1>7. \A k \in 1 .. Len(b) : k + Len(a) \in Len(a) + 1 .. Len(ab) /\ ab[k + Len(a)] = b[k]
  BY <1>4, <1>5 DEF ab
<1>8. \A k \in Len(a) + 1 .. Len(ab) : k - Len(a) \in 1 .. Len(b) /\ ab[k] = b[k - Len(a)]
  BY <1>4, <1>5 DEF ab
<1>9. {ab[k] : k \in Len(a) + 1 .. Len(ab)} = Elements(b)
  BY <1>7, <1>8 DEF Elements
<1>10. 1 .. Len(ab) = (1 .. Len(a)) \cup (Len(a) + 1 .. Len(ab))
  BY <1>4, <1>5 DEF ab
<1>11. Elements(ab) = Elements(a) \cup {ab[k] : k \in Len(a) + 1 .. Len(ab)}
  BY <1>6, <1>10 DEF Elements
<1> QED BY <1>3, <1>4, <1>9, <1>11 DEF ab, IsSeq

LEMMA Appended ==
  ASSUME NEW a, IsSeq(a), NEW x
  PROVE  Append(a, x) = a \o <<x>>
<1>1. PICK A : a \in Seq(A)
  BY DEF IsSeq
<1>2. a \in Seq(A \cup {x}) /\ x \in A \cup {x}
  BY <1>1
<1> QED BY <1>2, AppendIsConcat

LEMMA Regrouped ==
  ASSUME NEW a, IsSeq(a), NEW b, IsSeq(b), NEW d, IsSeq(d)
  PROVE  (a \o b) \o d = a \o (b \o d)
<1>1. PICK A : a \in Seq(A)
  BY DEF IsSeq
<1>2. PICK B : b \in Seq(B)
  BY DEF IsSeq
<1>3. PICK D : d \in Seq(D)
  BY DEF IsSeq
<1>4. {a, b, d} \subseteq Seq(A \cup B \cup D)
  BY <1>1, <1>2, <1>3
<1> QED BY <1>4, ConcatAssociative

LEMMA NothingAdded ==
  ASSUME NEW a, IsSeq(a)
  PROVE  a \o <<>> = a /\ <<>> \o a = a
BY ConcatEmptySeq DEF IsSeq

(* Two in a row.                                                           *)
LEMMA Pair ==
  ASSUME NEW x, NEW y
  PROVE  /\ <<x>> \o <<y>> = <<x, y>> /\ Append(<<x>>, y) = <<x, y>> /\ Append(<<>>, y) = <<y>>
<1> DEFINE S == {x, y}
<1>1. /\ <<x>> \in Seq(S) /\ <<y>> \in Seq(S) /\ <<x, y>> \in Seq(S) /\ <<>> \in Seq(S)
      /\ Len(<<x>>) = 1 /\ Len(<<y>>) = 1 /\ Len(<<x, y>>) = 2 /\ Len(<<>>) = 0
      /\ <<x>>[1] = x /\ <<y>>[1] = y /\ <<x, y>>[1] = x /\ <<x, y>>[2] = y
  OBVIOUS
<1>2. 1 .. 2 = {1, 2} /\ 1 .. 1 = {1}
  OBVIOUS
<1>3. <<x>> \o <<y>> = <<x, y>>
  <2> DEFINE a == <<x>>  b == <<y>>  d == <<x, y>>
  <2>1. /\ a \in Seq(S) /\ b \in Seq(S) /\ d \in Seq(S)
        /\ Len(a) = 1 /\ Len(b) = 1 /\ Len(d) = 2 /\ a[1] = x /\ b[1] = y /\ d[1] = x /\ d[2] = y
    BY <1>1
  <2> HIDE DEF a, b, d, S
  <2>2. /\ a \o b \in Seq(S) /\ Len(a \o b) = 2 /\ (a \o b)[1] = x /\ (a \o b)[2] = y
    BY <2>1, <1>2, ConcatProperties
  <2> DEFINE ab == a \o b
  <2> HIDE DEF ab
  <2>3. ab = d
    BY <2>1, <2>2, <1>2, SeqEqual DEF ab
  <2> QED BY <2>3 DEF ab, a, b, d
<1>4. Append(<<x>>, y) = <<x, y>>
  BY <1>3, Appended, Single
<1>5. Append(<<>>, y) = <<y>>
  BY Appended, NothingAdded, Single
<1> QED BY <1>3, <1>4, <1>5

LEMMA SentNowIs ==
  ASSUME OutboxInv, NEW c \in Client, NEW q, Appends(c, q)
  PROVE  /\ OutboxInv' /\ SentNow(c) = Elements(q)
         /\ \A d \in Client \ {c} : SentNow(d) = {}
<1>1. /\ outbox'[c] = outbox[c] \o q /\ outbox' = [d \in Client |-> outbox'[d]]
      /\ \A d \in Client \ {c} : outbox'[d] = outbox[d]
  BY DEF OutboxInv, Appends
<1>2. IsSeq(outbox[c]) /\ IsSeq(q)
  BY DEF OutboxInv, Appends
<1>3. IsSeq(outbox'[c]) /\ SentNow(c) = Elements(q)
  <2> DEFINE o == outbox[c]
  <2>1. IsSeq(o) /\ IsSeq(q)
    BY <1>2
  <2> HIDE DEF o
  <2>2. /\ IsSeq(o \o q)
        /\ {(o \o q)[k] : k \in Len(o) + 1 .. Len(o \o q)} = Elements(q)
    BY <2>1, JoinedElements
  <2>3. outbox'[c] = o \o q
    BY <1>1 DEF o
  <2> QED BY <2>2, <2>3 DEF SentNow, o
<1>4. ASSUME NEW d \in Client \ {c} PROVE SentNow(d) = {} /\ IsSeq(outbox'[d])
  <2>1. IsSeq(outbox[d]) /\ outbox'[d] = outbox[d]
    BY <1>1 DEF OutboxInv
  <2>2. Len(outbox[d]) \in Nat
    BY <2>1 DEF IsSeq
  <2> QED BY <2>1, <2>2 DEF SentNow
<1>5. OutboxInv'
  BY <1>1, <1>3, <1>4 DEF OutboxInv
<1> QED BY <1>3, <1>4, <1>5

(* What was sent has left before the next message arrives.                 *)
LEMMA OutboxEmptied ==
  ASSUME OutboxInv, NEW c \in Client, outbox' = [outbox EXCEPT ![c] = <<>>]
  PROVE  OutboxInv' /\ \A d \in Client : SentNow(d) = {}
<1>1. /\ outbox'[c] = <<>> /\ outbox' = [d \in Client |-> outbox'[d]]
      /\ \A d \in Client \ {c} : outbox'[d] = outbox[d]
  BY DEF OutboxInv
<1>2. \A d \in Client : Len(outbox[d]) \in Nat
  BY DEF OutboxInv, IsSeq
<1>3. \A d \in Client : IsSeq(outbox'[d])
  BY <1>1, Single DEF OutboxInv
<1>4. ASSUME NEW d \in Client PROVE SentNow(d) = {}
  <2>1. Len(outbox'[d]) = 0 \/ outbox'[d] = outbox[d]
    BY <1>1
  <2> QED BY <1>2, <2>1 DEF SentNow
<1> QED BY <1>1, <1>3, <1>4 DEF OutboxInv

(* Closing sends a frame, not a packet.                                    *)
LEMMA HangupFrame ==
  ASSUME NEW cn, NEW code
  PROVE  /\ IsSeq(Hangup(cn, code))
         /\ \A p \in Elements(Hangup(cn, code)) : p.dst = 0 /\ p.type = "ws-close"
         /\ \A p, q \in Elements(Hangup(cn, code)) : p = q
<1> DEFINE frame == CloseFrame(WireCode(code))
<1>1. frame.dst = 0 /\ frame.type = "ws-close"
  BY DEF CloseFrame
<1> HIDE DEF frame
<1>2. Hangup(cn, code) = <<frame>> \/ Hangup(cn, code) = <<>>
  BY DEF Hangup, frame
<1>3. IsSeq(Hangup(cn, code)) /\ Elements(Hangup(cn, code)) \subseteq {frame}
  BY <1>2, Single
<1> QED BY <1>1, <1>3

(* An error is told in one message, or in none after the local handover.   *)
LEMMA CloseLength ==
  ASSUME NEW c, NEW peer, NEW dst, NEW reason
  PROVE  Len(SendClose(c, peer, dst, reason)) \in {0, 1}
<1> DEFINE p == BuildPacket(c, peer, dst, peer.sess, "close", reason)
<1>1. SendClose(c, peer, dst, reason) \in {<<>>, <<p>>}
  BY DEF SendClose
<1> HIDE DEF p
<1>2. Len(<<>>) = 0 /\ Len(<<p>>) = 1
  OBVIOUS
<1> QED BY <1>1, <1>2

-----------------------------------------------------------------------------
(* A set of natural numbers that is not empty has a smallest element.      *)
LEMMA Smallest ==
  ASSUME NEW S \in SUBSET Nat, S # {}
  PROVE  \E k \in S : \A j \in S : k <= j
<1> DEFINE R == OpToRel(<, Nat)
<1>1. IsWellFoundedOn(R, Nat)
  BY NatLessThanWellFounded
<1>2. \A x, y \in Nat : x < y => <<x, y>> \in R
  BY DEF OpToRel
<1> HIDE DEF R
<1>3. PICK x \in S : \A y \in S : ~ (<<y, x>> \in R)
  BY <1>1, WFMin
<1>4. x \in Nat /\ \A y \in S : y \in Nat /\ ~ (y < x)
  BY <1>2, <1>3
<1>5. \A y \in S : x <= y
  BY <1>4
<1> QED BY <1>5

(* Objects with different numbers are listed in one order.                 *)
LEMMA OrderedListing ==
  ASSUME NEW ids, IsFiniteSet(ids), NEW rs,
         \A id \in ids : rs[id].n \in Nat, \A a, b \in ids : rs[a].n = rs[b].n => a = b
  PROVE  LET listing == CHOOSE s \in [1 .. Cardinality(ids) -> ids] :
                          \A j, k \in DOMAIN s : j < k => rs[s[j]].n < rs[s[k]].n
         IN IsSeq(listing) /\ Len(listing) = Cardinality(ids) /\ Elements(listing) = ids
<1> DEFINE c == Cardinality(ids)
           before(a) == {b \in ids : rs[b].n <= rs[a].n}
           rank == [a \in ids |-> Cardinality(before(a))]
<1>1. IsFiniteSet(ids) /\ c \in Nat
  BY FS_CardinalityType
<1>2. ASSUME NEW a \in ids
      PROVE  /\ IsFiniteSet(before(a)) /\ Cardinality(before(a)) \in 1 .. c
  <2>1. before(a) \in SUBSET ids /\ a \in before(a)
    OBVIOUS
  <2>2. IsFiniteSet(before(a)) /\ Cardinality(before(a)) <= c
    BY <1>1, <2>1, FS_Subset
  <2>3. Cardinality(before(a)) \in Nat /\ Cardinality(before(a)) # 0
    BY <2>1, <2>2, FS_CardinalityType, FS_EmptySet
  <2> QED BY <1>1, <2>2, <2>3
<1>3. ASSUME NEW a \in ids, NEW b \in ids, rs[a].n < rs[b].n PROVE rank[a] < rank[b]
  <2>1. before(a) \in SUBSET before(b)
    <3>1. \A o \in ids : rs[o].n <= rs[a].n => rs[o].n <= rs[b].n
      BY <1>3
    <3> QED BY <3>1
  <2>2. before(a) # before(b)
    <3>1. b \in before(b) /\ b \notin before(a)
      BY <1>3
    <3> QED BY <3>1
  <2> HIDE DEF before
  <2>3. Cardinality(before(a)) <= Cardinality(before(b))
        /\ Cardinality(before(a)) # Cardinality(before(b))
    BY <1>2, <2>1, <2>2, FS_Subset
  <2> QED BY <1>2, <2>3
<1>4. rank \in [ids -> 1 .. c]
  BY <1>2
<1> HIDE DEF rank, before
<1>5. rank \in Injection(ids, 1 .. c)
  <2>1. ASSUME NEW a \in ids, NEW b \in ids, rank[a] = rank[b] PROVE a = b
    <3>1. rank[a] \in Nat /\ rank[b] \in Nat
      BY <1>1, <1>4
    <3>2. ~(rs[a].n < rs[b].n) /\ ~(rs[b].n < rs[a].n)
      BY <1>3, <2>1, <3>1
    <3> QED BY <3>2
  <2> QED BY <1>4, <2>1 DEF Injection, IsInjective
<1>6. rank \in Surjection(ids, 1 .. c)
  <2>1. IsFiniteSet(1 .. c) /\ Cardinality(1 .. c) = c
    BY <1>1, FS_Interval
  <2> QED BY <1>1, <1>5, <2>1, FS_Injection
<1> DEFINE order == [k \in 1 .. c |-> CHOOSE a \in ids : rank[a] = k]
           Ordered(s) == \A j, k \in DOMAIN s : j < k => rs[s[j]].n < rs[s[k]].n
<1>7. \A k \in 1 .. c : order[k] \in ids /\ rank[order[k]] = k
  <2>1. \A k \in 1 .. c : \E a \in ids : rank[a] = k
    BY <1>6 DEF Surjection
  <2> QED BY <2>1
<1> HIDE DEF order
<1>8. order \in [1 .. c -> ids] /\ Ordered(order)
  <2>1. order \in [1 .. c -> ids]
    BY <1>7 DEF order
  <2>2. ASSUME NEW j \in 1 .. c, NEW k \in 1 .. c, j < k PROVE rs[order[j]].n < rs[order[k]].n
    <3>1. ~(rs[order[k]].n < rs[order[j]].n)
      BY <1>1, <1>3, <1>7, <2>2
    <3>2. rs[order[k]].n # rs[order[j]].n
      BY <1>1, <1>7, <2>2
    <3> QED BY <1>7, <3>1, <3>2
  <2> QED BY <2>1, <2>2
<1> DEFINE s == CHOOSE x \in [1 .. c -> ids] : Ordered(x)
<1>9. s \in [1 .. c -> ids] /\ Ordered(s)
  BY <1>8
<1> HIDE DEF s
<1>10. s \in Seq(ids) /\ Len(s) = c
  BY <1>1, <1>9
<1>11. s \in Injection(1 .. c, ids)
  <2>1. ASSUME NEW j \in 1 .. c, NEW k \in 1 .. c, s[j] = s[k] PROVE j = k
    <3>1. s[j] \in ids /\ rs[s[j]].n \in Nat
      BY <1>9
    <3>2. ~(j < k) /\ ~(k < j)
      BY <1>9, <2>1, <3>1
    <3> QED BY <1>1, <3>2
  <2> QED BY <1>9, <2>1 DEF Injection, IsInjective
<1>12. s \in Surjection(1 .. c, ids)
  <2>1. IsFiniteSet(1 .. c) /\ Cardinality(1 .. c) = c
    BY <1>1, FS_Interval
  <2> QED BY <1>1, <1>11, <2>1, FS_Injection
<1>13. Elements(s) = ids
  <2>1. \A a \in ids : \E k \in 1 .. c : s[k] = a
    BY <1>12 DEF Surjection
  <2> QED BY <1>9, <1>10, <2>1 DEF Elements
<1> QED BY <1>10, <1>13 DEF s, IsSeq
=============================================================================
