----------------------------- MODULE Signaling -----------------------------
(***************************************************************************)
(* The part of a SaltyRTC client that both roles share: class Signaling of *)
(* signaling/common.ts, with the WebSocket it drives.  Everything that     *)
(* belongs to one client is a function of the client, so that several      *)
(* clients can be composed.  Modules Initiator and Responder add the role. *)
(*                                                                         *)
(* Abstractions.  A combined sequence number is a natural number here (its *)
(* 32 + 16 bit encoding is module CombinedSequence); 0 stands for a number *)
(* that was not received yet.  A random cookie and a generated session key *)
(* are named by the peer object they were created for: <<client, n>>, with *)
(* n = 0 for the server object.  A box is a key and a content; decrypting  *)
(* it succeeds exactly with the key it was encrypted with.                 *)
(***************************************************************************)
EXTENDS Naturals, Sequences, FiniteSets

CONSTANTS
  Initiators,    \* client instances built with asInitiator()
  Responders,    \* client instances built with asResponder()
  ResponderIds,  \* the addresses the server can assign to responders
  NoPeer,        \* not a client: the server, or a peer key that is not set
  TaskNames,     \* names of the tasks a client can be configured with
  NoTask         \* Signaling.task === null

ASSUME ClientAssumption ==
  Initiators \cap Responders = {} /\ NoPeer \notin Initiators \cup Responders
ASSUME AddressAssumption == ResponderIds \subseteq Nat \ {0, 1} /\ IsFiniteSet(ResponderIds)
ASSUME TaskAssumption == NoTask \notin TaskNames

Client == Initiators \cup Responders
Address == {0, 1} \cup ResponderIds

VARIABLES
  conn,      \* signaling state and WebSocket of each client
  srv,       \* its Server peer object
  handover,  \* its HandoverState
  task,      \* its negotiated task
  addr,      \* its own address
  inbox,     \* frames the WebSocket has not dispatched yet, in order
  outbox     \* frames the client sent that the server has not read yet

commonVars == <<conn, srv, handover, task, addr, inbox, outbox>>

-----------------------------------------------------------------------------
(* Close codes.                                                            *)

ClosingNormal == 1000
GoingAway == 1001
AbnormalClosure == 1006
PathFull == 3000
ProtocolError == 3001
InternalError == 3002
Handover == 3003
DroppedByInitiator == 3004
InitiatorCouldNotDecrypt == 3005
NoSharedTask == 3006

CloseCode == {ClosingNormal, GoingAway, AbnormalClosure} \cup PathFull .. NoSharedTask

(* Keys.  Initiators of one path share the permanent key the path is named *)
(* after, so the box of an initiator and a responder is named by the       *)
(* responder alone; each initiator instance issues its own auth token.     *)

Name == (Client \cup {NoPeer}) \X Nat
NoCookie == <<>>
Cookie == Name \cup {NoCookie}
KeyKind == {"none", "plain", "server", "token", "permanent", "session"}
Key == KeyKind \X SUBSET Name

NoKey == <<"none", {}>>
Plain == <<"plain", {}>>
ServerKey(c) == <<"server", {<<c, 0>>}>>
TokenKey(i) == <<"token", {<<i, 0>>}>>
PermanentKey(r) == <<"permanent", {<<r, 0>>}>>
SessionKey(ours, theirs) == <<"session", {ours, theirs}>>

-----------------------------------------------------------------------------
(* Peer objects and packets.                                               *)

NewServer == [n |-> 0, hs |-> "new", out |-> 0, in |-> 0, cookie |-> NoCookie]

OurCookie(c, peer) == <<c, peer.n>>

BuildPacket(c, peer, dst, key, type, body) ==
  [src |-> addr[c], dst |-> dst, csn |-> peer.out + 1, cookie |-> OurCookie(c, peer),
   key |-> key, type |-> type, body |-> body]

(* The close frame of the WebSocket travels in the same stream.            *)
CloseFrame(code) ==
  [src |-> 0, dst |-> 0, csn |-> 0, cookie |-> NoCookie, key |-> Plain,
   type |-> "ws-close", body |-> code]

-----------------------------------------------------------------------------
(* The WebSocket.                                                          *)

NoConn == [state |-> "new", socket |-> "none", ws |-> FALSE, used |-> FALSE,
           code |-> 0, closes |-> 0]
NoHandover == [local |-> FALSE, peer |-> FALSE]
Both_LocalOnly(c) == handover[c].local  \* mutant: one flag is enough
Both(c) == handover[c].local /\ handover[c].peer

(* closeWebsocket drops codes up to 3000.  Its removeEventListener calls   *)
(* name functions that were never added, so `unbind` only moves the state. *)
WireCode(code) == IF code <= PathFull THEN ClosingNormal ELSE code

CloseWebsocket(cn, code, unbind) ==
  IF ~cn.ws THEN cn
  ELSE [cn EXCEPT !.ws = FALSE,
                  !.socket = IF @ = "closed" THEN @ ELSE "closing",
                  !.code = IF cn.socket = "closed" THEN @ ELSE WireCode(code),
                  !.state = IF unbind THEN "closed" ELSE @]

(* What closing puts on the wire: nothing unless the socket is open.       *)
Hangup(cn, code) ==
  IF cn.ws /\ cn.socket = "open" THEN <<CloseFrame(WireCode(code))>> ELSE <<>>

(* resetConnection, after the packets `sent` went out in the same handler. *)
(* The task is neither closed nor forgotten.                               *)
Reset(c, reason, sent) ==
  /\ conn' = [conn EXCEPT ![c] = [CloseWebsocket(@, reason, TRUE) EXCEPT !.state = "new"]]
  /\ srv' = [srv EXCEPT ![c] = NewServer]
  /\ handover' = [handover EXCEPT ![c] = NoHandover]
  /\ inbox' = [inbox EXCEPT ![c] = <<>>]
  /\ outbox' = [outbox EXCEPT ![c] = @ \o sent \o Hangup(conn[c], reason)]
  /\ UNCHANGED addr

ResetConnection(c, reason, sent) == Reset(c, reason, sent) /\ UNCHANGED task

-----------------------------------------------------------------------------
(* Calls of the application.                                               *)

(* Mutant: connect() may be called again.                                  *)
Connect_Again(c) ==
  /\ ~conn[c].ws
  /\ conn' = [conn EXCEPT ![c] = [@ EXCEPT !.used = TRUE, !.ws = TRUE,
                                  !.socket = "connecting", !.state = "ws-connecting"]]
  /\ srv' = [srv EXCEPT ![c] = NewServer]
  /\ handover' = [handover EXCEPT ![c] = NoHandover]
  /\ UNCHANGED <<task, addr, inbox, outbox>>

Connect(c) ==
  /\ ~conn[c].used
  /\ conn' = [conn EXCEPT ![c] = [@ EXCEPT !.used = TRUE, !.ws = TRUE,
                                  !.socket = "connecting", !.state = "ws-connecting"]]
  /\ srv' = [srv EXCEPT ![c] = NewServer]
  /\ handover' = [handover EXCEPT ![c] = NoHandover]
  /\ UNCHANGED <<task, addr, inbox, outbox>>

(* The state is `closing` before it is compared with `task`, so no close   *)
(* message is ever sent here.                                              *)
Disconnect(c, unbind) ==
  /\ conn' = [conn EXCEPT ![c] =
                [CloseWebsocket([@ EXCEPT !.state = "closing"], ClosingNormal, unbind)
                   EXCEPT !.state = "closed"]]
  /\ inbox' = [inbox EXCEPT ![c] = <<>>]
  /\ outbox' = [outbox EXCEPT ![c] = @ \o Hangup(conn[c], ClosingNormal)]
  /\ UNCHANGED <<srv, handover, task, addr>>

(* Events of the WebSocket.  A close event carries the code the other side *)
(* echoes, or 1006; nothing is dispatched once close() was called, except  *)
(* the close event itself.                                                 *)

OnOpen(c) ==
  /\ conn[c].socket = "connecting"
  /\ conn' = [conn EXCEPT ![c] = [@ EXCEPT !.socket = "open", !.state = "server-handshake"]]
  /\ UNCHANGED <<srv, handover, task, addr, outbox>>

(* Mutant: only an abnormal closure moves the state.                       *)
Closed_KeepsState(cn, code) ==
  [cn EXCEPT !.socket = "closed",
             !.code = IF @ = 0 THEN code ELSE @,
             !.state = IF code # AbnormalClosure THEN @ ELSE "closed",
             !.closes = IF code # AbnormalClosure THEN @ ELSE @ + 1]

(* onClose: after a handover the state stays, and nobody is told.          *)
Closed(cn, code) ==
  [cn EXCEPT !.socket = "closed",
             !.code = IF @ = 0 THEN code ELSE @,
             !.state = IF code = Handover THEN @ ELSE "closed",
             !.closes = IF code = Handover THEN @ ELSE @ + 1]

OnClose(c, code) == conn' = [conn EXCEPT ![c] = Closed(@, code)]

(* The close event that follows our own close().                           *)
CloseEvent(c) ==
  /\ conn[c].socket = "closing"
  /\ \E code \in {conn[c].code, AbnormalClosure} : OnClose(c, code)
  /\ UNCHANGED <<srv, handover, task, addr, inbox, outbox>>

(* The server closed the connection.                                       *)
ServerCloses(c) ==
  /\ conn[c].socket = "open"
  /\ inbox[c] # <<>> /\ Head(inbox[c]).type = "ws-close"
  /\ OnClose(c, Head(inbox[c]).body)
  /\ inbox' = [inbox EXCEPT ![c] = <<>>]
  /\ UNCHANGED <<srv, handover, task, addr, outbox>>

(* The connection breaks: onError, then onClose with 1006.                 *)
ConnectionLost(c) ==
  /\ conn[c].socket \in {"connecting", "open"}
  /\ OnClose(c, AbnormalClosure)
  /\ inbox' = [inbox EXCEPT ![c] = <<>>]
  /\ outbox' = [outbox EXCEPT ![c] =
                  IF conn[c].socket = "open" THEN Append(@, CloseFrame(AbnormalClosure)) ELSE @]
  /\ UNCHANGED <<srv, handover, task, addr>>

-----------------------------------------------------------------------------
(* Receiving.                                                              *)

Receives(c) ==
  /\ conn[c].socket = "open"
  /\ inbox[c] # <<>>
  /\ Head(inbox[c]).type # "ws-close"

Consume(c) == inbox' = [inbox EXCEPT ![c] = Tail(@)]

(* onMessage looks at handover.peer before it looks at the packet.         *)
AfterPeerHandover(c) ==
  /\ handover[c].peer
  /\ ResetConnection(c, ProtocolError, <<>>)

(* validateNonce, in its order: source, destination, CSN, cookie.          *)
SourceAccepted(c, m) ==
  \/ m.src = 0
  \/ /\ conn[c].state \in {"peer-handshake", "task"}
     /\ IF c \in Initiators THEN m.src \in ResponderIds ELSE m.src = 1

DestinationAccepted(c, m) ==
  IF conn[c].state # "server-handshake" THEN m.dst = addr[c]
  ELSE IF srv[c].hs = "new" THEN m.dst = 0
  ELSE IF c \in Initiators THEN m.dst = 1 ELSE m.dst \in ResponderIds

CsnAccepted_Equal(peer, m) == m.csn >= peer.in  \* mutant: the same number again
CsnAccepted(peer, m) == m.csn > peer.in
CookieAccepted(peer, m) == peer.cookie \in {NoCookie, m.cookie}

NonceAccepted(c, peer, m) ==
  DestinationAccepted(c, m) /\ CsnAccepted(peer, m) /\ CookieAccepted(peer, m)

(* The CSN is stored as soon as it is validated, whatever follows.         *)
StoreCsn(c, peer, m) ==
  IF DestinationAccepted(c, m) /\ CsnAccepted(peer, m) THEN [peer EXCEPT !.in = m.csn] ELSE peer

-----------------------------------------------------------------------------
(* The server handshake.                                                   *)

ServerHandshake(c, m, hs) ==
  /\ conn[c].state = "server-handshake"
  /\ m.src = 0
  /\ srv[c].hs = hs
  /\ NonceAccepted(c, srv[c], m)

HelloExpected(c, m) ==
  m.key = Plain /\ m.type = "server-hello" /\ m.cookie # OurCookie(c, srv[c])

(* server-hello: store the server's cookie, answer with client-hello (a    *)
(* responder) and client-auth.                                             *)
HandleServerHello(c, m) ==
  /\ ServerHandshake(c, m, "new")
  /\ HelloExpected(c, m)
  /\ LET hello == IF c \in Responders
                  THEN <<BuildPacket(c, srv[c], 0, Plain, "client-hello", NoTask)>> ELSE <<>>
         said == [srv[c] EXCEPT !.out = @ + Len(hello)]
         auth == BuildPacket(c, said, 0, ServerKey(c), "client-auth", m.cookie)
     IN /\ srv' = [srv EXCEPT ![c] = [said EXCEPT !.hs = "auth-sent", !.out = @ + 1,
                                                  !.in = m.csn, !.cookie = m.cookie]]
        /\ outbox' = [outbox EXCEPT ![c] = @ \o hello \o <<auth>>]
  /\ Consume(c)
  /\ UNCHANGED <<conn, handover, task, addr>>

AuthExpected(c, m) == m.type = "server-auth" /\ m.body.cookie = OurCookie(c, srv[c])

(* server-auth, accepted: the client has an address and the peer handshake *)
(* starts.  The role stores what the server says about the peers.          *)
ServerAuthDone(c, m) ==
  /\ ServerHandshake(c, m, "auth-sent")
  /\ m.key = ServerKey(c)
  /\ AuthExpected(c, m)
  /\ conn' = [conn EXCEPT ![c].state = "peer-handshake"]
  /\ addr' = [addr EXCEPT ![c] = m.dst]

(* A server message the handshake does not expect.                         *)
ServerHandshakeError(c, m) ==
  \/ ServerHandshake(c, m, "new") /\ ~HelloExpected(c, m)
  \/ ServerHandshake(c, m, "auth-sent") /\ m.key = ServerKey(c) /\ ~AuthExpected(c, m)

(* The message does not decrypt: the CryptoError is rethrown and nothing   *)
(* but the CSN has changed.                                                *)
ServerAuthUndecryptable(c, m) ==
  /\ ServerHandshake(c, m, "auth-sent")
  /\ m.key # ServerKey(c)
  /\ srv' = [srv EXCEPT ![c].in = m.csn]
  /\ Consume(c)
  /\ UNCHANGED <<conn, handover, task, addr, outbox>>

-----------------------------------------------------------------------------
(* Messages once the peer handshake is done.                               *)

(* sendClose(reason): through the task after the local handover, through   *)
(* the WebSocket before.                                                   *)
SendClose(c, peer, dst, reason) ==
  IF handover[c].local THEN <<>>
  ELSE <<BuildPacket(c, peer, dst, peer.sess, "close", reason)>>

(* close: task.close, then resetConnection(GoingAway).                     *)
HandleClose(c) == ResetConnection(c, GoingAway, <<>>)

(* Setters of HandoverState, called by the task.  When both are set the    *)
(* WebSocket is closed with code Handover and the client stays in `task`.  *)
(* `rest` is what the socket still has to dispatch, `sent` what the caller *)
(* sent just before.                                                       *)
SetHandover(c, flags, rest, sent) ==
  LET done == flags.local /\ flags.peer /\ ~Both(c)
  IN /\ handover' = [handover EXCEPT ![c] = flags]
     /\ conn' = [conn EXCEPT ![c] = IF done THEN CloseWebsocket(@, Handover, FALSE) ELSE @]
     /\ inbox' = [inbox EXCEPT ![c] = IF done THEN <<>> ELSE rest]
     /\ outbox' = [outbox EXCEPT ![c] =
                     @ \o sent \o (IF done THEN Hangup(conn[c], Handover) ELSE <<>>)]

(* onSignalingPeerMessage.  The one message of the task that matters here  *)
(* is the one with which the other task reports its handover.              *)
PeerMessage(c, m) ==
  \/ m.type = "close" /\ HandleClose(c)
  \/ /\ m.type = "application"
     /\ Consume(c)
     /\ UNCHANGED <<conn, srv, handover, task, addr, outbox>>
  \/ /\ m.type = "handover"
     /\ SetHandover(c, [handover[c] EXCEPT !.peer = TRUE], Tail(inbox[c]), <<>>)
     /\ UNCHANGED <<srv, task, addr>>
  \/ m.type \notin {"close", "application", "handover"} /\ ResetConnection(c, ProtocolError, <<>>)

(* A task that can talk to its peer directly says so in a task message and *)
(* sets handover.local; from then on signaling messages use its channel.   *)
(* Mutant: the flag of the other side is set.                              *)
LocalHandover_WrongFlag(c, peer, dst) ==
  /\ conn[c].state = "task"
  /\ ~handover[c].local
  /\ SetHandover(c, [handover[c] EXCEPT !.peer = TRUE], inbox[c],
                 <<BuildPacket(c, peer, dst, peer.sess, "handover", NoTask)>>)
  /\ UNCHANGED <<srv, task, addr>>

LocalHandover(c, peer, dst) ==
  /\ conn[c].state = "task"
  /\ ~handover[c].local
  /\ SetHandover(c, [handover[c] EXCEPT !.local = TRUE], inbox[c],
                 <<BuildPacket(c, peer, dst, peer.sess, "handover", NoTask)>>)
  /\ UNCHANGED <<srv, task, addr>>

(* Mutant: the WebSocket is used after the handover, too.                  *)
SendApplication_Always(c, peer, dst) ==
  /\ conn[c].state = "task"
  /\ conn[c].socket = "open"
  /\ outbox' = [outbox EXCEPT ![c] =
                  Append(@, BuildPacket(c, peer, dst, peer.sess, "application", NoTask))]
  /\ UNCHANGED <<conn, srv, handover, task, addr, inbox>>

(* sendApplication, before the local handover.                             *)
SendApplication(c, peer, dst) ==
  /\ conn[c].state = "task"
  /\ ~handover[c].local
  /\ outbox' = [outbox EXCEPT ![c] =
                  Append(@, BuildPacket(c, peer, dst, peer.sess, "application", NoTask))]
  /\ UNCHANGED <<conn, srv, handover, task, addr, inbox>>

InitCommon ==
  /\ conn = [c \in Client |-> NoConn]
  /\ srv = [c \in Client |-> NewServer]
  /\ handover = [c \in Client |-> NoHandover]
  /\ task = [c \in Client |-> NoTask]
  /\ addr = [c \in Client |-> 0]
  /\ inbox = [c \in Client |-> <<>>]
  /\ outbox = [c \in Client |-> <<>>]

-----------------------------------------------------------------------------
(* Types.                                                                  *)

SignalingState == {"new", "ws-connecting", "server-handshake", "peer-handshake", "task",
                   "closing", "closed"}
Socket == {"none", "connecting", "open", "closing", "closed"}
ConnRecord == [state : SignalingState, socket : Socket, ws : BOOLEAN, used : BOOLEAN,
               code : {0} \cup CloseCode, closes : Nat]
ServerObject == [n : {0}, hs : {"new", "auth-sent", "done"}, out : Nat, in : Nat, cookie : Cookie]

CommonTypeOK ==
  /\ conn \in [Client -> ConnRecord]
  /\ srv \in [Client -> ServerObject]
  /\ handover \in [Client -> [local : BOOLEAN, peer : BOOLEAN]]
  /\ task \in [Client -> TaskNames \cup {NoTask}]
  /\ addr \in [Client -> Address]

-----------------------------------------------------------------------------
(* Properties of every client.                                             *)

(* A handler that runs always has an open WebSocket to answer on, and a    *)
(* client in a handshake or, short of a complete handover, in state `task` *)
(* is never left without one: the state and the socket change together, in *)
(* whatever order messages, resets, calls and close events come.           *)
SocketInv ==
  \A c \in Client :
    /\ conn[c].socket = "open" =>
         conn[c].ws /\ conn[c].state \in {"server-handshake", "peer-handshake", "task"}
    /\ conn[c].state \in {"server-handshake", "peer-handshake"} => conn[c].socket = "open"
    /\ conn[c].state = "task" /\ ~Both(c) => conn[c].socket = "open"

(* What the last step of a client sent.                                    *)
SentNow(c) == {outbox'[c][k] : k \in Len(outbox[c]) + 1 .. Len(outbox'[c])}

(* An instance that has lost or left its connection never handshakes again. *)
StaysDown(c) ==
  conn[c].used /\ conn[c].state \in {"new", "closing", "closed"} =>
    conn'[c].state \in {"new", "closing", "closed"}
=============================================================================
