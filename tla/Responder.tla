----------------------------- MODULE Responder -----------------------------
(***************************************************************************)
(* The responder's side of the handshake: class ResponderSignaling of      *)
(* signaling/responder.ts.  The responder keeps one Initiator object; it   *)
(* is replaced when the server announces a new initiator.                  *)
(***************************************************************************)
EXTENDS Signaling

CONSTANTS
  AuthToken,     \* responder -> the initiator whose token it was given, or
                 \* NoPeer when it trusts the initiator's key
  OfferedTasks,  \* responder -> the names of its tasks
  CsnStarts      \* random initial numbers of a new Initiator object

ASSUME ResponderAssumption ==
  /\ AuthToken \in [Responders -> Initiators \cup {NoPeer}]
  /\ OfferedTasks \in [Responders -> SUBSET TaskNames]
  /\ CsnStarts \subseteq Nat

VARIABLE initiator  \* responder -> its Initiator object

(* `loc` is our session key, null before it is generated.                  *)
NewInitiator_TokenReceived(n, start) ==  \* mutant: a state of the other role
  [n |-> n, hs |-> "token-received", connected |-> FALSE, out |-> start, in |-> 0,
   cookie |-> NoCookie, sess |-> NoKey]

NewInitiator(n, start) ==
  [n |-> n, hs |-> "new", connected |-> FALSE, out |-> start, in |-> 0,
   cookie |-> NoCookie, sess |-> NoKey]

Tokens(r) == AuthToken[r] # NoPeer

-----------------------------------------------------------------------------
(* initPeerHandshake: with a connected initiator, send our token unless we *)
(* trust it, and a fresh session key.                                      *)
(* Mutants: the key has the number of the token; no key is sent; the state *)
(* says that one was.                                                      *)
Greeting_SameCsn(r, peer) ==
  IF ~peer.connected THEN <<>>
  ELSE LET token == IF Tokens(r)
                    THEN <<BuildPacket(r, peer, 1, TokenKey(AuthToken[r]), "token", r)>> ELSE <<>>
       IN Append(token, BuildPacket(r, peer, 1, PermanentKey(r), "key", <<r, peer.n>>))
Greeting_NoKey(r, peer) ==
  IF peer.connected /\ Tokens(r)
  THEN <<BuildPacket(r, peer, 1, TokenKey(AuthToken[r]), "token", r)>> ELSE <<>>
Greeted_Unconnected(r, peer) == [peer EXCEPT !.hs = "key-sent"]

Greeting(r, peer) ==
  IF ~peer.connected THEN <<>>
  ELSE LET token == IF Tokens(r)
                    THEN <<BuildPacket(r, peer, 1, TokenKey(AuthToken[r]), "token", r)>> ELSE <<>>
           next == [peer EXCEPT !.out = @ + Len(token)]
       IN Append(token, BuildPacket(r, next, 1, PermanentKey(r), "key", <<r, peer.n>>))

Greeted(r, peer) ==
  IF ~peer.connected THEN peer
  ELSE [peer EXCEPT !.out = @ + Len(Greeting(r, peer)), !.hs = "key-sent"]

(* server-auth: the address is the destination of the message.             *)
ServerAuthHandled(r, m) ==
  /\ ServerAuthDone(r, m)
  /\ LET peer == [initiator[r] EXCEPT !.connected = m.body.connected]
         greeting == [k \in DOMAIN Greeting(r, peer) |->
                        [Greeting(r, peer)[k] EXCEPT !.src = m.dst]]
     IN /\ initiator' = [initiator EXCEPT ![r] = Greeted(r, peer)]
        /\ outbox' = [outbox EXCEPT ![r] = @ \o greeting]
  /\ srv' = [srv EXCEPT ![r] = [@ EXCEPT !.hs = "done", !.in = m.csn]]
  /\ Consume(r)
  /\ UNCHANGED <<handover, task>>

ServerSays(r, m, state) ==
  /\ conn[r].state = state
  /\ m.src = 0
  /\ NonceAccepted(r, srv[r], m)

ServerTells(r, m, state, type) ==
  ServerSays(r, m, state) /\ m.key = ServerKey(r) /\ m.type = type

StoreServerCsn(r, m) == srv' = [srv EXCEPT ![r].in = m.csn]

(* new-initiator: start over with a new Initiator object during the peer   *)
(* handshake, close the connection after it.                               *)
HandleNewInitiator(r, m) ==
  \/ /\ ServerTells(r, m, "peer-handshake", "new-initiator")
     /\ \E start \in CsnStarts :
          LET peer == [NewInitiator(initiator[r].n + 1, start) EXCEPT !.connected = TRUE]
          IN /\ initiator' = [initiator EXCEPT ![r] = Greeted(r, peer)]
             /\ outbox' = [outbox EXCEPT ![r] = @ \o Greeting(r, peer)]
     /\ StoreServerCsn(r, m)
     /\ Consume(r)
     /\ UNCHANGED <<conn, handover, task, addr>>
  \/ /\ ServerTells(r, m, "task", "new-initiator")
     /\ ResetConnection(r, ClosingNormal, <<>>)
     /\ UNCHANGED initiator

(* send-error: the initiator is gone.                                      *)
LostMessage(r, m) == m.body.src = addr[r] /\ m.body.dst = 1

InitiatorLost(r, m) ==
  /\ conn[r].state \in {"peer-handshake", "task"}
  /\ ServerTells(r, m, conn[r].state, "send-error")
  /\ LostMessage(r, m)
  /\ ResetConnection(r, ProtocolError, <<>>)
  /\ UNCHANGED initiator

(* disconnected, and in state `task` any server message that is not        *)
(* handled: no state changes.                                              *)
ServerNotice(r, m) ==
  /\ \/ ServerTells(r, m, "peer-handshake", "disconnected")
     \/ /\ ServerSays(r, m, "task")
        /\ m.key = ServerKey(r)
        /\ m.type \notin {"send-error", "new-initiator"}
  /\ StoreServerCsn(r, m)
  /\ Consume(r)
  /\ UNCHANGED <<conn, handover, task, addr, outbox, initiator>>

-----------------------------------------------------------------------------
(* Messages of the initiator during the peer handshake.                    *)

FromInitiator(r, m, state) ==
  /\ conn[r].state = state
  /\ m.src = 1
  /\ NonceAccepted(r, initiator[r], m)

(* key: the session key is complete; answer with our auth.                 *)
KeyArrived(r, m) ==
  /\ FromInitiator(r, m, "peer-handshake")
  /\ initiator[r].hs = "key-sent"
  /\ m.key = PermanentKey(r)

(* Mutant: the number of the answer is not counted.                        *)
InitiatorKey_NotCounted(r, m) ==
  /\ KeyArrived(r, m)
  /\ m.type = "key"
  /\ m.cookie # OurCookie(r, initiator[r])
  /\ LET sess == SessionKey(<<r, initiator[r].n>>, m.body)
     IN /\ initiator' = [initiator EXCEPT ![r] =
             [initiator[r] EXCEPT !.hs = "auth-sent", !.in = m.csn, !.sess = sess]]
        /\ outbox' = [outbox EXCEPT ![r] =
             Append(@, BuildPacket(r, initiator[r], 1, sess, "auth",
                                   [cookie |-> m.cookie, tasks |-> OfferedTasks[r]]))]
  /\ Consume(r)
  /\ UNCHANGED <<conn, srv, handover, task, addr>>

InitiatorKey(r, m) ==
  /\ KeyArrived(r, m)
  /\ m.type = "key"
  /\ m.cookie # OurCookie(r, initiator[r])
  /\ LET sess == SessionKey(<<r, initiator[r].n>>, m.body)
     IN /\ initiator' = [initiator EXCEPT ![r] =
             [initiator[r] EXCEPT !.hs = "auth-sent", !.in = m.csn, !.out = @ + 1, !.sess = sess]]
        /\ outbox' = [outbox EXCEPT ![r] =
             Append(@, BuildPacket(r, initiator[r], 1, sess, "auth",
                                   [cookie |-> m.cookie, tasks |-> OfferedTasks[r]]))]
  /\ Consume(r)
  /\ UNCHANGED <<conn, srv, handover, task, addr>>

(* auth: our cookie repeated and a task of ours selected.                  *)
AuthArrived(r, m) ==
  /\ FromInitiator(r, m, "peer-handshake")
  /\ initiator[r].hs = "auth-sent"
  /\ m.key = initiator[r].sess

AuthExpectedFrom_AnyTask(r, m) ==  \* mutant: the task is not checked
  m.type = "auth" /\ m.body.cookie = OurCookie(r, initiator[r])

AuthExpectedFrom(r, m) ==
  /\ m.type = "auth"
  /\ m.body.cookie = OurCookie(r, initiator[r])
  /\ m.body.task \in OfferedTasks[r]

InitiatorAuth(r, m) ==
  /\ AuthArrived(r, m)
  /\ AuthExpectedFrom(r, m)
  /\ m.cookie # OurCookie(r, initiator[r])
  /\ task' = [task EXCEPT ![r] = m.body.task]
  /\ initiator' = [initiator EXCEPT ![r] =
       [@ EXCEPT !.hs = "auth-received", !.in = m.csn, !.cookie = m.cookie]]
  /\ conn' = [conn EXCEPT ![r].state = "task"]
  /\ Consume(r)
  /\ UNCHANGED <<srv, handover, addr, outbox>>

-----------------------------------------------------------------------------
(* Errors.                                                                 *)

(* The peer is told of the error, and that is the last it hears.           *)
CloseOnError(r) ==
  /\ conn[r].state = "task"
  /\ LET close == SendClose(r, initiator[r], 1, ProtocolError)
     IN /\ ResetConnection(r, ClosingNormal, close)
        /\ initiator' = [initiator EXCEPT ![r].out = @ + Len(close)]

(* The catch clause of onMessage: every error of the responder is a        *)
(* protocol error, and before state `task` it ends the connection.         *)
OnProtocolError(r) ==
  \/ CloseOnError(r)
  \/ /\ conn[r].state # "task"
     /\ ResetConnection(r, ProtocolError, <<>>)
     /\ UNCHANGED initiator

InvalidNonceAt(r, m) ==
  /\ \/ m.src \in ResponderIds
     \/ /\ m.src = 0 /\ ~NonceAccepted(r, srv[r], m)
     \/ /\ m.src = 1 /\ SourceAccepted(r, m)
        /\ ~NonceAccepted(r, initiator[r], m)
  /\ OnProtocolError(r)

InvalidFromServer(r, m) ==
  /\ \/ ServerHandshakeError(r, m)
     \/ /\ ServerSays(r, m, "peer-handshake")
        /\ \/ m.key # ServerKey(r)
           \/ m.type \notin {"new-initiator", "send-error", "disconnected"}
     \/ ServerSays(r, m, "task") /\ m.key # ServerKey(r)
     \/ /\ conn[r].state \in {"peer-handshake", "task"}
        /\ ServerTells(r, m, conn[r].state, "send-error")
        /\ ~LostMessage(r, m)
  /\ OnProtocolError(r)

InvalidFromInitiator(r, m) ==
  /\ FromInitiator(r, m, "peer-handshake")
  /\ \/ initiator[r].hs \notin {"key-sent", "auth-sent"}
     \/ initiator[r].hs = "key-sent" /\ m.key # PermanentKey(r)
     \/ KeyArrived(r, m) /\ (m.type # "key" \/ m.cookie = OurCookie(r, initiator[r]))
     \/ initiator[r].hs = "auth-sent" /\ m.key # initiator[r].sess
     \/ AuthArrived(r, m) /\ ~AuthExpectedFrom(r, m)
  /\ OnProtocolError(r)

(* As for the initiator, the task is initialised before our own cookie is  *)
(* refused.                                                                *)
AuthRepeatsOurCookie(r, m) ==
  /\ AuthArrived(r, m)
  /\ AuthExpectedFrom(r, m)
  /\ m.cookie = OurCookie(r, initiator[r])
  /\ task' = [task EXCEPT ![r] = m.body.task]
  /\ Reset(r, ProtocolError, <<>>)
  /\ UNCHANGED initiator

(* A message of the initiator during the server handshake is discarded.    *)
DiscardEarly(r, m) ==
  /\ m.src = 1 /\ ~SourceAccepted(r, m)
  /\ Consume(r)
  /\ UNCHANGED <<conn, srv, handover, task, addr, outbox, initiator>>

-----------------------------------------------------------------------------
(* After the handshake.                                                    *)

StoreInitiatorCsn(r, m) == initiator' = [initiator EXCEPT ![r].in = m.csn]

InitiatorMessage(r, m) ==
  /\ FromInitiator(r, m, "task")
  /\ m.key = initiator[r].sess
  /\ PeerMessage(r, m)
  /\ StoreInitiatorCsn(r, m)

InitiatorUndecryptable(r, m) ==
  /\ FromInitiator(r, m, "task")
  /\ m.key # initiator[r].sess
  /\ StoreInitiatorCsn(r, m)
  /\ Consume(r)
  /\ UNCHANGED <<conn, srv, handover, task, addr, outbox>>

ResponderHandover(r) ==
  /\ LocalHandover(r, initiator[r], 1)
  /\ initiator' = [initiator EXCEPT ![r].out = @ + 1]

ResponderSends(r) ==
  /\ SendApplication(r, initiator[r], 1)
  /\ initiator' = [initiator EXCEPT ![r].out = @ + 1]

-----------------------------------------------------------------------------
ResponderOnMessage(r) ==
  /\ Receives(r)
  /\ LET m == Head(inbox[r]) IN
       \/ AfterPeerHandover(r) /\ UNCHANGED initiator
       \/ /\ ~handover[r].peer
          /\ \/ HandleServerHello(r, m) /\ UNCHANGED initiator
             \/ ServerAuthUndecryptable(r, m) /\ UNCHANGED initiator
             \/ ServerAuthHandled(r, m)
             \/ HandleNewInitiator(r, m)
             \/ InitiatorLost(r, m)
             \/ ServerNotice(r, m)
             \/ InitiatorKey(r, m)
             \/ InitiatorAuth(r, m)
             \/ InvalidNonceAt(r, m)
             \/ InvalidFromServer(r, m)
             \/ InvalidFromInitiator(r, m)
             \/ AuthRepeatsOurCookie(r, m)
             \/ DiscardEarly(r, m)
             \/ InitiatorMessage(r, m)
             \/ InitiatorUndecryptable(r, m)

InitResponder ==
  initiator = [r \in Responders |->
                 [NewInitiator(1, 0) EXCEPT !.hs = IF Tokens(r) THEN @ ELSE "token-sent"]]
=============================================================================
