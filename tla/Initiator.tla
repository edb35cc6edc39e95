----------------------------- MODULE Initiator -----------------------------
(***************************************************************************)
(* The initiator's side of the handshake: class InitiatorSignaling of      *)
(* signaling/initiator.ts.  The initiator keeps one Responder object per   *)
(* connected responder until one of them authenticates; that one becomes   *)
(* `chosen` (the field responder) and all others are dropped.              *)
(***************************************************************************)
EXTENDS Signaling

CONSTANTS
  PeerTrustedKey,  \* initiator -> the responder it trusts, or NoPeer
  OurTasks,        \* initiator -> its task names, in order of preference
  Limit            \* responders held at a time (252)

ASSUME InitiatorAssumption ==
  /\ PeerTrustedKey \in [Initiators -> Responders \cup {NoPeer}]
  /\ OurTasks \in [Initiators -> Seq(TaskNames)]
  /\ Limit \in Nat \ {0}

VARIABLES
  responders,  \* initiator -> address -> Responder object
  counter,     \* responderCounter
  chosen       \* the field responder: the authenticated one

peerVars == <<responders, counter, chosen>>

Trusts(i) == PeerTrustedKey[i] # NoPeer

(* An address without a Responder object holds the object with n = 0.      *)
NoResponder == [id |-> 0, n |-> 0, hs |-> "new", out |-> 0, in |-> 0,
                cookie |-> NoCookie, perm |-> NoKey, sess |-> NoKey]

Present(rs) == {id \in ResponderIds : rs[id].n # 0}
(* Mutant: a responder that has sent something stays.                      *)
Without_Active(rs, ids) ==
  [id \in ResponderIds |-> IF id \in ids /\ rs[id].hs = "new" THEN NoResponder ELSE rs[id]]

Without(rs, ids) == [id \in ResponderIds |-> IF id \in ids THEN NoResponder ELSE rs[id]]

(* With a trusted key no token is expected.                                *)
NewResponder(i, id, n) ==
  [NoResponder EXCEPT !.id = id, !.n = n,
                      !.hs = IF Trusts(i) THEN "token-received" ELSE "new",
                      !.perm = IF Trusts(i) THEN PermanentKey(PeerTrustedKey[i]) ELSE NoKey]

(* The Server object or Responder object a packet comes from.              *)
Peer(i, src) ==
  IF src = 0 THEN srv[i]
  ELSE IF conn[i].state = "task" /\ chosen[i].id = src THEN chosen[i]
  ELSE responders[i][src]

(* Mutants: the first request is left out; the last number is used again;  *)
(* none is sent.                                                           *)
DropRequests_SkipFirst(i, s, ids, reason) ==
  [k \in 1 .. (IF Len(ids) > 0 THEN Len(ids) - 1 ELSE 0) |->
     [BuildPacket(i, s, 0, ServerKey(i), "drop-responder", [id |-> ids[k + 1], reason |-> reason])
        EXCEPT !.src = 1, !.csn = s.out + k]]
DropRequests_LastCsn(i, s, ids, reason) ==
  [k \in 1 .. Len(ids) |->
     [BuildPacket(i, s, 0, ServerKey(i), "drop-responder", [id |-> ids[k], reason |-> reason])
        EXCEPT !.src = 1, !.csn = s.out + k - 1]]
DropRequests_None(i, s, ids, reason) == <<>>

(* drop-responder requests, numbered from the server object `s`.  The      *)
(* address has been assigned before the first of them.                     *)
DropRequests(i, s, ids, reason) ==
  [k \in 1 .. Len(ids) |->
     [BuildPacket(i, s, 0, ServerKey(i), "drop-responder", [id |-> ids[k], reason |-> reason])
        EXCEPT !.src = 1, !.csn = s.out + k]]

(* The map keeps its entries in the order in which they were stored.       *)
InsertionOrder(rs, ids) ==
  CHOOSE s \in [1 .. Cardinality(ids) -> ids] :
    \A j, k \in DOMAIN s : j < k => rs[s[j]].n < rs[s[k]].n

-----------------------------------------------------------------------------
(* Server messages.                                                        *)

(* Mutants: the oldest one goes, whatever it has sent; one responder too   *)
(* many is allowed.                                                        *)
Evicted_Active(rs) ==
  {id \in Present(rs) :
     Cardinality(Present(rs)) > Limit /\ \A o \in Present(rs) : rs[id].n <= rs[o].n}
Evicted_OneMore(rs) ==
  {id \in Present(rs) :
     /\ Cardinality(Present(rs)) > Limit + 1
     /\ rs[id].hs = "new"
     /\ \A o \in Present(rs) : rs[o].hs = "new" => rs[id].n <= rs[o].n}

(* dropOldestInactiveResponder: the first responder, by counter, that has  *)
(* not sent anything valid; none if every one of them has.                 *)
Evicted(rs) ==
  {id \in Present(rs) :
     /\ Cardinality(Present(rs)) > Limit
     /\ rs[id].hs = "new"
     /\ \A o \in Present(rs) : rs[o].hs = "new" => rs[id].n <= rs[o].n}

(* processNewResponder: replaces what the address held before.             *)
ProcessNewResponder(i, s, id) ==
  LET added == [responders[i] EXCEPT ![id] = NewResponder(i, id, counter[i] + 1)]
      evicted == Evicted(added)
      drops == DropRequests(i, s, InsertionOrder(added, evicted), DroppedByInitiator)
  IN /\ responders' = [responders EXCEPT ![i] = Without(added, evicted)]
     /\ counter' = [counter EXCEPT ![i] = @ + 1]
     /\ outbox' = [outbox EXCEPT ![i] = @ \o drops]
     /\ srv' = [srv EXCEPT ![i] = [s EXCEPT !.out = @ + Cardinality(evicted)]]

(* server-auth: processNewResponder for the listed addresses in order, from *)
(* an empty map.  All of them are new, so with no trusted key the oldest    *)
(* ones go as soon as there are more than Limit.                            *)
HandleServerAuth(i, m) ==
  LET ids == m.body.responders
      surplus == IF Trusts(i) \/ Len(ids) <= Limit THEN 0 ELSE Len(ids) - Limit
      kept == {k \in 1 .. Len(ids) : k > surplus}
      drops == DropRequests(i, srv[i], SubSeq(ids, 1, surplus), DroppedByInitiator)
      entry(id) == CHOOSE k \in kept : ids[k] = id
  IN /\ ServerAuthDone(i, m)
     /\ responders' = [responders EXCEPT ![i] =
          [id \in ResponderIds |->
             IF \E k \in kept : ids[k] = id
             THEN NewResponder(i, id, counter[i] + entry(id)) ELSE NoResponder]]
     /\ counter' = [counter EXCEPT ![i] = @ + Len(ids)]
     /\ outbox' = [outbox EXCEPT ![i] = @ \o drops]
     /\ srv' = [srv EXCEPT ![i] = [srv[i] EXCEPT !.hs = "done", !.in = m.csn, !.out = @ + surplus]]
     /\ Consume(i)
     /\ UNCHANGED <<handover, task, chosen>>

ServerMessage(i, m, state) ==
  /\ conn[i].state = state
  /\ m.src = 0
  /\ NonceAccepted(i, srv[i], m)

FromServer(i, m, state, type) ==
  ServerMessage(i, m, state) /\ m.key = ServerKey(i) /\ m.type = type

Heard(i, m) == [srv[i] EXCEPT !.in = m.csn]

(* new-responder: stored during the peer handshake, dropped afterwards.    *)
HandleNewResponder(i, m) ==
  \/ /\ FromServer(i, m, "peer-handshake", "new-responder")
     /\ m.body \in ResponderIds
     /\ ProcessNewResponder(i, Heard(i, m), m.body)
     /\ Consume(i)
     /\ UNCHANGED <<conn, handover, task, addr, chosen>>
  \/ /\ FromServer(i, m, "task", "new-responder")
     /\ m.body \in ResponderIds
     /\ responders' = [responders EXCEPT ![i] = Without(@, {m.body})]
     /\ outbox' = [outbox EXCEPT ![i] =
                     @ \o DropRequests(i, srv[i], <<m.body>>, DroppedByInitiator)]
     /\ srv' = [srv EXCEPT ![i] = [Heard(i, m) EXCEPT !.out = @ + 1]]
     /\ Consume(i)
     /\ UNCHANGED <<conn, handover, task, addr, counter, chosen>>

(* send-error: the message with this source and destination was not        *)
(* delivered.                                                              *)
SendErrorValid(i, m) == m.body.src = addr[i] /\ m.body.dst \in ResponderIds

HandleSendError(i, m) ==
  \/ /\ FromServer(i, m, "peer-handshake", "send-error")
     /\ SendErrorValid(i, m)
     /\ responders' = [responders EXCEPT ![i] = Without(@, {m.body.dst})]
     /\ srv' = [srv EXCEPT ![i] = Heard(i, m)]
     /\ Consume(i)
     /\ UNCHANGED <<conn, handover, task, addr, outbox, counter, chosen>>
  \/ /\ FromServer(i, m, "task", "send-error")
     /\ SendErrorValid(i, m)
     /\ IF m.body.dst = chosen[i].id
        THEN ResetConnection(i, ProtocolError, <<>>)
        ELSE /\ srv' = [srv EXCEPT ![i] = Heard(i, m)]
             /\ Consume(i)
             /\ UNCHANGED <<conn, handover, task, addr, outbox>>
     /\ UNCHANGED peerVars

(* disconnected, and in state `task` any server message that is not        *)
(* handled: no state changes.                                              *)
HandleDisconnected(i, m) ==
  /\ \/ FromServer(i, m, "peer-handshake", "disconnected")
     \/ /\ ServerMessage(i, m, "task")
        /\ m.key = ServerKey(i)
        /\ m.type \notin {"send-error", "new-responder"}
  /\ srv' = [srv EXCEPT ![i] = Heard(i, m)]
  /\ Consume(i)
  /\ UNCHANGED <<conn, handover, task, addr, outbox, peerVars>>

-----------------------------------------------------------------------------
(* Messages of responders during the peer handshake.                       *)

FromResponder(i, m, hs) ==
  /\ conn[i].state = "peer-handshake"
  /\ m.src \in Present(responders[i])
  /\ responders[i][m.src].hs = hs
  /\ NonceAccepted(i, responders[i][m.src], m)

Saved(i, m) == [responders[i][m.src] EXCEPT !.in = m.csn]

TokenDecrypts_Always(i, m) == m.type = "token"  \* mutant: any key will do
TokenDecrypts(i, m) == m.key = TokenKey(i)

(* token: the responder's permanent key, encrypted with the auth token.    *)
HandleToken(i, m) ==
  /\ FromResponder(i, m, "new")
  /\ TokenDecrypts(i, m) /\ m.type = "token"
  /\ responders' = [responders EXCEPT ![i][m.src] =
       [Saved(i, m) EXCEPT !.hs = "token-received", !.perm = PermanentKey(m.body)]]
  /\ Consume(i)
  /\ UNCHANGED <<conn, srv, handover, task, addr, outbox, counter, chosen>>

(* Mutant: the number of the answer is not counted.                        *)
HandleKey_NotCounted(i, m) ==
  /\ FromResponder(i, m, "token-received")
  /\ m.key = responders[i][m.src].perm /\ m.type = "key"
  /\ LET r == Saved(i, m) IN
       /\ responders' = [responders EXCEPT ![i][m.src] =
            [r EXCEPT !.hs = "key-sent", !.sess = SessionKey(<<i, r.n>>, m.body)]]
       /\ outbox' = [outbox EXCEPT ![i] =
            Append(@, BuildPacket(i, r, r.id, r.perm, "key", <<i, r.n>>))]
  /\ Consume(i)
  /\ UNCHANGED <<conn, srv, handover, task, addr, counter, chosen>>

(* key: generate our session key, answer with it.                          *)
HandleKey(i, m) ==
  /\ FromResponder(i, m, "token-received")
  /\ m.key = responders[i][m.src].perm /\ m.type = "key"
  /\ LET r == Saved(i, m) IN
       /\ responders' = [responders EXCEPT ![i][m.src] =
            [r EXCEPT !.hs = "key-sent", !.out = @ + 1, !.sess = SessionKey(<<i, r.n>>, m.body)]]
       /\ outbox' = [outbox EXCEPT ![i] =
            Append(@, BuildPacket(i, r, r.id, r.perm, "key", <<i, r.n>>))]
  /\ Consume(i)
  /\ UNCHANGED <<conn, srv, handover, task, addr, counter, chosen>>

(* What handleAuth checks before it touches anything: the repeated cookie, *)
(* the well-formed task list, a common task.                               *)
AuthWellFormed(i, m) ==
  m.type = "auth" /\ m.body.cookie = OurCookie(i, responders[i][m.src]) /\ m.body.tasks # {}

Common(i, m) == {k \in DOMAIN OurTasks[i] : OurTasks[i][k] \in m.body.tasks}
ChosenTask_Last(i, m) ==   \* mutant: the last common task
  OurTasks[i][CHOOSE k \in Common(i, m) : \A j \in Common(i, m) : k >= j]
ChosenTask_Kept(i, m) ==   \* mutant: the task that is already set, if any
  IF task[i] # NoTask THEN task[i]
  ELSE OurTasks[i][CHOOSE k \in Common(i, m) : \A j \in Common(i, m) : k <= j]
ChosenTask_Index(i, m) ==  \* mutant: its position
  CHOOSE k \in Common(i, m) : \A j \in Common(i, m) : k <= j
ChosenTask(i, m) == OurTasks[i][CHOOSE k \in Common(i, m) : \A j \in Common(i, m) : k <= j]

AuthDecrypted(i, m) == FromResponder(i, m, "key-sent") /\ m.key = responders[i][m.src].sess

(* Once the chosen one has left the map, the others are dropped.           *)
Others_All(i, m) == Present(responders[i])  \* mutant: it has not left it yet
Others(i, m) == Present(responders[i]) \ {m.src}

(* auth: the task is initialised, our auth goes out, the responder is the  *)
(* chosen one and all others are dropped.                                  *)
HandleAuth(i, m) ==
  /\ AuthDecrypted(i, m)
  /\ AuthWellFormed(i, m)
  /\ Common(i, m) # {}
  /\ m.cookie # OurCookie(i, responders[i][m.src])
  /\ LET r == [Saved(i, m) EXCEPT !.cookie = m.cookie, !.hs = "auth-sent", !.out = @ + 1]
         t == ChosenTask(i, m)
         auth == BuildPacket(i, responders[i][m.src], r.id, r.sess, "auth",
                             [cookie |-> m.cookie, task |-> t])
         drops == DropRequests(i, srv[i], InsertionOrder(responders[i], Others(i, m)),
                               DroppedByInitiator)
     IN /\ task' = [task EXCEPT ![i] = t]
        /\ chosen' = [chosen EXCEPT ![i] = r]
        /\ outbox' = [outbox EXCEPT ![i] = @ \o <<auth>> \o drops]
        /\ srv' = [srv EXCEPT ![i].out = @ + Cardinality(Others(i, m))]
  /\ responders' = [responders EXCEPT ![i] = Without(@, ResponderIds)]
  /\ conn' = [conn EXCEPT ![i].state = "task"]
  /\ Consume(i)
  /\ UNCHANGED <<handover, addr, counter>>

-----------------------------------------------------------------------------
(* Errors.                                                                 *)

(* dropResponder on the source of the message, whichever it is.            *)
DropSource(i, m, reason) ==
  LET s == IF m.src = 0 THEN StoreCsn(i, srv[i], m) ELSE srv[i]
  IN /\ srv' = [srv EXCEPT ![i] = [s EXCEPT !.out = @ + 1]]
     /\ outbox' = [outbox EXCEPT ![i] = @ \o DropRequests(i, s, <<m.src>>, reason)]
     /\ responders' = [responders EXCEPT ![i] = Without(@, {m.src})]
     /\ Consume(i)
     /\ UNCHANGED <<conn, handover, addr, counter, chosen>>

(* The peer is told of the error, and that is the last it hears.           *)
CloseWithError(i, code) ==
  /\ conn[i].state = "task"
  /\ LET close == SendClose(i, chosen[i], chosen[i].id, code)
     IN /\ ResetConnection(i, ClosingNormal, close)
        /\ chosen' = [chosen EXCEPT ![i].out = @ + Len(close)]
  /\ UNCHANGED <<responders, counter>>

(* The catch clause of onMessage for a SignalingError.                     *)
OnSignalingError(i, m, code) ==
  \/ /\ conn[i].state = "server-handshake"
     /\ ResetConnection(i, code, <<>>)
     /\ UNCHANGED peerVars
  \/ /\ conn[i].state = "peer-handshake"
     /\ DropSource(i, m, code)
     /\ UNCHANGED task
  \/ CloseWithError(i, code)

Known(i, m) == m.src = 0 \/ (m.src \in ResponderIds /\ Peer(i, m.src).n # 0)

(* The packet names a sender or carries a nonce it must not.               *)
InvalidNonce(i, m) ==
  /\ m.src = 1 \/ (Known(i, m) /\ ~NonceAccepted(i, Peer(i, m.src), m))
  /\ OnSignalingError(i, m, ProtocolError)

(* A server message that cannot be decrypted, is not expected or says      *)
(* something impossible.                                                   *)
InvalidServerMessage(i, m) ==
  /\ \/ ServerHandshakeError(i, m)
     \/ /\ ServerMessage(i, m, "peer-handshake")
        /\ \/ m.key # ServerKey(i)
           \/ m.type \notin {"new-responder", "send-error", "disconnected"}
     \/ ServerMessage(i, m, "task") /\ m.key # ServerKey(i)
     \/ /\ conn[i].state \in {"peer-handshake", "task"}
        /\ ServerMessage(i, m, conn[i].state)
        /\ m.key = ServerKey(i)
        /\ \/ m.type = "new-responder" /\ m.body \notin ResponderIds
           \/ m.type = "send-error" /\ ~SendErrorValid(i, m)
  /\ OnSignalingError(i, m, ProtocolError)

InvalidResponderMessage(i, m) ==
  \/ /\ \/ FromResponder(i, m, "new") /\ TokenDecrypts(i, m) /\ m.type # "token"
        \/ /\ FromResponder(i, m, "token-received")
           /\ m.key = responders[i][m.src].perm /\ m.type # "key"
        \/ FromResponder(i, m, "key-sent") /\ m.key # responders[i][m.src].sess
        \/ AuthDecrypted(i, m) /\ ~AuthWellFormed(i, m)
     /\ OnSignalingError(i, m, ProtocolError)
  \/ /\ AuthDecrypted(i, m) /\ AuthWellFormed(i, m) /\ Common(i, m) = {}
     /\ OnSignalingError(i, m, NoSharedTask)

(* A token, or with a trusted key a key message, that does not decrypt.    *)
CouldNotDecrypt(i, m) ==
  /\ \/ FromResponder(i, m, "new") /\ ~TokenDecrypts(i, m)
     \/ /\ FromResponder(i, m, "token-received")
        /\ Trusts(i) /\ m.key # responders[i][m.src].perm
  /\ DropSource(i, m, InitiatorCouldNotDecrypt)
  /\ UNCHANGED task

(* handleAuth initialises the task before it stores the cookie, which      *)
(* throws for our own cookie: the responder is dropped, the task stays.    *)
AuthWithOurCookie(i, m) ==
  /\ AuthDecrypted(i, m)
  /\ AuthWellFormed(i, m)
  /\ Common(i, m) # {}
  /\ m.cookie = OurCookie(i, responders[i][m.src])
  /\ task' = [task EXCEPT ![i] = ChosenTask(i, m)]
  /\ DropSource(i, m, ProtocolError)

(* A CryptoError that is rethrown: without a trusted key the key message   *)
(* must be encrypted with the key of the token.                            *)
KeyUndecryptable(i, m) ==
  /\ FromResponder(i, m, "token-received")
  /\ ~Trusts(i) /\ m.key # responders[i][m.src].perm
  /\ responders' = [responders EXCEPT ![i][m.src] = Saved(i, m)]
  /\ Consume(i)
  /\ UNCHANGED <<conn, srv, handover, task, addr, outbox, counter, chosen>>

(* A message of a responder that was dropped is ignored, and so is one of  *)
(* any responder during the server handshake: `responders` is null then,   *)
(* and the TypeError of its lookup (initiator.ts:95) leaves onMessage with *)
(* nothing changed.  (Module Client has the exception.)                    *)
(* Mutant: in state `task` it is an error.                                 *)
IgnoreUnknown_NotInTask(i, m) ==
  /\ m.src \in ResponderIds /\ Peer(i, m.src).n = 0
  /\ \/ CloseWithError(i, ProtocolError)
     \/ /\ conn[i].state # "task"
        /\ Consume(i)
        /\ UNCHANGED <<conn, srv, handover, task, addr, outbox, peerVars>>

IgnoreUnknown(i, m) ==
  /\ m.src \in ResponderIds /\ Peer(i, m.src).n = 0
  /\ Consume(i)
  /\ UNCHANGED <<conn, srv, handover, task, addr, outbox, peerVars>>

-----------------------------------------------------------------------------
(* After the handshake.                                                    *)

FromChosen(i, m) ==
  /\ conn[i].state = "task"
  /\ m.src = chosen[i].id
  /\ NonceAccepted(i, chosen[i], m)

StoreChosenCsn(i, m) == chosen' = [chosen EXCEPT ![i].in = m.csn]

HandlePeerMessage(i, m) ==
  /\ FromChosen(i, m)
  /\ m.key = chosen[i].sess
  /\ PeerMessage(i, m)
  /\ StoreChosenCsn(i, m)
  /\ UNCHANGED <<responders, counter>>

PeerMessageUndecryptable(i, m) ==
  /\ FromChosen(i, m)
  /\ m.key # chosen[i].sess
  /\ StoreChosenCsn(i, m)
  /\ Consume(i)
  /\ UNCHANGED <<conn, srv, handover, task, addr, outbox, responders, counter>>

InitiatorHandover(i) ==
  /\ LocalHandover(i, chosen[i], chosen[i].id)
  /\ chosen' = [chosen EXCEPT ![i].out = @ + 1]
  /\ UNCHANGED <<responders, counter>>

InitiatorSends(i) ==
  /\ SendApplication(i, chosen[i], chosen[i].id)
  /\ chosen' = [chosen EXCEPT ![i].out = @ + 1]
  /\ UNCHANGED <<responders, counter>>

-----------------------------------------------------------------------------
InitiatorOnMessage(i) ==
  /\ Receives(i)
  /\ LET m == Head(inbox[i]) IN
       \/ AfterPeerHandover(i) /\ UNCHANGED peerVars
       \/ /\ ~handover[i].peer
          /\ \/ HandleServerHello(i, m) /\ UNCHANGED peerVars
             \/ ServerAuthUndecryptable(i, m) /\ UNCHANGED peerVars
             \/ HandleServerAuth(i, m)
             \/ HandleNewResponder(i, m)
             \/ HandleSendError(i, m)
             \/ HandleDisconnected(i, m)
             \/ HandleToken(i, m)
             \/ HandleKey(i, m)
             \/ HandleAuth(i, m)
             \/ InvalidNonce(i, m)
             \/ InvalidServerMessage(i, m)
             \/ InvalidResponderMessage(i, m)
             \/ CouldNotDecrypt(i, m)
             \/ AuthWithOurCookie(i, m)
             \/ KeyUndecryptable(i, m)
             \/ IgnoreUnknown(i, m)
             \/ HandlePeerMessage(i, m)
             \/ PeerMessageUndecryptable(i, m)

InitInitiator ==
  /\ responders = [i \in Initiators |-> [id \in ResponderIds |-> NoResponder]]
  /\ counter = [i \in Initiators |-> 0]
  /\ chosen = [i \in Initiators |-> NoResponder]
=============================================================================
