-------------------------------- MODULE Path --------------------------------
(***************************************************************************)
(* Initiators and responders that meet on one path of a signaling server.  *)
(* The clients are modules Initiator and Responder; the server is external *)
(* and modelled from what src/ sends to it, expects from it and says about *)
(* it.  Every WebSocket is a pair of FIFO streams, and every stream is     *)
(* read at its own pace: what is in flight when a client is dropped,       *)
(* leaves or is replaced arrives late, or at somebody else.                *)
(***************************************************************************)
EXTENDS Initiator, Responder, SequencesExt

CONSTANTS
  MayLeave,  \* clients whose application may disconnect
  MayFail,   \* clients whose connection may break
  HandsOver, \* clients whose task hands over
  MaxSent    \* bound: packets a client has sent to its peer when it sends
             \* another application message

ASSUME PathAssumption ==
  MayLeave \cup MayFail \cup HandsOver \subseteq Client /\ MaxSent \in Nat

VARIABLES
  slot,   \* address -> the client it is assigned to, or NoPeer
  phase,  \* what the server knows of each connection
  sout    \* number of the server's last packet to each client

serverVars == <<slot, phase, sout>>
vars == <<commonVars, peerVars, initiator, serverVars>>

-----------------------------------------------------------------------------
(* The server.                                                             *)

Joined == {c \in Client : phase[c] = "joined"}
AddressOf(c) == CHOOSE a \in DOMAIN slot : slot[a] = c
Taken == {a \in ResponderIds : slot[a] # NoPeer}

ServerPacket(c, dst, key, type, body) ==
  [src |-> 0, dst |-> dst, csn |-> sout[c] + 1, cookie |-> <<NoPeer, 0>>,
   key |-> key, type |-> type, body |-> body]

Notice(c, type, body) ==
  [to |-> c, frame |-> ServerPacket(c, AddressOf(c), ServerKey(c), type, body)]
Kick(c, code) == [to |-> c, frame |-> CloseFrame(code)]

(* Hand over at most one frame to each client.  A socket that is closing   *)
(* dispatches no message, so nothing is queued for it.                     *)
Post(posts) ==
  LET frames(c) == {p.frame : p \in {q \in posts : q.to = c}}
  IN /\ inbox' = [c \in Client |->
                    IF conn[c].socket = "open" THEN inbox[c] \o SetToSeq(frames(c)) ELSE inbox[c]]
     /\ sout' = [c \in Client |->
                   IF \E f \in frames(c) : f.src = 0 /\ f.type # "ws-close"
                   THEN sout[c] + 1 ELSE sout[c]]

Read(c) == outbox' = [outbox EXCEPT ![c] = Tail(@)]

(* The connection is established and the server greets.                    *)
Accept(c) ==
  /\ OnOpen(c)
  /\ inbox' = [inbox EXCEPT ![c] = <<ServerPacket(c, 0, Plain, "server-hello", NoTask)>>]
  /\ sout' = [sout EXCEPT ![c] = @ + 1]
  /\ phase' = [phase EXCEPT ![c] = "greeted"]
  /\ UNCHANGED slot

(* An initiator replaces the previous one and is told of the responders,   *)
(* in some order.                                                          *)
InitiatorJoins(c, m) ==
  /\ c \in Initiators
  /\ phase[c] = "greeted" /\ m.type = "client-auth"
  /\ LET old == {slot[1]} \ {NoPeer}
         auth == ServerPacket(c, 1, ServerKey(c), "server-auth",
                   [cookie |-> m.cookie, responders |-> SetToSeq(Taken)])
     IN /\ phase' = [d \in Client |-> IF d = c THEN "joined" ELSE IF d \in old THEN "gone" ELSE phase[d]]
        /\ slot' = [slot EXCEPT ![1] = c]
        /\ Post({[to |-> c, frame |-> auth]}
                \cup {Kick(o, DroppedByInitiator) : o \in old}
                \cup {Notice(slot[a], "new-initiator", NoTask) : a \in Taken})

(* A responder gets a free address, or is sent away.                       *)
ResponderJoins(c, m) ==
  /\ c \in Responders
  /\ phase[c] = "greeted" /\ m.type = "client-auth"
  /\ IF Taken = ResponderIds
     THEN /\ phase' = [phase EXCEPT ![c] = "gone"]
          /\ Post({Kick(c, PathFull)})
          /\ UNCHANGED slot
     ELSE LET a == CHOOSE b \in ResponderIds \ Taken : \A o \in ResponderIds \ Taken : b <= o
              auth == ServerPacket(c, a, ServerKey(c), "server-auth",
                        [cookie |-> m.cookie, connected |-> slot[1] # NoPeer])
          IN /\ phase' = [phase EXCEPT ![c] = "joined"]
             /\ slot' = [slot EXCEPT ![a] = c]
             /\ Post({[to |-> c, frame |-> auth]}
                     \cup {Notice(i, "new-responder", a) : i \in {slot[1]} \ {NoPeer}})

(* drop-responder closes the connection with the reason given.             *)
ServerDrops(c, m) ==
  /\ c \in Joined /\ m.type = "drop-responder"
  /\ IF m.body.id \in Taken
     THEN LET d == slot[m.body.id]
          IN /\ phase' = [phase EXCEPT ![d] = "gone"]
             /\ slot' = [slot EXCEPT ![m.body.id] = NoPeer]
             /\ Post({Kick(d, m.body.reason)})
     ELSE Post({}) /\ UNCHANGED <<phase, slot>>

(* Everything for a peer is relayed as it is, or answered with send-error. *)
Relay(c, m) ==
  /\ c \in Joined /\ m.dst # 0 /\ m.type # "ws-close"
  /\ IF slot[m.dst] # NoPeer
     THEN Post({[to |-> slot[m.dst], frame |-> m]})
     ELSE Post({Notice(c, "send-error", [src |-> m.src, dst |-> m.dst])})
  /\ UNCHANGED <<phase, slot>>

(* A client that leaves is reported to the other side of the path.         *)
ClientLeaves(c, m) ==
  /\ phase[c] \in {"greeted", "joined"} /\ m.type = "ws-close"
  /\ phase' = [phase EXCEPT ![c] = "gone"]
  /\ IF c \notin Joined THEN Post({}) /\ UNCHANGED slot
     ELSE LET a == AddressOf(c)
              peers == IF a = 1 THEN {slot[b] : b \in Taken} ELSE {slot[1]} \ {NoPeer}
          IN /\ slot' = [slot EXCEPT ![a] = NoPeer]
             /\ Post({Notice(p, "disconnected", a) : p \in peers})

ServerReads(c) ==
  /\ outbox[c] # <<>>
  /\ LET m == Head(outbox[c]) IN
       \/ InitiatorJoins(c, m)
       \/ ResponderJoins(c, m)
       \/ ServerDrops(c, m)
       \/ Relay(c, m)
       \/ ClientLeaves(c, m)
       \/ /\ m.type = "client-hello" \/ phase[c] = "gone"
          /\ Post({}) /\ UNCHANGED <<phase, slot>>
  /\ Read(c)
  /\ UNCHANGED <<conn, srv, handover, task, addr, peerVars, initiator>>

-----------------------------------------------------------------------------
(* The clients.                                                            *)

OnMessage(c) ==
  /\ \/ c \in Initiators /\ InitiatorOnMessage(c) /\ UNCHANGED initiator
     \/ c \in Responders /\ ResponderOnMessage(c) /\ UNCHANGED peerVars
  /\ UNCHANGED serverVars

Opens(c) == Accept(c) /\ UNCHANGED <<peerVars, initiator>>

SocketEvent(c) ==
  /\ CloseEvent(c) \/ ServerCloses(c)
  /\ UNCHANGED <<peerVars, initiator, serverVars>>

Connects(c) == Connect(c) /\ UNCHANGED <<peerVars, initiator, serverVars>>

Leaves(c) ==
  /\ \/ c \in MayLeave /\ conn[c].used /\ conn[c].state # "closed" /\ Disconnect(c, FALSE)
     \/ c \in MayFail /\ ConnectionLost(c)
  /\ UNCHANGED <<peerVars, initiator, serverVars>>

HandOver(c) ==
  /\ c \in HandsOver
  /\ \/ c \in Initiators /\ InitiatorHandover(c) /\ UNCHANGED initiator
     \/ c \in Responders /\ ResponderHandover(c) /\ UNCHANGED peerVars
  /\ UNCHANGED serverVars

Sends(c) ==
  /\ \/ /\ c \in Initiators /\ chosen[c].out < MaxSent
        /\ InitiatorSends(c) /\ UNCHANGED initiator
     \/ /\ c \in Responders /\ initiator[c].out < MaxSent
        /\ ResponderSends(c) /\ UNCHANGED peerVars
  /\ UNCHANGED serverVars

Init ==
  /\ InitCommon /\ InitInitiator /\ InitResponder
  /\ slot = [a \in {1} \cup ResponderIds |-> NoPeer]
  /\ phase = [c \in Client |-> "none"]
  /\ sout = [c \in Client |-> 0]

Step(c) == OnMessage(c) \/ Opens(c) \/ SocketEvent(c) \/ Connects(c) \/ HandOver(c) \/ ServerReads(c)

Next == \E c \in Client : Step(c) \/ Leaves(c) \/ Sends(c)

Spec == Init /\ [][Next]_vars

(* The event loop of a client and the server handle what is waiting for    *)
(* them, every application connects, and a task that can hand over does.   *)
FairSpec ==
  Spec /\ \A c \in Client :
    /\ WF_vars(OnMessage(c)) /\ WF_vars(Opens(c)) /\ WF_vars(SocketEvent(c))
    /\ WF_vars(Connects(c)) /\ WF_vars(HandOver(c)) /\ WF_vars(ServerReads(c))

-----------------------------------------------------------------------------
(* Safety.                                                                 *)

(* A responder reaches state `task` only with an initiator that has chosen *)
(* it: both hold the same session key and the same task, the initiator's   *)
(* first preference among those the responder offered.                     *)
Partner(r) == {i \in Initiators : chosen[i].n # 0 /\ chosen[i].sess = initiator[r].sess}
PairedInTask ==
  \A r \in Responders : conn[r].state = "task" =>
    \E i \in Partner(r) :
      /\ task[i] = task[r]
      /\ \A k \in DOMAIN OurTasks[i] :
           OurTasks[i][k] \in OfferedTasks[r] =>
             \E j \in 1 .. k : OurTasks[i][j] = task[r]

(* Nobody else gets in: the responder an initiator shares a session with   *)
(* is the one it trusts or, without a trusted key, one that was given its  *)
(* auth token.                                                             *)
OnlyInvited ==
  \A i \in Initiators : conn[i].state = "task" =>
    \E r \in Responders :
      /\ \E n \in 1 .. initiator[r].n : <<r, n>> \in chosen[i].sess[2]
      /\ IF PeerTrustedKey[i] # NoPeer THEN r = PeerTrustedKey[i] ELSE AuthToken[r] = i

NobodyLeft ==
  /\ \A c \in MayLeave : conn[c].code # ClosingNormal
  /\ \A c \in MayFail : conn[c].code # AbnormalClosure

(* As long as nobody has left, no step resets a client or has it closed    *)
(* because of an error, in a handshake or in state `task`, whatever is in  *)
(* flight.  A reset is what every error of a client ends in: in state      *)
(* `task` its code is the one of a normal closure, but the state is `new`  *)
(* again.                                                                  *)
NobodyReset ==
  [][NobodyLeft => \A c \in Client :
       /\ conn'[c].state = "new" => conn[c].state = "new"
       /\ conn'[c].code \notin {ProtocolError, InternalError, InitiatorCouldNotDecrypt}]_vars

(* The two handshakes agree on who is dropped: a responder in state `task` *)
(* is not asked to leave by the initiator that chose it.                   *)
ChosenIsKept ==
  \A i \in Initiators : \A k \in DOMAIN outbox[i] :
    LET p == outbox[i][k]
    IN p.type = "drop-responder" /\ p.body.id \in Taken =>
         LET r == slot[p.body.id]
         IN conn[r].state = "task" => i \notin Partner(r)

(* The two HandoverStates of a session agree: a side believes that the     *)
(* other one has handed over only when it has.                             *)
HandoverAgreed ==
  \A r \in Responders : \A i \in Partner(r) :
    conn[r].state = "task" /\ conn[i].state = "task" =>
      /\ handover[r].peer => handover[i].local
      /\ handover[i].peer => handover[r].local

(* The key that everything a client and its peer tell each other in a      *)
(* session is encrypted with.                                              *)
PeerKey(c) == IF c \in Initiators THEN chosen[c].sess ELSE initiator[c].sess

(* After the handover message of a peer nothing of it arrives through the  *)
(* WebSocket: everything it sends later takes the channel of the task.     *)
NothingAfterHandover ==
  \A c \in Client : handover[c].peer =>
    \A k \in DOMAIN inbox[c] : inbox[c][k].key # PeerKey(c)

-----------------------------------------------------------------------------
(* Liveness.                                                               *)

(* Unless somebody leaves, an initiator and a responder finish.            *)
HandshakeCompletes ==
  <>(~NobodyLeft \/ \E i \in Initiators, r \in Responders :
       conn[i].state = "task" /\ conn[r].state = "task" /\ i \in Partner(r))

(* Every responder ends up with an initiator or is sent away; none waits   *)
(* forever in a handshake while there is an initiator.                     *)
NobodyWaits ==
  \A r \in Responders :
    <>[](conn[r].state \in {"task", "new", "closed"} \/ slot[1] = NoPeer)

(* When both tasks hand over, both WebSockets are closed with code Handover *)
(* and none is reset.                                                      *)
HandoverCompletes ==
  <>[](\A c \in Client : Both(c) /\ conn[c].socket = "closed" /\ conn[c].code = Handover)

-----------------------------------------------------------------------------
(* What the path promises.                                                 *)

(* The client that contributed a half of a session key.                    *)
Holder(key, side) == CHOOSE c \in side : \E half \in key[2] : half[1] = c

Stage(c) ==
  CASE conn[c].state = "task" -> "session"
    [] conn[c].used /\ conn[c].state \in {"new", "closing", "closed"} -> "over"
    [] OTHER -> "idle"

SessionOf(key, t) ==
  [initiator |-> Holder(key, Initiators), responder |-> Holder(key, Responders),
   key |-> key, task |-> t]

(* An initiator opens a session when it has authenticated the responder it *)
(* keeps, and a responder enters it when it has authenticated the          *)
(* initiator.  What was opened and entered is never taken back.            *)
Promise == INSTANCE Session WITH
  Keys <- Key,
  NoSession <- NoPeer,
  stage <- [c \in Client |-> Stage(c)],
  opened <- [i \in Initiators |->
               IF chosen[i].n = 0 THEN NoPeer ELSE SessionOf(chosen[i].sess, task[i])],
  entered <- [r \in Responders |->
               IF initiator[r].hs # "auth-received" THEN NoPeer
               ELSE SessionOf(initiator[r].sess, task[r])]

(* The path keeps it: every step of a client or of the server opens,       *)
(* enters or ends one session of one client, or none.                      *)
KeepsPromise == Promise!SessionSpec

(* An initiator that is in a session is not alone in it for ever.          *)
SessionsSettle == Promise!Settles
=============================================================================
