------------------------------- MODULE Client -------------------------------
(***************************************************************************)
(* One client as its application sees it: the facade SaltyRTC of           *)
(* client.ts, the events it emits, and the handlers of the application,    *)
(* which run inside the code that emits and may call the client again.     *)
(*                                                                         *)
(* JavaScript runs one call to its end before the next message or socket   *)
(* event.  Here the call stack is explicit: `stack` holds what is left to  *)
(* do, the innermost statement first, and is empty between two events.     *)
(* A step runs one statement, so that a handler finds, and leaves, exactly *)
(* the state in which the code emits.                                      *)
(*                                                                         *)
(* Abstractions.  Modules Initiator and Responder say what a message does  *)
(* to keys, numbers and peers; here it is the list of statements that can  *)
(* throw, emit, or change what the application sees.  Messages that do     *)
(* none of that are left out; sends with nothing between them are one.     *)
(* An exception that leaves the code is kept with what has thrown it.  A   *)
(* task is assumed to throw in `init` only.                                *)
(***************************************************************************)
EXTENDS Builder, EventRegistry, FiniteSets

CONSTANTS
  Watched,    \* events the application registers handlers for
  Functions,  \* functions the application registers
  MaxOnce,    \* bound: calls of `once`
  MaxCalls    \* bound: calls of the application, from anywhere

VARIABLES
  registry,   \* SaltyRTC.eventRegistry
  stack,      \* statements still to be run
  sig,        \* the signaling instance: state, server handshake, WebSocket, handover
  life,       \* of the task: whether it is set, and the calls it got
  app         \* calls of the application so far, and what became of them

vars == <<builder, role, registry, stack, sig, life, app>>

SignalingState == {"new", "ws-connecting", "server-handshake", "peer-handshake",
                   "task", "closing", "closed"}
StateChange(s) == "state-change:" \o s
Event == {"state-change", "connection-closed", "connection-error", "new-responder",
          "no-shared-task", "signaling-connection-lost", "peer-disconnected",
          "application", "handover"} \cup {StateChange(s) : s \in SignalingState}

(* Close codes.                                                            *)
ClosingNormal == 1000
GoingAway == 1001
ProtocolError == 3001
InternalError == 3002
Handover == 3003

ASSUME WatchedAssumption == Watched \subseteq Event
ASSUME BoundsAssumption == IsFiniteSet(Functions) /\ MaxOnce \in Nat

(* A handler is a function with 0, or the n-th wrapper made by `once`.     *)
Handler == Functions \X (0 .. MaxOnce)
IsWrapper(h) == h[2] # 0

-----------------------------------------------------------------------------
(* Statements.                                                             *)

Emit(ev) == [do |-> "emit", ev |-> ev]
Calls(ev, due, called) == [do |-> "calls", ev |-> ev, due |-> due, called |-> called]
Running(ev, h) == [do |-> "handler", ev |-> ev, h |-> h]
Set(s) == [do |-> "set", to |-> s]
Close(code, unbind) == [do |-> "close", code |-> code, unbind |-> unbind]
Plainly(what) == [do |-> what]

(* Statements without operands.  A message throws a SignalingError, or     *)
(* fails in a way that onMessage passes on (common.ts:393): a frame that   *)
(* is too short, a box that does not decrypt where nothing converts the    *)
(* CryptoError, a message of a peer before there are any.                  *)
Throw == Plainly("throw")
Fail == Plainly("fail")
Renew == Plainly("renew")              \* new Server(), handoverState.reset()
Open == Plainly("open")                \* new WebSocket()
Send == Plainly("send")                \* this.ws.send()
SendClose == Plainly("sendClose")
AuthSent == Plainly("authSent")
HandshakeDone == Plainly("handshakeDone")
InitTask == Plainly("initTask")
TellTask == Plainly("tellTask")        \* task.onPeerHandshakeDone()
CloseTask == Plainly("closeTask")
EndOfTry == Plainly("endOfTry")        \* of the try block of onMessage
EndOfCall == Plainly("endOfCall")      \* of a call that the task made

(* resetConnection, connect and disconnect.  The send of a close message   *)
(* in disconnect is dead code: the state is `closing` when it is compared. *)
ResetConnection(code) == <<Close(code, TRUE), Renew, Set("new")>>
ConnectBody == ResetConnection(ClosingNormal) \o <<Open, Set("ws-connecting")>>
DisconnectBody_InTask(unbind) ==  \* mutant: closes the task only in state `task`
  <<Set("closing"), Close(ClosingNormal, unbind)>>
    \o (IF sig.state = "task" THEN <<CloseTask>> ELSE <<>>) \o <<Set("closed")>>
DisconnectBody(unbind) ==
  <<Set("closing"), Close(ClosingNormal, unbind), CloseTask, Set("closed")>>

(* What onMessage does with a SignalingError, in the state it finds then.  *)
Reaction ==
  CASE sig.state \in {"new", "ws-connecting", "server-handshake"} -> ResetConnection(ProtocolError)
    [] sig.state = "peer-handshake" ->
         IF role = "initiator" THEN <<Send>> ELSE ResetConnection(ProtocolError)
    [] sig.state = "task" -> <<SendClose>> \o ResetConnection(ClosingNormal)
    [] OTHER -> <<>>

-----------------------------------------------------------------------------
(* Running a statement.                                                    *)

Idle == stack = <<>>
Runs(what) == ~Idle /\ Head(stack).do = what
Then(statements) == stack' = statements \o Tail(stack)
Continue == Then(<<>>)

(* The application has control between two events and in its handlers.     *)
InHandler == Runs("handler")
AppRuns == ~Building /\ (Idle \/ InHandler)

(* An exception ends the statements up to the try block around them, which *)
(* catches SignalingErrors.  What a listener does not catch leaves it.     *)
Cause == {"signaling", "message", "send", "task", "handler"}
Raise(cause) ==
  LET catcher == {stack[k].do : k \in DOMAIN stack} \cap {"endOfTry", "endOfCall"}
  IN IF "endOfTry" \in catcher /\ cause = "signaling"
     THEN stack' = Reaction /\ UNCHANGED app
     ELSE /\ stack' = <<>>
          /\ app' = [app EXCEPT !.escaped = IF "endOfCall" \in catcher THEN @ ELSE @ \cup {cause}]

SetState ==
  /\ Runs("set")
  /\ LET s == Head(stack).to
     IN /\ sig' = [sig EXCEPT !.state = s]
        /\ Then(<<Emit("state-change"), Emit(StateChange(s))>>)
  /\ UNCHANGED <<registry, life, app>>

(* emit works on a copy of the list of handlers.                           *)
StartEmit ==
  /\ Runs("emit")
  /\ LET ev == Head(stack).ev
     IN Then(IF registry[ev] = <<>> THEN <<>> ELSE <<Calls(ev, registry[ev], <<>>)>>)
  /\ UNCHANGED <<registry, sig, life, app>>

(* Mutant: on the list itself, which the handlers change.                  *)
Remaining_Live(frame) ==
  SubSeq(registry[frame.ev], Len(frame.called) + 1, Len(registry[frame.ev]))
Remaining(frame) == SubSeq(frame.due, Len(frame.called) + 1, Len(frame.due))

CallHandler ==
  /\ Runs("calls") /\ Remaining(Head(stack)) # <<>>
  /\ LET frame == Head(stack)
         h == Head(Remaining(frame))
     IN /\ Then(<<Running(frame.ev, h), Calls(frame.ev, frame.due, Append(frame.called, h))>>)
        /\ app' = [app EXCEPT !.ran = IF IsWrapper(h) THEN @ \cup {<<frame.ev, h>>} ELSE @]
  /\ UNCHANGED <<registry, sig, life>>

EndEmit ==
  /\ Runs("calls") /\ Remaining(Head(stack)) = <<>>
  /\ Continue
  /\ UNCHANGED <<registry, sig, life, app>>

(* A handler returns nothing or false, or throws.  A wrapper made by once  *)
(* removes itself in the end, from the event it was called for.            *)
HandlerAfter_KeepsThrower(h, ev, outcome) ==  \* mutant: not when it throws
  IF (IsWrapper(h) /\ outcome # "throws") \/ (~IsWrapper(h) /\ outcome = "false")
  THEN Unregister(registry, {ev}, h) ELSE registry
HandlerAfter(h, ev, outcome) ==
  IF IsWrapper(h) \/ outcome = "false" THEN Unregister(registry, {ev}, h) ELSE registry

(* emit catches what a handler throws.                                     *)
Propagates_Thrown(outcome) == outcome = "throws"  \* mutant: it does not
Propagates(outcome) == FALSE

Return ==
  /\ InHandler
  /\ \E outcome \in {"returns", "false", "throws"} :
       /\ registry' = HandlerAfter(Head(stack).h, Head(stack).ev, outcome)
       /\ IF Propagates(outcome) THEN Raise("handler") ELSE Continue /\ UNCHANGED app
  /\ UNCHANGED <<sig, life>>

(* closeWebsocket.                                                         *)
CloseWebsocket ==
  /\ Runs("close")
  /\ IF sig.ws
     THEN /\ sig' = [sig EXCEPT !.ws = FALSE,
                                !.socket = IF @ = "closed" THEN @ ELSE "closing",
                                !.code = IF sig.socket = "closed" THEN @ ELSE Head(stack).code]
          /\ Then(IF Head(stack).unbind THEN <<Set("closed")>> ELSE <<>>)
     ELSE Continue /\ UNCHANGED sig
  /\ UNCHANGED <<registry, life, app>>

RenewServer ==
  /\ Runs("renew")
  /\ sig' = [sig EXCEPT !.hs = "new", !.local = FALSE, !.peer = FALSE]
  /\ Continue
  /\ UNCHANGED <<registry, life, app>>

OpenWebsocket ==
  /\ Runs("open")
  /\ sig' = [sig EXCEPT !.ws = TRUE, !.socket = "connecting"]
  /\ Continue
  /\ UNCHANGED <<registry, life, app>>

(* Sending without a WebSocket is a TypeError.                             *)
SendPacket ==
  /\ Runs("send") \/ (Runs("sendClose") /\ ~sig.local)
  /\ IF sig.ws THEN Continue /\ UNCHANGED app ELSE Raise("send")
  /\ UNCHANGED <<registry, sig, life>>

SendThroughTask ==
  /\ Runs("sendClose") /\ sig.local
  /\ Continue
  /\ UNCHANGED <<registry, sig, life, app>>

AdvanceHandshake ==
  /\ \/ Runs("authSent") /\ sig' = [sig EXCEPT !.hs = "auth-sent"]
     \/ Runs("handshakeDone") /\ sig' = [sig EXCEPT !.hs = "done"]
  /\ Continue
  /\ UNCHANGED <<registry, life, app>>

(* task.init throws a ValidationError when it refuses the data; initTask   *)
(* passes on anything else.                                                *)
InitTheTask ==
  /\ Runs("initTask")
  /\ \/ life' = [life EXCEPT !.set = TRUE] /\ Continue /\ UNCHANGED app
     \/ \E cause \in {"signaling", "task"} : Raise(cause) /\ UNCHANGED life
  /\ UNCHANGED <<registry, sig>>

CallTask ==
  /\ \/ Runs("tellTask") /\ life' = [life EXCEPT !.told = TRUE]
     \/ Runs("closeTask") /\ life' = [life EXCEPT !.closed = life.set]
  /\ Continue
  /\ UNCHANGED <<registry, sig, app>>

ThrowError ==
  /\ \/ Runs("throw") /\ Raise("signaling")
     \/ Runs("fail") /\ Raise("message")
  /\ UNCHANGED <<registry, sig, life>>

EndBlock ==
  /\ Runs("endOfTry") \/ Runs("endOfCall")
  /\ Continue
  /\ UNCHANGED <<registry, sig, life, app>>

Statement ==
  \/ SetState \/ StartEmit \/ CallHandler \/ EndEmit \/ Return
  \/ CloseWebsocket \/ RenewServer \/ OpenWebsocket \/ SendPacket \/ SendThroughTask
  \/ AdvanceHandshake \/ InitTheTask \/ CallTask \/ ThrowError \/ EndBlock

-----------------------------------------------------------------------------
(* Calls of the application.  A call that throws changes nothing.          *)

MayCall == AppRuns /\ app.calls < MaxCalls
Called == [app EXCEPT !.calls = @ + 1]

On(f) ==
  /\ MayCall
  /\ \E ev \in Watched : registry' = Register(registry, {ev}, <<f, 0>>)
  /\ app' = Called
  /\ UNCHANGED <<stack, sig, life>>

(* One wrapper serves all the events that once is called with.             *)
Once(f) ==
  /\ MayCall /\ app.once < MaxOnce
  /\ \E events \in SUBSET Watched \ {{}} :
       registry' = Register(registry, events, <<f, app.once + 1>>)
  /\ app' = [Called EXCEPT !.once = @ + 1]
  /\ UNCHANGED <<stack, sig, life>>

(* The application does not know the wrappers: off finds only functions.   *)
Off ==
  /\ MayCall
  /\ \/ \E ev \in Watched, f \in Functions : registry' = Unregister(registry, {ev}, <<f, 0>>)
     \/ \E ev \in Watched : registry' = UnregisterEvents(registry, {ev})
     \/ registry' = EmptyRegistry(Event)
  /\ app' = Called
  /\ UNCHANGED <<stack, sig, life>>

(* Mutant: an instance can be used again.                                  *)
Connect_Again ==
  /\ MayCall /\ ~sig.ws
  /\ sig' = [sig EXCEPT !.used = TRUE]
  /\ stack' = ConnectBody \o stack
  /\ app' = Called
  /\ UNCHANGED <<registry, life>>

Connect ==
  /\ MayCall /\ ~sig.used
  /\ sig' = [sig EXCEPT !.used = TRUE]
  /\ stack' = ConnectBody \o stack
  /\ app' = Called
  /\ UNCHANGED <<registry, life>>

Disconnect(unbind) ==
  /\ MayCall
  /\ stack' = DisconnectBody(unbind) \o stack
  /\ app' = [Called EXCEPT !.left = @ \/ sig.socket # "none", !.within = @ \/ InHandler]
  /\ UNCHANGED <<registry, sig, life>>

Application ==
  \/ \E f \in Functions : On(f) \/ Once(f)
  \/ Off
  \/ Connect
  \/ \E unbind \in BOOLEAN : Disconnect(unbind)

-----------------------------------------------------------------------------
(* Events of the WebSocket.                                                *)

OnOpen ==
  /\ Idle /\ sig.socket = "connecting"
  /\ sig' = [sig EXCEPT !.socket = "open"]
  /\ stack' = <<Set("server-handshake")>>
  /\ UNCHANGED <<registry, life, app>>

(* An error is followed by the close event.                                *)
OnError ==
  /\ Idle /\ sig.socket \in {"connecting", "open", "closing"}
  /\ sig' = [sig EXCEPT !.socket = "failed"]
  /\ stack' = <<Emit("connection-error")>>
  /\ UNCHANGED <<registry, life, app>>

(* The code is the one this side closed with, unless the connection broke  *)
(* or the other side closed it.                                            *)
OnClose ==
  /\ Idle /\ sig.socket \in {"connecting", "open", "closing", "failed"}
  /\ sig' = [sig EXCEPT !.socket = "closed"]
  /\ \/ sig.socket = "closing" /\ sig.code = Handover /\ stack' = <<>>
     \/ stack' = <<Set("closed"), Emit("connection-closed")>>
  /\ UNCHANGED <<registry, life, app>>

(* The statements a message can make the handler of its state run.         *)
ServerHello ==
  IF role = "initiator" THEN <<Send, AuthSent>> ELSE <<Send, Send, AuthSent>>

(* The responders in the list are announced one by one; near the limit,    *)
(* another one is dropped before (initiator.ts:141-149).                   *)
Announcement == Emit("new-responder")
Announced ==
  {<<>>, <<Announcement>>, <<Announcement, Announcement>>, <<Announcement, Send, Announcement>>}
ServerAuth ==
  IF role = "initiator"
  THEN {told \o <<HandshakeDone, Set("peer-handshake")>> : told \in Announced}
  ELSE {<<HandshakeDone, Set("peer-handshake")>> \o sent : sent \in {<<>>, <<Send>>}}

FromServer == IF sig.hs = "new" THEN {ServerHello} ELSE ServerAuth

Lost == Emit("signaling-connection-lost")

(* A token is not answered, a key is.  A responder whose token or key does *)
(* not decrypt is dropped; all the others are when one is chosen.          *)
PeerHandshakeOfInitiator ==
  {<<Announcement>>, <<Send, Announcement>>, <<Lost>>, <<Send>>,
   <<Emit("no-shared-task"), Throw>>, <<InitTask, Throw>>}
  \cup {<<InitTask, Send>> \o drops \o <<Set("task"), TellTask>> : drops \in {<<>>, <<Send>>}}
PeerHandshakeOfResponder ==
  {<<Send>>, <<Lost>> \o ResetConnection(ProtocolError), <<InitTask, Throw>>,
   <<InitTask, Set("task")>>}

PeerHandshake ==
  {<<Emit("peer-disconnected")>>}
  \cup IF role = "initiator" THEN PeerHandshakeOfInitiator ELSE PeerHandshakeOfResponder

(* onSignalingPeerMessage.                                                 *)
FromPeer ==
  {<<CloseTask>> \o ResetConnection(GoingAway), <<Emit("application")>>,
   ResetConnection(ProtocolError)}

FromServerLater ==
  {<<Emit("peer-disconnected")>>}
  \cup IF role = "initiator"
       THEN {ResetConnection(ProtocolError) \o <<Lost>>, <<Send>>}
       ELSE {<<Lost>> \o ResetConnection(ProtocolError), ResetConnection(ClosingNormal)}

Refused == {<<Throw>>, <<Fail>>}
MessageBodies ==
  IF sig.peer THEN {ResetConnection(ProtocolError)}
  ELSE CASE sig.state = "server-handshake" -> Refused \cup FromServer
         [] sig.state = "peer-handshake" -> Refused \cup PeerHandshake
         [] sig.state = "task" -> Refused \cup FromPeer \cup FromServerLater
         [] OTHER -> {}

OnMessage ==
  /\ Idle /\ sig.socket = "open"
  /\ \E body \in MessageBodies :
       stack' = body \o (IF sig.peer THEN <<>> ELSE <<EndOfTry>>)
  /\ UNCHANGED <<registry, sig, life, app>>

-----------------------------------------------------------------------------
(* Calls of the task.                                                      *)

(* The setters of HandoverState call onBoth when the second flag is set.   *)
Both_Either(s) == s.local \/ s.peer  \* mutant: when the first one is
Both(s) == s.local /\ s.peer

TaskHandsOver ==
  /\ Idle /\ life.set /\ ~life.closed
  /\ \/ sig' = [sig EXCEPT !.local = TRUE]
     \/ sig' = [sig EXCEPT !.peer = TRUE]
  /\ stack' = IF ~Both(sig) /\ Both(sig')
              THEN <<Emit("handover"), Close(Handover, FALSE), EndOfCall>> ELSE <<>>
  /\ UNCHANGED <<registry, life, app>>

(* What its own channel received, decrypted or not (decryptFromPeer).      *)
Undecryptable ==
  (IF sig.state = "task" THEN <<SendClose>> ELSE <<>>) \o ResetConnection(InternalError) \o <<Throw>>

TaskReceives ==
  /\ Idle /\ life.set /\ ~life.closed
  /\ \E body \in FromPeer \cup {Undecryptable} : stack' = body \o <<EndOfCall>>
  /\ UNCHANGED <<registry, sig, life, app>>

-----------------------------------------------------------------------------
Init ==
  /\ InitBuilder
  /\ registry = EmptyRegistry(Event)
  /\ stack = <<>>
  /\ sig = [state |-> "new", hs |-> "new", ws |-> FALSE, socket |-> "none", code |-> 0,
            local |-> FALSE, peer |-> FALSE, used |-> FALSE]
  /\ life = [set |-> FALSE, told |-> FALSE, closed |-> FALSE]
  /\ app = [calls |-> 0, once |-> 0, ran |-> {}, left |-> FALSE, within |-> FALSE,
            escaped |-> {}]

(* The builder is not used for a second client.                            *)
Builds ==
  /\ Configure \/ ((AsInitiator \/ AsResponder) /\ builder' = NoBuilder)
  /\ UNCHANGED <<registry, stack, sig, life, app>>

Environment == OnOpen \/ OnError \/ OnMessage \/ TaskHandsOver \/ TaskReceives

Next ==
  \/ Builds
  \/ (Statement \/ Application \/ Environment \/ OnClose) /\ UNCHANGED builderVars

Spec == Init /\ [][Next]_vars

(* A call runs to its end, handlers included, and a WebSocket that was     *)
(* closed or that failed gets its close event.                             *)
FairSpec ==
  /\ Spec
  /\ WF_vars(Statement /\ UNCHANGED builderVars)
  /\ WF_vars(sig.socket \in {"closing", "failed"} /\ OnClose /\ UNCHANGED builderVars)

-----------------------------------------------------------------------------
(* Safety.                                                                 *)

TypeOK ==
  /\ app.escaped \subseteq Cause
  /\ registry \in [Event -> UNION {[1 .. n -> Handler] : n \in 0 .. Cardinality(Handler)}]
  /\ sig.state \in SignalingState
  /\ sig.socket \in {"none", "connecting", "open", "closing", "failed", "closed"}
  /\ {sig.ws, sig.local, sig.peer, sig.used, life.set, life.told, life.closed} \subseteq BOOLEAN
  /\ \A k \in DOMAIN stack : stack[k].do = "handler" => stack[k].h \in Handler

(* An event reaches exactly the handlers that were registered when it was  *)
(* emitted, each of them once, whatever they register, remove, emit or     *)
(* throw in the meantime.                                                  *)
EachHandlerOnce ==
  [][Runs("calls") /\ Len(stack') < Len(stack) =>
       /\ Head(stack).called = Head(stack).due
       /\ \A i, j \in DOMAIN Head(stack).called :
            Head(stack).called[i] = Head(stack).called[j] => i = j]_vars

(* However calls are nested, an application that is told of state `task`   *)
(* can send: through the WebSocket, or the channel of the task.            *)
SendingWorks == AppRuns /\ sig.state = "task" => sig.ws \/ sig.local

(* What leaves a listener of the WebSocket is the fault of a message, or   *)
(* comes from the task that refuses its data.  No exception of a handler   *)
(* gets there, no SignalingError does, and no packet is sent without a     *)
(* WebSocket unless the application disconnected within a listener.        *)
NoStrayException ==
  app.escaped \subseteq {"message", "task"} \cup (IF app.within THEN {"send"} ELSE {})

(* A wrapper made by once is gone from an event it has run for.            *)
OnceGone ==
  Idle => \A ev \in Event, h \in Handler :
    <<ev, h>> \in app.ran => \A k \in DOMAIN registry[ev] : registry[ev][k] # h

(* "If the same handler was already registered previously as a regular     *)
(* event handler, it will be completely removed after running once"        *)
(* (client.ts:502-503): no function that was registered before the wrapper *)
(* around it stays when the wrapper has run.                               *)
OnceCompletely ==
  [][InHandler /\ IsWrapper(Head(stack).h) /\ stack' = Tail(stack) =>
       LET ev == Head(stack).ev
           plain == <<Head(stack).h[1], 0>>
       IN \A j, k \in DOMAIN registry[ev] :
            j < k /\ registry[ev][j] = plain /\ registry[ev][k] = Head(stack).h =>
              ~Contains(registry'[ev], plain)]_vars

(* The task knows how things stand whenever the application has had its    *)
(* say: that of an initiator in state `task` was told that the handshake   *)
(* is over, and whoever disconnects leaves no task behind that is open.    *)
TaskNotified ==
  Idle => /\ sig.state = "task" /\ role = "initiator" => life.told
          /\ app.left /\ life.set => life.closed

-----------------------------------------------------------------------------
(* Liveness.                                                               *)

(* disconnect() is final once there is a WebSocket, from wherever it is    *)
(* called: no code that runs on afterwards reopens the client.             *)
LeavesForGood ==
  app.left ~> [](~sig.ws /\ sig.socket = "closed" /\ sig.state \in {"new", "closing", "closed"})
=============================================================================
