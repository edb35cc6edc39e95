---------------------------- MODULE ClientProofs ----------------------------
(***************************************************************************)
(* Theorems about Client, for any functions of the application, watched    *)
(* events and numbers of calls.                                            *)
(*                                                                         *)
(* The statements of the code that runs are on the stack, those of nested  *)
(* calls above those of the code they interrupt.  What can be above what   *)
(* is the heart of the argument: a handler only has above it what the      *)
(* application can start, and none of that throws, sends, or enters state  *)
(* `task`.  All the rest is said of the set of the statements left to run. *)
(***************************************************************************)
EXTENDS Client, FiniteSetTheorems, FunctionTheorems, SequenceTheorems, TLAPS

-----------------------------------------------------------------------------
(* What is on the stack.                                                   *)

Distinct(s) == \A i, j \in DOMAIN s : s[i] = s[j] => i = j

(* A list of handlers that are called one after the other.                 *)
CallsFrame ==
  {x \in [do : {"calls"}, ev : Event, due : Seq(Handler), called : Seq(Handler)] :
     /\ Distinct(x.due)
     /\ Len(x.called) <= Len(x.due)
     /\ \A i \in DOMAIN x.called : x.called[i] = x.due[i]}

PlainDo == {"renew", "open", "send", "sendClose", "authSent", "handshakeDone", "initTask",
            "tellTask", "closeTask", "endOfTry", "endOfCall", "throw", "fail"}

Frame ==
  [do : {"emit"}, ev : Event] \cup CallsFrame \cup [do : {"handler"}, ev : Event, h : Handler]
    \cup [do : {"set"}, to : SignalingState] \cup [do : {"close"}, code : Nat, unbind : BOOLEAN]
    \cup [do : PlainDo]

SetsTask(x) == x.do = "set" /\ x.to = "task"

(* What a call of the application, and what is emitted in it, consists of. *)
Calm(x) ==
  x.do \in {"emit", "calls", "handler", "set", "close", "renew", "open", "closeTask"} /\ ~SetsTask(x)

(* What can be anywhere above what.                                        *)
MayPrecede(a, b) ==
  /\ b.do \notin {"initTask", "sendClose"}
  /\ b.do = "handler" => Calm(a)
  /\ b.do = "tellTask" => Calm(a) \/ a.do \in {"initTask", "send"} \/ SetsTask(a)
  /\ SetsTask(b) => a.do \in {"initTask", "send"}
  /\ b.do = "send" => ~SetsTask(a)
  /\ b.do = "close" => a.do \notin {"throw", "fail", "initTask"} /\ ~SetsTask(a)
  /\ b.do = "closeTask" => a.do \notin {"send", "sendClose", "throw", "fail", "initTask"}
  /\ b.do = "open" => a.do # "open"
  /\ b.do = "throw" => a.do \notin {"endOfTry", "endOfCall"}

Ordered(s) == \A j, k \in DOMAIN s : j < k => MayPrecede(s[j], s[k])

(* new Server() is followed by the state `new` at once.                    *)
RenewThenNew(s) ==
  \A k \in DOMAIN s : s[k].do = "renew" => k + 1 \in DOMAIN s /\ s[k + 1] = Set("new")

Statements(s) == s \in Seq(Frame) /\ Ordered(s) /\ RenewThenNew(s)

Waiting == ToSet(stack)
Waits(what) == \E x \in Waiting : x.do = what

-----------------------------------------------------------------------------
(* The inductive invariant.                                                *)

Variables ==
  /\ sig \in [state : SignalingState, hs : {"new", "auth-sent", "done"}, ws : BOOLEAN,
              socket : {"none", "connecting", "open", "closing", "failed", "closed"},
              code : Nat, local : BOOLEAN, peer : BOOLEAN, used : BOOLEAN]
  /\ life \in [set : BOOLEAN, told : BOOLEAN, closed : BOOLEAN]
  /\ app \in [calls : Nat, once : 0 .. MaxOnce, ran : SUBSET (Event \X Handler),
              left : BOOLEAN, within : BOOLEAN, escaped : SUBSET Cause]
  /\ role \in {NoRole, "initiator", "responder"}

Lists ==
  /\ registry \in [Event -> Seq(Handler)]
  /\ \A ev \in Event : Distinct(registry[ev])

(* A wrapper has a number that was given out, and one that has run is      *)
(* registered for that event only as long as it runs.                      *)
Given(h) == h[2] <= app.once
Wrappers ==
  /\ \A ev \in Event : \A h \in ToSet(registry[ev]) : Given(h)
  /\ \A x \in Waiting : /\ x.do = "handler" => Given(x.h)
                        /\ x.do = "calls" => \A h \in ToSet(x.due) : Given(h)
  /\ \A r \in app.ran :
       /\ IsWrapper(r[2]) /\ Given(r[2])
       /\ r[2] \in ToSet(registry[r[1]]) => Running(r[1], r[2]) \in Waiting

(* Before connect() there is nothing; a WebSocket that the client has lost *)
(* or closed does not come back.                                           *)
Connection ==
  /\ Building => ~sig.used /\ Idle
  /\ ~sig.used => /\ sig.socket = "none" /\ ~sig.ws /\ ~life.set /\ sig.state # "task"
                  /\ \A x \in Waiting : Calm(x) /\ x.do # "open"
  /\ sig.ws => sig.socket # "none"
  /\ ~sig.ws => sig.socket \notin {"connecting", "open"}
  /\ Waits("open") => sig.socket = "none"

(* What needs a WebSocket has one, unless the application disconnected     *)
(* within a listener; a SignalingError is caught.                          *)
Sending ==
  /\ Waits("throw") \/ Waits("initTask") => Waits("endOfTry") \/ Waits("endOfCall")
  /\ Waits("sendClose") => sig.ws \/ sig.local
  /\ ~app.within /\ Waits("send") => sig.ws /\ ~Waits("close")
  /\ ~app.within /\ (Waits("throw") \/ Waits("initTask")) /\ Waits("endOfTry")
       => sig.ws /\ ~Waits("close")
  /\ app.escaped \subseteq {"message", "task"} \cup (IF app.within THEN {"send"} ELSE {})

(* An initiator that enters state `task` goes on to tell its task.         *)
Entering ==
  /\ \A x \in Waiting : SetsTask(x) => sig.ws /\ (role = "initiator" => Waits("tellTask"))
  /\ Waits("tellTask") /\ (Waits("initTask") \/ Waits("send")) => sig.state # "task"
  /\ sig.state = "task" /\ role = "initiator" => life.told \/ Waits("tellTask")

(* Without WebSocket and channel state `task` is about to be left, and a   *)
(* WebSocket is closed in state `task` only when the state is next.        *)
LeavesTask == Runs("set") /\ ~SetsTask(Head(stack))
Working ==
  /\ sig.state = "task" => sig.ws \/ sig.local \/ LeavesTask \/ (Runs("renew") /\ ~sig.ws)
  /\ \A x \in Waiting : x.do = "close" /\ ~x.unbind /\ sig.state = "task" => sig.local \/ LeavesTask

(* Whoever left still closes the WebSocket and the task, or has done so.   *)
Leaving ==
  /\ app.left => sig.socket # "none"
  /\ app.left /\ sig.ws => Waits("close")
  /\ app.left /\ life.set => life.closed \/ Waits("closeTask")
  /\ Waits("initTask") => ~app.left

IInv ==
  /\ Variables /\ Lists /\ Statements(stack) /\ Wrappers
  /\ Connection /\ Sending /\ Entering /\ Working /\ Leaving

-----------------------------------------------------------------------------
(* Lists of statements.                                                    *)

LEMMA Elements ==
  /\ ToSet(<<>>) = {}
  /\ \A a : ToSet(<<a>>) = {a}
  /\ \A a, b : ToSet(<<a, b>>) = {a, b}
  /\ \A a, b, c : ToSet(<<a, b, c>>) = {a, b, c}
  /\ \A a, b, c, d : ToSet(<<a, b, c, d>>) = {a, b, c, d}
BY DEF ToSet

LEMMA ElementsOfBoth ==
  ASSUME NEW S, NEW s \in Seq(S), NEW t \in Seq(S)
  PROVE  ToSet(s \o t) = ToSet(s) \cup ToSet(t)
<1>1. /\ DOMAIN (s \o t) = 1 .. Len(s) + Len(t) /\ DOMAIN s = 1 .. Len(s) /\ DOMAIN t = 1 .. Len(t)
      /\ Len(s) \in Nat /\ Len(t) \in Nat
      /\ \A k \in 1 .. Len(s) + Len(t) : (s \o t)[k] = IF k <= Len(s) THEN s[k] ELSE t[k - Len(s)]
  OBVIOUS
<1>2. ASSUME NEW k \in DOMAIN (s \o t) PROVE (s \o t)[k] \in ToSet(s) \cup ToSet(t)
  <2>1. CASE k <= Len(s)
    BY <1>1, <2>1 DEF ToSet
  <2>2. CASE k > Len(s)
    <3>1. k - Len(s) \in DOMAIN t /\ (s \o t)[k] = t[k - Len(s)]
      BY <1>1, <2>2
    <3> QED BY <3>1 DEF ToSet
  <2> QED BY <1>1, <2>1, <2>2
<1>3. ASSUME NEW k \in DOMAIN s PROVE s[k] \in ToSet(s \o t)
  <2>1. k \in DOMAIN (s \o t) /\ (s \o t)[k] = s[k]
    BY <1>1
  <2> QED BY <2>1 DEF ToSet
<1>4. ASSUME NEW k \in DOMAIN t PROVE t[k] \in ToSet(s \o t)
  <2>1. k + Len(s) \in DOMAIN (s \o t) /\ (s \o t)[k + Len(s)] = t[k]
    BY <1>1
  <2> QED BY <2>1 DEF ToSet
<1> QED BY <1>2, <1>3, <1>4 DEF ToSet

LEMMA ElementsOfTail ==
  ASSUME NEW S, NEW s \in Seq(S), s # <<>>
  PROVE  /\ ToSet(s) = {Head(s)} \cup ToSet(Tail(s))
         /\ Tail(s) \in Seq(S) /\ Len(Tail(s)) = Len(s) - 1
         /\ \A k \in DOMAIN Tail(s) : k + 1 \in DOMAIN s /\ Tail(s)[k] = s[k + 1]
         /\ Head(s) = s[1] /\ 1 \in DOMAIN s
<1>1. /\ Len(s) \in Nat \ {0} /\ DOMAIN s = 1 .. Len(s) /\ DOMAIN Tail(s) = 1 .. Len(s) - 1
      /\ \A k \in 1 .. Len(s) - 1 : Tail(s)[k] = s[k + 1]
      /\ Tail(s) \in Seq(S) /\ Len(Tail(s)) = Len(s) - 1 /\ Head(s) = s[1]
  OBVIOUS
<1>2. ASSUME NEW k \in DOMAIN s PROVE s[k] \in {Head(s)} \cup ToSet(Tail(s))
  <2>1. CASE k = 1
    BY <1>1, <2>1
  <2>2. CASE k # 1
    <3>1. k - 1 \in DOMAIN Tail(s) /\ Tail(s)[k - 1] = s[k]
      BY <1>1, <2>2
    <3> QED BY <3>1 DEF ToSet
  <2> QED BY <2>1, <2>2
<1>3. ASSUME NEW k \in DOMAIN Tail(s) PROVE Tail(s)[k] \in ToSet(s)
  <2>1. k + 1 \in DOMAIN s /\ Tail(s)[k] = s[k + 1]
    BY <1>1
  <2> QED BY <2>1 DEF ToSet
<1>4. Head(s) \in ToSet(s)
  BY <1>1 DEF ToSet
<1> QED BY <1>1, <1>2, <1>3, <1>4 DEF ToSet

LEMMA NothingLeft ==
  ASSUME NEW S, NEW s \in Seq(S)
  PROVE  s = <<>> <=> ToSet(s) = {}
<1>1. s # <<>> => Head(s) \in ToSet(s)
  BY ElementsOfTail
<1> QED BY <1>1, Elements

(* What is run next is taken off, what is run first put on top.            *)
LEMMA TailStatements ==
  ASSUME NEW s, Statements(s), s # <<>>
  PROVE  /\ Statements(Tail(s))
         /\ ToSet(s) = {Head(s)} \cup ToSet(Tail(s)) /\ Head(s) \in Frame
         /\ \A b \in ToSet(Tail(s)) : MayPrecede(Head(s), b)
         /\ Head(s).do = "renew" => Tail(s) # <<>> /\ Head(Tail(s)) = Set("new")
<1>1. s \in Seq(Frame) /\ Ordered(s) /\ RenewThenNew(s)
  BY DEF Statements
<1>2. /\ ToSet(s) = {Head(s)} \cup ToSet(Tail(s))
      /\ Tail(s) \in Seq(Frame) /\ Len(Tail(s)) = Len(s) - 1 /\ Len(s) \in Nat
      /\ DOMAIN Tail(s) = 1 .. Len(s) - 1 /\ DOMAIN s = 1 .. Len(s)
      /\ \A k \in DOMAIN Tail(s) : k + 1 \in DOMAIN s /\ Tail(s)[k] = s[k + 1]
      /\ Head(s) = s[1] /\ 1 \in DOMAIN s
  BY <1>1, ElementsOfTail
<1>3. Ordered(Tail(s))
  <2>1. ASSUME NEW j \in DOMAIN Tail(s), NEW k \in DOMAIN Tail(s), j < k
        PROVE  MayPrecede(Tail(s)[j], Tail(s)[k])
    BY <1>1, <1>2, <2>1 DEF Ordered
  <2> QED BY <2>1 DEF Ordered
<1>4. RenewThenNew(Tail(s))
  <2>1. ASSUME NEW k \in DOMAIN Tail(s), Tail(s)[k].do = "renew"
        PROVE  k + 1 \in DOMAIN Tail(s) /\ Tail(s)[k + 1] = Set("new")
    <3>1. s[k + 1].do = "renew" /\ k + 1 \in DOMAIN s
      BY <1>2, <2>1
    <3>2. k + 1 + 1 \in DOMAIN s /\ s[k + 1 + 1] = Set("new")
      BY <1>1, <3>1 DEF RenewThenNew
    <3>3. k + 1 \in DOMAIN Tail(s)
      BY <1>2, <3>2
    <3> QED BY <1>2, <3>2, <3>3
  <2> QED BY <2>1 DEF RenewThenNew
<1>5. ASSUME NEW k \in DOMAIN Tail(s) PROVE MayPrecede(Head(s), Tail(s)[k])
  BY <1>1, <1>2 DEF Ordered
<1>6. ASSUME Head(s).do = "renew" PROVE Tail(s) # <<>> /\ Head(Tail(s)) = Set("new")
  <2>1. 1 + 1 \in DOMAIN s /\ s[1 + 1] = Set("new")
    BY <1>1, <1>2, <1>6 DEF RenewThenNew
  <2>2. 1 \in DOMAIN Tail(s) /\ Tail(s)[1] = Set("new")
    BY <1>2, <2>1
  <2> QED BY <1>2, <2>2
<1>7. Head(s) \in Frame
  BY <1>1
<1> QED BY <1>1, <1>2, <1>3, <1>4, <1>5, <1>6, <1>7 DEF ToSet, Statements

LEMMA BothStatements ==
  ASSUME NEW s, NEW t, Statements(s), Statements(t),
         \A a \in ToSet(s), b \in ToSet(t) : MayPrecede(a, b)
  PROVE  Statements(s \o t) /\ ToSet(s \o t) = ToSet(s) \cup ToSet(t)
<1>1. /\ s \in Seq(Frame) /\ Ordered(s) /\ RenewThenNew(s)
      /\ t \in Seq(Frame) /\ Ordered(t) /\ RenewThenNew(t)
  BY DEF Statements
<1>2. /\ DOMAIN (s \o t) = 1 .. Len(s) + Len(t) /\ DOMAIN s = 1 .. Len(s) /\ DOMAIN t = 1 .. Len(t)
      /\ Len(s) \in Nat /\ Len(t) \in Nat /\ s \o t \in Seq(Frame)
      /\ \A k \in 1 .. Len(s) + Len(t) : (s \o t)[k] = IF k <= Len(s) THEN s[k] ELSE t[k - Len(s)]
  BY <1>1
<1>3. ASSUME NEW j \in DOMAIN (s \o t), NEW k \in DOMAIN (s \o t), j < k
      PROVE  MayPrecede((s \o t)[j], (s \o t)[k])
  <2>1. CASE k <= Len(s)
    <3>1. j \in DOMAIN s /\ k \in DOMAIN s /\ (s \o t)[j] = s[j] /\ (s \o t)[k] = s[k]
      BY <1>2, <1>3, <2>1
    <3> QED BY <1>1, <1>3, <3>1 DEF Ordered
  <2>2. CASE j > Len(s)
    <3>1. /\ j - Len(s) \in DOMAIN t /\ k - Len(s) \in DOMAIN t /\ j - Len(s) < k - Len(s)
          /\ (s \o t)[j] = t[j - Len(s)] /\ (s \o t)[k] = t[k - Len(s)]
      BY <1>2, <1>3, <2>2
    <3> QED BY <1>1, <3>1 DEF Ordered
  <2>3. CASE j <= Len(s) /\ k > Len(s)
    <3>1. /\ j \in DOMAIN s /\ k - Len(s) \in DOMAIN t
          /\ (s \o t)[j] = s[j] /\ (s \o t)[k] = t[k - Len(s)]
      BY <1>2, <1>3, <2>3
    <3> QED BY <3>1 DEF ToSet
  <2> QED BY <1>2, <2>1, <2>2, <2>3
<1>4. ASSUME NEW k \in DOMAIN (s \o t), (s \o t)[k].do = "renew"
      PROVE  k + 1 \in DOMAIN (s \o t) /\ (s \o t)[k + 1] = Set("new")
  <2>1. CASE k <= Len(s)
    <3>1. k \in DOMAIN s /\ s[k].do = "renew"
      BY <1>2, <1>4, <2>1
    <3>2. k + 1 \in DOMAIN s /\ s[k + 1] = Set("new")
      BY <1>1, <3>1 DEF RenewThenNew
    <3> QED BY <1>2, <3>2
  <2>2. CASE k > Len(s)
    <3> DEFINE i == k - Len(s)
    <3>1. i \in DOMAIN t /\ t[i].do = "renew"
      BY <1>2, <1>4, <2>2
    <3>2. i + 1 \in DOMAIN t /\ t[i + 1] = Set("new")
      BY <1>1, <3>1 DEF RenewThenNew
    <3>3. k + 1 - Len(s) = i + 1 /\ k + 1 \in 1 .. Len(s) + Len(t) /\ ~(k + 1 <= Len(s))
      BY <1>2, <2>2, <3>2
    <3> QED BY <1>2, <3>2, <3>3
  <2> QED BY <1>2, <2>1, <2>2
<1>5. ToSet(s \o t) = ToSet(s) \cup ToSet(t)
  BY <1>1, ElementsOfBoth
<1> QED BY <1>2, <1>3, <1>4, <1>5 DEF Statements, Ordered, RenewThenNew

(* Short lists.                                                            *)
LEMMA ShortStatements ==
  /\ Statements(<<>>)
  /\ \A a \in Frame : a.do # "renew" => Statements(<<a>>)
  /\ \A a \in Frame, b \in Frame :
       /\ MayPrecede(a, b) /\ b.do # "renew" /\ (a.do = "renew" => b = Set("new"))
       => Statements(<<a, b>>)
  /\ \A a \in Frame, b \in Frame, c \in Frame :
       /\ MayPrecede(a, b) /\ MayPrecede(a, c) /\ MayPrecede(b, c)
       /\ c.do # "renew" /\ (a.do = "renew" => b = Set("new")) /\ (b.do = "renew" => c = Set("new"))
       => Statements(<<a, b, c>>)
<1>1. Statements(<<>>)
  BY DEF Statements, Ordered, RenewThenNew
<1>2. ASSUME NEW a \in Frame, a.do # "renew" PROVE Statements(<<a>>)
  BY <1>2 DEF Statements, Ordered, RenewThenNew
<1>3. ASSUME NEW a \in Frame, NEW b \in Frame,
             MayPrecede(a, b), b.do # "renew", a.do = "renew" => b = Set("new")
      PROVE  Statements(<<a, b>>)
  <2>1. <<a, b>> \in Seq(Frame)
    OBVIOUS
  <2>2. Ordered(<<a, b>>)
    BY <1>3 DEF Ordered
  <2>3. RenewThenNew(<<a, b>>)
    BY <1>3 DEF RenewThenNew
  <2> QED BY <2>1, <2>2, <2>3 DEF Statements
<1>4. ASSUME NEW a \in Frame, NEW b \in Frame, NEW c \in Frame,
             MayPrecede(a, b), MayPrecede(a, c), MayPrecede(b, c), c.do # "renew",
             a.do = "renew" => b = Set("new"), b.do = "renew" => c = Set("new")
      PROVE  Statements(<<a, b, c>>)
  <2>1. <<a, b, c>> \in Seq(Frame)
    OBVIOUS
  <2>2. Ordered(<<a, b, c>>)
    BY <1>4 DEF Ordered
  <2>3. RenewThenNew(<<a, b, c>>)
    BY <1>4 DEF RenewThenNew
  <2> QED BY <2>1, <2>2, <2>3 DEF Statements
<1> QED BY <1>1, <1>2, <1>3, <1>4

-----------------------------------------------------------------------------
(* The statements, and the methods that consist of them.                   *)

LEMMA Events ==
  /\ {"state-change", "connection-closed", "connection-error", "new-responder", "no-shared-task",
      "signaling-connection-lost", "peer-disconnected", "application", "handover"} \subseteq Event
  /\ \A s \in SignalingState : StateChange(s) \in Event
BY DEF Event

LEMMA Vocabulary ==
  /\ \A ev \in Event : Emit(ev) \in Frame /\ Emit(ev).do = "emit"
  /\ \A s \in SignalingState : Set(s) \in Frame /\ Set(s).do = "set" /\ Set(s).to = s
  /\ \A code \in Nat, unbind \in BOOLEAN :
       /\ Close(code, unbind) \in Frame /\ Close(code, unbind).do = "close"
       /\ Close(code, unbind).unbind = unbind
  /\ \A ev \in Event, h \in Handler :
       /\ Running(ev, h) \in Frame /\ Running(ev, h).do = "handler"
       /\ Running(ev, h).h = h /\ Running(ev, h).ev = ev
  /\ \A d \in PlainDo : Plainly(d) \in Frame /\ Plainly(d).do = d
BY DEF Emit, Set, Close, Running, Plainly, Frame

LEMMA PlainVocabulary ==
  /\ Renew \in Frame /\ Renew.do = "renew" /\ Open \in Frame /\ Open.do = "open"
  /\ Send \in Frame /\ Send.do = "send" /\ SendClose \in Frame /\ SendClose.do = "sendClose"
  /\ AuthSent \in Frame /\ AuthSent.do = "authSent"
  /\ HandshakeDone \in Frame /\ HandshakeDone.do = "handshakeDone"
  /\ InitTask \in Frame /\ InitTask.do = "initTask" /\ TellTask \in Frame /\ TellTask.do = "tellTask"
  /\ CloseTask \in Frame /\ CloseTask.do = "closeTask"
  /\ EndOfTry \in Frame /\ EndOfTry.do = "endOfTry" /\ EndOfCall \in Frame /\ EndOfCall.do = "endOfCall"
  /\ Throw \in Frame /\ Throw.do = "throw" /\ Fail \in Frame /\ Fail.do = "fail"
<1>1. {"renew", "open", "send", "sendClose", "authSent", "handshakeDone", "initTask",
       "tellTask", "closeTask", "endOfTry", "endOfCall", "throw", "fail"} \subseteq PlainDo
  BY DEF PlainDo
<1>2. \A d \in PlainDo : Plainly(d) \in Frame /\ Plainly(d).do = d
  BY Vocabulary
<1> HIDE DEF Plainly
<1> QED BY <1>1, <1>2 DEF Renew, Open, Send, SendClose, AuthSent, HandshakeDone, InitTask,
       TellTask, CloseTask, EndOfTry, EndOfCall, Throw, Fail

LEMMA StateVocabulary ==
  \A s \in SignalingState :
    /\ Set(s) \in Frame /\ Set(s).do = "set" /\ Set(s).to = s
    /\ SetsTask(Set(s)) <=> s = "task"
    /\ s # "task" => Calm(Set(s))
BY Vocabulary DEF SetsTask, Calm

LEMMA CloseVocabulary ==
  /\ {ClosingNormal, GoingAway, ProtocolError, InternalError, Handover} \subseteq Nat
  /\ \A code \in Nat, unbind \in BOOLEAN :
       /\ Close(code, unbind) \in Frame /\ Close(code, unbind).do = "close"
       /\ Close(code, unbind).unbind = unbind /\ Calm(Close(code, unbind))
<1>1. {ClosingNormal, GoingAway, ProtocolError, InternalError, Handover} \subseteq Nat
  BY DEF ClosingNormal, GoingAway, ProtocolError, InternalError, Handover
<1> QED BY <1>1, Vocabulary DEF Calm, SetsTask

LEMMA CalmVocabulary ==
  /\ Calm(Renew) /\ Calm(Open) /\ Calm(CloseTask)
  /\ \A ev \in Event : Calm(Emit(ev))
  /\ \A x : x.do \in {"emit", "calls", "handler", "close", "renew", "open", "closeTask"} => Calm(x)
BY Vocabulary, PlainVocabulary DEF Calm, SetsTask

(* Above what a calm statement is above, there may be any other one.       *)
LEMMA CalmPrecedes ==
  ASSUME NEW a, NEW b, NEW c, Calm(a), Calm(b), b.do # "open", MayPrecede(a, c)
  PROVE  MayPrecede(b, c)
BY DEF Calm, MayPrecede, SetsTask

LEMMA PrecedesCalm ==
  ASSUME NEW a, NEW b,
         \/ b.do \in {"emit", "calls", "renew", "authSent", "handshakeDone", "endOfTry", "endOfCall"}
         \/ b.do = "set" /\ ~SetsTask(b)
  PROVE  MayPrecede(a, b)
BY DEF MayPrecede, SetsTask

LEMMA ResetStatements ==
  ASSUME NEW code \in Nat
  PROVE  /\ Statements(ResetConnection(code))
         /\ ToSet(ResetConnection(code)) = {Close(code, TRUE), Renew, Set("new")}
         /\ \A x \in ToSet(ResetConnection(code)) :
              /\ x.do \in {"close", "renew", "set"} /\ Calm(x) /\ ~SetsTask(x)
              /\ x.do = "close" => x.unbind
<1> DEFINE a == Close(code, TRUE)
           b == Renew
           c == Set("new")
<1>1. /\ a \in Frame /\ b \in Frame /\ c \in Frame /\ a.do = "close" /\ b.do = "renew" /\ c.do = "set"
      /\ a.unbind /\ ~SetsTask(c) /\ Calm(a) /\ Calm(b) /\ Calm(c)
  BY CloseVocabulary, PlainVocabulary, StateVocabulary, CalmVocabulary DEF SignalingState
<1>2. ResetConnection(code) = <<a, b, c>>
  BY DEF ResetConnection
<1>3. MayPrecede(a, b) /\ MayPrecede(a, c) /\ MayPrecede(b, c)
  BY <1>1, PrecedesCalm
<1>4. ~SetsTask(a) /\ ~SetsTask(b)
  BY <1>1 DEF SetsTask
<1> HIDE DEF a, b, c
<1>5. Statements(<<a, b, c>>) /\ ToSet(<<a, b, c>>) = {a, b, c}
  <2>1. c = Set("new")
    BY DEF c
  <2> QED BY <1>1, <1>3, <2>1, ShortStatements, Elements
<1> QED BY <1>1, <1>2, <1>4, <1>5 DEF a, b, c

LEMMA ConnectStatements ==
  /\ Statements(ConnectBody)
  /\ ToSet(ConnectBody) = {Close(ClosingNormal, TRUE), Renew, Set("new"), Open, Set("ws-connecting")}
  /\ \A x \in ToSet(ConnectBody) : Calm(x) /\ ~SetsTask(x) /\ (x.do = "close" => x.unbind)
  /\ Open \in ToSet(ConnectBody)
<1> DEFINE s == ResetConnection(ClosingNormal)
           a == Open
           b == Set("ws-connecting")
<1>1. /\ a \in Frame /\ b \in Frame /\ a.do = "open" /\ b.do = "set" /\ ~SetsTask(b)
      /\ Calm(a) /\ Calm(b)
  BY PlainVocabulary, StateVocabulary, CalmVocabulary DEF SignalingState
<1>2. /\ Statements(s) /\ ToSet(s) = {Close(ClosingNormal, TRUE), Renew, Set("new")}
      /\ \A x \in ToSet(s) : x.do \in {"close", "renew", "set"} /\ Calm(x) /\ ~SetsTask(x)
                             /\ (x.do = "close" => x.unbind)
  BY CloseVocabulary, ResetStatements
<1>3. MayPrecede(a, b)
  BY <1>1, PrecedesCalm
<1>4. ~SetsTask(a)
  BY <1>1 DEF SetsTask
<1>5. ConnectBody = s \o <<a, b>>
  BY DEF ConnectBody
<1> HIDE DEF a, b, s
<1>6. Statements(<<a, b>>) /\ ToSet(<<a, b>>) = {a, b}
  BY <1>1, <1>3, ShortStatements, Elements
<1>7. \A x \in ToSet(s), y \in ToSet(<<a, b>>) : MayPrecede(x, y)
  BY <1>1, <1>2, <1>6 DEF MayPrecede, SetsTask
<1>8. Statements(s \o <<a, b>>) /\ ToSet(s \o <<a, b>>) = ToSet(s) \cup {a, b}
  BY <1>2, <1>6, <1>7, BothStatements
<1>9. ToSet(s) \cup {a, b} = {Close(ClosingNormal, TRUE), Renew, Set("new"), Open, Set("ws-connecting")}
  BY <1>2 DEF a, b
<1> QED BY <1>1, <1>2, <1>4, <1>5, <1>8, <1>9 DEF a

LEMMA DisconnectStatements ==
  ASSUME NEW unbind \in BOOLEAN
  PROVE  /\ Statements(DisconnectBody(unbind)) /\ DisconnectBody(unbind) # <<>>
         /\ Head(DisconnectBody(unbind)) = Set("closing")
         /\ \A x \in ToSet(DisconnectBody(unbind)) : Calm(x) /\ x.do \in {"set", "close", "closeTask"}
         /\ \E x \in ToSet(DisconnectBody(unbind)) : x.do = "close"
         /\ \E x \in ToSet(DisconnectBody(unbind)) : x.do = "closeTask"
<1> DEFINE a == Set("closing")
           b == Close(ClosingNormal, unbind)
           c == CloseTask
           d == Set("closed")
<1>1. /\ a \in Frame /\ b \in Frame /\ c \in Frame /\ d \in Frame
      /\ a.do = "set" /\ b.do = "close" /\ c.do = "closeTask" /\ d.do = "set"
      /\ ~SetsTask(a) /\ ~SetsTask(d) /\ Calm(a) /\ Calm(b) /\ Calm(c) /\ Calm(d)
  BY CloseVocabulary, PlainVocabulary, StateVocabulary, CalmVocabulary DEF SignalingState
<1>2. DisconnectBody(unbind) = <<a, b, c, d>> /\ <<a, b, c, d>> = <<a, b>> \o <<c, d>>
  BY DEF DisconnectBody
<1> HIDE DEF a, b, c, d
<1>3. MayPrecede(a, b) /\ MayPrecede(a, c) /\ MayPrecede(b, c) /\ MayPrecede(a, d)
      /\ MayPrecede(b, d) /\ MayPrecede(c, d)
  BY <1>1 DEF MayPrecede, SetsTask
<1>4. /\ Statements(<<a, b>>) /\ ToSet(<<a, b>>) = {a, b}
      /\ Statements(<<c, d>>) /\ ToSet(<<c, d>>) = {c, d}
  BY <1>1, <1>3, ShortStatements, Elements
<1>5. Statements(<<a, b>> \o <<c, d>>) /\ ToSet(<<a, b>> \o <<c, d>>) = {a, b, c, d}
  <2>1. \A x \in {a, b}, y \in {c, d} : MayPrecede(x, y)
    BY <1>3
  <2> QED BY <1>4, <2>1, BothStatements
<1>6. <<a, b, c, d>> # <<>> /\ Head(<<a, b, c, d>>) = a
  OBVIOUS
<1> QED BY <1>1, <1>2, <1>5, <1>6 DEF a

-----------------------------------------------------------------------------
(* What a message makes the client run.                                    *)

(* Taken together with the statement that is put below it, a body is not   *)
(* in need of the WebSocket after it has closed it, throws only where that *)
(* is caught, and enters state `task` only from the handshake.             *)
Tame(s) ==
  /\ Statements(s)
  /\ \A x \in ToSet(s) :
       /\ x.do \notin {"open", "handler", "calls", "endOfTry", "endOfCall"}
       /\ x.do = "close" => x.unbind

(* Below a statement of none of these kinds, others may follow.            *)
LEMMA EndsTame ==
  ASSUME NEW s, Tame(s), NEW e \in Frame, e.do \in {"endOfTry", "endOfCall"}
  PROVE  Statements(s \o <<e>>) /\ ToSet(s \o <<e>>) = ToSet(s) \cup {e}
<1>1. Statements(<<e>>) /\ ToSet(<<e>>) = {e}
  BY ShortStatements, Elements
<1>2. \A a \in ToSet(s), b \in ToSet(<<e>>) : MayPrecede(a, b)
  BY <1>1, PrecedesCalm
<1> QED BY <1>1, <1>2, BothStatements DEF Tame

LEMMA TameLists ==
  /\ Tame(<<>>)
  /\ \A a \in Frame :
       /\ a.do \notin {"open", "handler", "calls", "endOfTry", "endOfCall", "renew"}
       /\ a.do = "close" => a.unbind
       => Tame(<<a>>) /\ ToSet(<<a>>) = {a}
  /\ \A s, t : /\ Tame(s) /\ Tame(t)
               /\ \A a \in ToSet(s), b \in ToSet(t) : MayPrecede(a, b)
               => Tame(s \o t) /\ ToSet(s \o t) = ToSet(s) \cup ToSet(t)
  /\ \A code \in Nat : /\ Tame(ResetConnection(code))
                       /\ \A x \in ToSet(ResetConnection(code)) :
                            /\ x.do \in {"close", "renew", "set"} /\ Calm(x) /\ ~SetsTask(x)
                            /\ x.do = "close" => x.unbind
<1>1. Tame(<<>>)
  BY ShortStatements, Elements DEF Tame
<1>2. ASSUME NEW a \in Frame, a.do = "close" => a.unbind,
             a.do \notin {"open", "handler", "calls", "endOfTry", "endOfCall", "renew"}
      PROVE  Tame(<<a>>) /\ ToSet(<<a>>) = {a}
  BY <1>2, ShortStatements, Elements DEF Tame
<1>3. ASSUME NEW s, NEW t, Tame(s), Tame(t), \A a \in ToSet(s), b \in ToSet(t) : MayPrecede(a, b)
      PROVE  Tame(s \o t) /\ ToSet(s \o t) = ToSet(s) \cup ToSet(t)
  BY <1>3, BothStatements DEF Tame
<1>4. ASSUME NEW code \in Nat
      PROVE  /\ Tame(ResetConnection(code))
             /\ \A x \in ToSet(ResetConnection(code)) :
                  /\ x.do \in {"close", "renew", "set"} /\ Calm(x) /\ ~SetsTask(x)
                  /\ x.do = "close" => x.unbind
  BY ResetStatements DEF Tame
<1> QED BY <1>1, <1>2, <1>3, <1>4

(* The bodies of the listener of messages.                                 *)
MessageBody(s) ==
  /\ Tame(s)
  /\ \A x \in ToSet(s) : x.do # "sendClose"
  /\ \A x, y \in ToSet(s) : x.do \in {"send", "throw", "initTask"} => y.do # "close"
  /\ \A x \in ToSet(s) :
       SetsTask(x) \/ x.do \in {"initTask", "tellTask"} => sig.state = "peer-handshake"
  /\ \A x \in ToSet(s) : SetsTask(x) /\ role = "initiator" => \E y \in ToSet(s) : y.do = "tellTask"

(* One of a single kind of statement, and one that is followed by another. *)
LEMMA OneStatement ==
  ASSUME NEW a \in Frame, \/ a.do \in {"emit", "send", "throw", "fail", "authSent", "handshakeDone", "closeTask"}
                          \/ a.do = "set" /\ ~SetsTask(a)
  PROVE  MessageBody(<<a>>) /\ ToSet(<<a>>) = {a}
<1>1. Tame(<<a>>) /\ ToSet(<<a>>) = {a}
  BY TameLists
<1> QED BY <1>1 DEF MessageBody, SetsTask

LEMMA NoStatement == MessageBody(<<>>) /\ ToSet(<<>>) = {}
<1>1. Tame(<<>>) /\ ToSet(<<>>) = {}
  BY TameLists, Elements
<1> QED BY <1>1 DEF MessageBody

LEMMA ResetBody ==
  ASSUME NEW code \in Nat
  PROVE  /\ MessageBody(ResetConnection(code))
         /\ \A x \in ToSet(ResetConnection(code)) :
              /\ x.do \in {"close", "renew", "set"} /\ Calm(x) /\ ~SetsTask(x)
              /\ x.do = "close" => x.unbind
BY TameLists DEF MessageBody, SetsTask

LEMMA TwoBodies ==
  ASSUME NEW s, NEW t, MessageBody(s), MessageBody(t),
         \A a \in ToSet(s), b \in ToSet(t) : MayPrecede(a, b),
         \A a \in ToSet(s), b \in ToSet(t) :
           /\ a.do \in {"send", "throw", "initTask"} => b.do # "close"
           /\ b.do \in {"send", "throw", "initTask"} => a.do # "close"
  PROVE  MessageBody(s \o t) /\ ToSet(s \o t) = ToSet(s) \cup ToSet(t)
<1>1. Tame(s \o t) /\ ToSet(s \o t) = ToSet(s) \cup ToSet(t)
  BY TameLists DEF MessageBody
<1> QED BY <1>1 DEF MessageBody

LEMMA Pair ==
  ASSUME NEW S, NEW a \in S, NEW b \in S
  PROVE  <<a, b>> = <<a>> \o <<b>>
<1>1. <<a>> \in Seq(S) /\ <<a, b>> = Append(<<a>>, b)
  OBVIOUS
<1>2. Append(<<a>>, b) = <<a>> \o <<b>>
  BY <1>1, AppendIsConcat
<1> QED BY <1>1, <1>2

LEMMA PairBody ==
  ASSUME NEW a \in Frame, NEW b \in Frame, MessageBody(<<a>>), MessageBody(<<b>>), MayPrecede(a, b),
         ToSet(<<a>>) = {a}, ToSet(<<b>>) = {b}, a.do # "close", b.do # "close"
  PROVE  MessageBody(<<a, b>>) /\ ToSet(<<a, b>>) = {a, b}
<1>1. <<a, b>> = <<a>> \o <<b>>
  BY Pair
<1>2. \A x \in ToSet(<<a>>), y \in ToSet(<<b>>) : MayPrecede(x, y) /\ x.do # "close" /\ y.do # "close"
  OBVIOUS
<1>3. MessageBody(<<a>> \o <<b>>) /\ ToSet(<<a>> \o <<b>>) = {a} \cup {b}
  BY <1>2, TwoBodies
<1> QED BY <1>1, <1>3

LEMMA Announcements ==
  ASSUME NEW told \in Announced
  PROVE  MessageBody(told) /\ \A x \in ToSet(told) : x.do \in {"emit", "send"}
<1> DEFINE a == Announcement
<1>1. /\ a \in Frame /\ a.do = "emit" /\ Send \in Frame /\ Send.do = "send"
  BY Events, Vocabulary, PlainVocabulary DEF Announcement
<1>2. MessageBody(<<a>>) /\ ToSet(<<a>>) = {a} /\ MessageBody(<<Send>>) /\ ToSet(<<Send>>) = {Send}
  BY <1>1, OneStatement
<1>3. MayPrecede(a, a) /\ MayPrecede(a, Send) /\ MayPrecede(Send, a)
  BY <1>1 DEF MayPrecede, SetsTask
<1>4. /\ MessageBody(<<a, a>>) /\ ToSet(<<a, a>>) = {a}
      /\ MessageBody(<<a, Send>>) /\ ToSet(<<a, Send>>) = {a, Send}
  BY <1>1, <1>2, <1>3, PairBody
<1>5. /\ MessageBody(<<a, Send>> \o <<a>>)
      /\ ToSet(<<a, Send>> \o <<a>>) = {a, Send}
  <2>1. \A x \in ToSet(<<a, Send>>), y \in ToSet(<<a>>) :
          MayPrecede(x, y) /\ x.do # "close" /\ y.do # "close"
    BY <1>1, <1>2, <1>3, <1>4
  <2>2. /\ MessageBody(<<a, Send>> \o <<a>>)
        /\ ToSet(<<a, Send>> \o <<a>>) = ToSet(<<a, Send>>) \cup ToSet(<<a>>)
    BY <1>2, <1>4, <2>1, TwoBodies
  <2> QED BY <1>2, <1>4, <2>2
<1>6. <<a, Send, a>> = <<a, Send>> \o <<a>>
  OBVIOUS
<1>7. told \in {<<>>, <<a>>, <<a, a>>, <<a, Send, a>>}
  BY DEF Announced
<1> HIDE DEF a
<1> QED BY <1>1, <1>2, <1>4, <1>5, <1>6, <1>7, NoStatement

LEMMA ServerBodies ==
  ASSUME NEW body \in FromServer
  PROVE  MessageBody(body)
<1> DEFINE entered == Set("peer-handshake")
<1>1. /\ Send \in Frame /\ Send.do = "send" /\ AuthSent \in Frame /\ AuthSent.do = "authSent"
      /\ HandshakeDone \in Frame /\ HandshakeDone.do = "handshakeDone"
      /\ entered \in Frame /\ entered.do = "set" /\ ~SetsTask(entered)
  BY PlainVocabulary, StateVocabulary DEF SignalingState
<1> HIDE DEF entered
<1>2. /\ MessageBody(<<Send>>) /\ ToSet(<<Send>>) = {Send}
      /\ MessageBody(<<AuthSent>>) /\ ToSet(<<AuthSent>>) = {AuthSent}
      /\ MessageBody(<<HandshakeDone>>) /\ ToSet(<<HandshakeDone>>) = {HandshakeDone}
      /\ MessageBody(<<entered>>) /\ ToSet(<<entered>>) = {entered}
  BY <1>1, OneStatement
<1>3. MayPrecede(Send, Send) /\ MayPrecede(Send, AuthSent) /\ MayPrecede(HandshakeDone, entered)
      /\ MayPrecede(HandshakeDone, Send) /\ MayPrecede(entered, Send)
  BY <1>1 DEF MayPrecede, SetsTask
<1>4. /\ MessageBody(<<Send, AuthSent>>) /\ ToSet(<<Send, AuthSent>>) = {Send, AuthSent}
      /\ MessageBody(<<HandshakeDone, entered>>)
      /\ ToSet(<<HandshakeDone, entered>>) = {HandshakeDone, entered}
  BY <1>1, <1>2, <1>3, PairBody
<1>5. MessageBody(<<Send>> \o <<Send, AuthSent>>)
  <2>1. \A x \in ToSet(<<Send>>), y \in ToSet(<<Send, AuthSent>>) :
          MayPrecede(x, y) /\ x.do # "close" /\ y.do # "close"
    BY <1>1, <1>2, <1>3, <1>4
  <2> QED BY <1>2, <1>4, <2>1, TwoBodies
<1>6. MessageBody(<<HandshakeDone, entered>> \o <<Send>>)
  <2>1. \A x \in ToSet(<<HandshakeDone, entered>>), y \in ToSet(<<Send>>) :
          MayPrecede(x, y) /\ x.do # "close" /\ y.do # "close"
    BY <1>1, <1>2, <1>3, <1>4
  <2> QED BY <1>2, <1>4, <2>1, TwoBodies
<1>7. ASSUME NEW told \in Announced PROVE MessageBody(told \o <<HandshakeDone, entered>>)
  <2>1. MessageBody(told) /\ \A x \in ToSet(told) : x.do \in {"emit", "send"}
    BY Announcements
  <2>2. \A x \in ToSet(told), y \in ToSet(<<HandshakeDone, entered>>) :
          MayPrecede(x, y) /\ x.do # "close" /\ y.do # "close"
    BY <1>1, <1>4, <2>1 DEF MayPrecede, SetsTask
  <2> QED BY <1>4, <2>1, <2>2, TwoBodies
<1>8. /\ <<Send, Send, AuthSent>> = <<Send>> \o <<Send, AuthSent>>
      /\ <<HandshakeDone, entered>> \o <<>> = <<HandshakeDone, entered>>
  OBVIOUS
<1>9. MessageBody(ServerHello)
  BY <1>4, <1>5, <1>8 DEF ServerHello
<1>10. ASSUME NEW s \in ServerAuth PROVE MessageBody(s)
  <2>1. CASE role = "initiator"
    <3>1. PICK told \in Announced : s = told \o <<HandshakeDone, entered>>
      BY <1>10, <2>1 DEF ServerAuth, entered
    <3> QED BY <1>7, <3>1
  <2>2. CASE role # "initiator"
    <3>1. \/ s = <<HandshakeDone, entered>> \o <<>>
          \/ s = <<HandshakeDone, entered>> \o <<Send>>
      BY <1>10, <2>2 DEF ServerAuth, entered
    <3> QED BY <1>4, <1>6, <1>8, <3>1
  <2> QED BY <2>1, <2>2
<1> QED BY <1>9, <1>10 DEF FromServer

LEMMA HandshakeBodies ==
  ASSUME NEW body \in PeerHandshake, sig.state = "peer-handshake"
  PROVE  MessageBody(body)
<1> DEFINE in == Set("task")
           new == Announcement
           none == Emit("no-shared-task")
           gone == Emit("peer-disconnected")
<1>1. /\ Send \in Frame /\ Send.do = "send" /\ Throw \in Frame /\ Throw.do = "throw"
      /\ InitTask \in Frame /\ InitTask.do = "initTask" /\ TellTask \in Frame /\ TellTask.do = "tellTask"
      /\ in \in Frame /\ in.do = "set" /\ SetsTask(in)
      /\ new \in Frame /\ new.do = "emit" /\ none \in Frame /\ none.do = "emit"
      /\ gone \in Frame /\ gone.do = "emit" /\ Lost \in Frame /\ Lost.do = "emit"
  BY PlainVocabulary, StateVocabulary, Events, Vocabulary
     DEF SignalingState, Lost, Announcement
<1> HIDE DEF in, new, none, gone
<1>2. /\ MessageBody(<<Send>>) /\ ToSet(<<Send>>) = {Send}
      /\ MessageBody(<<Throw>>) /\ ToSet(<<Throw>>) = {Throw}
      /\ MessageBody(<<new>>) /\ ToSet(<<new>>) = {new}
      /\ MessageBody(<<none>>) /\ ToSet(<<none>>) = {none}
      /\ MessageBody(<<gone>>) /\ MessageBody(<<Lost>>) /\ ToSet(<<Lost>>) = {Lost}
  BY <1>1, OneStatement
<1>3. MessageBody(<<InitTask>>) /\ ToSet(<<InitTask>>) = {InitTask}
  <2>1. Tame(<<InitTask>>) /\ ToSet(<<InitTask>>) = {InitTask}
    BY <1>1, TameLists
  <2> QED BY <1>1, <2>1 DEF MessageBody, SetsTask
<1>4. /\ MayPrecede(Send, new) /\ MayPrecede(none, Throw) /\ MayPrecede(InitTask, Throw)
      /\ MayPrecede(InitTask, Send) /\ MayPrecede(in, TellTask) /\ MayPrecede(InitTask, in)
      /\ MayPrecede(InitTask, TellTask) /\ MayPrecede(Send, in) /\ MayPrecede(Send, TellTask)
      /\ MayPrecede(Send, Send)
  BY <1>1 DEF MayPrecede, SetsTask
<1>5. /\ MessageBody(<<Send, new>>) /\ MessageBody(<<none, Throw>>) /\ MessageBody(<<InitTask, Throw>>)
      /\ MessageBody(<<InitTask, Send>>) /\ ToSet(<<InitTask, Send>>) = {InitTask, Send}
  BY <1>1, <1>2, <1>3, <1>4, PairBody
<1>6. MessageBody(<<in, TellTask>>) /\ ToSet(<<in, TellTask>>) = {in, TellTask}
  <2>1. Statements(<<in, TellTask>>) /\ ToSet(<<in, TellTask>>) = {in, TellTask}
    BY <1>1, <1>4, ShortStatements, Elements
  <2> QED BY <1>1, <2>1 DEF MessageBody, Tame, SetsTask
<1>7. /\ MessageBody(<<InitTask, Send>> \o <<Send>>)
      /\ ToSet(<<InitTask, Send>> \o <<Send>>) = {InitTask, Send}
  <2>1. \A x \in ToSet(<<InitTask, Send>>), y \in ToSet(<<Send>>) :
          MayPrecede(x, y) /\ x.do # "close" /\ y.do # "close"
    BY <1>1, <1>2, <1>4, <1>5
  <2>2. /\ MessageBody(<<InitTask, Send>> \o <<Send>>)
        /\ ToSet(<<InitTask, Send>> \o <<Send>>) = ToSet(<<InitTask, Send>>) \cup ToSet(<<Send>>)
    BY <1>2, <1>5, <2>1, TwoBodies
  <2> QED BY <1>2, <1>5, <2>2
<1>8. ASSUME NEW s, MessageBody(s), ToSet(s) = {InitTask, Send}
      PROVE  MessageBody(s \o <<in, TellTask>>)
  <2>1. \A x \in ToSet(s), y \in ToSet(<<in, TellTask>>) :
          MayPrecede(x, y) /\ x.do # "close" /\ y.do # "close"
    BY <1>1, <1>4, <1>6, <1>8
  <2> QED BY <1>6, <1>8, <2>1, TwoBodies
<1>9. <<InitTask, Send>> \o <<>> = <<InitTask, Send>>
  OBVIOUS
<1>10. ASSUME NEW s \in PeerHandshakeOfInitiator PROVE MessageBody(s)
  <2>1. \/ s \in {<<new>>, <<Send, new>>, <<Lost>>, <<Send>>, <<none, Throw>>, <<InitTask, Throw>>}
        \/ s = <<InitTask, Send>> \o <<>> \o <<in, TellTask>>
        \/ s = <<InitTask, Send>> \o <<Send>> \o <<in, TellTask>>
    BY <1>10 DEF PeerHandshakeOfInitiator, in, new, none
  <2> QED BY <1>2, <1>5, <1>7, <1>8, <1>9, <2>1
<1>11. ASSUME NEW s \in PeerHandshakeOfResponder, role # "initiator" PROVE MessageBody(s)
  <2>1. \/ s = <<Send>>
        \/ s = <<Lost>> \o ResetConnection(ProtocolError)
        \/ s = <<InitTask, Throw>>
        \/ s = <<InitTask, in>>
    BY <1>11 DEF PeerHandshakeOfResponder, in
  <2>2. MessageBody(<<Lost>> \o ResetConnection(ProtocolError))
    <3>1. /\ MessageBody(ResetConnection(ProtocolError))
          /\ \A x \in ToSet(ResetConnection(ProtocolError)) : x.do \in {"close", "renew", "set"} /\ ~SetsTask(x)
      BY ResetBody, CloseVocabulary
    <3>2. \A x \in ToSet(<<Lost>>), y \in ToSet(ResetConnection(ProtocolError)) :
            /\ MayPrecede(x, y)
            /\ x.do = "emit" /\ y.do \in {"close", "renew", "set"}
      BY <1>1, <1>2, <3>1 DEF MayPrecede, SetsTask
    <3> QED BY <1>2, <3>1, <3>2, TwoBodies
  <2>3. MessageBody(<<InitTask, in>>)
    <3>1. Statements(<<InitTask, in>>) /\ ToSet(<<InitTask, in>>) = {InitTask, in}
      BY <1>1, <1>4, ShortStatements, Elements
    <3> QED BY <1>1, <1>11, <3>1 DEF MessageBody, Tame, SetsTask
  <2> QED BY <1>2, <1>5, <2>1, <2>2, <2>3
<1> QED BY <1>2, <1>10, <1>11 DEF PeerHandshake, gone

LEMMA TaskBodies ==
  ASSUME NEW body \in Refused \cup FromPeer \cup FromServerLater
  PROVE  MessageBody(body)
<1> DEFINE told == Emit("application")
           gone == Emit("peer-disconnected")
<1>1. /\ Send \in Frame /\ Send.do = "send" /\ Throw \in Frame /\ Throw.do = "throw"
      /\ Fail \in Frame /\ Fail.do = "fail"
      /\ CloseTask \in Frame /\ CloseTask.do = "closeTask"
      /\ told \in Frame /\ told.do = "emit"
      /\ gone \in Frame /\ gone.do = "emit" /\ Lost \in Frame /\ Lost.do = "emit"
  BY PlainVocabulary, Events, Vocabulary DEF Lost
<1> HIDE DEF told, gone
<1>2. /\ MessageBody(<<Send>>) /\ MessageBody(<<Throw>>) /\ MessageBody(<<Fail>>)
      /\ MessageBody(<<CloseTask>>) /\ ToSet(<<CloseTask>>) = {CloseTask}
      /\ MessageBody(<<told>>) /\ MessageBody(<<gone>>)
      /\ MessageBody(<<Lost>>) /\ ToSet(<<Lost>>) = {Lost}
  BY <1>1, OneStatement
<1>3. ASSUME NEW code \in Nat, NEW a \in {CloseTask, Lost}
      PROVE  /\ MessageBody(ResetConnection(code)) /\ MessageBody(<<a>> \o ResetConnection(code))
             /\ a = Lost => MessageBody(ResetConnection(code) \o <<a>>)
  <2>1. /\ MessageBody(ResetConnection(code))
        /\ \A x \in ToSet(ResetConnection(code)) : x.do \in {"close", "renew", "set"} /\ ~SetsTask(x)
    BY ResetBody
  <2>2. \A x \in ToSet(<<a>>), y \in ToSet(ResetConnection(code)) :
          /\ MayPrecede(x, y) /\ (a = Lost => MayPrecede(y, x))
          /\ x.do \in {"emit", "closeTask"} /\ y.do \in {"close", "renew", "set"}
    BY <1>1, <1>2, <2>1 DEF MayPrecede, SetsTask
  <2>3. MessageBody(<<a>>)
    BY <1>2
  <2>4. MessageBody(<<a>> \o ResetConnection(code))
    BY <2>1, <2>2, <2>3, TwoBodies
  <2>5. ASSUME a = Lost PROVE MessageBody(ResetConnection(code) \o <<a>>)
    BY <2>1, <2>2, <2>3, <2>5, TwoBodies
  <2> QED BY <2>1, <2>4, <2>5
<1>4. ClosingNormal \in Nat /\ GoingAway \in Nat /\ ProtocolError \in Nat
  BY CloseVocabulary
<1>5. ASSUME NEW s \in FromPeer PROVE MessageBody(s)
  <2>1. \/ s = <<CloseTask>> \o ResetConnection(GoingAway)
        \/ s = <<told>>
        \/ s = ResetConnection(ProtocolError)
    BY <1>5 DEF FromPeer, told
  <2> QED BY <1>2, <1>3, <1>4, <2>1
<1>6. ASSUME NEW s \in FromServerLater PROVE MessageBody(s)
  <2>1. \/ s \in {<<gone>>, <<Send>>}
        \/ s = ResetConnection(ProtocolError) \o <<Lost>>
        \/ s = <<Lost>> \o ResetConnection(ProtocolError)
        \/ s = ResetConnection(ClosingNormal)
    BY <1>6 DEF FromServerLater, gone
  <2> QED BY <1>2, <1>3, <1>4, <2>1
<1> QED BY <1>2, <1>5, <1>6 DEF Refused

LEMMA ListenerBodies ==
  ASSUME NEW body \in MessageBodies
  PROVE  /\ MessageBody(body)
         /\ sig.peer => \A x \in ToSet(body) : x.do \in {"close", "renew", "set"}
<1>1. CASE sig.peer
  <2>1. body = ResetConnection(ProtocolError)
    BY <1>1 DEF MessageBodies
  <2> QED BY <1>1, <2>1, ResetBody, CloseVocabulary
<1>2. CASE ~sig.peer
  <2>1. \/ body \in FromServer
        \/ body \in PeerHandshake /\ sig.state = "peer-handshake"
        \/ body \in Refused \cup FromPeer \cup FromServerLater
    BY <1>2 DEF MessageBodies
  <2> QED BY <1>2, <2>1, ServerBodies, HandshakeBodies, TaskBodies
<1> QED BY <1>1, <1>2

-----------------------------------------------------------------------------
(* One statement.                                                          *)

(* What is left when the first statement is replaced by others.            *)
LEMMA Replaced ==
  ASSUME Statements(stack), stack # <<>>, NEW new, Statements(new), Then(new),
         \A a \in ToSet(new), b \in ToSet(Tail(stack)) : MayPrecede(a, b)
  PROVE  /\ Statements(stack)'
         /\ Waiting = {Head(stack)} \cup ToSet(Tail(stack)) /\ Head(stack) \in Frame
         /\ Waiting' = ToSet(new) \cup ToSet(Tail(stack))
         /\ \A b \in ToSet(Tail(stack)) : MayPrecede(Head(stack), b)
<1>1. /\ Statements(Tail(stack))
      /\ ToSet(stack) = {Head(stack)} \cup ToSet(Tail(stack)) /\ Head(stack) \in Frame
      /\ \A b \in ToSet(Tail(stack)) : MayPrecede(Head(stack), b)
  BY TailStatements
<1>2. stack' = new \o Tail(stack)
  BY DEF Then
<1>3. Statements(new \o Tail(stack)) /\ ToSet(new \o Tail(stack)) = ToSet(new) \cup ToSet(Tail(stack))
  BY <1>1, BothStatements
<1> QED BY <1>1, <1>2, <1>3 DEF Waiting

LEMMA Finished ==
  ASSUME Statements(stack), stack # <<>>, Continue
  PROVE  /\ Statements(stack)' /\ stack' = Tail(stack)
         /\ Waiting = {Head(stack)} \cup ToSet(Tail(stack)) /\ Head(stack) \in Frame
         /\ Waiting' = ToSet(Tail(stack))
         /\ \A b \in ToSet(Tail(stack)) : MayPrecede(Head(stack), b)
         /\ Head(stack).do = "renew" => stack' # <<>> /\ Head(stack') = Set("new")
<1>1. Statements(<<>>) /\ ToSet(<<>>) = {} /\ Then(<<>>)
  BY ShortStatements, Elements DEF Continue
<1>2. /\ Statements(stack)'
      /\ Waiting = {Head(stack)} \cup ToSet(Tail(stack)) /\ Head(stack) \in Frame
      /\ Waiting' = {} \cup ToSet(Tail(stack))
      /\ \A b \in ToSet(Tail(stack)) : MayPrecede(Head(stack), b)
  BY <1>1, Replaced
<1>3. /\ Tail(stack) \in Seq(Frame)
      /\ Head(stack).do = "renew" => Tail(stack) # <<>> /\ Head(Tail(stack)) = Set("new")
  BY TailStatements DEF Statements
<1>4. stack' = Tail(stack)
  BY <1>3, ConcatEmptySeq DEF Continue, Then
<1> QED BY <1>2, <1>3, <1>4

LEMMA Pushed ==
  ASSUME Statements(stack), NEW new, Statements(new), stack' = new \o stack,
         \A a \in ToSet(new), b \in Waiting : MayPrecede(a, b)
  PROVE  Statements(stack)' /\ Waiting' = ToSet(new) \cup Waiting
BY BothStatements DEF Waiting

(* Wherever a handler runs, all above it is calm.                          *)
Nested(x) == x.do \in {"emit", "calls", "handler"}

(* A statement that neither changes the state nor the WebSocket is over,   *)
(* or calls handlers.                                                      *)
LEMMA QuietStep ==
  ASSUME IInv, ~Idle, NEW new,
         Waiting = {Head(stack)} \cup ToSet(Tail(stack)),
         Waiting' = new \cup ToSet(Tail(stack)),
         \A b \in ToSet(Tail(stack)) : MayPrecede(Head(stack), b),
         \A x \in new : Nested(x),
         Head(stack).do \in {"emit", "calls", "handler", "send", "sendClose", "authSent",
                             "handshakeDone", "endOfTry", "endOfCall"},
         \E hs \in {"new", "auth-sent", "done"} : sig' = [sig EXCEPT !.hs = hs],
         life' = life, role' = role,
         app'.left = app.left, app'.within = app.within, app'.escaped = app.escaped
  PROVE  Connection' /\ Sending' /\ Entering' /\ Working' /\ Leaving'
<1> DEFINE rest == ToSet(Tail(stack))
<1>1. /\ sig'.state = sig.state /\ sig'.ws = sig.ws /\ sig'.socket = sig.socket
      /\ sig'.local = sig.local /\ sig'.used = sig.used
  BY DEF IInv, Variables
<1>2. ~Building /\ ~Building'
  BY DEF IInv, Connection, Building
<1>3. \A x \in new : Calm(x) /\ x.do \notin {"open", "close", "set", "send", "sendClose", "throw",
                       "initTask", "tellTask"} /\ ~SetsTask(x)
  BY CalmVocabulary DEF Nested, SetsTask
<1>4. Connection'
  BY <1>1, <1>2, <1>3 DEF IInv, Connection, Waits
<1>5. Sending'
  <2>1. ~Waits("sendClose")'
    BY <1>3 DEF Waits, MayPrecede
  <2>2. Waits("throw")' \/ Waits("initTask")' => Waits("endOfTry")' \/ Waits("endOfCall")'
    BY <1>3 DEF IInv, Sending, Waits, MayPrecede
  <2>3. \A d \in {"send", "throw", "initTask", "close"} : Waits(d)' => Waits(d)
    BY <1>3 DEF Waits
  <2>4. Waits("endOfTry")' => Waits("endOfTry")
    BY <1>3 DEF Waits, Nested
  <2> QED BY <1>1, <2>1, <2>2, <2>3, <2>4 DEF IInv, Sending
<1>6. Entering'
  <2>1. \A d \in {"send", "initTask"} : Waits(d)' => Waits(d)
    BY <1>3 DEF Waits
  <2>2. Waits("tellTask") <=> Waits("tellTask")'
    BY <1>3 DEF Waits
  <2>3. \A x \in Waiting' : SetsTask(x) => x \in Waiting
    BY <1>3
  <2> QED BY <1>1, <2>1, <2>2, <2>3 DEF IInv, Entering
<1>7. Working'
  <2>1. sig.state = "task" => sig.ws \/ sig.local
    BY DEF IInv, Working, Runs, LeavesTask
  <2>2. ASSUME NEW x \in Waiting', x.do = "close", ~x.unbind, sig.state = "task" PROVE sig.local
    <3>1. x \in Waiting
      BY <1>3, <2>2
    <3> QED BY <2>2, <3>1 DEF IInv, Working, Runs, LeavesTask
  <2> QED BY <1>1, <2>1, <2>2 DEF Working
<1>8. Leaving'
  <2>1. /\ Waits("close") => Waits("close")'
        /\ Waits("closeTask") => Waits("closeTask")'
        /\ Waits("initTask")' => Waits("initTask")
    BY <1>3 DEF Waits
  <2> QED BY <1>1, <2>1 DEF IInv, Leaving
<1> QED BY <1>4, <1>5, <1>6, <1>7, <1>8

LEMMA IdleIsEmpty ==
  /\ Statements(stack) => (Idle <=> Waiting = {})
  /\ Statements(stack)' => (Idle' <=> Waiting' = {})
BY NothingLeft DEF Statements, Idle, Waiting

(* What the statements of the code that are not quiet leave of the         *)
(* handlers: they neither end one nor call one.                            *)
HandlersStay ==
  /\ \A x \in Waiting : x.do = "handler" => x \in Waiting'
  /\ \A x \in Waiting' : x.do \in {"handler", "calls"} => x \in Waiting

Situation == Connection /\ Sending /\ Entering /\ Working /\ Leaving

LEMMA SetStep ==
  ASSUME IInv, SetState, role' = role
  PROVE  Statements(stack)' /\ Situation' /\ HandlersStay
<1> DEFINE s == Head(stack).to
           a == Emit("state-change")
           b == Emit(StateChange(s))
           rest == ToSet(Tail(stack))
<1>1. /\ stack # <<>> /\ Head(stack).do = "set"
      /\ sig' = [sig EXCEPT !.state = s] /\ Then(<<a, b>>) /\ life' = life /\ app' = app
  BY DEF SetState, Runs, Idle
<1>2. Statements(stack)
  BY DEF IInv
<1>3. Head(stack) \in Frame
  BY <1>1, <1>2, TailStatements
<1>4. s \in SignalingState
  BY <1>1, <1>3 DEF Frame, CallsFrame, PlainDo
<1>5. a \in Frame /\ b \in Frame /\ a.do = "emit" /\ b.do = "emit"
  BY <1>4, Events, Vocabulary
<1>6. MayPrecede(a, b) /\ \A x \in rest : MayPrecede(Head(stack), x)
  BY <1>1, <1>2, <1>5, TailStatements, PrecedesCalm
<1>7. Statements(<<a, b>>) /\ ToSet(<<a, b>>) = {a, b}
  BY <1>5, <1>6, ShortStatements, Elements
<1>8. Calm(a) /\ Calm(b) /\ ~SetsTask(a) /\ ~SetsTask(b)
  BY <1>5 DEF Calm, SetsTask
<1>9. \A x \in {a, b}, y \in rest : MayPrecede(x, y)
  BY <1>1, <1>5, <1>6, <1>8 DEF MayPrecede, Calm, SetsTask
<1>10. /\ Statements(stack)' /\ Waiting = {Head(stack)} \cup rest /\ Waiting' = {a, b} \cup rest
  <2> HIDE DEF a, b
  <2> QED BY <1>1, <1>2, <1>7, <1>9, Replaced
<1> HIDE DEF a, b
<1>11. /\ sig'.state = s /\ sig'.ws = sig.ws /\ sig'.socket = sig.socket
       /\ sig'.local = sig.local /\ sig'.used = sig.used
  BY <1>1 DEF IInv, Variables
<1>12. SetsTask(Head(stack)) <=> s = "task"
  BY <1>1 DEF SetsTask
<1>13. /\ \A x \in Waiting' : x \in Waiting \/ x.do = "emit"
       /\ \A x \in Waiting : x \in Waiting' \/ x.do = "set"
       /\ \A x \in Waiting' : ~SetsTask(x)
  <2>1. \A x \in rest : ~SetsTask(x)
    BY <1>1, <1>6 DEF MayPrecede
  <2> QED BY <1>1, <1>5, <1>8, <1>10, <2>1
<1>14. \A d \in {"throw", "initTask", "endOfTry", "endOfCall", "sendClose", "send", "close", "open",
                "tellTask", "closeTask"} : Waits(d)' <=> Waits(d)
  BY <1>13 DEF Waits
<1>15. ~Building /\ ~Building'
  BY <1>1 DEF IInv, Connection, Building, Idle
<1>16. Connection'
  <2>1. ~sig.used => s # "task" /\ \A x \in Waiting' : Calm(x) /\ x.do # "open"
    BY <1>5, <1>8, <1>10, <1>12 DEF IInv, Connection, Calm
  <2> QED BY <1>1, <1>11, <1>14, <1>15, <2>1 DEF IInv, Connection
<1>17. Sending'
  BY <1>1, <1>11, <1>14 DEF IInv, Sending
<1>18. Entering'
  <2>1. CASE s = "task"
    <3>1. ~Waits("initTask")' /\ ~Waits("send")'
      BY <1>5, <1>6, <1>10, <1>12, <2>1 DEF Waits, MayPrecede
    <3>2. role = "initiator" => Waits("tellTask")
      BY <1>10, <1>12, <2>1 DEF IInv, Entering
    <3> QED BY <1>13, <1>14, <3>1, <3>2 DEF Entering
  <2>2. CASE s # "task"
    BY <1>11, <1>13, <2>2 DEF Entering
  <2> QED BY <2>1, <2>2
<1>19. Working'
  <2>1. CASE s = "task"
    <3>1. sig.ws
      BY <1>10, <1>12, <2>1 DEF IInv, Entering
    <3>2. ~Waits("close")'
      BY <1>5, <1>6, <1>10, <1>12, <2>1 DEF Waits, MayPrecede
    <3> QED BY <1>11, <3>1, <3>2 DEF Working, Waits
  <2>2. CASE s # "task"
    BY <1>11, <2>2 DEF Working
  <2> QED BY <2>1, <2>2
<1>20. Leaving'
  BY <1>1, <1>11, <1>14 DEF IInv, Leaving
<1>21. HandlersStay
  BY <1>13 DEF HandlersStay
<1> QED BY <1>10, <1>16, <1>17, <1>18, <1>19, <1>20, <1>21 DEF Situation

LEMMA CloseStep ==
  ASSUME IInv, CloseWebsocket, role' = role
  PROVE  Statements(stack)' /\ Situation' /\ HandlersStay
<1> DEFINE a == Set("closed")
           new == IF sig.ws /\ Head(stack).unbind THEN <<a>> ELSE <<>>
           rest == ToSet(Tail(stack))
<1>1. /\ stack # <<>> /\ Head(stack).do = "close" /\ Then(new) /\ life' = life /\ app' = app
  BY DEF CloseWebsocket, Runs, Idle, Continue
<1>2. /\ sig'.state = sig.state /\ ~sig'.ws /\ sig'.local = sig.local /\ sig'.used = sig.used
      /\ sig.ws => sig'.socket \in {"closing", "closed"}
      /\ ~sig.ws => sig'.socket = sig.socket
  BY DEF CloseWebsocket, IInv, Variables
<1>3. Statements(stack)
  BY DEF IInv
<1>4. a \in Frame /\ a.do = "set" /\ ~SetsTask(a) /\ Calm(a)
  BY StateVocabulary DEF SignalingState
<1>5. Statements(new) /\ ToSet(new) = IF sig.ws /\ Head(stack).unbind THEN {a} ELSE {}
  BY <1>4, ShortStatements, Elements
<1>6. \A x \in rest : MayPrecede(Head(stack), x)
  BY <1>1, <1>3, TailStatements
<1>7. Calm(Head(stack))
  BY <1>1, CalmVocabulary
<1>8. \A x \in ToSet(new), y \in rest : MayPrecede(x, y)
  BY <1>4, <1>5, <1>6, <1>7, CalmPrecedes
<1>9. /\ Statements(stack)' /\ Waiting = {Head(stack)} \cup rest /\ Waiting' = ToSet(new) \cup rest
      /\ Head(stack) \in Frame
  <2> HIDE DEF new
  <2> QED BY <1>1, <1>3, <1>5, <1>8, Replaced
<1>10. /\ \A x \in Waiting' : x \in Waiting \/ (x.do = "set" /\ ~SetsTask(x))
       /\ \A x \in Waiting : x \in Waiting' \/ x.do = "close"
       /\ \A x \in Waiting' : ~SetsTask(x)
  <2>1. \A x \in rest : ~SetsTask(x)
    BY <1>1, <1>6 DEF MayPrecede
  <2> QED BY <1>1, <1>4, <1>5, <1>9, <2>1
<1>11. /\ \A d \in {"throw", "initTask", "endOfTry", "endOfCall", "sendClose", "send", "open",
                    "tellTask", "closeTask"} : Waits(d)' <=> Waits(d)
       /\ Waits("close")
  BY <1>1, <1>9, <1>10 DEF Waits
<1>12. ~Building /\ ~Building'
  BY <1>1 DEF IInv, Connection, Building, Idle
<1>13. Connection'
  <2>1. ~sig.used => \A x \in Waiting' : Calm(x) /\ x.do # "open"
    BY <1>4, <1>5, <1>9 DEF IInv, Connection
  <2> QED BY <1>1, <1>2, <1>11, <1>12, <2>1 DEF IInv, Connection
<1>14. Sending'
  <2>1. ~Waits("sendClose")'
    BY <1>4, <1>5, <1>6, <1>9 DEF Waits, MayPrecede
  <2> QED BY <1>1, <1>2, <1>11, <2>1 DEF IInv, Sending
<1>15. Entering'
  BY <1>1, <1>2, <1>10, <1>11 DEF IInv, Entering
<1>16. Working'
  <2>1. sig.state = "task" => sig.ws \/ sig.local
    BY <1>1 DEF IInv, Working, Runs, LeavesTask
  <2>2. ASSUME NEW x \in Waiting, x.do = "close", ~x.unbind, sig.state = "task" PROVE sig.local
    BY <1>1, <2>2 DEF IInv, Working, Runs, LeavesTask
  <2>3. ASSUME NEW x \in Waiting', x.do = "close", ~x.unbind, sig.state = "task" PROVE sig.local
    BY <1>10, <2>2, <2>3
  <2>4. ASSUME sig.ws, Head(stack).unbind PROVE LeavesTask'
    <3>1. Tail(stack) \in Seq(Frame) /\ stack' = <<a>> \o Tail(stack)
      BY <1>1, <1>3, <2>4, TailStatements DEF Then, Statements
    <3> HIDE DEF a
    <3>2. <<a>> \in Seq(Frame)
      BY <1>4
    <3>3. stack' # <<>> /\ Head(stack') = a
      BY <1>4, <3>1, <3>2
    <3> QED BY <1>4, <3>3 DEF LeavesTask, Runs, Idle
  <2>5. ASSUME sig.ws, ~Head(stack).unbind, sig.state = "task" PROVE sig.local
    BY <1>1, <1>9, <2>2, <2>5
  <2>6. Head(stack).unbind \in BOOLEAN
    BY <1>1, <1>9 DEF Frame, CallsFrame, PlainDo
  <2> QED BY <1>2, <2>1, <2>3, <2>4, <2>5, <2>6 DEF Working
<1>17. Leaving'
  <2>1. app.left => sig'.socket # "none"
    BY <1>2 DEF IInv, Leaving
  <2> QED BY <1>1, <1>2, <1>11, <2>1 DEF IInv, Leaving
<1>18. HandlersStay
  BY <1>10 DEF HandlersStay
<1> QED BY <1>9, <1>13, <1>14, <1>15, <1>16, <1>17, <1>18 DEF Situation

(* A statement that is only taken off.                                     *)
LEMMA TakenOff ==
  ASSUME IInv, ~Idle, Continue, role' = role,
         Head(stack).do \in {"renew", "open", "initTask", "tellTask", "closeTask"}
  PROVE  /\ Statements(stack)' /\ HandlersStay
         /\ \A x \in Waiting' : x \in Waiting
         /\ \A d \in {"throw", "endOfTry", "endOfCall", "send", "close", "set"} : Waits(d)' <=> Waits(d)
         /\ \A d \in {"renew", "open", "tellTask", "closeTask"} :
              Head(stack).do # d => (Waits(d)' <=> Waits(d))
         /\ ~Waits("initTask")' /\ ~Waits("sendClose")'
         /\ Waits(Head(stack).do)
         /\ \A x \in Waiting' : MayPrecede(Head(stack), x)
         /\ ~Building /\ ~Building'
         /\ Head(stack).do = "renew" => stack' # <<>> /\ Head(stack') = Set("new")
<1>1. stack # <<>> /\ Statements(stack)
  BY DEF Idle, IInv
<1>2. /\ Statements(stack)'
      /\ Waiting = {Head(stack)} \cup Waiting' /\ Head(stack) \in Frame
      /\ \A b \in Waiting' : MayPrecede(Head(stack), b)
      /\ Head(stack).do = "renew" => stack' # <<>> /\ Head(stack') = Set("new")
  BY <1>1, Finished
<1>3. HandlersStay
  BY <1>2 DEF HandlersStay
<1>4. ~Waits("initTask")' /\ ~Waits("sendClose")'
  BY <1>2 DEF Waits, MayPrecede
<1>5. ~Building /\ ~Building'
  BY DEF IInv, Connection, Building
<1>6. \A d : Waits(d) <=> Waits(d)' \/ Head(stack).do = d
  BY <1>2 DEF Waits
<1> QED BY <1>2, <1>3, <1>4, <1>5, <1>6

LEMMA RenewStep ==
  ASSUME IInv, RenewServer, role' = role
  PROVE  Statements(stack)' /\ Situation' /\ HandlersStay
<1>1. /\ ~Idle /\ Head(stack).do = "renew" /\ Continue /\ life' = life /\ app' = app
  BY DEF RenewServer, Runs
<1>2. /\ sig'.state = sig.state /\ sig'.ws = sig.ws /\ sig'.socket = sig.socket /\ sig'.used = sig.used
  BY DEF RenewServer, IInv, Variables
<1>3. /\ Statements(stack)' /\ HandlersStay
      /\ \A x \in Waiting' : x \in Waiting
      /\ \A d \in {"throw", "endOfTry", "endOfCall", "send", "close"} : Waits(d)' <=> Waits(d)
      /\ \A d \in {"open", "tellTask", "closeTask"} : Waits(d)' <=> Waits(d)
      /\ ~Waits("initTask")' /\ ~Waits("sendClose")'
      /\ \A x \in Waiting' : MayPrecede(Head(stack), x)
      /\ ~Building /\ ~Building'
      /\ stack' # <<>> /\ Head(stack') = Set("new")
  BY <1>1, TakenOff
<1>4. Connection'
  BY <1>1, <1>2, <1>3 DEF IInv, Connection
<1>5. Sending'
  BY <1>1, <1>2, <1>3 DEF IInv, Sending
<1>6. Entering'
  BY <1>1, <1>2, <1>3 DEF IInv, Entering
<1>7. Working'
  <2>1. Set("new").do = "set" /\ ~SetsTask(Set("new"))
    BY StateVocabulary DEF SignalingState
  <2>2. LeavesTask'
    BY <1>3, <2>1 DEF LeavesTask, Runs, Idle
  <2> QED BY <2>2 DEF Working
<1>8. Leaving'
  BY <1>1, <1>2, <1>3 DEF IInv, Leaving
<1> QED BY <1>3, <1>4, <1>5, <1>6, <1>7, <1>8 DEF Situation

LEMMA OpenStep ==
  ASSUME IInv, OpenWebsocket, role' = role
  PROVE  Statements(stack)' /\ Situation' /\ HandlersStay
<1>1. /\ ~Idle /\ Head(stack).do = "open" /\ Continue /\ life' = life /\ app' = app
  BY DEF OpenWebsocket, Runs
<1>2. /\ sig'.state = sig.state /\ sig'.ws /\ sig'.socket = "connecting" /\ sig'.used = sig.used
      /\ sig'.local = sig.local
  BY DEF OpenWebsocket, IInv, Variables
<1>3. /\ Statements(stack)' /\ HandlersStay
      /\ \A x \in Waiting' : x \in Waiting
      /\ \A d \in {"throw", "endOfTry", "endOfCall", "send", "close"} : Waits(d)' <=> Waits(d)
      /\ \A d \in {"tellTask", "closeTask"} : Waits(d)' <=> Waits(d)
      /\ ~Waits("initTask")' /\ ~Waits("sendClose")' /\ Waits("open")
      /\ \A x \in Waiting' : MayPrecede(Head(stack), x)
      /\ ~Building /\ ~Building'
  <2>1. Head(stack).do \in {"renew", "open", "initTask", "tellTask", "closeTask"}
    BY <1>1
  <2> QED BY <1>1, <2>1, TakenOff
<1>4. sig.used /\ sig.socket = "none" /\ ~app.left
  <2>1. sig.socket = "none"
    BY <1>3 DEF IInv, Connection
  <2>2. sig.used
    BY <1>3 DEF IInv, Connection, Waits
  <2> QED BY <2>1, <2>2 DEF IInv, Leaving
<1>5. ~Waits("open")'
  BY <1>1, <1>3 DEF Waits, MayPrecede
<1>6. Connection'
  BY <1>1, <1>2, <1>3, <1>4, <1>5 DEF IInv, Connection
<1>7. Sending'
  BY <1>1, <1>2, <1>3 DEF IInv, Sending
<1>8. Entering'
  BY <1>1, <1>2, <1>3 DEF IInv, Entering
<1>9. Working'
  <2>1. ASSUME NEW x \in Waiting', x.do = "close", ~x.unbind, sig.state = "task" PROVE sig.local
    BY <1>1, <1>3, <2>1 DEF IInv, Working, LeavesTask, Runs
  <2> QED BY <1>2, <2>1 DEF Working
<1>10. Leaving'
  BY <1>1, <1>2, <1>3, <1>4 DEF Leaving
<1> QED BY <1>3, <1>6, <1>7, <1>8, <1>9, <1>10 DEF Situation

LEMMA TaskStep ==
  ASSUME IInv, role' = role, sig' = sig, app' = app, ~Idle, Continue,
         \/ Head(stack).do = "initTask" /\ life' = [life EXCEPT !.set = TRUE]
         \/ Head(stack).do = "tellTask" /\ life' = [life EXCEPT !.told = TRUE]
         \/ Head(stack).do = "closeTask" /\ life' = [life EXCEPT !.closed = life.set]
  PROVE  Statements(stack)' /\ Situation' /\ HandlersStay
<1>1. /\ Statements(stack)' /\ HandlersStay
      /\ \A x \in Waiting' : x \in Waiting
      /\ \A d \in {"throw", "endOfTry", "endOfCall", "send", "close"} : Waits(d)' <=> Waits(d)
      /\ \A d \in {"renew", "open", "tellTask", "closeTask"} :
              Head(stack).do # d => (Waits(d)' <=> Waits(d))
      /\ ~Waits("initTask")' /\ ~Waits("sendClose")' /\ Waits(Head(stack).do)
      /\ \A x \in Waiting' : MayPrecede(Head(stack), x)
      /\ ~Building /\ ~Building'
  <2>1. Head(stack).do \in {"renew", "open", "initTask", "tellTask", "closeTask"}
    OBVIOUS
  <2> QED BY <2>1, TakenOff
<1>2. /\ Head(stack).do = "initTask" =>
           life'.set /\ life'.told = life.told /\ life'.closed = life.closed
      /\ Head(stack).do = "tellTask" =>
           life'.set = life.set /\ life'.told /\ life'.closed = life.closed
      /\ Head(stack).do = "closeTask" =>
           life'.set = life.set /\ life'.told = life.told /\ (life.set => life'.closed)
  BY DEF IInv, Variables
<1>3. Head(stack).do = "initTask" => sig.used /\ ~app.left
  <2>1. ASSUME Head(stack).do = "initTask" PROVE sig.used
    <3>1. PICK x \in Waiting : x.do = "initTask"
      BY <1>1, <2>1 DEF Waits
    <3>2. ~Calm(x)
      BY <3>1 DEF Calm
    <3> QED BY <3>2 DEF IInv, Connection
  <2> QED BY <1>1, <2>1 DEF IInv, Leaving
<1>4. Waits("open")' <=> Waits("open")
  BY <1>1
<1>5. Connection'
  BY <1>1, <1>2, <1>3, <1>4 DEF IInv, Connection
<1>6. Sending'
  BY <1>1 DEF IInv, Sending
<1>7. Entering'
  <2>1. \A x \in Waiting' : SetsTask(x) => sig.ws /\ (role = "initiator" => Waits("tellTask")')
    <3>1. ASSUME NEW x \in Waiting', SetsTask(x) PROVE Head(stack).do # "tellTask"
      BY <1>1, <3>1 DEF MayPrecede
    <3> QED BY <1>1, <3>1 DEF IInv, Entering
  <2>2. Waits("tellTask")' => Waits("tellTask")
    BY <1>1 DEF Waits
  <2>3. sig.state = "task" /\ role = "initiator" => life'.told \/ Waits("tellTask")'
    BY <1>1, <1>2 DEF IInv, Entering
  <2> QED BY <1>1, <2>1, <2>2, <2>3 DEF IInv, Entering
<1>8. Working'
  <2>1. sig.state = "task" => sig.ws \/ sig.local
    BY DEF IInv, Working, LeavesTask, Runs
  <2>2. ASSUME NEW x \in Waiting', x.do = "close", ~x.unbind, sig.state = "task" PROVE sig.local
    BY <1>1, <2>2 DEF IInv, Working, LeavesTask, Runs
  <2> QED BY <2>1, <2>2 DEF Working
<1>9. Leaving'
  <2>1. app.left /\ life'.set => life'.closed \/ Waits("closeTask")'
    BY <1>1, <1>2, <1>3 DEF IInv, Leaving
  <2> QED BY <1>1, <2>1 DEF IInv, Leaving
<1> QED BY <1>1, <1>5, <1>6, <1>7, <1>8, <1>9 DEF Situation

(* An exception.                                                           *)
LEMMA Reactions ==
  /\ Statements(Reaction)
  /\ \A x \in ToSet(Reaction) :
       /\ x.do \in {"send", "sendClose", "close", "renew", "set"} /\ ~SetsTask(x)
       /\ x.do = "close" => x.unbind
       /\ x.do = "send" => \A y \in ToSet(Reaction) : y.do # "close"
       /\ x.do = "sendClose" => sig.state = "task"
<1>1. /\ Send \in Frame /\ Send.do = "send" /\ SendClose \in Frame /\ SendClose.do = "sendClose"
      /\ ProtocolError \in Nat /\ ClosingNormal \in Nat
  BY PlainVocabulary, CloseVocabulary
<1>2. /\ Statements(<<Send>>) /\ ToSet(<<Send>>) = {Send}
      /\ Statements(<<SendClose>>) /\ ToSet(<<SendClose>>) = {SendClose}
      /\ Statements(<<>>) /\ ToSet(<<>>) = {}
  BY <1>1, ShortStatements, Elements
<1>3. \A code \in {ProtocolError, ClosingNormal} :
        /\ Statements(ResetConnection(code))
        /\ \A x \in ToSet(ResetConnection(code)) :
             /\ x.do \in {"close", "renew", "set"} /\ ~SetsTask(x)
             /\ x.do = "close" => x.unbind
  BY <1>1, ResetStatements
<1>4. /\ Statements(<<SendClose>> \o ResetConnection(ClosingNormal))
      /\ ToSet(<<SendClose>> \o ResetConnection(ClosingNormal)) =
           {SendClose} \cup ToSet(ResetConnection(ClosingNormal))
  <2>1. \A x \in ToSet(<<SendClose>>), y \in ToSet(ResetConnection(ClosingNormal)) : MayPrecede(x, y)
    BY <1>1, <1>2, <1>3 DEF MayPrecede, SetsTask
  <2>2. Statements(ResetConnection(ClosingNormal))
    BY <1>3
  <2> QED BY <1>2, <2>1, <2>2, BothStatements
<1>5. \/ Reaction = ResetConnection(ProtocolError)
      \/ Reaction = <<Send>>
      \/ Reaction = <<SendClose>> \o ResetConnection(ClosingNormal) /\ sig.state = "task"
      \/ Reaction = <<>>
  BY DEF Reaction
<1>6. ~SetsTask(Send) /\ ~SetsTask(SendClose)
  BY <1>1 DEF SetsTask
<1> QED BY <1>1, <1>2, <1>3, <1>4, <1>5, <1>6

LEMMA Catchers ==
  LET catcher == {stack[k].do : k \in DOMAIN stack} \cap {"endOfTry", "endOfCall"}
  IN  /\ "endOfTry" \in catcher <=> Waits("endOfTry")
      /\ "endOfCall" \in catcher <=> Waits("endOfCall")
BY DEF Waits, Waiting, ToSet

(* What raises is not calm, and so no handler is running.                  *)
LEMMA NoHandler ==
  ASSUME IInv, ~Idle, Head(stack).do \in {"send", "sendClose", "throw", "fail", "initTask"}
  PROVE  /\ \A x \in Waiting : x.do \notin {"handler", "closeTask"}
         /\ Head(stack).do \in {"throw", "fail", "initTask"} => ~Waits("close")
         /\ Waits(Head(stack).do) /\ sig.used /\ ~Building /\ ~LeavesTask /\ ~Runs("renew")
         /\ Head(stack).do \in {"sendClose", "throw", "fail"} => ~Waits("tellTask")
<1>1. stack # <<>> /\ Statements(stack)
  BY DEF IInv, Idle
<1>2. /\ Waiting = {Head(stack)} \cup ToSet(Tail(stack))
      /\ \A b \in ToSet(Tail(stack)) : MayPrecede(Head(stack), b)
  BY <1>1, TailStatements DEF Waiting
<1>3. ~Calm(Head(stack)) /\ ~SetsTask(Head(stack))
  BY DEF Calm, SetsTask
<1>4. \A x \in Waiting : x.do \notin {"handler", "closeTask"}
  BY <1>2, <1>3 DEF MayPrecede
<1>5. Waits(Head(stack).do)
  BY <1>2 DEF Waits
<1>6. sig.used /\ ~Building
  BY <1>2, <1>3 DEF IInv, Connection
<1>7. Head(stack).do \in {"throw", "fail", "initTask"} => ~Waits("close")
  BY <1>2 DEF Waits, MayPrecede
<1>8. Head(stack).do \in {"sendClose", "throw", "fail"} => ~Waits("tellTask")
  BY <1>2, <1>3 DEF Waits, MayPrecede
<1> QED BY <1>4, <1>5, <1>6, <1>7, <1>8 DEF LeavesTask, Runs

LEMMA NothingWaits ==
  ASSUME stack' = <<>>
  PROVE  /\ Statements(stack)' /\ Waiting' = {} /\ Idle'
         /\ \A d : ~Waits(d)'
BY ShortStatements, Elements DEF Waiting, Waits, Idle

(* What the code does not catch: the send without a WebSocket, and what    *)
(* onMessage and initTask pass on.                                         *)
Uncaught(cause) ==
  \/ cause = "send" /\ ~sig.ws /\ (Head(stack).do = "send" \/ (Head(stack).do = "sendClose" /\ ~sig.local))
  \/ cause = "message" /\ Head(stack).do = "fail"
  \/ cause = "task" /\ Head(stack).do = "initTask"

LEMMA EscapeStep ==
  ASSUME IInv, ~Idle, NEW cause, Uncaught(cause), Raise(cause),
         sig' = sig, life' = life, role' = role
  PROVE  Statements(stack)' /\ Situation' /\ HandlersStay
<1> DEFINE caught == {stack[k].do : k \in DOMAIN stack} \cap {"endOfTry", "endOfCall"}
           after == IF "endOfCall" \in caught THEN app.escaped ELSE app.escaped \cup {cause}
<1>1. stack' = <<>> /\ app' = [app EXCEPT !.escaped = after]
  BY DEF Raise, Uncaught
<1>2. after \subseteq app.escaped \cup {cause}
  OBVIOUS
<1> HIDE DEF after
<1>3. app'.left = app.left /\ app'.within = app.within /\ app'.escaped \subseteq app.escaped \cup {cause}
  BY <1>1, <1>2 DEF IInv, Variables
<1>4. Statements(stack)' /\ Waiting' = {} /\ Idle' /\ \A d : ~Waits(d)'
  BY <1>1, NothingWaits
<1>5. /\ \A x \in Waiting : x.do \notin {"handler", "closeTask"}
      /\ Head(stack).do \in {"fail", "initTask"} => ~Waits("close")
      /\ Waits(Head(stack).do) /\ sig.used /\ ~Building /\ ~LeavesTask /\ ~Runs("renew")
      /\ Head(stack).do = "fail" => ~Waits("tellTask")
  BY NoHandler DEF Uncaught
<1>6. \/ Head(stack).do = "send" /\ cause = "send" /\ ~sig.ws
      \/ Head(stack).do = "fail" /\ cause = "message"
      \/ Head(stack).do = "initTask" /\ cause = "task"
  BY <1>5 DEF IInv, Sending, Uncaught
<1>7. HandlersStay
  BY <1>4, <1>5 DEF HandlersStay
<1>8. Connection'
  <2>1. ~Building'
    BY <1>5 DEF Building
  <2> QED BY <1>4, <1>5, <2>1 DEF IInv, Connection
<1>9. Sending'
  <2>1. cause = "send" => app.within
    BY <1>5, <1>6 DEF IInv, Sending
  <2>2. app'.escaped \subseteq {"message", "task"} \cup (IF app.within THEN {"send"} ELSE {})
    BY <1>3, <1>6, <2>1 DEF IInv, Sending
  <2> QED BY <1>3, <1>4, <2>2 DEF Sending
<1>10. Entering'
  <2>1. sig.state = "task" /\ role = "initiator" => life.told
    BY <1>5, <1>6 DEF IInv, Entering
  <2> QED BY <1>4, <2>1 DEF Entering
<1>11. Working'
  BY <1>4, <1>5 DEF IInv, Working
<1>12. Leaving'
  <2>1. ~Waits("closeTask")
    BY <1>5 DEF Waits
  <2>2. ~(app.left /\ sig.ws)
    BY <1>5, <1>6 DEF IInv, Leaving
  <2> QED BY <1>3, <1>4, <2>1, <2>2 DEF IInv, Leaving
<1> QED BY <1>4, <1>7, <1>8, <1>9, <1>10, <1>11, <1>12 DEF Situation

LEMMA ErrorStep ==
  ASSUME IInv, ~Idle, Raise("signaling"), sig' = sig, life' = life, role' = role,
         Head(stack).do \in {"throw", "initTask"}
  PROVE  Statements(stack)' /\ Situation' /\ HandlersStay /\ app' = app
<1> DEFINE catcher == {stack[k].do : k \in DOMAIN stack} \cap {"endOfTry", "endOfCall"}
<1>1. /\ \A x \in Waiting : x.do \notin {"handler", "closeTask"} /\ ~Waits("close")
      /\ Waits(Head(stack).do) /\ sig.used /\ ~Building /\ ~LeavesTask /\ ~Runs("renew")
      /\ Head(stack).do = "throw" => ~Waits("tellTask")
  <2>1. Head(stack).do \in {"send", "sendClose", "throw", "fail", "initTask"}
    OBVIOUS
  <2> QED BY <2>1, NoHandler
<1>2. /\ "endOfTry" \in catcher <=> Waits("endOfTry")
      /\ "endOfCall" \in catcher <=> Waits("endOfCall")
  BY Catchers
<1>3. /\ Waits("endOfTry") \/ Waits("endOfCall")
      /\ sig.state = "task" => sig.ws \/ sig.local
      /\ sig.state = "task" /\ role = "initiator" => life.told
      /\ ~(app.left /\ sig.ws)
      /\ app.left /\ life.set => life.closed
  <2>1. Waits("throw") \/ Waits("initTask")
    BY <1>1
  <2>2. sig.state = "task" /\ role = "initiator" => life.told
    BY <1>1 DEF IInv, Entering
  <2>3. ~Waits("closeTask") /\ ~Waits("close")
    <3>1. Head(stack) \in Waiting
      BY TailStatements DEF IInv, Idle, Waiting
    <3> QED BY <1>1, <3>1 DEF Waits
  <2>4. ~(app.left /\ sig.ws) /\ (app.left /\ life.set => life.closed)
    BY <2>3 DEF IInv, Leaving
  <2>5. sig.state = "task" => sig.ws \/ sig.local
    BY <1>1 DEF IInv, Working
  <2> QED BY <2>1, <2>2, <2>4, <2>5 DEF IInv, Sending
<1>4. /\ Waits("endOfTry") => stack' = Reaction /\ app' = app
      /\ ~Waits("endOfTry") => stack' = <<>> /\ app' = app
  <2>1. CASE Waits("endOfTry")
    BY <1>2, <2>1 DEF Raise
  <2>2. CASE ~Waits("endOfTry")
    <3>1. "endOfCall" \in catcher /\ "endOfTry" \notin catcher
      BY <1>2, <1>3, <2>2
    <3>2. stack' = <<>> /\ app' = [app EXCEPT !.escaped = app.escaped]
      BY <3>1 DEF Raise
    <3>3. [app EXCEPT !.escaped = app.escaped] = app
      BY DEF IInv, Variables
    <3> QED BY <2>2, <3>2, <3>3
  <2> QED BY <2>1, <2>2
<1>5. /\ Statements(stack)'
      /\ \A x \in Waiting' :
           /\ x.do \in {"send", "sendClose", "close", "renew", "set"} /\ ~SetsTask(x)
           /\ x.do = "close" => x.unbind
           /\ x.do = "send" => \A y \in Waiting' : y.do # "close"
           /\ x.do = "sendClose" => sig.state = "task"
           /\ Waits("endOfTry")
  <2>1. CASE Waits("endOfTry")
    BY <1>4, <2>1, Reactions DEF Waiting
  <2>2. CASE ~Waits("endOfTry")
    BY <1>4, <2>2, NothingWaits
  <2> QED BY <2>1, <2>2
<1>6. \A d \in {"throw", "initTask", "endOfTry", "endOfCall", "open", "tellTask", "closeTask"} : ~Waits(d)'
  BY <1>5 DEF Waits
<1>7. HandlersStay
  BY <1>1, <1>5 DEF HandlersStay
<1>8. Connection'
  <2>1. ~Building'
    BY <1>1 DEF Building
  <2> QED BY <1>1, <1>6, <2>1 DEF IInv, Connection
<1>9. Sending'
  <2>1. ~app.within /\ Waits("send")' => sig.ws /\ ~Waits("close")'
    <3>1. ~Waits("close")' \/ ~Waits("send")'
      BY <1>5 DEF Waits
    <3>2. ~app.within /\ Waits("send")' => sig.ws
      <4>1. Waits("send")' => Waits("endOfTry")
        BY <1>5 DEF Waits
      <4> QED BY <1>1, <4>1 DEF IInv, Sending
    <3> QED BY <3>1, <3>2
  <2>2. Waits("sendClose")' => sig.ws \/ sig.local
    BY <1>3, <1>5 DEF Waits
  <2> QED BY <1>4, <1>6, <2>1, <2>2 DEF IInv, Sending
<1>10. Entering'
  BY <1>3, <1>5, <1>6 DEF Entering
<1>11. Working'
  BY <1>3, <1>5 DEF Working
<1>12. Leaving'
  BY <1>3, <1>4, <1>6 DEF IInv, Leaving
<1> QED BY <1>4, <1>5, <1>7, <1>8, <1>9, <1>10, <1>11, <1>12 DEF Situation

-----------------------------------------------------------------------------
(* Calls of the application.                                               *)

LEMMA ConnectStep ==
  ASSUME IInv, Connect, role' = role
  PROVE  Statements(stack)' /\ Situation' /\ HandlersStay
<1>1. /\ ~Building /\ ~sig.used /\ stack' = ConnectBody \o stack /\ life' = life
      /\ sig' = [sig EXCEPT !.used = TRUE] /\ app' = [app EXCEPT !.calls = @ + 1]
  BY DEF Connect, MayCall, AppRuns, Called
<1>2. /\ sig'.state = sig.state /\ sig'.ws = sig.ws /\ sig'.socket = sig.socket
      /\ sig'.local = sig.local /\ sig'.used
      /\ app'.left = app.left /\ app'.within = app.within /\ app'.escaped = app.escaped
  BY <1>1 DEF IInv, Variables
<1>3. /\ sig.socket = "none" /\ ~sig.ws /\ sig.state # "task"
      /\ \A x \in Waiting : Calm(x) /\ x.do # "open"
  BY <1>1 DEF IInv, Connection
<1>4. /\ Statements(ConnectBody)
      /\ \A x \in ToSet(ConnectBody) : /\ Calm(x) /\ ~SetsTask(x) /\ x.do \notin {"handler", "calls"}
                                       /\ x.do = "close" => x.unbind
  <2>1. Close(ClosingNormal, TRUE).do = "close" /\ Renew.do = "renew" /\ Open.do = "open"
        /\ Set("new").do = "set" /\ Set("ws-connecting").do = "set"
    BY CloseVocabulary, PlainVocabulary, StateVocabulary DEF SignalingState
  <2> QED BY <2>1, ConnectStatements
<1>5. \A a \in ToSet(ConnectBody), b \in Waiting : MayPrecede(a, b)
  BY <1>3, <1>4 DEF MayPrecede, Calm, SetsTask
<1>6. Statements(stack)' /\ Waiting' = ToSet(ConnectBody) \cup Waiting
  BY <1>1, <1>4, <1>5, Pushed DEF IInv
<1>7. \A x \in Waiting' : Calm(x) /\ ~SetsTask(x)
  BY <1>3, <1>4, <1>6 DEF Calm
<1>8. \A d \in {"throw", "initTask", "endOfTry", "endOfCall", "sendClose", "send", "tellTask"} : ~Waits(d)'
  BY <1>7 DEF Waits, Calm
<1>9. ~Building'
  BY <1>1 DEF Building
<1>10. HandlersStay
  BY <1>4, <1>6 DEF HandlersStay
<1>11. Connection'
  BY <1>2, <1>3, <1>9 DEF Connection
<1>12. Sending'
  BY <1>2, <1>8 DEF IInv, Sending
<1>13. Entering'
  BY <1>2, <1>3, <1>7, <1>8 DEF Entering
<1>14. Working'
  BY <1>2, <1>3 DEF Working
<1>15. Leaving'
  BY <1>2, <1>3, <1>8 DEF IInv, Leaving
<1> QED BY <1>6, <1>10, <1>11, <1>12, <1>13, <1>14, <1>15 DEF Situation

LEMMA DisconnectStep ==
  ASSUME IInv, NEW unbind \in BOOLEAN, Disconnect(unbind), role' = role
  PROVE  Statements(stack)' /\ Situation' /\ HandlersStay
<1> DEFINE new == DisconnectBody(unbind)
<1>1. /\ ~Building /\ (Idle \/ InHandler) /\ stack' = new \o stack /\ life' = life /\ sig' = sig
      /\ app' = [[app EXCEPT !.calls = @ + 1] EXCEPT !.left = @ \/ sig.socket # "none",
                                                      !.within = @ \/ InHandler]
  BY DEF Disconnect, MayCall, AppRuns, Called
<1>2. /\ app'.left <=> app.left \/ sig.socket # "none"
      /\ app'.within <=> app.within \/ InHandler
      /\ app'.escaped = app.escaped
  BY <1>1 DEF IInv, Variables
<1>3. /\ Statements(new) /\ new # <<>> /\ Head(new) = Set("closing")
      /\ \A x \in ToSet(new) : Calm(x) /\ x.do \in {"set", "close", "closeTask"}
      /\ \E x \in ToSet(new) : x.do = "close"
      /\ \E x \in ToSet(new) : x.do = "closeTask"
  BY DisconnectStatements
<1> HIDE DEF new
<1>4. \A a \in ToSet(new), b \in Waiting : MayPrecede(a, b)
  <2>1. CASE Idle
    BY <2>1, IdleIsEmpty DEF IInv
  <2>2. CASE InHandler
    <3>1. /\ stack # <<>> /\ Head(stack).do = "handler"
      BY <2>2 DEF InHandler, Runs, Idle
    <3>2. /\ Waiting = {Head(stack)} \cup ToSet(Tail(stack))
          /\ \A b \in ToSet(Tail(stack)) : MayPrecede(Head(stack), b)
      BY <3>1, TailStatements DEF IInv, Waiting
    <3>3. Calm(Head(stack)) /\ ~SetsTask(Head(stack))
      BY <3>1, CalmVocabulary DEF SetsTask
    <3>4. \A a \in ToSet(new) : MayPrecede(a, Head(stack))
      BY <1>3, <3>1, <3>3 DEF MayPrecede
    <3>5. \A a \in ToSet(new), b \in ToSet(Tail(stack)) : MayPrecede(a, b)
      <4>1. ASSUME NEW a \in ToSet(new), NEW b \in ToSet(Tail(stack)) PROVE MayPrecede(a, b)
        <5>1. Calm(a) /\ a.do # "open" /\ MayPrecede(Head(stack), b)
          BY <1>3, <3>2
        <5> QED BY <3>3, <5>1, CalmPrecedes
      <4> QED BY <4>1
    <3> QED BY <3>2, <3>4, <3>5
  <2> QED BY <1>1, <2>1, <2>2
<1>5. Statements(stack)' /\ Waiting' = ToSet(new) \cup Waiting
  BY <1>1, <1>3, <1>4, Pushed DEF IInv
<1>6. /\ \A d \in {"throw", "initTask", "endOfTry", "endOfCall", "sendClose", "send", "tellTask", "open"} :
           Waits(d)' <=> Waits(d)
      /\ Waits("close")' /\ Waits("closeTask")'
  BY <1>3, <1>5 DEF Waits
<1>7. ~Waits("initTask") /\ ~Waits("sendClose")
  <2>1. CASE Idle
    BY <2>1, IdleIsEmpty DEF IInv, Waits
  <2>2. CASE InHandler
    <3>1. /\ stack # <<>> /\ Head(stack).do = "handler"
      BY <2>2 DEF InHandler, Runs, Idle
    <3>2. /\ Waiting = {Head(stack)} \cup ToSet(Tail(stack))
          /\ \A b \in ToSet(Tail(stack)) : MayPrecede(Head(stack), b)
      BY <3>1, TailStatements DEF IInv, Waiting
    <3> QED BY <3>1, <3>2 DEF Waits, MayPrecede
  <2> QED BY <1>1, <2>1, <2>2
<1>8. ~Building'
  BY <1>1 DEF Building
<1>9. HandlersStay
  BY <1>3, <1>5 DEF HandlersStay
<1>10. Connection'
  <2>1. ~sig.used => \A x \in Waiting' : Calm(x) /\ x.do # "open"
    BY <1>3, <1>5 DEF IInv, Connection
  <2> QED BY <1>1, <1>6, <1>8, <2>1 DEF IInv, Connection
<1>11. Sending'
  <2>1. CASE Idle
    <3>1. \A d \in {"throw", "send"} : ~Waits(d)
      BY <2>1, IdleIsEmpty DEF IInv, Waits
    <3> QED BY <1>1, <1>2, <1>6, <1>7, <3>1 DEF IInv, Sending
  <2>2. CASE InHandler
    BY <1>1, <1>2, <1>6, <1>7, <2>2 DEF IInv, Sending
  <2> QED BY <1>1, <2>1, <2>2
<1>12. Entering'
  <2>1. \A x \in ToSet(new) : ~SetsTask(x)
    BY <1>3 DEF Calm
  <2> QED BY <1>1, <1>5, <1>6, <2>1 DEF IInv, Entering
<1>13. Working'
  <2>1. new \in Seq(Frame) /\ stack \in Seq(Frame)
    BY <1>3 DEF IInv, Statements
  <2>2. stack' # <<>> /\ Head(stack') = Set("closing")
    <3>1. new \o stack # <<>> /\ Head(new \o stack) = Head(new)
      BY <1>3, <2>1
    <3> QED BY <1>1, <1>3, <3>1
  <2>3. Set("closing").do = "set" /\ ~SetsTask(Set("closing"))
    BY StateVocabulary DEF SignalingState
  <2>4. LeavesTask'
    BY <2>2, <2>3 DEF LeavesTask, Runs, Idle
  <2> QED BY <2>4 DEF Working
<1>14. Leaving'
  BY <1>1, <1>2, <1>6, <1>7 DEF IInv, Leaving
<1> QED BY <1>5, <1>9, <1>10, <1>11, <1>12, <1>13, <1>14 DEF Situation

-----------------------------------------------------------------------------
(* What the WebSocket and the task start.                                  *)

(* Between two events all is settled.                                      *)
LEMMA Settled ==
  ASSUME IInv, Idle
  PROVE  /\ Waiting = {}
         /\ sig.state = "task" => sig.ws \/ sig.local
         /\ sig.state = "task" /\ role = "initiator" => life.told
         /\ ~(app.left /\ sig.ws) /\ (app.left /\ life.set => life.closed)
<1>1. Waiting = {}
  BY IdleIsEmpty DEF IInv
<1>2. \A d : ~Waits(d)
  BY <1>1 DEF Waits
<1> QED BY <1>1, <1>2 DEF IInv, Entering, Working, Leaving, Runs, LeavesTask

LEMMA EventStep ==
  ASSUME IInv, Idle, sig.used, life' = life, app' = app, role' = role,
         Statements(stack)',
         sig'.state = sig.state, sig'.ws = sig.ws, sig'.used = sig.used, sig.local => sig'.local,
         sig.socket # "none" => sig'.socket # "none", ~sig.ws => sig'.socket \notin {"connecting", "open"},
         \A x \in Waiting' :
           /\ x.do \notin {"handler", "calls", "open"}
           /\ x.do \in {"throw", "initTask"} => Waits("endOfTry")' \/ Waits("endOfCall")'
           /\ x.do = "sendClose" => sig.ws \/ sig.local
           /\ x.do = "send" => sig.ws /\ ~Waits("close")'
           /\ x.do \in {"throw", "initTask"} /\ Waits("endOfTry")' => sig.ws /\ ~Waits("close")'
           /\ x.do \in {"tellTask", "initTask"} => sig.ws /\ sig.state # "task"
           /\ SetsTask(x) => sig.ws /\ (role = "initiator" => Waits("tellTask")')
           /\ x.do = "close" => x.unbind \/ sig'.local
  PROVE  Situation' /\ HandlersStay
<1>1. /\ Waiting = {}
      /\ sig.state = "task" => sig.ws \/ sig.local
      /\ sig.state = "task" /\ role = "initiator" => life.told
      /\ ~(app.left /\ sig.ws) /\ (app.left /\ life.set => life.closed)
  BY Settled
<1>2. /\ Waits("throw")' \/ Waits("initTask")' => Waits("endOfTry")' \/ Waits("endOfCall")'
      /\ Waits("sendClose")' => sig.ws \/ sig.local
      /\ Waits("send")' => sig.ws /\ ~Waits("close")'
      /\ (Waits("throw")' \/ Waits("initTask")') /\ Waits("endOfTry")' => sig.ws /\ ~Waits("close")'
      /\ Waits("tellTask")' \/ Waits("initTask")' => sig.ws /\ sig.state # "task"
      /\ ~Waits("open")'
  BY DEF Waits
<1>3. ~Building'
  BY DEF IInv, Connection, Building
<1>4. Connection'
  BY <1>2, <1>3 DEF IInv, Connection
<1>5. Sending'
  BY <1>2 DEF IInv, Sending
<1>6. Entering'
  BY <1>1, <1>2 DEF Entering
<1>7. Working'
  BY <1>1 DEF Working
<1>8. Leaving'
  BY <1>1, <1>2 DEF IInv, Leaving
<1>9. HandlersStay
  BY <1>1 DEF HandlersStay
<1> QED BY <1>4, <1>5, <1>6, <1>7, <1>8, <1>9 DEF Situation

LEMMA SocketStep ==
  ASSUME IInv, OnOpen \/ OnError \/ OnClose, role' = role
  PROVE  Statements(stack)' /\ Situation' /\ HandlersStay
<1> DEFINE a == Set("server-handshake")
           b == Emit("connection-error")
           c == Set("closed")
           d == Emit("connection-closed")
<1>1. /\ a \in Frame /\ a.do = "set" /\ ~SetsTask(a) /\ b \in Frame /\ b.do = "emit"
      /\ c \in Frame /\ c.do = "set" /\ ~SetsTask(c) /\ d \in Frame /\ d.do = "emit"
      /\ MayPrecede(c, d)
  BY StateVocabulary, Events, Vocabulary, PrecedesCalm DEF SignalingState
<1>2. Idle /\ life' = life /\ app' = app /\ stack' \in {<<a>>, <<b>>, <<>>, <<c, d>>}
  BY DEF OnOpen, OnError, OnClose
<1> HIDE DEF a, b, c, d
<1>3. /\ sig'.state = sig.state /\ sig'.ws = sig.ws /\ sig'.used = sig.used /\ sig'.local = sig.local
      /\ sig.socket # "none" /\ sig'.socket \in {"open", "failed", "closed"}
      /\ sig'.socket = "open" => sig.ws
  BY DEF OnOpen, OnError, OnClose, IInv, Variables, Connection
<1>4. sig.used
  BY <1>3 DEF IInv, Connection
<1>5. /\ Statements(<<>>) /\ ToSet(<<>>) = {} /\ Statements(<<a>>) /\ ToSet(<<a>>) = {a}
      /\ Statements(<<b>>) /\ ToSet(<<b>>) = {b}
      /\ Statements(<<c, d>>) /\ ToSet(<<c, d>>) = {c, d}
  BY <1>1, ShortStatements, Elements
<1>6. Statements(stack)' /\ Waiting' \subseteq {a, b, c, d}
  BY <1>2, <1>5 DEF Waiting
<1>7. \A x \in Waiting' : x.do \in {"set", "emit"} /\ ~SetsTask(x)
  BY <1>1, <1>6 DEF SetsTask
<1> QED BY <1>2, <1>3, <1>4, <1>6, <1>7, EventStep

LEMMA MessageStep ==
  ASSUME IInv, OnMessage, role' = role
  PROVE  Statements(stack)' /\ Situation' /\ HandlersStay
<1>1. PICK body \in MessageBodies : stack' = body \o (IF sig.peer THEN <<>> ELSE <<EndOfTry>>)
  BY DEF OnMessage
<1>2. Idle /\ sig.socket = "open" /\ life' = life /\ app' = app /\ sig' = sig
  BY DEF OnMessage
<1>3. sig.used /\ sig.ws
  BY <1>2 DEF IInv, Connection
<1>4. MessageBody(body) /\ (sig.peer => \A x \in ToSet(body) : x.do \in {"close", "renew", "set"})
  BY ListenerBodies
<1>5. /\ Statements(stack)'
      /\ Waiting' = ToSet(body) \cup (IF sig.peer THEN {} ELSE {EndOfTry})
  <2>1. CASE sig.peer
    <3>1. stack' = body
      BY <1>1, <1>4, <2>1, ConcatEmptySeq DEF MessageBody, Tame, Statements
    <3> QED BY <1>4, <2>1, <3>1 DEF MessageBody, Tame, Waiting
  <2>2. CASE ~sig.peer
    <3>1. Statements(body \o <<EndOfTry>>) /\ ToSet(body \o <<EndOfTry>>) = ToSet(body) \cup {EndOfTry}
      BY <1>4, PlainVocabulary, EndsTame DEF MessageBody
    <3> QED BY <1>1, <2>2, <3>1 DEF Waiting
  <2> QED BY <2>1, <2>2
<1>6. EndOfTry.do = "endOfTry" /\ ~SetsTask(EndOfTry)
  BY PlainVocabulary DEF SetsTask
<1>7. ASSUME NEW x \in Waiting'
      PROVE  /\ x.do \notin {"handler", "calls", "open"}
             /\ x.do \in {"throw", "initTask"} => Waits("endOfTry")' \/ Waits("endOfCall")'
             /\ x.do \in {"send", "throw", "initTask"} => ~Waits("close")'
             /\ x.do \in {"tellTask", "initTask"} => sig.state # "task"
             /\ SetsTask(x) => (role = "initiator" => Waits("tellTask")')
             /\ x.do = "close" => x.unbind
             /\ x.do # "sendClose"
  <2>1. CASE x = EndOfTry
    BY <1>6, <2>1
  <2>2. CASE x \in ToSet(body)
    <3>1. x.do \in {"throw", "initTask"} => Waits("endOfTry")'
      BY <1>4, <1>5, <1>6, <2>2 DEF Waits
    <3>2. x.do \in {"send", "throw", "initTask"} => ~Waits("close")'
      <4>1. x.do \in {"send", "throw", "initTask"} => \A y \in Waiting' : y.do # "close"
        BY <1>4, <1>5, <1>6, <2>2 DEF MessageBody
      <4> QED BY <4>1 DEF Waits
    <3>3. SetsTask(x) /\ role = "initiator" => Waits("tellTask")'
      BY <1>4, <1>5, <2>2 DEF MessageBody, Waits
    <3>4. x.do \in {"tellTask", "initTask"} => sig.state # "task"
      BY <1>4, <2>2 DEF MessageBody
    <3>5. /\ x.do \notin {"handler", "calls", "open", "sendClose"}
          /\ x.do = "close" => x.unbind
      BY <1>4, <2>2 DEF MessageBody, Tame
    <3> QED BY <3>1, <3>2, <3>3, <3>4, <3>5
  <2> QED BY <1>5, <2>1, <2>2
<1>8. sig'.state = sig.state /\ sig'.ws = sig.ws /\ sig'.used = sig.used /\ sig'.local = sig.local
      /\ sig'.socket = "open"
  BY <1>2
<1> QED BY <1>2, <1>3, <1>5, <1>7, <1>8, EventStep

LEMMA HandoverStep ==
  ASSUME IInv, TaskHandsOver, role' = role
  PROVE  Statements(stack)' /\ Situation' /\ HandlersStay
<1> DEFINE a == Emit("handover")
           b == Close(Handover, FALSE)
           c == EndOfCall
<1>1. /\ a \in Frame /\ a.do = "emit" /\ b \in Frame /\ b.do = "close" /\ ~b.unbind
      /\ c \in Frame /\ c.do = "endOfCall"
  BY Events, Vocabulary, CloseVocabulary, PlainVocabulary
<1>2. /\ Idle /\ life' = life /\ app' = app /\ life.set
      /\ stack' = IF ~Both(sig) /\ Both(sig') THEN <<a, b, c>> ELSE <<>>
  BY DEF TaskHandsOver
<1>3. /\ sig'.state = sig.state /\ sig'.ws = sig.ws /\ sig'.used = sig.used
      /\ sig'.socket = sig.socket /\ (sig.local => sig'.local)
  BY DEF TaskHandsOver, IInv, Variables
<1>4. sig.used /\ (~sig.ws => sig.socket \notin {"connecting", "open"})
  BY <1>2 DEF IInv, Connection
<1>5. MayPrecede(a, b) /\ MayPrecede(a, c) /\ MayPrecede(b, c)
  BY <1>1 DEF MayPrecede, SetsTask
<1> HIDE DEF a, b, c
<1>6. /\ Statements(<<>>) /\ ToSet(<<>>) = {}
      /\ Statements(<<a, b, c>>) /\ ToSet(<<a, b, c>>) = {a, b, c}
  BY <1>1, <1>5, ShortStatements, Elements
<1>7. Statements(stack)' /\ (Waiting' = {} \/ (Waiting' = {a, b, c} /\ sig'.local))
  BY <1>2, <1>6 DEF Waiting, Both
<1>8. \A x \in Waiting' : x.do \in {"emit", "close", "endOfCall"} /\ sig'.local /\ ~SetsTask(x)
  BY <1>1, <1>7 DEF SetsTask
<1> QED BY <1>2, <1>3, <1>4, <1>7, <1>8, EventStep

LEMMA ReceiptStep ==
  ASSUME IInv, TaskReceives, role' = role
  PROVE  Statements(stack)' /\ Situation' /\ HandlersStay
<1> DEFINE reset == ResetConnection(InternalError)
           claim == IF sig.state = "task" THEN <<SendClose>> ELSE <<>>
<1>1. PICK body \in FromPeer \cup {Undecryptable} : stack' = body \o <<EndOfCall>>
  BY DEF TaskReceives
<1>2. /\ Idle /\ life' = life /\ app' = app /\ sig' = sig /\ life.set
  BY DEF TaskReceives
<1>3. sig.used /\ (sig.state = "task" => sig.ws \/ sig.local)
      /\ (~sig.ws => sig.socket \notin {"connecting", "open"})
  BY <1>2, Settled DEF IInv, Connection
<1>4. /\ SendClose \in Frame /\ SendClose.do = "sendClose" /\ Throw \in Frame /\ Throw.do = "throw"
      /\ EndOfCall \in Frame /\ EndOfCall.do = "endOfCall"
  BY PlainVocabulary
<1>5. /\ Tame(reset)
      /\ \A x \in ToSet(reset) : x.do \in {"close", "renew", "set"} /\ Calm(x) /\ ~SetsTask(x)
  BY TameLists, CloseVocabulary
<1>6. Tame(claim) /\ ToSet(claim) = IF sig.state = "task" THEN {SendClose} ELSE {}
  BY <1>4, TameLists, Elements
<1>7. Tame(<<Throw>>) /\ ToSet(<<Throw>>) = {Throw}
  BY <1>4, TameLists
<1>8. ASSUME body = Undecryptable
      PROVE  Tame(body) /\ ToSet(body) = (ToSet(claim) \cup ToSet(reset)) \cup {Throw}
  <2>1. body = (claim \o reset) \o <<Throw>>
    BY <1>8 DEF Undecryptable
  <2>2. \A x \in ToSet(claim), y \in ToSet(reset) : MayPrecede(x, y)
    BY <1>4, <1>5, <1>6 DEF MayPrecede, SetsTask
  <2> HIDE DEF claim, reset
  <2>3. Tame(claim \o reset) /\ ToSet(claim \o reset) = ToSet(claim) \cup ToSet(reset)
    BY <1>5, <1>6, <2>2, TameLists
  <2>4. \A x \in ToSet(claim \o reset), y \in ToSet(<<Throw>>) : MayPrecede(x, y)
    BY <1>4, <1>5, <1>6, <1>7, <2>3 DEF MayPrecede, SetsTask
  <2>5. /\ Tame((claim \o reset) \o <<Throw>>)
        /\ ToSet((claim \o reset) \o <<Throw>>) = ToSet(claim \o reset) \cup ToSet(<<Throw>>)
    BY <1>7, <2>3, <2>4, TameLists
  <2> QED BY <1>7, <2>1, <2>3, <2>5
<1>9. ASSUME body \in FromPeer
      PROVE  Tame(body) /\ \A x \in ToSet(body) : x.do \in {"closeTask", "close", "renew", "set", "emit"}
                                                  /\ ~SetsTask(x)
  <2> DEFINE told == Emit("application")
  <2>1. \/ body = <<CloseTask>> \o ResetConnection(GoingAway)
        \/ body = <<told>>
        \/ body = ResetConnection(ProtocolError)
    BY <1>9 DEF FromPeer
  <2>2. told \in Frame /\ told.do = "emit" /\ ~SetsTask(told)
        /\ CloseTask \in Frame /\ CloseTask.do = "closeTask" /\ ~SetsTask(CloseTask)
    BY Events, Vocabulary, PlainVocabulary DEF SetsTask
  <2> HIDE DEF told
  <2>3. /\ Tame(<<told>>) /\ ToSet(<<told>>) = {told}
        /\ Tame(<<CloseTask>>) /\ ToSet(<<CloseTask>>) = {CloseTask}
    BY <2>2, TameLists
  <2>4. \A code \in {GoingAway, ProtocolError} :
          /\ Tame(ResetConnection(code))
          /\ \A x \in ToSet(ResetConnection(code)) : x.do \in {"close", "renew", "set"} /\ ~SetsTask(x)
    BY TameLists, CloseVocabulary
  <2>5. /\ Tame(<<CloseTask>> \o ResetConnection(GoingAway))
        /\ ToSet(<<CloseTask>> \o ResetConnection(GoingAway)) =
             {CloseTask} \cup ToSet(ResetConnection(GoingAway))
    <3>1. \A x \in ToSet(<<CloseTask>>), y \in ToSet(ResetConnection(GoingAway)) : MayPrecede(x, y)
      BY <2>2, <2>3, <2>4 DEF MayPrecede, SetsTask
    <3>2. Tame(ResetConnection(GoingAway))
      BY <2>4
    <3> QED BY <2>3, <3>1, <3>2, TameLists
  <2> QED BY <2>1, <2>2, <2>3, <2>4, <2>5
<1>10. Tame(body)
  BY <1>8, <1>9
<1>11. Statements(stack)' /\ Waiting' = ToSet(body) \cup {EndOfCall}
  <2>1. Statements(body \o <<EndOfCall>>) /\ ToSet(body \o <<EndOfCall>>) = ToSet(body) \cup {EndOfCall}
    BY <1>4, <1>10, EndsTame
  <2> QED BY <1>1, <2>1 DEF Waiting
<1>12. ~SetsTask(EndOfCall) /\ ~SetsTask(Throw) /\ ~SetsTask(SendClose)
  BY <1>4 DEF SetsTask
<1>13. ASSUME NEW x \in Waiting'
       PROVE  /\ x.do \in {"closeTask", "close", "renew", "set", "emit", "endOfCall", "throw", "sendClose"}
              /\ ~SetsTask(x)
              /\ x.do = "close" => x.unbind
              /\ x.do = "sendClose" => sig.state = "task"
  <2>1. CASE x \in ToSet(body)
    <3>1. x.do = "close" => x.unbind
      BY <1>10, <2>1 DEF Tame
    <3>2. CASE body = Undecryptable
      BY <1>4, <1>5, <1>6, <1>8, <1>12, <2>1, <3>1, <3>2
    <3>3. CASE body \in FromPeer
      BY <1>9, <2>1, <3>1, <3>3
    <3> QED BY <3>2, <3>3
  <2>2. CASE x = EndOfCall
    BY <1>4, <1>12, <2>2
  <2> QED BY <1>11, <2>1, <2>2
<1>14. Waits("endOfCall")' /\ ~Waits("endOfTry")'
  BY <1>4, <1>11, <1>13 DEF Waits
<1>15. sig'.state = sig.state /\ sig'.ws = sig.ws /\ sig'.used = sig.used /\ sig'.local = sig.local
       /\ sig'.socket = sig.socket
  BY <1>2
<1> QED BY <1>2, <1>3, <1>11, <1>13, <1>14, <1>15, EventStep

LEMMA BuildStep ==
  ASSUME IInv, Builds
  PROVE  Statements(stack)' /\ Situation' /\ HandlersStay /\ role' \in {NoRole, "initiator", "responder"}
<1>1. /\ sig' = sig /\ stack' = stack /\ life' = life /\ app' = app /\ Building
      /\ role' \in {NoRole, "initiator", "responder"}
  BY DEF Builds, Configure, AsInitiator, AsResponder, Building
<1>2. ~sig.used /\ Idle /\ sig.state # "task"
  BY <1>1 DEF IInv, Connection
<1>3. Waiting = {} /\ Waiting' = Waiting
  BY <1>1, <1>2, Settled DEF Waiting
<1>4. \A d : ~Waits(d)' /\ ~Waits(d)
  BY <1>3 DEF Waits
<1>5. Statements(stack)'
  BY <1>1 DEF IInv
<1>6. HandlersStay
  BY <1>3 DEF HandlersStay
<1>7. Connection'
  BY <1>1, <1>2, <1>3, <1>4 DEF IInv, Connection, Idle
<1>8. Sending' /\ Entering' /\ Working' /\ Leaving'
  BY <1>1, <1>2, <1>3, <1>4 DEF IInv, Sending, Entering, Working, Leaving
<1> QED BY <1>1, <1>5, <1>6, <1>7, <1>8 DEF Situation

-----------------------------------------------------------------------------
(* The lists of handlers.                                                  *)

(* Of a list without repetitions nothing is left of what is removed.       *)
LEMMA RemoveFirstOnce ==
  ASSUME NEW S, NEW s \in Seq(S), Distinct(s), NEW h
  PROVE  /\ RemoveFirst(s, h) \in Seq(S) /\ Distinct(RemoveFirst(s, h))
         /\ ToSet(RemoveFirst(s, h)) = ToSet(s) \ {h}
<1>1. DOMAIN s = 1 .. Len(s) /\ Len(s) \in Nat
  OBVIOUS
<1>2. CASE \A i \in DOMAIN s : s[i] # h
  <2>1. RemoveFirst(s, h) = s
    BY <1>1, <1>2 DEF RemoveFirst
  <2>2. h \notin ToSet(s)
    BY <1>2 DEF ToSet
  <2> QED BY <2>1, <2>2
<1>3. ASSUME NEW p \in DOMAIN s, s[p] = h
      PROVE  /\ RemoveFirst(s, h) \in Seq(S) /\ Distinct(RemoveFirst(s, h))
             /\ ToSet(RemoveFirst(s, h)) = ToSet(s) \ {h}
  <2> DEFINE I == {i \in 1 .. Len(s) : s[i] = h}
             before == SubSeq(s, 1, p - 1)
             after == SubSeq(s, p + 1, Len(s))
  <2>1. I = {p}
    BY <1>1, <1>3 DEF Distinct
  <2>2. Min(I) = p
    <3> HIDE DEF I
    <3>1. p \in Int
      BY <1>1
    <3> QED BY <2>1, <3>1 DEF Min
  <2>3. SelectInSeq(s, LAMBDA v : v = h) = IF I # {} THEN Min(I) ELSE 0
    BY DEF SelectInSeq
  <2>4. RemoveFirst(s, h) = before \o after
    <3>1. SelectInSeq(s, LAMBDA v : v = h) = p
      BY <2>1, <2>2, <2>3
    <3>2. RemoveFirst(s, h) = RemoveAt(s, p)
      BY <1>1, <1>3, <3>1 DEF RemoveFirst
    <3> QED BY <3>2 DEF RemoveAt
  <2> HIDE DEF I
  <2>5. /\ before \in Seq(S) /\ Len(before) = p - 1
        /\ \A i \in 1 .. p - 1 : before[i] = s[i]
        /\ after \in Seq(S) /\ Len(after) = Len(s) - p
        /\ \A i \in 1 .. Len(s) - p : after[i] = s[i + p]
    <3>1. /\ 1 \in 1 .. Len(s) + 1 /\ p - 1 \in 1 - 1 .. Len(s)
          /\ p + 1 \in 1 .. Len(s) + 1 /\ Len(s) \in p + 1 - 1 .. Len(s)
      BY <1>1
    <3>2. \A i \in 1 .. (p - 1) - 1 + 1 : SubSeq(s, 1, p - 1)[i] = s[1 + i - 1]
      BY <1>1, <3>1, SubSeqProperties
    <3>3. \A i \in 1 .. Len(s) - (p + 1) + 1 : SubSeq(s, p + 1, Len(s))[i] = s[(p + 1) + i - 1]
      BY <1>1, <3>1, SubSeqProperties
    <3>4. /\ SubSeq(s, 1, p - 1) \in Seq(S) /\ Len(SubSeq(s, 1, p - 1)) = p - 1
          /\ SubSeq(s, p + 1, Len(s)) \in Seq(S) /\ Len(SubSeq(s, p + 1, Len(s))) = Len(s) - p
      BY <1>1, <3>1, SubSeqProperties
    <3>5. ASSUME NEW i \in 1 .. p - 1 PROVE before[i] = s[i]
      <4>1. i \in 1 .. (p - 1) - 1 + 1 /\ 1 + i - 1 = i
        BY <1>1
      <4> QED BY <3>2, <4>1
    <3>6. ASSUME NEW i \in 1 .. Len(s) - p PROVE after[i] = s[i + p]
      <4>1. i \in 1 .. Len(s) - (p + 1) + 1 /\ (p + 1) + i - 1 = i + p
        BY <1>1
      <4> QED BY <3>3, <4>1
    <3> QED BY <3>4, <3>5, <3>6
  <2> DEFINE new == before \o after
             from(k) == IF k < p THEN k ELSE k + 1
  <2> HIDE DEF before, after
  <2>6. /\ new \in Seq(S) /\ Len(new) = Len(s) - 1
        /\ \A k \in 1 .. Len(s) - 1 : new[k] = s[from(k)] /\ from(k) \in DOMAIN s \ {p}
    <3>1. /\ new \in Seq(S) /\ Len(new) = (p - 1) + (Len(s) - p)
          /\ \A k \in 1 .. (p - 1) + (Len(s) - p) :
               new[k] = IF k <= p - 1 THEN before[k] ELSE after[k - (p - 1)]
      <4>1. /\ new \in Seq(S) /\ Len(new) = Len(before) + Len(after)
            /\ \A k \in 1 .. Len(before) + Len(after) :
                 new[k] = IF k <= Len(before) THEN before[k] ELSE after[k - Len(before)]
        BY <2>5, ConcatProperties
      <4>2. Len(before) = p - 1 /\ Len(after) = Len(s) - p
        BY <2>5
      <4> HIDE DEF new
      <4> QED BY <4>1, <4>2
    <3>2. (p - 1) + (Len(s) - p) = Len(s) - 1
      BY <1>1
    <3>3. ASSUME NEW k \in 1 .. Len(s) - 1 PROVE new[k] = s[from(k)] /\ from(k) \in DOMAIN s \ {p}
      <4>1. CASE k < p
        BY <1>1, <2>5, <3>1, <3>2, <4>1
      <4>2. CASE ~(k < p)
        <5>1. k - (p - 1) \in 1 .. Len(s) - p /\ (k - (p - 1)) + p = k + 1 /\ ~(k <= p - 1)
          BY <1>1, <4>2
        <5>2. new[k] = after[k - (p - 1)]
          BY <3>1, <3>2, <5>1
        <5>3. after[k - (p - 1)] = s[k + 1]
          BY <2>5, <5>1
        <5>4. k + 1 \in DOMAIN s \ {p}
          BY <1>1, <4>2
        <5> QED BY <4>2, <5>2, <5>3, <5>4
      <4> QED BY <4>1, <4>2
    <3> QED BY <3>1, <3>2, <3>3
  <2> HIDE DEF new
  <2>7. DOMAIN new = 1 .. Len(s) - 1
    BY <2>6
  <2>8. Distinct(new)
    <3>1. ASSUME NEW i \in DOMAIN new, NEW j \in DOMAIN new, new[i] = new[j] PROVE i = j
      <4>1. from(i) = from(j)
        BY <2>6, <2>7, <3>1 DEF Distinct
      <4> QED BY <1>1, <2>7, <4>1
    <3> QED BY <3>1 DEF Distinct
  <2>9. ASSUME NEW k \in DOMAIN new PROVE new[k] \in ToSet(s) \ {h}
    <3>1. new[k] = s[from(k)] /\ from(k) \in DOMAIN s \ {p}
      BY <2>6, <2>7
    <3> HIDE DEF from
    <3> QED BY <1>3, <3>1 DEF Distinct, ToSet
  <2>10. ASSUME NEW k \in DOMAIN s, s[k] # h PROVE s[k] \in ToSet(new)
    <3> DEFINE i == IF k < p THEN k ELSE k - 1
    <3>1. i \in DOMAIN new /\ from(i) = k
      BY <1>1, <1>3, <2>7, <2>10
    <3>2. new[i] = s[k]
      BY <2>6, <2>7, <3>1
    <3> QED BY <3>1, <3>2 DEF ToSet
  <2>11. ToSet(new) = ToSet(s) \ {h}
    BY <2>9, <2>10 DEF ToSet
  <2>12. RemoveFirst(s, h) = new
    BY <2>4 DEF new
  <2> QED BY <2>6, <2>8, <2>11, <2>12
<1> QED BY <1>2, <1>3

LEMMA AppendOnce ==
  ASSUME NEW S, NEW s \in Seq(S), Distinct(s), NEW h \in S, ~Contains(s, h)
  PROVE  /\ Append(s, h) \in Seq(S) /\ Distinct(Append(s, h))
         /\ ToSet(Append(s, h)) = ToSet(s) \cup {h}
<1>1. /\ Append(s, h) \in Seq(S) /\ Len(Append(s, h)) = Len(s) + 1 /\ Len(s) \in Nat
      /\ \A i \in 1 .. Len(s) : Append(s, h)[i] = s[i]
      /\ Append(s, h)[Len(s) + 1] = h
      /\ DOMAIN s = 1 .. Len(s) /\ DOMAIN Append(s, h) = 1 .. Len(s) + 1
  OBVIOUS
<1>2. \A i \in DOMAIN s : s[i] # h
  BY <1>1 DEF Contains
<1>3. Distinct(Append(s, h))
  <2> DEFINE t == Append(s, h)
  <2>1. ASSUME NEW i \in DOMAIN t, NEW j \in DOMAIN t, t[i] = t[j] PROVE i = j
    <3>1. CASE i \in DOMAIN s /\ j \in DOMAIN s
      BY <1>1, <2>1, <3>1 DEF Distinct
    <3>2. CASE i = Len(s) + 1 \/ j = Len(s) + 1
      BY <1>1, <1>2, <2>1, <3>2
    <3> QED BY <1>1, <3>1, <3>2
  <2> QED BY <2>1 DEF Distinct
<1>4. ToSet(Append(s, h)) = ToSet(s) \cup {h}
  <2>1. \A k \in DOMAIN Append(s, h) : Append(s, h)[k] \in ToSet(s) \cup {h}
    BY <1>1 DEF ToSet
  <2>2. \A k \in DOMAIN s : s[k] \in ToSet(Append(s, h))
    BY <1>1 DEF ToSet
  <2>3. h \in ToSet(Append(s, h))
    BY <1>1 DEF ToSet
  <2> QED BY <2>1, <2>2, <2>3 DEF ToSet
<1> QED BY <1>1, <1>3, <1>4

LEMMA RegisterLists ==
  ASSUME Lists, NEW events, NEW h \in Handler, registry' = Register(registry, events, h)
  PROVE  Lists' /\ \A ev \in Event : ToSet(registry[ev])' \subseteq ToSet(registry[ev]) \cup {h}
<1>1. /\ DOMAIN registry = Event
      /\ \A ev \in Event : registry[ev] \in Seq(Handler) /\ Distinct(registry[ev])
  BY DEF Lists
<1>2. registry' = [ev \in Event |-> IF ev \in events /\ ~Contains(registry[ev], h)
                                    THEN Append(registry[ev], h) ELSE registry[ev]]
  BY <1>1 DEF Register
<1>3. ASSUME NEW ev \in Event
      PROVE  /\ registry'[ev] \in Seq(Handler) /\ Distinct(registry'[ev])
             /\ ToSet(registry'[ev]) \subseteq ToSet(registry[ev]) \cup {h}
  <2>1. CASE ev \in events /\ ~Contains(registry[ev], h)
    <3>1. registry'[ev] = Append(registry[ev], h)
      BY <1>2, <2>1
    <3> QED BY <1>1, <2>1, <3>1, AppendOnce
  <2>2. CASE ~(ev \in events /\ ~Contains(registry[ev], h))
    BY <1>1, <1>2, <2>2
  <2> QED BY <2>1, <2>2
<1> QED BY <1>2, <1>3 DEF Lists

LEMMA UnregisterLists ==
  ASSUME Lists, NEW events, NEW h, registry' = Unregister(registry, events, h)
  PROVE  /\ Lists'
         /\ \A ev \in Event : ToSet(registry[ev])' =
              IF ev \in events THEN ToSet(registry[ev]) \ {h} ELSE ToSet(registry[ev])
<1>1. /\ DOMAIN registry = Event
      /\ \A ev \in Event : registry[ev] \in Seq(Handler) /\ Distinct(registry[ev])
  BY DEF Lists
<1>2. registry' = [ev \in Event |-> IF ev \in events THEN RemoveFirst(registry[ev], h) ELSE registry[ev]]
  BY <1>1 DEF Unregister
<1>3. ASSUME NEW ev \in Event
      PROVE  /\ registry'[ev] \in Seq(Handler) /\ Distinct(registry'[ev])
             /\ ToSet(registry'[ev]) =
                  IF ev \in events THEN ToSet(registry[ev]) \ {h} ELSE ToSet(registry[ev])
  <2>1. CASE ev \in events
    <3>1. registry'[ev] = RemoveFirst(registry[ev], h)
      BY <1>2, <2>1
    <3> QED BY <1>1, <2>1, <3>1, RemoveFirstOnce
  <2>2. CASE ev \notin events
    BY <1>1, <1>2, <2>2
  <2> QED BY <2>1, <2>2
<1> QED BY <1>2, <1>3 DEF Lists

LEMMA ClearedLists ==
  ASSUME Lists, NEW events,
         registry' = UnregisterEvents(registry, events) \/ registry' = EmptyRegistry(Event)
  PROVE  Lists' /\ \A ev \in Event : ToSet(registry[ev])' \subseteq ToSet(registry[ev])
<1>1. /\ DOMAIN registry = Event
      /\ \A ev \in Event : registry[ev] \in Seq(Handler) /\ Distinct(registry[ev])
  BY DEF Lists
<1>2. DOMAIN registry' = Event /\ \A ev \in Event : registry'[ev] \in {<<>>, registry[ev]}
  BY <1>1 DEF UnregisterEvents, EmptyRegistry
<1>3. <<>> \in Seq(Handler) /\ Distinct(<<>>) /\ ToSet(<<>>) = {}
  BY Elements DEF Distinct
<1>4. registry' = [ev \in Event |-> registry'[ev]]
  BY <1>1 DEF UnregisterEvents, EmptyRegistry
<1>5. ASSUME NEW ev \in Event
      PROVE  /\ registry'[ev] \in Seq(Handler) /\ Distinct(registry'[ev])
             /\ ToSet(registry'[ev]) \subseteq ToSet(registry[ev])
  BY <1>1, <1>2, <1>3
<1> QED BY <1>4, <1>5 DEF Lists

(* A step of the code that neither ends a handler nor calls one.           *)
LEMMA ListsKept ==
  ASSUME IInv, registry' = registry, app'.once = app.once, app'.ran = app.ran, HandlersStay
  PROVE  Lists' /\ Wrappers'
<1>1. Lists'
  BY DEF IInv, Lists
<1>2. \A x \in Waiting' : /\ x.do = "handler" => Given(x.h)'
                          /\ x.do = "calls" => \A h \in ToSet(x.due) : Given(h)'
  BY DEF IInv, Wrappers, HandlersStay, Given
<1>3. ASSUME NEW r \in app'.ran
      PROVE  /\ IsWrapper(r[2]) /\ Given(r[2])'
             /\ r[2] \in ToSet(registry'[r[1]]) => Running(r[1], r[2]) \in Waiting'
  <2>1. Running(r[1], r[2]).do = "handler"
    BY DEF Running
  <2>2. /\ IsWrapper(r[2]) /\ Given(r[2])
        /\ r[2] \in ToSet(registry[r[1]]) => Running(r[1], r[2]) \in Waiting
    BY <1>3 DEF IInv, Wrappers
  <2> QED BY <2>1, <2>2 DEF HandlersStay, Given
<1>4. \A ev \in Event : \A h \in ToSet(registry'[ev]) : Given(h)'
  BY DEF IInv, Wrappers, Given
<1> QED BY <1>1, <1>2, <1>3, <1>4 DEF Wrappers

-----------------------------------------------------------------------------
(* Calling handlers.                                                       *)

(* sig' = sig is what QuietStep asks for.                                  *)
LEMMA SameSignaling ==
  ASSUME IInv, sig' = sig
  PROVE  \E hs \in {"new", "auth-sent", "done"} : sig' = [sig EXCEPT !.hs = hs]
<1>1. sig.hs \in {"new", "auth-sent", "done"} /\ sig = [sig EXCEPT !.hs = sig.hs]
  BY DEF IInv, Variables
<1> QED BY <1>1

LEMMA StartEmitStep ==
  ASSUME IInv, StartEmit, role' = role
  PROVE  Statements(stack)' /\ Situation' /\ Lists' /\ Wrappers'
<1> DEFINE ev == Head(stack).ev
           c == Calls(ev, registry[ev], <<>>)
           new == IF registry[ev] = <<>> THEN <<>> ELSE <<c>>
<1>1. /\ ~Idle /\ stack # <<>> /\ Head(stack).do = "emit" /\ Then(new)
      /\ registry' = registry /\ sig' = sig /\ life' = life /\ app' = app
  BY DEF StartEmit, Runs, Idle
<1>2. Statements(stack)
  BY DEF IInv
<1>3. ev \in Event
  <2>1. Head(stack) \in Frame
    BY <1>1, <1>2, TailStatements
  <2> QED BY <1>1, <2>1 DEF Frame, CallsFrame, PlainDo
<1>4. c \in Frame /\ c.do = "calls" /\ c.due = registry[ev]
  <2>1. registry[ev] \in Seq(Handler) /\ Distinct(registry[ev])
    BY <1>3 DEF IInv, Lists
  <2>2. c \in CallsFrame
    BY <1>3, <2>1 DEF Calls, CallsFrame
  <2> QED BY <2>2 DEF Calls, Frame
<1>5. Statements(new) /\ ToSet(new) = IF registry[ev] = <<>> THEN {} ELSE {c}
  <2> HIDE DEF c
  <2> QED BY <1>4, ShortStatements, Elements
<1>6. \A a \in ToSet(new), b \in ToSet(Tail(stack)) : MayPrecede(a, b)
  <2>1. Calm(Head(stack)) /\ Calm(c)
    BY <1>1, <1>4, CalmVocabulary
  <2>2. \A b \in ToSet(Tail(stack)) : MayPrecede(Head(stack), b)
    BY <1>1, <1>2, TailStatements
  <2> HIDE DEF c
  <2> QED BY <1>4, <1>5, <2>1, <2>2, CalmPrecedes
<1> HIDE DEF new, c, ev
<1>7. /\ Statements(stack)'
      /\ Waiting = {Head(stack)} \cup ToSet(Tail(stack))
      /\ Waiting' = ToSet(new) \cup ToSet(Tail(stack))
      /\ \A b \in ToSet(Tail(stack)) : MayPrecede(Head(stack), b)
  BY <1>1, <1>2, <1>5, <1>6, Replaced
<1>8. \A x \in ToSet(new) : Nested(x)
  BY <1>4, <1>5 DEF Nested
<1>9. Connection' /\ Sending' /\ Entering' /\ Working' /\ Leaving'
  BY <1>1, <1>7, <1>8, SameSignaling, QuietStep
<1>10. Wrappers'
  <2>1. \A x \in Waiting' : /\ x.do = "handler" => Given(x.h)'
                            /\ x.do = "calls" => \A h \in ToSet(x.due) : Given(h)'
    <3>1. \A h \in ToSet(registry[ev]) : Given(h)
      BY <1>3 DEF IInv, Wrappers
    <3> QED BY <1>1, <1>4, <1>5, <1>7, <3>1 DEF IInv, Wrappers, Given
  <2>2. ASSUME NEW r \in app'.ran
        PROVE  /\ IsWrapper(r[2]) /\ Given(r[2])'
               /\ r[2] \in ToSet(registry'[r[1]]) => Running(r[1], r[2]) \in Waiting'
    <3>1. Running(r[1], r[2]).do = "handler"
      BY DEF Running
    <3>2. /\ IsWrapper(r[2]) /\ Given(r[2])
          /\ r[2] \in ToSet(registry[r[1]]) => Running(r[1], r[2]) \in Waiting
      BY <1>1, <2>2 DEF IInv, Wrappers
    <3> QED BY <1>1, <1>7, <3>1, <3>2 DEF Given
  <2> QED BY <1>1, <2>1, <2>2 DEF IInv, Wrappers, Given
<1>11. Lists'
  BY <1>1 DEF IInv, Lists
<1> QED BY <1>7, <1>9, <1>10, <1>11 DEF Situation

(* What is left of a list of handlers begins with the one after those that *)
(* were called.                                                            *)
LEMMA Leftover ==
  ASSUME NEW due \in Seq(Handler), NEW called \in Seq(Handler), NEW frame,
         frame.due = due, frame.called = called, Len(called) <= Len(due)
  PROVE  /\ Remaining(frame) = <<>> <=> Len(called) = Len(due)
         /\ Remaining(frame) # <<>> => Head(Remaining(frame)) = due[Len(called) + 1]
<1> DEFINE n == Len(called)
           m == Len(due)
           rest == SubSeq(due, n + 1, m)
<1>1. n \in Nat /\ m \in Nat /\ n <= m /\ n + 1 \in 1 .. m + 1 /\ m \in n + 1 - 1 .. m
  OBVIOUS
<1>2. Remaining(frame) = rest
  BY DEF Remaining
<1>3. /\ rest \in Seq(Handler) /\ Len(rest) = m - (n + 1) + 1
      /\ \A i \in 1 .. m - (n + 1) + 1 : rest[i] = due[n + 1 + i - 1]
  BY <1>1, SubSeqProperties
<1> HIDE DEF rest
<1>4. rest = <<>> <=> n = m
  <2>1. Len(rest) = m - n
    BY <1>1, <1>3
  <2>2. rest = <<>> <=> Len(rest) = 0
    BY <1>3, EmptySeq
  <2> QED BY <1>1, <2>1, <2>2
<1>5. ASSUME rest # <<>> PROVE Head(rest) = due[n + 1]
  <2>1. 1 \in 1 .. m - (n + 1) + 1 /\ n + 1 + 1 - 1 = n + 1
    BY <1>1, <1>4, <1>5
  <2>2. Head(rest) = rest[1]
    BY <1>3, <1>5
  <2> QED BY <1>3, <2>1, <2>2
<1> QED BY <1>2, <1>4, <1>5

LEMMA CallHandlerStep ==
  ASSUME IInv, CallHandler, role' = role
  PROVE  Statements(stack)' /\ Situation' /\ Lists' /\ Wrappers' /\ Variables'
<1> DEFINE frame == Head(stack)
           h == Head(Remaining(frame))
           a == Running(frame.ev, h)
           b == Calls(frame.ev, frame.due, Append(frame.called, h))
<1>1. /\ ~Idle /\ stack # <<>> /\ Head(stack).do = "calls" /\ Remaining(frame) # <<>>
      /\ Then(<<a, b>>)
      /\ app' = [app EXCEPT !.ran = IF IsWrapper(h) THEN @ \cup {<<frame.ev, h>>} ELSE @]
      /\ registry' = registry /\ sig' = sig /\ life' = life
  BY DEF CallHandler, Runs, Idle
<1>2. Statements(stack)
  BY DEF IInv
<1>3. /\ frame.ev \in Event /\ frame.due \in Seq(Handler) /\ frame.called \in Seq(Handler)
      /\ Distinct(frame.due) /\ Len(frame.called) <= Len(frame.due)
      /\ \A i \in DOMAIN frame.called : frame.called[i] = frame.due[i]
  <2>1. Head(stack) \in Frame
    BY <1>1, <1>2, TailStatements
  <2> QED BY <1>1, <2>1 DEF Frame, CallsFrame, PlainDo
<1> HIDE DEF frame
<1>4. /\ Len(frame.called) < Len(frame.due) /\ h = frame.due[Len(frame.called) + 1]
      /\ Len(frame.called) + 1 \in DOMAIN frame.due
  <2>1. Len(frame.called) # Len(frame.due) /\ h = frame.due[Len(frame.called) + 1]
    BY <1>1, <1>3, Leftover
  <2>2. /\ Len(frame.called) \in Nat /\ Len(frame.due) \in Nat
        /\ DOMAIN frame.due = 1 .. Len(frame.due)
    BY <1>3
  <2> QED BY <1>3, <2>1, <2>2
<1>5. h \in Handler /\ h \in ToSet(frame.due)
  BY <1>3, <1>4 DEF ToSet
<1> HIDE DEF h
<1>6. a \in Frame /\ a.do = "handler" /\ a.h = h
  BY <1>3, <1>5, Vocabulary
<1>7. b \in Frame /\ b.do = "calls" /\ b.due = frame.due
  <2> DEFINE called == Append(frame.called, h)
  <2>1. /\ called \in Seq(Handler) /\ Len(called) = Len(frame.called) + 1
        /\ DOMAIN called = 1 .. Len(frame.called) + 1
        /\ DOMAIN frame.called = 1 .. Len(frame.called) /\ Len(frame.called) \in Nat
        /\ \A i \in 1 .. Len(frame.called) : called[i] = frame.called[i]
        /\ called[Len(frame.called) + 1] = h /\ Len(frame.due) \in Nat
    BY <1>3, <1>5
  <2> HIDE DEF called
  <2>2. Len(called) <= Len(frame.due)
    BY <1>4, <2>1
  <2>3. \A i \in DOMAIN called : called[i] = frame.due[i]
    BY <1>3, <1>4, <2>1
  <2>4. [do |-> "calls", ev |-> frame.ev, due |-> frame.due, called |-> called] \in CallsFrame
    BY <1>3, <2>1, <2>2, <2>3 DEF CallsFrame
  <2>5. b = [do |-> "calls", ev |-> frame.ev, due |-> frame.due, called |-> called]
    BY DEF Calls, called
  <2> QED BY <2>4, <2>5 DEF Frame
<1>8. /\ Statements(<<a, b>>) /\ ToSet(<<a, b>>) = {a, b} /\ Calm(a) /\ Calm(b) /\ Calm(Head(stack))
      /\ \A x \in ToSet(Tail(stack)) : MayPrecede(Head(stack), x)
  <2>1. MayPrecede(a, b)
    BY <1>7, PrecedesCalm
  <2>2. Calm(a) /\ Calm(b) /\ Calm(Head(stack))
    BY <1>1, <1>6, <1>7, CalmVocabulary
  <2>3. \A x \in ToSet(Tail(stack)) : MayPrecede(Head(stack), x)
    BY <1>1, <1>2, TailStatements
  <2> HIDE DEF a, b
  <2> QED BY <1>6, <1>7, <2>1, <2>2, <2>3, ShortStatements, Elements
<1> HIDE DEF a, b
<1>9. \A x \in ToSet(<<a, b>>), y \in ToSet(Tail(stack)) : MayPrecede(x, y)
  <2>1. ASSUME NEW x \in {a, b}, NEW y \in ToSet(Tail(stack)) PROVE MayPrecede(x, y)
    <3>1. Calm(x) /\ x.do # "open" /\ MayPrecede(Head(stack), y)
      BY <1>6, <1>7, <1>8
    <3> QED BY <1>8, <3>1, CalmPrecedes
  <2> QED BY <1>8, <2>1
<1>10. /\ Statements(stack)'
       /\ Waiting = {Head(stack)} \cup ToSet(Tail(stack))
       /\ Waiting' = {a, b} \cup ToSet(Tail(stack))
  <2>1. /\ Statements(stack)'
        /\ Waiting = {Head(stack)} \cup ToSet(Tail(stack))
        /\ Waiting' = ToSet(<<a, b>>) \cup ToSet(Tail(stack))
    BY <1>1, <1>2, <1>8, <1>9, Replaced
  <2> QED BY <1>8, <2>1
<1>11. /\ app' \in [calls : Nat, once : 0 .. MaxOnce, ran : SUBSET (Event \X Handler),
                    left : BOOLEAN, within : BOOLEAN, escaped : SUBSET Cause]
       /\ app'.left = app.left /\ app'.within = app.within /\ app'.escaped = app.escaped
       /\ app'.once = app.once
       /\ app'.ran = IF IsWrapper(h) THEN app.ran \cup {<<frame.ev, h>>} ELSE app.ran
  <2>1. (IF IsWrapper(h) THEN app.ran \cup {<<frame.ev, h>>} ELSE app.ran) \in SUBSET (Event \X Handler)
    BY <1>3, <1>5 DEF IInv, Variables
  <2> QED BY <1>1, <2>1 DEF IInv, Variables
<1>12. Connection' /\ Sending' /\ Entering' /\ Working' /\ Leaving'
  <2>1. \A x \in {a, b} : Nested(x)
    BY <1>6, <1>7 DEF Nested
  <2>2. \E hs \in {"new", "auth-sent", "done"} : sig' = [sig EXCEPT !.hs = hs]
    BY <1>1, SameSignaling
  <2> QED BY <1>1, <1>8, <1>10, <1>11, <2>1, <2>2, QuietStep
<1>13. Wrappers'
  <2>1. frame \in Waiting /\ Given(h)
    <3>1. frame \in Waiting
      BY <1>10 DEF frame
    <3> QED BY <1>1, <1>5, <3>1 DEF IInv, Wrappers, frame
  <2>2. \A x \in Waiting' : /\ x.do = "handler" => Given(x.h)'
                            /\ x.do = "calls" => \A g \in ToSet(x.due) : Given(g)'
    <3>1. \A g \in ToSet(b.due) : Given(g)
      BY <1>1, <1>7, <2>1 DEF IInv, Wrappers, frame
    <3> QED BY <1>6, <1>7, <1>10, <1>11, <2>1, <3>1 DEF IInv, Wrappers, Given
  <2>3. ASSUME NEW r \in app'.ran
        PROVE  /\ IsWrapper(r[2]) /\ Given(r[2])'
               /\ r[2] \in ToSet(registry'[r[1]]) => Running(r[1], r[2]) \in Waiting'
    <3>1. CASE r \in app.ran
      <4>1. Running(r[1], r[2]).do = "handler"
        BY DEF Running
      <4>2. /\ IsWrapper(r[2]) /\ Given(r[2])
            /\ r[2] \in ToSet(registry[r[1]]) => Running(r[1], r[2]) \in Waiting
        BY <3>1 DEF IInv, Wrappers
      <4> QED BY <1>1, <1>10, <1>11, <4>1, <4>2 DEF Given
    <3>2. CASE r = <<frame.ev, h>> /\ IsWrapper(h)
      <4>1. Running(r[1], r[2]) = a
        BY <3>2 DEF a
      <4> QED BY <1>10, <1>11, <2>1, <3>2, <4>1 DEF Given
    <3> QED BY <1>11, <2>3, <3>1, <3>2
  <2> QED BY <1>1, <1>11, <2>2, <2>3 DEF IInv, Wrappers, Given
<1>14. Lists' /\ Variables'
  <2>1. Lists'
    BY <1>1 DEF IInv, Lists
  <2>2. sig' = sig /\ life' = life /\ role' = role
    BY <1>1
  <2>3. Variables'
    BY <1>11, <2>2 DEF IInv, Variables
  <2> QED BY <2>1, <2>3
<1> QED BY <1>10, <1>12, <1>13, <1>14 DEF Situation

(* A statement that is just over.                                          *)
LEMMA OverStep ==
  ASSUME IInv, ~Idle, Continue, registry' = registry, life' = life, app' = app, role' = role,
         Head(stack).do \in {"calls", "send", "sendClose", "authSent", "handshakeDone",
                             "endOfTry", "endOfCall"},
         \E hs \in {"new", "auth-sent", "done"} : sig' = [sig EXCEPT !.hs = hs]
  PROVE  Statements(stack)' /\ Situation' /\ HandlersStay
<1>1. /\ Statements(stack)'
      /\ Waiting = {Head(stack)} \cup ToSet(Tail(stack))
      /\ Waiting' = ToSet(Tail(stack))
      /\ \A b \in ToSet(Tail(stack)) : MayPrecede(Head(stack), b)
  BY Finished DEF IInv, Idle
<1>2. PICK none : none = {}
  OBVIOUS
<1>3. Connection' /\ Sending' /\ Entering' /\ Working' /\ Leaving'
  <2>1. Waiting' = none \cup ToSet(Tail(stack)) /\ \A x \in none : Nested(x)
    BY <1>1, <1>2
  <2> QED BY <1>1, <2>1, QuietStep
<1>4. HandlersStay
  BY <1>1 DEF HandlersStay
<1> QED BY <1>1, <1>3, <1>4 DEF Situation

(* A handler ends; what was registered for its event and no longer is, is  *)
(* a wrapper that has run.                                                 *)
LEMMA ReturnStep ==
  ASSUME IInv, Return, role' = role
  PROVE  Statements(stack)' /\ Situation' /\ Lists' /\ Wrappers'
<1>1. PICK outcome \in {"returns", "false", "throws"} :
        /\ registry' = HandlerAfter(Head(stack).h, Head(stack).ev, outcome)
        /\ Continue /\ app' = app
  BY DEF Return, Propagates
<1>2. /\ ~Idle /\ stack # <<>> /\ Head(stack).do = "handler" /\ sig' = sig /\ life' = life
  BY DEF Return, InHandler, Runs, Idle
<1>3. /\ Statements(stack)'
      /\ Waiting = {Head(stack)} \cup ToSet(Tail(stack)) /\ Head(stack) \in Frame
      /\ Waiting' = ToSet(Tail(stack))
      /\ \A b \in ToSet(Tail(stack)) : MayPrecede(Head(stack), b)
  BY <1>1, <1>2, Finished DEF IInv
<1>4. PICK ev \in Event, h \in Handler : Head(stack) = Running(ev, h)
  BY <1>2, <1>3 DEF Frame, CallsFrame, PlainDo, Running
<1>5. registry' = HandlerAfter(h, ev, outcome)
  BY <1>1, <1>4 DEF Running
<1>6. Connection' /\ Sending' /\ Entering' /\ Working' /\ Leaving'
  <2>1. PICK none : none = {}
    OBVIOUS
  <2>2. Waiting' = none \cup ToSet(Tail(stack)) /\ \A x \in none : Nested(x)
    BY <1>3, <2>1
  <2> QED BY <1>1, <1>2, <1>3, <2>2, SameSignaling, QuietStep
<1>7. /\ Lists'
      /\ \A e \in Event : ToSet(registry[e])' \subseteq ToSet(registry[e])
      /\ IsWrapper(h) => h \notin ToSet(registry[ev])'
  <2>1. CASE IsWrapper(h) \/ outcome = "false"
    <3>1. registry' = Unregister(registry, {ev}, h)
      BY <1>5, <2>1 DEF HandlerAfter
    <3>2. /\ Lists'
          /\ \A e \in Event : ToSet(registry[e])' =
               IF e \in {ev} THEN ToSet(registry[e]) \ {h} ELSE ToSet(registry[e])
      BY <3>1, UnregisterLists DEF IInv
    <3> QED BY <1>4, <3>2
  <2>2. CASE ~(IsWrapper(h) \/ outcome = "false")
    <3>1. registry' = registry
      BY <1>5, <2>2 DEF HandlerAfter
    <3> QED BY <2>2, <3>1 DEF IInv, Lists
  <2> QED BY <2>1, <2>2
<1>8. \A r \in app.ran : r[1] \in Event /\ r[2] \in Handler
  BY DEF IInv, Variables
<1>9. ASSUME NEW r \in app'.ran
      PROVE  /\ IsWrapper(r[2]) /\ Given(r[2])'
             /\ r[2] \in ToSet(registry'[r[1]]) => Running(r[1], r[2]) \in Waiting'
  <2>1. /\ IsWrapper(r[2]) /\ Given(r[2]) /\ r[1] \in Event
        /\ r[2] \in ToSet(registry[r[1]]) => Running(r[1], r[2]) \in Waiting
    BY <1>1, <1>8, <1>9 DEF IInv, Wrappers
  <2>2. ASSUME r[2] \in ToSet(registry'[r[1]]) PROVE Running(r[1], r[2]) \in Waiting'
    <3>1. Running(r[1], r[2]) \in Waiting
      BY <1>7, <2>1, <2>2
    <3>2. CASE Running(r[1], r[2]) = Running(ev, h)
      <4>1. r[1] = ev /\ r[2] = h
        BY <3>2 DEF Running
      <4> QED BY <1>7, <2>1, <2>2, <4>1
    <3> QED BY <1>3, <1>4, <3>1, <3>2
  <2> QED BY <1>1, <2>1, <2>2 DEF Given
<1>10. \A e \in Event : \A g \in ToSet(registry'[e]) : Given(g)'
  <2>1. ASSUME NEW e \in Event, NEW g \in ToSet(registry'[e]) PROVE Given(g)'
    <3>1. g \in ToSet(registry[e])
      BY <1>7, <2>1
    <3> QED BY <1>1, <3>1 DEF IInv, Wrappers, Given
  <2> QED BY <2>1
<1>11. \A x \in Waiting' : /\ x.do = "handler" => Given(x.h)'
                           /\ x.do = "calls" => \A g \in ToSet(x.due) : Given(g)'
  BY <1>1, <1>3 DEF IInv, Wrappers, Given
<1> QED BY <1>3, <1>6, <1>7, <1>9, <1>10, <1>11 DEF Situation, Wrappers

-----------------------------------------------------------------------------
(* Calls that change the lists of handlers.                                *)

LEMMA Unmoved ==
  ASSUME IInv, stack' = stack, sig' = sig, life' = life, role' = role,
         app'.left = app.left, app'.within = app.within, app'.escaped = app.escaped
  PROVE  Statements(stack)' /\ Situation' /\ Waiting' = Waiting
<1>1. Waiting' = Waiting /\ \A d : Waits(d)' <=> Waits(d)
  BY DEF Waiting, Waits
<1>2. (Building' <=> Building) /\ (Idle' <=> Idle) /\ (LeavesTask' <=> LeavesTask)
      /\ (Runs("renew")' <=> Runs("renew"))
  BY DEF Building, Idle, LeavesTask, Runs, SetsTask
<1>3. Connection'
  BY <1>1, <1>2 DEF IInv, Connection
<1>4. Sending'
  BY <1>1 DEF IInv, Sending
<1>5. Entering'
  BY <1>1 DEF IInv, Entering
<1>6. Working'
  BY <1>1, <1>2 DEF IInv, Working
<1>7. Leaving'
  BY <1>1 DEF IInv, Leaving
<1> QED BY <1>1, <1>3, <1>4, <1>5, <1>6, <1>7 DEF IInv, Situation

(* What is added has a number that no wrapper that has run has.            *)
LEMMA WrappersAfter ==
  ASSUME IInv, NEW added, \A h \in added : h \in Handler /\ Given(h)' /\ ~(IsWrapper(h) /\ Given(h)),
         \A ev \in Event : ToSet(registry[ev])' \subseteq ToSet(registry[ev]) \cup added,
         app.once <= app'.once, app'.once \in Nat, app'.ran = app.ran, Waiting' = Waiting
  PROVE  Wrappers'
<1>1. \A h \in Handler : Given(h) => Given(h)'
  BY DEF IInv, Variables, Handler, Given
<1>2. ASSUME NEW ev \in Event, NEW h \in ToSet(registry'[ev]) PROVE Given(h)'
  <2>1. CASE h \in added
    BY <2>1
  <2>2. CASE h \in ToSet(registry[ev])
    <3>1. h \in Handler
      BY <2>2 DEF IInv, Lists, ToSet
    <3> QED BY <1>1, <2>2, <3>1 DEF IInv, Wrappers
  <2> QED BY <1>2, <2>1, <2>2
<1>3. ASSUME NEW x \in Waiting'
      PROVE  /\ x.do = "handler" => Given(x.h)'
             /\ x.do = "calls" => \A h \in ToSet(x.due) : Given(h)'
  <2>1. x \in Waiting
    BY <1>3
  <2>2. x \in Frame
    BY <2>1 DEF IInv, Statements, Waiting, ToSet
  <2>3. x.do = "handler" => x.h \in Handler
    BY <2>2 DEF Frame, CallsFrame, PlainDo
  <2>4. x.do = "calls" => \A h \in ToSet(x.due) : h \in Handler
    BY <2>2 DEF Frame, CallsFrame, PlainDo, ToSet
  <2> QED BY <1>1, <1>3, <2>3, <2>4 DEF IInv, Wrappers
<1>4. ASSUME NEW r \in app'.ran
      PROVE  /\ IsWrapper(r[2]) /\ Given(r[2])'
             /\ r[2] \in ToSet(registry'[r[1]]) => Running(r[1], r[2]) \in Waiting'
  <2>1. r[1] \in Event /\ r[2] \in Handler
    BY <1>4 DEF IInv, Variables
  <2>2. /\ IsWrapper(r[2]) /\ Given(r[2])
        /\ r[2] \in ToSet(registry[r[1]]) => Running(r[1], r[2]) \in Waiting
    BY <1>4 DEF IInv, Wrappers
  <2>3. r[2] \notin added
    BY <2>2
  <2> QED BY <1>1, <2>1, <2>2, <2>3
<1> QED BY <1>2, <1>3, <1>4 DEF Wrappers

LEMMA OnStep ==
  ASSUME IInv, NEW f \in Functions, On(f), role' = role
  PROVE  Statements(stack)' /\ Situation' /\ Lists' /\ Wrappers'
<1>1. PICK ev \in Watched : registry' = Register(registry, {ev}, <<f, 0>>)
  BY DEF On
<1>2. app' = [app EXCEPT !.calls = @ + 1] /\ stack' = stack /\ sig' = sig /\ life' = life
  BY DEF On, Called
<1>3. /\ app'.left = app.left /\ app'.within = app.within /\ app'.escaped = app.escaped
      /\ app'.once = app.once /\ app'.ran = app.ran /\ app.once \in Nat
  BY <1>2 DEF IInv, Variables
<1>4. <<f, 0>> \in Handler /\ Given(<<f, 0>>)' /\ ~IsWrapper(<<f, 0>>)
  BY <1>3, BoundsAssumption DEF Handler, Given, IsWrapper
<1>5. Lists' /\ \A e \in Event : ToSet(registry[e])' \subseteq ToSet(registry[e]) \cup {<<f, 0>>}
  BY <1>1, <1>4, RegisterLists DEF IInv
<1>6. Statements(stack)' /\ Situation' /\ Waiting' = Waiting
  BY <1>2, <1>3, Unmoved
<1>7. \A h \in {<<f, 0>>} : h \in Handler /\ Given(h)' /\ ~(IsWrapper(h) /\ Given(h))
  BY <1>4
<1>8. app.once <= app'.once /\ app'.once \in Nat
  BY <1>3
<1>9. Wrappers'
  BY <1>3, <1>5, <1>6, <1>7, <1>8, WrappersAfter
<1> QED BY <1>5, <1>6, <1>9

LEMMA OnceStep ==
  ASSUME IInv, NEW f \in Functions, Once(f), role' = role
  PROVE  Statements(stack)' /\ Situation' /\ Lists' /\ Wrappers'
<1>1. PICK w : w = <<f, app.once + 1>>
  OBVIOUS
<1>2. PICK events \in SUBSET Watched : registry' = Register(registry, events, w)
  BY <1>1 DEF Once
<1>3. app' = [app EXCEPT !.calls = @ + 1, !.once = @ + 1] /\ app.once < MaxOnce
      /\ stack' = stack /\ sig' = sig /\ life' = life
  BY DEF Once, Called, IInv, Variables
<1>4. /\ app'.left = app.left /\ app'.within = app.within /\ app'.escaped = app.escaped
      /\ app'.once = app.once + 1 /\ app'.ran = app.ran /\ app.once \in 0 .. MaxOnce
  BY <1>3 DEF IInv, Variables
<1>5. w \in Handler /\ Given(w)' /\ ~Given(w)
  BY <1>3, <1>4, <1>1, BoundsAssumption DEF Handler, Given
<1>6. Lists' /\ \A e \in Event : ToSet(registry[e])' \subseteq ToSet(registry[e]) \cup {w}
  BY <1>2, <1>5, RegisterLists DEF IInv
<1>7. Statements(stack)' /\ Situation' /\ Waiting' = Waiting
  BY <1>3, <1>4, Unmoved
<1>8. app.once <= app'.once /\ app'.once \in Nat
  BY <1>4
<1>9. \A h \in {w} : h \in Handler /\ Given(h)' /\ ~(IsWrapper(h) /\ Given(h))
  BY <1>5
<1>10. Wrappers'
  BY <1>4, <1>6, <1>7, <1>8, <1>9, WrappersAfter
<1> QED BY <1>6, <1>7, <1>10

LEMMA OffStep ==
  ASSUME IInv, Off, role' = role
  PROVE  Statements(stack)' /\ Situation' /\ Lists' /\ Wrappers'
<1>1. app' = [app EXCEPT !.calls = @ + 1] /\ stack' = stack /\ sig' = sig /\ life' = life
  BY DEF Off, Called
<1>2. /\ app'.left = app.left /\ app'.within = app.within /\ app'.escaped = app.escaped
      /\ app'.once = app.once /\ app'.ran = app.ran /\ app.once \in Nat
  BY <1>1 DEF IInv, Variables
<1>3. Lists' /\ \A ev \in Event : ToSet(registry[ev])' \subseteq ToSet(registry[ev]) \cup {}
  <2>1. CASE \E ev \in Watched, f \in Functions : registry' = Unregister(registry, {ev}, <<f, 0>>)
    <3>1. PICK ev \in Watched, f \in Functions : registry' = Unregister(registry, {ev}, <<f, 0>>)
      BY <2>1
    <3>2. /\ Lists'
          /\ \A e \in Event : ToSet(registry[e])' =
               IF e \in {ev} THEN ToSet(registry[e]) \ {<<f, 0>>} ELSE ToSet(registry[e])
      BY <3>1, UnregisterLists DEF IInv
    <3> QED BY <3>2
  <2>2. CASE \/ \E ev \in Watched : registry' = UnregisterEvents(registry, {ev})
             \/ registry' = EmptyRegistry(Event)
    BY <2>2, ClearedLists DEF IInv
  <2> QED BY <2>1, <2>2 DEF Off
<1>4. Statements(stack)' /\ Situation' /\ Waiting' = Waiting
  BY <1>1, <1>2, Unmoved
<1>5. PICK none : none = {}
  OBVIOUS
<1>6. \A ev \in Event : ToSet(registry[ev])' \subseteq ToSet(registry[ev]) \cup none
  BY <1>3, <1>5
<1>7. \A h \in none : h \in Handler /\ Given(h)' /\ ~(IsWrapper(h) /\ Given(h))
  BY <1>5
<1>8. app.once <= app'.once /\ app'.once \in Nat
  BY <1>2
<1>9. Wrappers'
  BY <1>2, <1>4, <1>7, <1>8, <1>6, WrappersAfter
<1> QED BY <1>3, <1>4, <1>9

-----------------------------------------------------------------------------
(* The invariant.                                                          *)

(* The values of the variables.                                            *)
SigType == [state : SignalingState, hs : {"new", "auth-sent", "done"}, ws : BOOLEAN,
            socket : {"none", "connecting", "open", "closing", "failed", "closed"},
            code : Nat, local : BOOLEAN, peer : BOOLEAN, used : BOOLEAN]
LifeType == [set : BOOLEAN, told : BOOLEAN, closed : BOOLEAN]
AppType == [calls : Nat, once : 0 .. MaxOnce, ran : SUBSET (Event \X Handler),
            left : BOOLEAN, within : BOOLEAN, escaped : SUBSET Cause]

LEMMA Typed ==
  /\ Variables <=> /\ sig \in SigType /\ life \in LifeType /\ app \in AppType
                   /\ role \in {NoRole, "initiator", "responder"}
  /\ Variables' <=> /\ sig' \in SigType /\ life' \in LifeType /\ app' \in AppType
                    /\ role' \in {NoRole, "initiator", "responder"}
BY DEF Variables, SigType, LifeType, AppType

LEMMA RaiseKeeps ==
  ASSUME Variables, NEW cause \in Cause, Raise(cause)
  PROVE  app' \in AppType /\ app'.once = app.once /\ app'.ran = app.ran
<1> DEFINE caught == {stack[k].do : k \in DOMAIN stack} \cap {"endOfTry", "endOfCall"}
           after == IF "endOfCall" \in caught THEN app.escaped ELSE app.escaped \cup {cause}
<1>1. app' = app \/ app' = [app EXCEPT !.escaped = after]
  BY DEF Raise
<1>2. after \in SUBSET Cause
  BY DEF Variables
<1> HIDE DEF after
<1>3. app \in AppType
  BY Typed
<1> QED BY <1>1, <1>2, <1>3 DEF AppType

LEMMA StatementVariables ==
  ASSUME IInv, Statement, role' = role
  PROVE  Variables'
<1>1. /\ sig \in SigType /\ life \in LifeType /\ app \in AppType
      /\ role \in {NoRole, "initiator", "responder"}
  BY Typed DEF IInv
<1>2. stack # <<>> => Head(stack) \in Frame
  BY TailStatements DEF IInv
<1>3. sig' \in SigType
  <2>1. sig' = sig \/ SetState \/ CloseWebsocket \/ RenewServer \/ OpenWebsocket \/ AdvanceHandshake
    BY DEF Statement, StartEmit, CallHandler, EndEmit, Return, SendPacket, SendThroughTask,
           InitTheTask, CallTask, ThrowError, EndBlock
  <2>2. CASE SetState
    <3>1. Head(stack).to \in SignalingState
      BY <1>2, <2>2 DEF SetState, Runs, Idle, Frame, CallsFrame, PlainDo
    <3> QED BY <1>1, <2>2, <3>1 DEF SetState, SigType
  <2>3. CASE CloseWebsocket
    <3>1. Head(stack).code \in Nat
      BY <1>2, <2>3 DEF CloseWebsocket, Runs, Idle, Frame, CallsFrame, PlainDo
    <3>2. \/ sig' = sig
          \/ sig' = [sig EXCEPT !.ws = FALSE]
          \/ sig' = [sig EXCEPT !.ws = FALSE, !.socket = "closing", !.code = Head(stack).code]
      <4>1. /\ sig.socket = "closed" => sig' = sig \/ sig' = [sig EXCEPT !.ws = FALSE]
            /\ sig.socket # "closed" =>
                 \/ sig' = sig
                 \/ sig' = [sig EXCEPT !.ws = FALSE, !.socket = "closing", !.code = Head(stack).code]
        BY <1>1, <2>3 DEF CloseWebsocket, SigType
      <4> QED BY <4>1
    <3> QED BY <1>1, <3>1, <3>2 DEF SigType
  <2>4. CASE RenewServer
    BY <1>1, <2>4 DEF RenewServer, SigType
  <2>5. CASE OpenWebsocket
    BY <1>1, <2>5 DEF OpenWebsocket, SigType
  <2>6. CASE AdvanceHandshake
    BY <1>1, <2>6 DEF AdvanceHandshake, SigType
  <2> QED BY <1>1, <2>1, <2>2, <2>3, <2>4, <2>5, <2>6
<1>4. life' \in LifeType
  <2>1. life' = life \/ InitTheTask \/ CallTask
    BY DEF Statement, StartEmit, CallHandler, EndEmit, Return, SendPacket, SendThroughTask,
           SetState, CloseWebsocket, RenewServer, OpenWebsocket, AdvanceHandshake, ThrowError, EndBlock
  <2> QED BY <1>1, <2>1 DEF InitTheTask, CallTask, LifeType
<1>5. app' \in AppType
  <2>1. app' = app \/ CallHandler \/ \E cause \in Cause : Raise(cause)
    BY DEF Cause, Statement, StartEmit, EndEmit, Return, Propagates, SendPacket, SendThroughTask, InitTheTask,
           CallTask, SetState, CloseWebsocket, RenewServer, OpenWebsocket, AdvanceHandshake, ThrowError,
           EndBlock
  <2>2. CASE CallHandler
    BY <2>2, CallHandlerStep, Typed
  <2>3. CASE \E cause \in Cause : Raise(cause)
    BY <2>3, RaiseKeeps DEF IInv
  <2> QED BY <1>1, <2>1, <2>2, <2>3
<1> QED BY <1>1, <1>3, <1>4, <1>5, Typed

LEMMA StatementStep ==
  ASSUME IInv, Statement, role' = role
  PROVE  IInv'
<1>1. Variables'
  BY StatementVariables
<1>2. ASSUME registry' = registry, app'.once = app.once, app'.ran = app.ran,
             Statements(stack)', Situation', HandlersStay
      PROVE  IInv'
  BY <1>1, <1>2, ListsKept DEF IInv, Situation
<1>3. ASSUME Statements(stack)', Situation', Lists', Wrappers' PROVE IInv'
  BY <1>1, <1>3 DEF IInv, Situation
<1>4. CASE StartEmit
  BY <1>3, <1>4, StartEmitStep
<1>5. CASE CallHandler
  BY <1>3, <1>5, CallHandlerStep
<1>6. CASE Return
  BY <1>3, <1>6, ReturnStep
<1>7. CASE SetState
  BY <1>2, <1>7, SetStep DEF SetState
<1>8. CASE CloseWebsocket
  BY <1>2, <1>8, CloseStep DEF CloseWebsocket
<1>9. CASE RenewServer
  BY <1>2, <1>9, RenewStep DEF RenewServer
<1>10. CASE OpenWebsocket
  BY <1>2, <1>10, OpenStep DEF OpenWebsocket
<1>11. CASE EndEmit \/ SendThroughTask \/ EndBlock
  <2>1. /\ ~Idle /\ Continue /\ registry' = registry /\ sig' = sig /\ life' = life /\ app' = app
        /\ Head(stack).do \in {"calls", "sendClose", "endOfTry", "endOfCall"}
    BY <1>11 DEF EndEmit, SendThroughTask, EndBlock, Runs
  <2> QED BY <1>2, <2>1, SameSignaling, OverStep
<1>12. CASE AdvanceHandshake
  <2>1. /\ ~Idle /\ Continue /\ registry' = registry /\ life' = life /\ app' = app
        /\ Head(stack).do \in {"authSent", "handshakeDone"}
        /\ \E hs \in {"new", "auth-sent", "done"} : sig' = [sig EXCEPT !.hs = hs]
    BY <1>12 DEF AdvanceHandshake, Runs
  <2> QED BY <1>2, <2>1, OverStep
<1>13. CASE SendPacket
  <2>1. /\ ~Idle /\ registry' = registry /\ sig' = sig /\ life' = life
        /\ Head(stack).do = "send" \/ (Head(stack).do = "sendClose" /\ ~sig.local)
    BY <1>13 DEF SendPacket, Runs
  <2>2. CASE sig.ws
    <3>1. Continue /\ app' = app
      BY <1>13, <2>2 DEF SendPacket
    <3> QED BY <1>2, <2>1, <3>1, SameSignaling, OverStep
  <2>3. CASE ~sig.ws
    <3>1. Raise("send") /\ "send" \in Cause
      BY <1>13, <2>3 DEF SendPacket, Cause
    <3>2. app'.once = app.once /\ app'.ran = app.ran
      BY <3>1, RaiseKeeps DEF IInv
    <3> QED BY <1>2, <2>1, <2>3, <3>1, <3>2, EscapeStep DEF Uncaught
  <2> QED BY <2>2, <2>3
<1>14. CASE InitTheTask
  <2>1. ~Idle /\ Head(stack).do = "initTask" /\ registry' = registry /\ sig' = sig
    BY <1>14 DEF InitTheTask, Runs
  <2>2. CASE life' = [life EXCEPT !.set = TRUE] /\ Continue /\ app' = app
    BY <1>2, <2>1, <2>2, TaskStep
  <2>3. CASE Raise("signaling") /\ life' = life
    BY <1>2, <2>1, <2>3, ErrorStep
  <2>4. CASE Raise("task") /\ life' = life
    <3>1. app'.once = app.once /\ app'.ran = app.ran
      BY <2>4, RaiseKeeps DEF IInv, Cause
    <3> QED BY <1>2, <2>1, <2>4, <3>1, EscapeStep DEF Uncaught
  <2> QED BY <1>14, <2>2, <2>3, <2>4 DEF InitTheTask
<1>15. CASE CallTask
  BY <1>2, <1>15, TaskStep DEF CallTask, Runs
<1>16. CASE ThrowError
  <2>1. ~Idle /\ registry' = registry /\ sig' = sig /\ life' = life
    BY <1>16 DEF ThrowError, Runs
  <2>2. CASE Runs("throw") /\ Raise("signaling")
    BY <1>2, <2>1, <2>2, ErrorStep DEF Runs
  <2>3. CASE Runs("fail") /\ Raise("message")
    <3>1. app'.once = app.once /\ app'.ran = app.ran
      BY <2>3, RaiseKeeps DEF IInv, Cause
    <3> QED BY <1>2, <2>1, <2>3, <3>1, EscapeStep DEF Uncaught, Runs
  <2> QED BY <1>16, <2>2, <2>3 DEF ThrowError
<1> QED BY <1>4, <1>5, <1>6, <1>7, <1>8, <1>9, <1>10, <1>11, <1>12, <1>13, <1>14, <1>15, <1>16
        DEF Statement

LEMMA ApplicationStep ==
  ASSUME IInv, Application, role' = role
  PROVE  IInv'
<1>1. sig \in SigType /\ life \in LifeType /\ app \in AppType
      /\ role \in {NoRole, "initiator", "responder"}
  BY Typed DEF IInv
<1>2. CASE \E f \in Functions : On(f)
  <2>1. app' = [app EXCEPT !.calls = @ + 1] /\ sig' = sig /\ life' = life
    BY <1>2 DEF On, Called
  <2>2. app' \in AppType
    BY <1>1, <2>1 DEF AppType
  <2>3. Variables'
    BY <1>1, <2>1, <2>2, Typed
  <2> QED BY <1>2, <2>3, OnStep DEF IInv, Situation
<1>3. CASE \E f \in Functions : Once(f)
  <2>1. app' = [app EXCEPT !.calls = @ + 1, !.once = @ + 1] /\ app.once < MaxOnce
        /\ sig' = sig /\ life' = life
    BY <1>1, <1>3 DEF Once, Called, AppType
  <2>2. app' \in AppType
    <3>1. app.calls + 1 \in Nat /\ app.once + 1 \in 0 .. MaxOnce
      BY <1>1, <2>1, BoundsAssumption DEF AppType
    <3> QED BY <1>1, <2>1, <3>1 DEF AppType
  <2>3. Variables'
    BY <1>1, <2>1, <2>2, Typed
  <2> QED BY <1>3, <2>3, OnceStep DEF IInv, Situation
<1>4. CASE Off
  <2>1. app' = [app EXCEPT !.calls = @ + 1] /\ sig' = sig /\ life' = life
    BY <1>4 DEF Off, Called
  <2>2. app' \in AppType
    BY <1>1, <2>1 DEF AppType
  <2>3. Variables'
    BY <1>1, <2>1, <2>2, Typed
  <2> QED BY <1>4, <2>3, OffStep DEF IInv, Situation
<1>5. CASE Connect
  <2>1. /\ app' = [app EXCEPT !.calls = @ + 1] /\ sig' = [sig EXCEPT !.used = TRUE]
        /\ life' = life /\ registry' = registry
    BY <1>5 DEF Connect, Called
  <2>2. app' \in AppType /\ app'.once = app.once /\ app'.ran = app.ran
    BY <1>1, <2>1 DEF AppType
  <2>3. sig' \in SigType
    BY <1>1, <2>1 DEF SigType
  <2>4. Variables'
    BY <1>1, <2>1, <2>2, <2>3, Typed
  <2> QED BY <1>5, <2>1, <2>2, <2>4, ConnectStep, ListsKept DEF IInv, Situation
<1>6. CASE \E unbind \in BOOLEAN : Disconnect(unbind)
  <2>1. /\ \E a, b \in BOOLEAN : app' = [app EXCEPT !.calls = @ + 1, !.left = a, !.within = b]
        /\ registry' = registry /\ sig' = sig /\ life' = life
    <3>1. app' = [app EXCEPT !.calls = app.calls + 1, !.left = app.left \/ sig.socket # "none",
                             !.within = app.within \/ InHandler]
      BY <1>1, <1>6 DEF Disconnect, Called, AppType
    <3>2. (app.left \/ sig.socket # "none") \in BOOLEAN /\ (app.within \/ InHandler) \in BOOLEAN
      BY Zenon
    <3>3. \E a, b \in BOOLEAN : app' = [app EXCEPT !.calls = app.calls + 1, !.left = a, !.within = b]
      BY <3>1, <3>2, Zenon
    <3> QED BY <1>6, <3>3 DEF Disconnect
  <2>2. app' \in AppType /\ app'.once = app.once /\ app'.ran = app.ran
    <3>1. PICK a \in BOOLEAN, b \in BOOLEAN :
            app' = [app EXCEPT !.calls = @ + 1, !.left = a, !.within = b]
      BY <2>1
    <3>2. app.calls + 1 \in Nat
      BY <1>1 DEF AppType
    <3> QED BY <1>1, <3>1, <3>2 DEF AppType
  <2>3. Variables'
    BY <1>1, <2>1, <2>2, Typed
  <2> QED BY <1>6, <2>1, <2>2, <2>3, DisconnectStep, ListsKept DEF IInv, Situation
<1> QED BY <1>2, <1>3, <1>4, <1>5, <1>6 DEF Application

LEMMA EnvironmentStep ==
  ASSUME IInv, Environment \/ OnClose, role' = role
  PROVE  IInv'
<1>1. Variables'
  BY DEF IInv, Variables, Environment, OnOpen, OnError, OnMessage, TaskHandsOver, TaskReceives, OnClose
<1>2. Statements(stack)' /\ Situation' /\ HandlersStay
  BY SocketStep, MessageStep, HandoverStep, ReceiptStep DEF Environment
<1>3. registry' = registry /\ app' = app
  BY DEF Environment, OnOpen, OnError, OnMessage, TaskHandsOver, TaskReceives, OnClose
<1>4. Lists' /\ Wrappers'
  BY <1>2, <1>3, ListsKept
<1> QED BY <1>1, <1>2, <1>4 DEF IInv, Situation

LEMMA Initially ==
  ASSUME Init
  PROVE  IInv
<1>1. /\ registry = [e \in Event |-> <<>>] /\ stack = <<>> /\ role = NoRole
      /\ sig = [state |-> "new", hs |-> "new", ws |-> FALSE, socket |-> "none", code |-> 0,
                local |-> FALSE, peer |-> FALSE, used |-> FALSE]
      /\ life = [set |-> FALSE, told |-> FALSE, closed |-> FALSE]
      /\ app = [calls |-> 0, once |-> 0, ran |-> {}, left |-> FALSE, within |-> FALSE,
                escaped |-> {}]
  BY DEF Init, InitBuilder, EmptyRegistry
<1>2. Statements(stack) /\ Waiting = {} /\ Idle
  BY <1>1, ShortStatements, Elements DEF Waiting, Idle
<1>3. \A d : ~Waits(d)
  BY <1>2 DEF Waits
<1>4. Variables
  BY <1>1, BoundsAssumption DEF Variables, SignalingState
<1>5. Lists /\ \A ev \in Event : ToSet(registry[ev]) = {}
  <2>1. <<>> \in Seq(Handler) /\ Distinct(<<>>) /\ ToSet(<<>>) = {}
    BY Elements DEF Distinct
  <2> QED BY <1>1, <2>1 DEF Lists
<1>6. Wrappers
  BY <1>1, <1>2, <1>5 DEF Wrappers
<1>7. Connection
  BY <1>1, <1>2, <1>3 DEF Connection
<1>8. Sending /\ Entering /\ Working /\ Leaving
  BY <1>1, <1>2, <1>3 DEF Sending, Entering, Working, Leaving
<1> QED BY <1>2, <1>4, <1>5, <1>6, <1>7, <1>8 DEF IInv

LEMMA Preserved ==
  ASSUME IInv, [Next]_vars
  PROVE  IInv'
<1>1. CASE Builds
  <2>1. Statements(stack)' /\ Situation' /\ HandlersStay /\ role' \in {NoRole, "initiator", "responder"}
    BY <1>1, BuildStep
  <2>2. registry' = registry /\ sig' = sig /\ life' = life /\ app' = app
    BY <1>1 DEF Builds
  <2>3. Variables'
    BY <2>1, <2>2 DEF IInv, Variables
  <2> QED BY <2>1, <2>2, <2>3, ListsKept DEF IInv, Situation
<1>2. CASE Statement /\ UNCHANGED builderVars
  BY <1>2, StatementStep DEF builderVars
<1>3. CASE Application /\ UNCHANGED builderVars
  BY <1>3, ApplicationStep DEF builderVars
<1>4. CASE (Environment \/ OnClose) /\ UNCHANGED builderVars
  BY <1>4, EnvironmentStep DEF builderVars
<1>5. CASE UNCHANGED vars
  <2>1. /\ stack' = stack /\ sig' = sig /\ life' = life /\ role' = role /\ app' = app
        /\ registry' = registry
    BY <1>5 DEF vars
  <2>2. Statements(stack)' /\ Situation' /\ Waiting' = Waiting
    BY <2>1, Unmoved
  <2>3. HandlersStay
    BY <2>2 DEF HandlersStay
  <2> QED BY <2>1, <2>2, <2>3, ListsKept DEF IInv, Situation, Variables
<1> QED BY <1>1, <1>2, <1>3, <1>4, <1>5 DEF Next

(* Whatever the application registers and calls, in and out of handlers,   *)
(* and whatever the other side and the WebSocket do, the invariant holds.  *)
THEOREM InvariantHolds == Spec => []IInv
<1>1. Init => IInv
  BY Initially
<1>2. IInv /\ [Next]_vars => IInv'
  BY Preserved
<1> QED BY <1>1, <1>2, PTL DEF Spec

-----------------------------------------------------------------------------
(* What the invariant says of the handlers.                                *)

LEMMA ListsAreShort ==
  ASSUME NEW s \in Seq(Handler), Distinct(s)
  PROVE  Len(s) \in 0 .. Cardinality(Handler)
<1>1. IsFiniteSet(Handler) /\ Cardinality(Handler) \in Nat
  <2>1. IsFiniteSet(0 .. MaxOnce)
    BY BoundsAssumption, FS_Interval
  <2>2. IsFiniteSet(Functions \X (0 .. MaxOnce))
    BY <2>1, BoundsAssumption, FS_Product
  <2> QED BY <2>2, FS_CardinalityType DEF Handler
<1>2. Len(s) \in Nat /\ DOMAIN s = 1 .. Len(s) /\ s \in [1 .. Len(s) -> Handler]
  OBVIOUS
<1>3. IsFiniteSet(1 .. Len(s)) /\ Cardinality(1 .. Len(s)) = Len(s)
  BY <1>2, FS_Interval
<1>4. ASSUME Cardinality(Handler) < Len(s) PROVE FALSE
  <2>1. \E i, j \in 1 .. Len(s) : i # j /\ s[i] = s[j]
    BY <1>1, <1>2, <1>3, <1>4, FS_PigeonHole
  <2> QED BY <1>2, <2>1 DEF Distinct
<1> QED BY <1>1, <1>2, <1>4

(* Every handler of a list is of the application, and no list grows beyond *)
(* the handlers there are: register() adds none twice.                     *)
THEOREM TypesHold == Spec => []TypeOK
<1>1. ASSUME IInv PROVE TypeOK
  <2>1. registry \in [Event -> UNION {[1 .. n -> Handler] : n \in 0 .. Cardinality(Handler)}]
    <3>1. registry \in [Event -> Seq(Handler)] /\ \A ev \in Event : Distinct(registry[ev])
      BY <1>1 DEF IInv, Lists
    <3>2. ASSUME NEW ev \in Event
          PROVE  registry[ev] \in UNION {[1 .. n -> Handler] : n \in 0 .. Cardinality(Handler)}
      <4>1. registry[ev] \in Seq(Handler) /\ Distinct(registry[ev])
        BY <3>1
      <4>2. Len(registry[ev]) \in 0 .. Cardinality(Handler)
        BY <4>1, ListsAreShort
      <4>3. registry[ev] \in [1 .. Len(registry[ev]) -> Handler]
        BY <4>1
      <4> QED BY <4>2, <4>3
    <3> QED BY <3>1, <3>2
  <2>2. ASSUME NEW k \in DOMAIN stack, stack[k].do = "handler" PROVE stack[k].h \in Handler
    <3>1. stack[k] \in Frame
      BY <1>1 DEF IInv, Statements
    <3> QED BY <2>2, <3>1 DEF Frame, CallsFrame, PlainDo
  <2>3. sig.state \in SignalingState
        /\ sig.socket \in {"none", "connecting", "open", "closing", "failed", "closed"}
        /\ {sig.ws, sig.local, sig.peer, sig.used, life.set, life.told, life.closed} \subseteq BOOLEAN
        /\ app.escaped \subseteq Cause
    BY <1>1 DEF IInv, Variables
  <2> QED BY <2>1, <2>2, <2>3 DEF TypeOK
<1> QED BY <1>1, InvariantHolds, PTL

(* emit() has called each handler of its copy of the list once when it is  *)
(* over, whatever the handlers did.                                        *)
THEOREM EachIsCalledOnce == Spec => EachHandlerOnce
<1> DEFINE Whole ==
      Runs("calls") /\ Len(stack') < Len(stack) =>
        /\ Head(stack).called = Head(stack).due
        /\ \A i, j \in DOMAIN Head(stack).called :
             Head(stack).called[i] = Head(stack).called[j] => i = j
<1>1. ASSUME IInv, [Next]_vars PROVE [Whole]_vars
  <2> SUFFICES ASSUME Runs("calls"), Len(stack') < Len(stack)
               PROVE  /\ Head(stack).called = Head(stack).due
                      /\ \A i, j \in DOMAIN Head(stack).called :
                           Head(stack).called[i] = Head(stack).called[j] => i = j
    OBVIOUS
  <2> DEFINE frame == Head(stack)
  <2>1. Statements(stack) /\ stack # <<>> /\ stack \in Seq(Frame)
    BY <1>1 DEF IInv, Statements, Runs, Idle
  <2>2. /\ frame.do = "calls" /\ frame.due \in Seq(Handler) /\ frame.called \in Seq(Handler)
        /\ Distinct(frame.due) /\ Len(frame.called) <= Len(frame.due)
        /\ \A i \in DOMAIN frame.called : frame.called[i] = frame.due[i]
    <3>1. frame \in Frame /\ frame.do = "calls"
      BY <2>1, TailStatements DEF Runs
    <3> QED BY <3>1 DEF Frame, CallsFrame, PlainDo
  <2>3. EndEmit
    <3>1. stack' # stack
      BY <2>1
    <3>2. CASE Statement
      <4>1. CallHandler \/ EndEmit
        BY <2>2, <3>2 DEF Statement, Runs, SetState, StartEmit, Return, InHandler, CloseWebsocket, RenewServer,
               OpenWebsocket, SendPacket, SendThroughTask, AdvanceHandshake, InitTheTask, CallTask,
               ThrowError, EndBlock
      <4>2. ~CallHandler
        <5>1. Tail(stack) \in Seq(Frame) /\ Len(Tail(stack)) = Len(stack) - 1 /\ Len(stack) \in Nat
          BY <2>1
        <5>2. ASSUME CallHandler PROVE Len(stack') = 2 + Len(Tail(stack))
          <6>1. PICK a, b : stack' = <<a, b>> \o Tail(stack)
            BY <5>2 DEF CallHandler, Then
          <6>2. <<a, b>> \in Seq({a, b}) /\ Len(<<a, b>>) = 2
            OBVIOUS
          <6>3. stack' \in Seq(Frame \cup {a, b})
                /\ Len(<<a, b>> \o Tail(stack)) = Len(<<a, b>>) + Len(Tail(stack))
            <7>1. <<a, b>> \in Seq(Frame \cup {a, b}) /\ Tail(stack) \in Seq(Frame \cup {a, b})
              BY <5>1
            <7> QED BY <6>1, <7>1, ConcatProperties
          <6> QED BY <6>1, <6>2, <6>3
        <5> QED BY <5>1, <5>2
      <4> QED BY <4>1, <4>2
    <3>3. ~Idle /\ ~InHandler /\ ~AppRuns
      BY <2>1, <2>2 DEF Idle, InHandler, Runs, AppRuns
    <3>4. ~Application
      BY <3>3 DEF Application, MayCall, On, Once, Off, Connect, Disconnect
    <3>5. ~Environment /\ ~OnClose
      BY <3>3 DEF Environment, OnOpen, OnError, OnMessage, TaskHandsOver, TaskReceives, OnClose
    <3>6. ~Builds /\ ~UNCHANGED vars
      BY <3>1 DEF Builds, vars
    <3> QED BY <1>1, <3>2, <3>4, <3>5, <3>6 DEF Next
  <2>4. Len(frame.called) = Len(frame.due)
    <3>1. Remaining(frame) = <<>>
      BY <2>3 DEF EndEmit
    <3> HIDE DEF frame
    <3> QED BY <2>2, <3>1, Leftover
  <2> HIDE DEF frame
  <2>5. frame.called = frame.due
    BY <2>2, <2>4, SeqEqual
  <2>6. \A i, j \in DOMAIN frame.called : frame.called[i] = frame.called[j] => i = j
    BY <2>2, <2>5 DEF Distinct
  <2> QED BY <2>5, <2>6 DEF frame
<1>2. IInv /\ [Next]_vars => [Whole]_vars
  BY <1>1
<1>3. Spec => [][Whole]_vars
  BY <1>2, InvariantHolds, PTL DEF Spec
<1> QED BY <1>3 DEF EachHandlerOnce

(* A wrapper that has run has removed itself once the code has come to its *)
(* end, whatever its handler has registered, removed or thrown.            *)
THEOREM WrappersGoAway == Spec => []OnceGone
<1>1. ASSUME IInv PROVE OnceGone
  <2> SUFFICES ASSUME Idle, NEW ev \in Event, NEW h \in Handler, <<ev, h>> \in app.ran,
                      NEW k \in DOMAIN registry[ev], registry[ev][k] = h
               PROVE  FALSE
    BY DEF OnceGone
  <2>1. Waiting = {}
    BY <1>1, IdleIsEmpty DEF IInv
  <2>2. h \in ToSet(registry[ev])
    BY DEF ToSet
  <2>3. <<ev, h>>[2] \in ToSet(registry[<<ev, h>>[1]]) => Running(ev, h) \in Waiting
    BY <1>1 DEF IInv, Wrappers
  <2> QED BY <2>1, <2>2, <2>3
<1> QED BY <1>1, InvariantHolds, PTL

-----------------------------------------------------------------------------
(* What the invariant says of the connection and the task.                 *)

(* The application finds a channel to send through in state `task`,        *)
(* between two events and in each of its handlers.                         *)
THEOREM SendingAlwaysWorks == Spec => []SendingWorks
<1>1. ASSUME IInv PROVE SendingWorks
  BY <1>1 DEF IInv, Working, SendingWorks, AppRuns, InHandler, Idle, Runs, LeavesTask
<1> QED BY <1>1, InvariantHolds, PTL

(* What leaves a listener of the WebSocket was raised by a message or by   *)
(* the task; by a send only if the application disconnected within it.     *)
THEOREM NothingStrays == Spec => []NoStrayException
<1>1. IInv => NoStrayException
  BY DEF IInv, Sending, NoStrayException
<1> QED BY <1>1, InvariantHolds, PTL

(* The task of an initiator is told of the end of the handshake, and the   *)
(* task of whoever disconnects is closed.                                  *)
THEOREM TaskIsNotified == Spec => []TaskNotified
<1>1. ASSUME IInv PROVE TaskNotified
  BY <1>1, Settled DEF TaskNotified
<1> QED BY <1>1, InvariantHolds, PTL

=============================================================================
