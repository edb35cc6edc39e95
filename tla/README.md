# A verification development for saltyrtc-client-js

TLA+ models of the signaling client in `src/src/`, TLC configurations that check
them on small instances, and theorems that TLAPS proves for every instance.
Paths below are relative to `src/src/`.

## 1. The system

A SaltyRTC *path* connects one initiator with one of up to 254 responders
through a signaling server. Every client first runs a handshake with the server
(`server-hello`, `client-hello`, `client-auth`, `server-auth`), which gives it
an address: 0 is the server, 1 the initiator, 2 to 255 a responder. Then
initiator and responder run a handshake of their own (`token`, `key`, `key`,
`auth`, `auth`), relayed by the server, which ends with both in state `task`.
There a *task* (an object of the application) takes over and may later move the
traffic to a channel of its own (*handover*), after which the WebSocket is closed.

| Component | State | Operations | Talks to | Must hold |
|---|---|---|---|---|
| `signaling/common.ts` Signaling | `state`, `ws`, `neverConnected`, `server`, `address`, `task`, `handoverState` | `connect`, `disconnect`, `onOpen`/`onError`/`onClose`/`onMessage`, `resetConnection`, `sendApplication`, `sendClose` | WebSocket events; the role class; the task; the event emitter | state and socket agree; no second handshake; only valid nonces are processed |
| `signaling/initiator.ts` | `responders`, `responderCounter`, `responder` | one handler per message of the server and of a responder; `dropResponder(s)` | server, up to 252 responders at once | one chosen responder; bounded map; nobody forgotten |
| `signaling/responder.ts` | `initiator` | one handler per message; `initPeerHandshake` | server, one initiator, replaced by `new-initiator` | speaks iff there is an initiator; starts over for a new one |
| `peers.ts`, `cookie.ts` | CSN pair, cookie pair, keys, `handshakeState` | setters | owned by the above | cookies differ; one object per peer |
| `csn.ts`, `nonce.ts` | sequence and overflow number | `next`, `toUint8Array`, `fromUint8Array` | `buildPacket`, `validateNonceCsn` | no nonce twice; old packets refused, new ones accepted |
| `signaling/handoverstate.ts` | `local`, `peer` | setters, `reset`, `onBoth` | set by the task; closes the WebSocket | both sides agree |
| `closecode.ts`, `signaling/helpers.ts` | – | constants, `isResponderId` | | |
| `client.ts` SaltyRTCBuilder | host, factory, key store, keys, tasks | `connectTo`, `connectWith`, `with*`, `usingTasks`, `initiatorInfo`, `asInitiator`, `asResponder` | application, factory | a client is only built from a complete configuration |
| `client.ts` SaltyRTC | the signaling object, the registry | `connect`, `disconnect`, `on`/`once`/`off`, `emit` | application; called by signaling in the middle of its handlers | each handler once per event; `disconnect` is final |
| `eventregistry.ts` | map of handlers | `register`, `unregister`, `unregisterAll`, `get` | `client.ts` | a copy is emitted, so that handlers may change the list |
| tasks (of the application) | set, told, closed | `init`, `onPeerHandshakeDone`, `onTaskMessage`, `close`; call back `sendTaskMessage`, `resetConnection`, `handoverState` | signaling | never left open, told when it may start |
| `keystore.ts` | keys | `encrypt`, `decrypt` | all of the above | taken as ideal cryptography |
| `exceptions.ts` | – | kinds of errors | the `catch` of `onMessage` | each kind ends as documented |
| `utils.ts`, `log.ts`, `main*.ts` | – | conversions, console, exports | | |

Everything runs on one event loop, so a handler is atomic; what is hard is the
order of handlers. Messages of several responders interleave on one initiator;
requests to drop a responder cross with messages from it; a new initiator
replaces the old one while answers are under way; the connection breaks, the
application disconnects, or the task hands over between any two messages; the
close event of a WebSocket arrives long after `close()`. And a handler is not
quite atomic: wherever it emits an event, handlers of the application run in the
middle of it and may call `connect`, `disconnect`, `on` or `off`. `PROJECT.json` lists the
hazards with the line where each of them bites.

## 2. The modules

```
Signaling ──┬── Initiator ──┬── InitiatorAlone ── MCInitiatorAlone
            │               │         └────────── InitiatorProofs
            ├── Responder ──┼── ResponderAlone ── MCResponderAlone
            │               │         └────────── ResponderProofs
            │               └── Path ──────┬───── MCPath
            │                     │        └───── PathProofs ── PathOrderProofs
            │                     └ implements ── Session ── SessionProofs
            └── SignalingProofs (used by InitiatorProofs, ResponderProofs and PathProofs)
Builder ────┬── Client ──┬── MCClient
EventRegistry ┘          └── ClientProofs
CombinedSequence ── CombinedSequenceProofs
```

**Signaling** is what both roles share. Every variable is a function of the
client. `conn[c]` is the record of `state`, `ws` (is it null), `used` (not
`neverConnected`), the ready state of the socket, the close code, and how often
`connection-closed` was emitted; `srv[c]` is the `Server` object; `inbox[c]` and
`outbox[c]` are the frames on the WebSocket. The nonce checks are predicates
(`SourceAccepted`, `DestinationAccepted`, `CsnAccepted`, `CookieAccepted`), in
the order in which the code makes them, and a CSN is stored as soon as it has
been validated, whatever follows (`StoreCsn`).

**Initiator** and **Responder** have one action per branch of
`onPeerHandshakeMessage`, `onServerHandshakeMessage` and `onSignalingMessage`,
the error branches included; `InitiatorOnMessage(i)` and `ResponderOnMessage(r)`
are their disjunction, guarded by what `onMessage` tests first. An error is not
a value but the disjunct of the handler that throws it, with the effect of the
`catch` clause for the state the client is in: reset in the server handshake;
`drop-responder` (initiator) or reset (responder) in the peer handshake;
`close` and reset in state `task`. A `CryptoError` that the code rethrows leaves
everything but the CSN as it was; that it leaves the listener is in Client.

**InitiatorAlone** and **ResponderAlone** are one client in an environment that
sends anything: every type of message from every address, correct, or wrong in
one respect (destination, CSN, cookie, key, content), and close frames. This
is where every error path is exercised.

**Path** puts initiators and responders on one path over a server, which is
external: it is modelled from what `src/` sends it and expects of it. Each
client has a FIFO stream in each direction, read at its own pace, so that
everything that can be in flight is.

**Session** is the abstract specification of a path: no server, no packets, no
keys in flight. An initiator opens one session for one responder with a key that
nobody has, that responder alone enters it and gets the same key and task, and
everybody may leave for good at any time. Path implements it (`KeepsPromise`) under
this mapping: a client is *idle* until state `task`, *in session* there, and *over*
once an instance that was connected is `new`, `closing` or `closed` again (`Stage`); the
session an initiator opened is read off its chosen responder, the one a responder
entered off an initiator whose auth it has received (`SessionOf`); who takes part is
read off the two halves of the session key (`Holder`). Neither is ever taken back.
`SessionsSettle` is the liveness of Session, checked of Path through the same mapping.

**Builder** is `SaltyRTCBuilder` reduced to which calls were made, in any order, and whether
`asInitiator` or `asResponder` can build a client then. **EventRegistry** has the
operators of the class of that name, on functions from events to sequences.

**Client** is one client as its application sees it, with the control flow the other
modules leave out: what happens *inside* a handler. The call stack is explicit. It holds
statements (`set` the state, `emit`, `close` the WebSocket, send, call the task, ...),
and a step runs one of them, so that a handler of the application finds exactly
the state in which the code emits, and whatever it calls runs to its end before the
interrupted code goes on. `ConnectBody`, `DisconnectBody`, `ResetConnection` and the
bodies of the message handlers (`ServerAuth`, `PeerHandshake...`, `FromPeer`, ...) are
the lists of statements of those methods in the order of the code. `Raise` unwinds
the stack to the `try` block around it: that of `onMessage` handles a SignalingError
as its `catch` clause does (`Reaction`), that of a call of the task is the task's own.
Anything else leaves the listener, and `app.escaped` keeps what it was raised by (`Cause`):
`Fail` stands for the messages whose error `onMessage` rethrows (`common.ts:389-395`).
These are a frame too short to be parsed, a box of the server or of the peer that does not
decrypt where nothing converts the `CryptoError` (`common.ts:413`, `468`;
`initiator.ts:257`), and a message of a responder during the server handshake, when
`responders` is still null (`initiator.ts:95`).
A wrapper made by `once` is a handler of its own, which the application cannot name.

**CombinedSequence** is the encoding of the numbers that Signaling takes as
natural numbers growing by one: two fields, a random start, the wrap, the 16 bit
overflow field on the wire, and `validateNonceCsn`. `NonceUnique` and
`FreshIffNewer` are what justifies that abstraction.

### Abstractions

- A cookie and a session key are named by the peer object they were created for
  (`<<client, n>>`); cookies are therefore never equal by chance. A box opens with
  exactly the key it was closed with. Initiators of one path share a permanent
  key, as replacing an initiator requires.
- The key message of the server (`signed_keys`) and the checks of keys by the
  server are not modelled; `server-auth` is right or wrong as a whole.
- The CSN and the address after a reset, which nothing reads any more, are kept.
- `handleServerAuth` of the initiator stores a list of responders one by one;
  the model has the result in closed form (all of them are new, so the oldest go
  first). The code assigns the address before the last checks of a message that
  it then refuses; that address is never used, and not modelled. The list never
  holds an invalid address or one twice.
- Of the methods of a task only `init` is assumed to throw: a `ValidationError`, which becomes
  a ProtocolError, or anything else, which `initTask` rethrows.
- A task is external: it reports its handover in a task message and sets
  `handover.local`. `sendApplication` after that uses the channel of the task and
  is not part of the model.
- In Initiator, Responder and Path handlers of the application do not call back;
  what they can do in the middle of a handler is the subject of Client, which in
  turn reduces a message to the statements it makes the client run: keys, numbers and
  peers are not in it. Messages that neither throw nor emit nor change anything are left out of Client,
  and so are `getTask`, `encryptForPeer` and other getters.
- What the builder passes on - hosts, keys, token, ping interval, log level - is left out, and with
  it how the path and the key given to the server factory are chosen (`client.ts:246-263`).
- After `close()` a WebSocket dispatches no message; its close event carries the
  code or 1006. The server itself never closes with code 3003.

## 3. What TLC checks

Every bound is a constant of the module and named there.

| Run | What it asks | Bounds |
|---|---|---|
| `initiator_alone` | Initiator without trusted key against everything: socket and state agree; one chosen responder with its own key and cookie; at most `Limit` responders, only the oldest inactive one makes room, none forgotten; no packet handled twice, no nonce used twice; the task announced is a common one; no second handshake | 3 addresses and `Limit` 2, so that there is a responder to evict and one to drop after the handshake; 4 messages accepted per responder, enough for token, key, auth and one more; 3 from the server; about 615 000 states |
| `responder_alone` | the same for a responder, with new initiators | 2 addresses, 4 server and 3 initiator messages |
| `path_leave` | one initiator, two responders; one responder disconnects and the initiator's connection breaks at any point or not at all: sessions match in key and task; the path implements Session; the chosen one is kept; no client is reset by an error, in state `task` neither, and a handshake completes, as long as nobody left (`NobodyLeft`); nobody waits forever while there is an initiator | application messages up to 3 packets per peer; each leaves at most once: instances are not reused; 177 000 states |
| `path_takeover` | two initiators with a token each replace each other at any point, two responders with a token of one of them compete for the address (so the path can be full): sessions only with the holder of the token; the path implements Session, a session that was opened is entered or left, nobody waits | two initiators: each replaces the other at most once; one address; 74 000 states |
| `path_handover` | with a trusted key, both tasks hand over in any order while messages are sent: the flags agree, nothing of the peer is late, both sockets close with code 3003 | 5 packets per peer |
| `client` | any builder, one client, and an application that calls it from outside and from inside its handlers: every handler of an event runs once; in state `task` sending works; what leaves a listener was raised by a message or by the task, or by a send after the application disconnected within it; a `once` wrapper is gone; the task is told and closed; `disconnect()` is final | handlers for `state-change` and `new-responder`, the events emitted in the middle of code that goes on; 1 function, 1 `once`, 3 calls of the application: register, and two calls from within (one inside the other); 1 021 000 states |
| `csn` | nonces are unique and new packets are accepted until the overflow number outgrows its field | numbers 0..3, field of 2 values, maximum 4: the ratio of the maximum to the field is beyond 1 as in the code |

Five runs show what a comment, a log message or the change log says and the code does not
do; see `findings` in `PROJECT.json`:

- `reset_unbinds`: the WebSocket listeners are never removed.
- `disconnect_close`: no close message is sent on disconnect.
- `trusted_bound`: with a trusted key nobody is evicted.
- `overflow_width`: `OVERFLOW_MAX` is 20 bits wide, the field 16.
- `once_regular`: a function that was registered with `on` is not removed when it has
  run as the handler of a `once` (`client.ts:502-503` says it is): the wrapper is another
  function, and removes only itself.

`NobodyReset` looks at resets and not at close codes alone: an error in state `task` closes
with `ClosingNormal` (`common.ts:376-379`), so that its code tells nothing, but the state is
`new` again. `NonceNeverReused` asks that a number is above the counter of the peer object
before the step, and that the counter has got there after it: a packet that is sent
and not counted would be followed by another one with its number.

Deadlock is not checked in any run: an instance stops for good when its only
connection is closed (and a sender of `csn` when it has sent its packets).

**Fairness** (`FairSpec` of Path): weak fairness of each client's message
handler, its open and close events and of the server reading its stream, since
an event loop and a server get to what is waiting; of `connect()`, which every
application calls; and of `HandOver` for tasks that can. `Leaves` and `Sends` have
none. Weak fairness suffices: what is waiting stays until it is handled.
`FairSpec` of Client: a call runs to its end, handlers included (the application's
handlers are finite because its calls are), and a WebSocket that was closed or
that failed gets its close event, as browsers guarantee. Nothing else is fair: no
message need arrive and no application need call.

**Also seen while modelling**, in the model but without a run of their own:

- What `onMessage` reports as a message "from peer even though it has already
  handed over" (`common.ts:308-313`) may be one of the server. When another responder joins
  while the initiator has not handed over yet, `new-responder` resets a session in which
  both sides did everything right.
- A message of the server with an error during the peer handshake makes the
  initiator send `drop-responder` with id 0 (`initiator.ts:107-112`).
- A message whose source is another responder resets a responder instead of
  being discarded (`responder.ts:84-92` throws before `common.ts:660-663`).
- A key or auth message for a replaced initiator reaches the new one, which
  drops the responder: everybody is correct, and yet somebody is refused.
- `disconnected` during the peer handshake does not remove the responder
  (`common.ts:634-636`); its address is cleared by the next `new-responder`.
- A sender whose random start is 2^32 - 1 is refused by its peer
  (`common.ts:753-754`); after the overflow error `next()` goes on.
- A task has been initialised when a responder is refused for repeating our
  cookie (`initiator.ts:447-484`, `responder.ts:383-418`).
- Only the initiator calls `task.onPeerHandshakeDone` (`initiator.ts:293`); the task of
  a responder is never told (`responder.ts:165`), though `saltyrtc-client.d.ts:169`
  documents the call for tasks in general. `TaskNotified` asks it of initiators.
- The call comes after the handlers of `state-change:task` have run, also if one of
  them disconnected: the task may be told of a handshake after it was closed.
- The wrapper of `once` removes itself after its handler (`client.ts:506-514`), so it
  runs again when the event is emitted inside that handler:
  `once('state-change', () => client.disconnect())` calls `disconnect` again and
  again until the stack overflows. `MaxCalls` cuts that off. With several events
  it runs once for each of them.
- `disconnect()` in a handler of the state changes that `connect()` emits before it
  has a WebSocket is lost: `connect()` goes on and opens one. Hence `LeavesForGood`
  counts calls made once there is a socket.
- `disconnect()` in a handler in the middle of a listener leaves the code after it
  without a WebSocket. A packet sent then is a TypeError that leaves the listener
  (`NoStrayException` excepts it), and a state assigned then stays until the close
  event: after `disconnect()` in a handler of `new-responder` during `server-auth` the
  state is `peer-handshake`, with no connection.
- `state-change:X` is emitted after the handlers of `state-change`, with the state it
  was called for, even if one of them has changed the state.
- A client that answers an error in state `task` with a close message does not close
  its task (`common.ts`, a TODO there).

## 4. What is proved

Theorems are in the modules named `...Proofs`; each EXTENDS the module it is about.
They hold for every value of the constants under the named ASSUMEs of those
modules, and their argument is always the same: a strengthening `IInv` of the
invariant holds initially, is preserved by every action, and implies what the
theorem says. `theorems` in `PROJECT.json` lists them.

**CombinedSequenceProofs**, assuming only that the two fields hold at least one
value each and the receiver's "none yet" is not a number (`CsnAssumption`):
`TypeCorrect`, `UniqueNonces` (no nonce is used twice before the overflow number
outgrows its field, from every random start) and `AcceptsTheNew` (a packet is
accepted exactly if it is newer than all accepted before). `NonceUnique` is not
inductive, since it says nothing of the number the sender will use next. `IInv` adds
`Ascending` (the combined numbers of the packets increase, and the sender's own
is at least the last of them) and `Remembered` (the receiver's number is that of
the last packet it accepted). What carries the proof is `NextRaises`: the wrap
raises the combined number, too.

**SignalingProofs** has no theorem of its own. It states once, for any client of
either role, what each operation of the connection does to `ConnInv` and
`ServerInv`, and how the outbox relates to what one step sends; the proofs of both
roles cite it.

- `ConnInv` strengthens `SocketInv`. That state and socket agree is not inductive
  without three facts about moments at which `SocketInv` says nothing: a socket
  that is connecting belongs to a client in `ws-connecting` (else `onOpen` could
  restart a handshake), one that is closing has a close code (which its
  close event then carries), and an instance that was never
  connected has no socket.
- `ServerInv` is the type of the `Server` object.
- `OutboxInv`: the outbox is a sequence, so that the packets of a step (`SentNow`) are
  those appended to it (`SentNowIs`).

**InitiatorProofs**, about InitiatorAlone for any set of initiators, addresses,
tasks and trusted keys and any `Limit`, under the assumptions of Signaling and
Initiator (roles are disjoint, addresses are finitely many numbers above 1, "no
task" is not a task): `TypeCorrect`, `SocketsAgree` (`SocketInv`), `OneChosen`
(`ChosenInv`) and `NeverAgain` (`NoSecondHandshake`). Next to the two parts above
`IInv` has `PeerInv`, which strengthens `ChosenInv`: a Responder object in `key-sent`
holds a session key of its own (`Sessions`), which is what `handleAuth` passes on to
the chosen one; and nobody is chosen as long as the instance may still reach the
peer handshake (`Unchosen`), also before `connect()`. `InboxInv` says that a message
has the fields its type promises, which is proved of all that can arrive.

There is one lemma per handler, which also says that the handler leaves other
clients alone (`Apart`) and does not bring a connection back (`StaysDown`); the
error paths share `ResetStep` and `DropSourceStep`, all others `CalmStep`,
`MapStep` or `ChosenStep`. The choice of a task needs that a set of positions
has a smallest element (`Smallest`, from the well-foundedness of `<`).

It also has `NothingTwice` (`FreshCsnPerStep`): a responder's
handshake never advances on a message that was processed before. The property
compares the object at an address before and after a step, and addresses are
reused; so the proof needs to know which object is which. `NumberInv` says it: an
object knows its address, all have different numbers and none is above the counter,
so a new object is never mistaken for an old one. Every handler is
shown to make a step of one kind (`Moves`): objects go, advance or are added under a
new number, and the chosen one is one of those that were there.

The same module is about what one step sends: `NumbersUsedOnce`
(`NonceNeverReused`), `NobodyForgotten` (`NoResponderForgotten`) and `TaskOffered`
(`TaskIsCommon`). The numbers need two halves: what is sent is above the counter of the
object and within it after the step, and no step lowers the counter of an object
that stays. For every handler a lemma `...Sends` names the packets it appends,
and shows of them that their numbers are fresh (`Fresh`), that whoever left the map is
accounted for (`Accounts`), and that an announced task was offered (`Announces`). Next to
`OutboxInv` it needs `EarlyInv`: before the peer handshake no responder is known;
without it the new map of `server-auth` could forget somebody.
A packet is compared with the last number of the object at its *address*, so
`NumberInv` is needed again: the object it was built from is the one stored there.
`dropResponders` sends one request per responder in the order of the map;
that such an order exists and lists everyone exactly once is `OrderExists`, which maps
each responder to its rank and uses that an injection between finite sets of
the same size is a surjection.

And it has `AtMostLimit` (`BoundedResponders`), assuming that no initiator
has a trusted key: with one the bound does not hold, which is finding `trusted_bound`.
Of a new responder too many, somebody is evicted (`SomebodyGoes`, as the new one
itself has not started a handshake); of the list of `server-auth` the stored ones map
one to one to the last `Limit` positions; every other step shrinks the map.
`ActiveOnesStay` (`OnlyInactiveEvicted`) needs no such assumption: whoever leaves before
somebody is chosen is the one the message was about, or inactive and older than every
inactive one that stays.

**ResponderProofs**, about ResponderAlone for any responders, addresses, tasks,
tokens and random starts: `TypeCorrect`, `SocketsAgree`, `SessionComplete`
(`SessionInv`), `Greets` (`GreetedIfConnected`), `NeverAgain`, `NothingTwice` and
`NumbersUsedOnce` (`NonceNeverReused`).
`SessionInv` and `GreetedIfConnected` each speak of one state of the connection, and
what makes them true happened in an earlier one. `Partnered` therefore says what holds
of the initiator in every state: before the peer handshake nothing was said
(`Unspoken`, without which `handleServerAuth` could enter it with a greeting
already sent), in it the two agree about the greeting (`Greeting_OK`), and in `task`
the handshake is complete with the current object (`Complete`). For the numbers, what
each handler appends is `Counted`: numbered on, one by one, from what that object
sent last. A new Initiator object starts anywhere (`CsnStarts`), also below the old
one, and is safe because its cookie is new (`Follows`).

**SessionProofs** has `SessionsArePairs`, assuming only that "no session" is not one:
whoever entered a session shares it, its key and its task with the initiator that
opened it for this responder, and a key belongs to one session. What makes it
inductive is `IdleUnopened`: only who is idle opens, so no session is ever replaced
by another. Through `PathImplementsSession` it holds of Path (`PathPairs`).

**PathProofs**, about Path for any initiators, responders, addresses, tasks, trusted
keys and tokens, and any bounds: `Pairing` (`PairedInTask`), `Invitation` (`OnlyInvited`),
`HandoverAgreement` (`HandoverAgreed`), `PathImplementsSession` (`KeepsPromise`) and
`PathPairs`. Besides the assumptions of Signaling, Initiator, Responder and Path it uses
that "no peer" is none of the sessions the mapping makes (`SessionOf`).

The argument is about keys and what is said under them. It needs nothing of sequence
numbers, of cookies or of the order of arrival. `PathInv` says, next to `ConnInv`,

- of every Responder object that has got beyond `new`: whose permanent key it has, that
  this responder was invited, and that its session key is of this object and of an
  Initiator object that this responder has had (`ObjectOK`); the chosen one has, in
  addition, a task both want (`ChosenOK`);
- of every Initiator object: whose half its session key contains, and once it has received
  an auth, that an initiator has chosen this responder under that key (`ResponderOK`);
- of every frame in flight, in an inbox or an outbox, by the key it is encrypted with: who
  made it, and that it was true when it was sent (`ToResponder`, `ToInitiator`).

The last part is inductive because what a frame claims stays true (`Lasts`): a chosen
responder is not forgotten, an object number not given out again, a handover not undone.
Without it a frame that arrives after its sender has moved on could make its receiver
enter a session that nobody is in. That two clients with one session key are partners
is `OneSession`: a key is made of two halves, and each half is of one object.
For the refinement every step of a client is shown to be a step of one kind (`IStep`,
`RStep`): it opens, enters, ends, or changes nothing that the mapping reads.
`handleAuth` of the initiator is `Open`, that of the responder `Enter`; whatever takes a
client out of state `task`, or closes an instance before, is `End`.

**PathOrderProofs**, about Path for the same instances, is about the order that `PathInv`
leaves out: `ChosenOneIsKept` (`ChosenIsKept`), `NothingIsLate` (`NothingAfterHandover`) and
`NobodyIsMistaken`. A stream is read as the pairs of frames of which one follows the other
(`Follows`); reading, dropping and relaying make no new pairs but those of what was there
with what arrives. `OrderInv` says, next to `PathInv`,

- who sits where (`SeatsOK`): a responder has no address before `server-auth` and the one
  the server holds for it after it, and no address is held for two of them;
- that a key message comes from the address of its sender, and that an object in
  `key-sent` is kept under the address of the responder it shares its key with
  (`KeysSeated`, `ObjectsSeated`);
- that nothing from a responder comes before the message that announces it, so what an
  initiator knows under that address is of somebody else (`Newcomers`);
- that a request to drop a responder that completes the chosen one's key can stand only
  *before* the auth message that lets that responder into state `task` (`DropsFirst`);
- that what is said in a session is said by one of its two members (`OwnFrames`), and that a
  handover message is the last its sender says in it, in the stream it is sent on, in the one it
  is relayed to and after it was read (`HandoverLast`).

`ChosenIsKept` speaks of state `task` alone. It is not inductive because the request may be
sent, and the address given to another responder, long before anybody is chosen:
`DropsFirst` extends it back to that moment, and holds there because of `Newcomers`.
Likewise `NothingAfterHandover` starts when the message is handled, `HandoverLast` when it
is sent.

The steps of clients are shown to be of one kind, `Turn`: a client takes the first frame of
its stream, appends frames that it may say (`Says`), and is seated by `server-auth` or not at
all. Those of the server are `Serves`: it relays the frame it has read, or tells clients of its
own (`Made`), and at most one address changes hands (`Reseats`). `OrderInv` is proved
inductive once for each kind.

**ClientProofs**, about Client for any finite set of functions, any watched events and any
numbers of calls, so for an application that calls the client from within its handlers
to any depth: `TypesHold` (`TypeOK`), `EachIsCalledOnce` (`EachHandlerOnce`), `WrappersGoAway`
(`OnceGone`), `SendingAlwaysWorks` (`SendingWorks`), `NothingStrays` (`NoStrayException`),
and `TaskIsNotified` (`TaskNotified`). It assumes
`BoundsAssumption` (finitely many functions, the bound on `once` is a number) and
that only events that exist are watched.

The call stack has no bound, so the invariant cannot describe it place by place. Instead
`MayPrecede` says which statement may stand anywhere above which other one. Its heart
is that above a running handler there are only *calm* statements, those that the
application can start: nothing that sends, throws or enters state `task`. `RenewThenNew`
is the one thing said of neighbours: the renewed server is followed by state `new` at once.
Everything else speaks of the *set* of the statements that wait (`Waits`):

- `Wrappers`: a wrapper that has run is registered only as long as its handler waits to
  return, and numbers of wrappers are given out once. `OnceGone` follows when nothing waits.
- `Sending`: what sends or throws inside a listener finds a WebSocket, and nothing that
  closes it waits with it - unless the application has disconnected within a listener.
  A SignalingError finds a `try` block below it; the others leave (`EscapeStep`), and by
  then no handler runs, the task has been told, and no WebSocket is left to close.
- `Entering`: who is about to enter state `task` has a WebSocket, and an initiator
  will tell its task.
- `Working` strengthens `SendingWorks`, which says nothing of moments at which the application
  has no control: without WebSocket and channel, state `task` is left by the very next
  statement.
- `Leaving` strengthens `TaskNotified`: after `disconnect()` the WebSocket and the
  task are closed, or the statement that closes them still waits. It is the safety
  part of `LeavesForGood`.

A statement that only comes off the stack or calls handlers is `QuietStep`; a message or event
of the WebSocket starts from an empty stack, so all there is to know of it is which
statements it makes (`ListenerBodies`, `EventStep`). Lists of handlers have no repetitions
(`Lists`), which is why `unregister` removes all there is of a handler (`RemoveFirstOnce`),
and why they cannot outgrow the handlers there are.

**Only model-checked**:

- `NobodyReset` of Path. It is true of the configuration that checks it, not of all:
  with a replaced initiator, or a second responder during a handover, the code does
  reset or refuse correct clients (section 3). A theorem would have to assume such a configuration.
- Liveness under fairness (`LeavesForGood`, `SessionsSettle`, `NobodyWaits`,
  `HandshakeCompletes`, `HandoverCompletes`) is out of the prover's reach, and so is
  what depends on ENABLED.

## 5. Plan

Done: Signaling, Initiator, Responder and their open-system modules; Path;
CombinedSequence; Session and its refinement by Path; Builder, EventRegistry and
Client with the calls an application makes from within a handler, including what a
task is told; the theorems above, with the refinement of Session by Path, the order of its streams
and the invariants of Client among them.

Left:

1. `processNewResponder` folded over the list of `server-auth` against its closed form,
   as pure operators over all short lists.
2. `NobodyReset` as a theorem about paths with one initiator and nobody who hands over:
   it needs the numbers and cookies of every frame in flight, of which neither `PathInv`
   nor `OrderInv` says anything.

### Not modelled

- `utils.ts`, `log.ts`, `main.ts` and `main.es5.ts`: conversions of bytes and strings,
  console output and exports, without state.
- The inside of `keystore.ts` and the bytes of `cookie.ts`: random numbers and
  NaCl boxes. A model can only take cryptography as ideal, which is what Signaling
  does where a box is opened or a cookie compared.
