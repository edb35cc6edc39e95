--------------------------- MODULE EventRegistry ---------------------------
(***************************************************************************)
(* The map from events to handlers: class EventRegistry of                 *)
(* eventregistry.ts.  A registry is a function from events to sequences of *)
(* handlers; an event that is not in the map has the empty sequence.       *)
(* get of one event is the application of that function; the code never    *)
(* looks up several events at a time.                                      *)
(***************************************************************************)
EXTENDS SequencesExt

EmptyRegistry(events) == [e \in events |-> <<>>]

(* register, with `set`: at the end of the list of every event named.      *)
Register_Again(reg, events, h) ==  \* mutant: a second time, too
  [e \in DOMAIN reg |-> IF e \in events THEN Append(reg[e], h) ELSE reg[e]]
Register(reg, events, h) ==
  [e \in DOMAIN reg |->
     IF e \in events /\ ~Contains(reg[e], h) THEN Append(reg[e], h) ELSE reg[e]]

(* unregister, of one handler and of all handlers.                         *)
Unregister(reg, events, h) ==
  [e \in DOMAIN reg |-> IF e \in events THEN RemoveFirst(reg[e], h) ELSE reg[e]]
UnregisterEvents(reg, events) ==
  [e \in DOMAIN reg |-> IF e \in events THEN <<>> ELSE reg[e]]
=============================================================================
