------------------------------ MODULE Session ------------------------------
(***************************************************************************)
(* What a path promises to the applications: sessions between initiators   *)
(* and responders, without servers, packets or keys in flight.  A session  *)
(* is opened by an initiator, for one responder, and entered by that       *)
(* responder alone, which then has the same key and the same task.  Module *)
(* Path implements this specification.                                     *)
(***************************************************************************)
CONSTANTS
  Initiators,
  Responders,
  Keys,       \* session keys
  TaskNames,
  NoSession   \* not a session

VARIABLES
  stage,    \* client -> "idle", in "session" or "over"
  opened,   \* initiator -> the session it opened
  entered   \* responder -> the session it entered

sessionVars == <<stage, opened, entered>>

Member == Initiators \cup Responders
Sessions == [initiator : Initiators, responder : Responders, key : Keys, task : TaskNames]

(* A key serves one session, and is never issued again.                    *)
Issued == {opened[i].key : i \in {j \in Initiators : opened[j] # NoSession}}

Open(i) ==
  /\ stage[i] = "idle"
  /\ stage' = [stage EXCEPT ![i] = "session"]
  /\ LET s == opened'[i]
     IN /\ s \in Sessions /\ s.initiator = i /\ s.key \notin Issued
        /\ opened' = [opened EXCEPT ![i] = s]
  /\ UNCHANGED entered

Enter(r) ==
  /\ stage[r] = "idle"
  /\ stage' = [stage EXCEPT ![r] = "session"]
  /\ \E i \in Initiators :
       /\ opened[i] # NoSession
       /\ opened[i].responder = r
       /\ entered' = [entered EXCEPT ![r] = opened[i]]
  /\ UNCHANGED opened

(* A client leaves whenever its connection or its application ends.        *)
End(c) ==
  /\ stage[c] # "over"
  /\ stage' = [stage EXCEPT ![c] = "over"]
  /\ UNCHANGED <<opened, entered>>

SessionInit ==
  /\ stage = [c \in Member |-> "idle"]
  /\ opened = [i \in Initiators |-> NoSession]
  /\ entered = [r \in Responders |-> NoSession]

SessionNext ==
  \/ \E i \in Initiators : Open(i)
  \/ \E r \in Responders : Enter(r)
  \/ \E c \in Member : End(c)

SessionSpec == SessionInit /\ [][SessionNext]_sessionVars

-----------------------------------------------------------------------------
(* What follows for an application.                                        *)

SessionTypeOK ==
  /\ stage \in [Member -> {"idle", "session", "over"}]
  /\ opened \in [Initiators -> Sessions \cup {NoSession}]
  /\ entered \in [Responders -> Sessions \cup {NoSession}]

(* Whoever entered a session entered one that an initiator opened for it.  *)
Agreement ==
  \A r \in Responders : entered[r] # NoSession =>
    /\ opened[entered[r].initiator] = entered[r]
    /\ entered[r].responder = r

(* No key is known to two initiators or to two responders.                 *)
Exclusive ==
  /\ \A i, j \in Initiators :
       opened[i] # NoSession /\ opened[j] # NoSession /\ opened[i].key = opened[j].key => i = j
  /\ \A r, s \in Responders :
       entered[r] # NoSession /\ entered[s] # NoSession /\ entered[r].key = entered[s].key => r = s

(* A session that was opened is entered, unless one of the two leaves.     *)
Settles ==
  \A i \in Initiators :
    stage[i] = "session" ~>
      \/ stage[i] = "over"
      \/ /\ opened[i] # NoSession
         /\ \/ entered[opened[i].responder] = opened[i]
            \/ stage[opened[i].responder] = "over"
=============================================================================
