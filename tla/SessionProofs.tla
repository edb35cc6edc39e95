--------------------------- MODULE SessionProofs ---------------------------
(***************************************************************************)
(* What the promise of a path is worth, for every set of clients and keys: *)
(* whoever implements Session, as Path does, inherits these theorems.      *)
(***************************************************************************)
EXTENDS Session, TLAPS

(* Only an initiator that is still idle has opened nothing, which is why   *)
(* no session is ever replaced by another one.                             *)
IdleUnopened == \A i \in Initiators : stage[i] = "idle" => opened[i] = NoSession

OpenedExclusive ==
  \A i, j \in Initiators :
    opened[i] # NoSession /\ opened[j] # NoSession /\ opened[i].key = opened[j].key => i = j

(* An initiator opens sessions of its own.                                 *)
OwnSession == \A i \in Initiators : opened[i] # NoSession => opened[i].initiator = i

IInv == SessionTypeOK /\ IdleUnopened /\ OwnSession /\ OpenedExclusive /\ Agreement

(* The type of the three functions is kept by every step.                  *)
LEMMA TypeStep == SessionTypeOK /\ [SessionNext]_sessionVars => SessionTypeOK'
<1> SUFFICES ASSUME SessionTypeOK, [SessionNext]_sessionVars PROVE SessionTypeOK'
  OBVIOUS
<1>1. ASSUME NEW i \in Initiators, Open(i) PROVE SessionTypeOK'
  BY <1>1 DEF SessionTypeOK, Open, Member
<1>2. ASSUME NEW r \in Responders, Enter(r) PROVE SessionTypeOK'
  BY <1>2 DEF SessionTypeOK, Enter, Member
<1>3. ASSUME NEW c \in Member, End(c) PROVE SessionTypeOK'
  BY <1>3 DEF SessionTypeOK, End
<1>4. CASE UNCHANGED sessionVars
  BY <1>4 DEF SessionTypeOK, sessionVars
<1> QED BY <1>1, <1>2, <1>3, <1>4 DEF SessionNext

(* Opening a session takes an idle initiator and a key nobody has.         *)
LEMMA OpenStep ==
  ASSUME NoSession \notin Sessions, IInv, NEW i \in Initiators, Open(i)
  PROVE  IdleUnopened' /\ OwnSession' /\ OpenedExclusive' /\ Agreement'
<1> USE DEF IInv
<1> DEFINE s == opened'[i]
<1>1. /\ s \in Sessions /\ s.initiator = i /\ s.key \notin Issued
      /\ opened' = [opened EXCEPT ![i] = s]
  BY DEF Open
<1>2. stage[i] = "idle" /\ opened[i] = NoSession
      /\ stage' = [stage EXCEPT ![i] = "session"] /\ entered' = entered
  BY DEF Open, IdleUnopened
<1>3. opened'[i] = s /\ \A j \in Initiators \ {i} : opened'[j] = opened[j]
  BY <1>1 DEF SessionTypeOK
<1> HIDE DEF s
<1>4. stage'[i] = "session" /\ \A j \in Initiators \ {i} : stage'[j] = stage[j]
  BY <1>2 DEF SessionTypeOK, Member
<1>5. IdleUnopened'
  BY <1>3, <1>4 DEF IdleUnopened
<1>6. OwnSession'
  BY <1>1, <1>3 DEF OwnSession
<1>7. \A j \in Initiators : opened[j] # NoSession => opened[j].key # s.key
  BY <1>1 DEF Issued
<1>8. OpenedExclusive'
  BY <1>3, <1>7 DEF OpenedExclusive
<1>9. Agreement'
  <2> SUFFICES ASSUME NEW r \in Responders, entered[r] # NoSession
               PROVE  opened'[entered[r].initiator] = entered[r] /\ entered[r].responder = r
    BY <1>2 DEF Agreement
  <2>1. entered[r] \in Sessions /\ entered[r].initiator \in Initiators
    BY DEF SessionTypeOK, Sessions
  <2>2. opened[entered[r].initiator] = entered[r] /\ entered[r].responder = r
    BY DEF Agreement
  <2>3. entered[r].initiator # i
    BY <1>2, <2>1, <2>2
  <2> QED BY <1>3, <2>1, <2>2, <2>3
<1> QED BY <1>5, <1>6, <1>8, <1>9

(* Entering one copies what was opened.                                    *)
LEMMA EnterStep ==
  ASSUME NoSession \notin Sessions, IInv, NEW r \in Responders, Enter(r)
  PROVE  IdleUnopened' /\ OwnSession' /\ OpenedExclusive' /\ Agreement'
<1> USE DEF IInv
<1>1. PICK i \in Initiators : /\ opened[i] # NoSession /\ opened[i].responder = r
                              /\ entered' = [entered EXCEPT ![r] = opened[i]]
  BY DEF Enter
<1>2. opened' = opened /\ \A j \in Initiators : stage'[j] = "idle" => stage[j] = "idle"
  BY DEF Enter, SessionTypeOK, Member
<1>3. IdleUnopened' /\ OwnSession' /\ OpenedExclusive'
  BY <1>2 DEF IdleUnopened, OwnSession, OpenedExclusive
<1>4. Agreement'
  <2> SUFFICES ASSUME NEW q \in Responders, entered'[q] # NoSession
               PROVE  opened[entered'[q].initiator] = entered'[q] /\ entered'[q].responder = q
    BY <1>2 DEF Agreement
  <2>1. CASE q = r
    BY <1>1, <2>1 DEF SessionTypeOK, OwnSession
  <2>2. CASE q # r
    BY <1>1, <2>2 DEF SessionTypeOK, Agreement
  <2> QED BY <2>1, <2>2
<1> QED BY <1>3, <1>4

LEMMA InvariantInit == SessionInit => IInv
BY DEF SessionInit, IInv, SessionTypeOK, IdleUnopened, OwnSession, OpenedExclusive, Agreement, Member

LEMMA InvariantStep ==
  ASSUME NoSession \notin Sessions
  PROVE  IInv /\ [SessionNext]_sessionVars => IInv'
<1> SUFFICES ASSUME IInv, [SessionNext]_sessionVars PROVE IInv'
  OBVIOUS
<1>1. SessionTypeOK'
  BY TypeStep DEF IInv
<1>2. CASE \E i \in Initiators : Open(i)
  BY <1>1, <1>2, OpenStep DEF IInv
<1>3. CASE \E r \in Responders : Enter(r)
  BY <1>1, <1>3, EnterStep DEF IInv
<1>4. ASSUME NEW c \in Member, End(c) PROVE IInv'
  <2>1. /\ opened' = opened /\ entered' = entered
        /\ \A j \in Initiators : stage'[j] = "idle" => stage[j] = "idle"
    BY <1>4 DEF IInv, End, SessionTypeOK, Member
  <2> QED BY <1>1, <2>1 DEF IInv, IdleUnopened, OwnSession, OpenedExclusive, Agreement
<1>5. CASE UNCHANGED sessionVars
  BY <1>1, <1>5 DEF IInv, sessionVars, IdleUnopened, OwnSession, OpenedExclusive, Agreement
<1> QED BY <1>2, <1>3, <1>4, <1>5 DEF SessionNext

(* The three facts for an application: what it is told has its type;       *)
(* whoever entered a session (state task, responder.ts:166) shares it with *)
(* the initiator that opened it (initiator.ts:291); and no session key is  *)
(* known to a third client.                                                *)
LEMMA Consequences == ASSUME NoSession \notin Sessions PROVE IInv => SessionTypeOK /\ Agreement /\ Exclusive
<1> SUFFICES ASSUME IInv PROVE Exclusive
  BY DEF IInv
<1>1. ASSUME NEW r \in Responders, NEW s \in Responders,
             entered[r] # NoSession, entered[s] # NoSession, entered[r].key = entered[s].key
      PROVE  r = s
  <2>1. entered[r].initiator \in Initiators /\ entered[s].initiator \in Initiators
    BY <1>1 DEF IInv, SessionTypeOK, Sessions
  <2>2. /\ opened[entered[r].initiator] = entered[r] /\ entered[r].responder = r
        /\ opened[entered[s].initiator] = entered[s] /\ entered[s].responder = s
    BY <1>1 DEF IInv, Agreement
  <2>3. entered[r].initiator = entered[s].initiator
    BY <1>1, <2>1, <2>2 DEF IInv, OpenedExclusive
  <2> QED BY <2>2, <2>3
<1> QED BY <1>1 DEF Exclusive, IInv, OpenedExclusive

(* Every client of an implementation of Session that is in a session is in *)
(* one with the partner the two of them authenticated, and with nobody     *)
(* else: same key, same task.                                              *)
THEOREM SessionsArePairs ==
  ASSUME NoSession \notin Sessions
  PROVE  SessionSpec => [](SessionTypeOK /\ Agreement /\ Exclusive)
<1>1. SessionInit => IInv
  BY InvariantInit
<1>2. IInv /\ [SessionNext]_sessionVars => IInv'
  BY InvariantStep
<1>3. IInv => SessionTypeOK /\ Agreement /\ Exclusive
  BY Consequences
<1> QED BY <1>1, <1>2, <1>3, PTL DEF SessionSpec
=============================================================================
