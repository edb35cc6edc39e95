----------------------- MODULE CombinedSequenceProofs -----------------------
(***************************************************************************)
(* Whatever the sizes of the two numbers: nonces are unique and the check  *)
(* of the CSN accepts exactly what is new, until the overflow number       *)
(* outgrows its field.                                                     *)
(***************************************************************************)
EXTENDS CombinedSequence, TLAPS

(* What both rest on: the packets are numbered upwards, the sender's own   *)
(* number is at least that of its last packet, and the receiver remembers  *)
(* the number of the packet it accepted last.                              *)
Ascending ==
  overflow < WireOverflow =>
    /\ \A j, k \in DOMAIN sent : j < k => Csn(sent[j]) < Csn(sent[k])
    /\ \A k \in DOMAIN sent : Csn(sent[k]) <= Combined(overflow, sequenceNumber)

Remembered == theirs = IF last = 0 THEN NoCsn ELSE Csn(sent[last])

IInv == TypeOK /\ Ascending /\ Remembered

-----------------------------------------------------------------------------
(* A combined number is a natural number.                                  *)
LEMMA CombinedNat == \A o, s \in Nat : Combined(o, s) \in Nat
BY CsnAssumption DEF Combined

LEMMA CsnNat == \A n \in Packet : Csn(n) \in Nat
<1> SUFFICES ASSUME NEW n \in Packet PROVE Csn(n) \in Nat
  OBVIOUS
<1>1. n.overflow \in Nat /\ n.sequenceNumber \in Nat
  BY CsnAssumption DEF Packet
<1> QED BY <1>1, CombinedNat DEF Csn

(* next() raises the combined number, wrapping or not.                     *)
LEMMA NextRaises ==
  ASSUME NEW o \in Nat, NEW s \in 0 .. SequenceNumberMax
  PROVE  /\ s >= SequenceNumberMax => Combined(o + 1, 0) > Combined(o, s)
         /\ s < SequenceNumberMax => Combined(o, s + 1) > Combined(o, s)
<1>1. SequenceNumberMax \in Nat
  BY CsnAssumption
<1>2. (o + 1) * (SequenceNumberMax + 1) = o * (SequenceNumberMax + 1) + (SequenceNumberMax + 1)
  BY <1>1
<1>3. o * (SequenceNumberMax + 1) \in Nat
  BY <1>1
<1> QED BY <1>1, <1>2, <1>3 DEF Combined

(* The field keeps an overflow number that fits.                           *)
LEMMA ToWireFaithful ==
  ASSUME NEW o \in Nat, NEW s \in 0 .. SequenceNumberMax
  PROVE  /\ ToWire(o, s) \in Packet
         /\ o < WireOverflow => Csn(ToWire(o, s)) = Combined(o, s)
<1>1. WireOverflow \in Nat /\ WireOverflow > 0
  BY CsnAssumption
<1>2. o % WireOverflow \in 0 .. WireOverflow - 1
  BY <1>1
<1>3. o < WireOverflow => o % WireOverflow = o
  BY <1>1
<1> QED BY <1>2, <1>3 DEF ToWire, Packet, Csn

-----------------------------------------------------------------------------
LEMMA InitIInv == Init => IInv
<1> SUFFICES ASSUME Init PROVE IInv
  OBVIOUS
<1>1. TypeOK
  BY CsnAssumption DEF Init, TypeOK
<1>2. Ascending /\ Remembered
  BY DEF Init, Ascending, Remembered
<1> QED BY <1>1, <1>2 DEF IInv

LEMMA SendIInv == IInv /\ SendPacket => IInv'
<1> SUFFICES ASSUME IInv, SendPacket PROVE IInv'
  OBVIOUS
<1> USE DEF IInv
<1>1. /\ SequenceNumberMax \in Nat /\ overflow \in Nat
      /\ sequenceNumber \in 0 .. SequenceNumberMax
      /\ sent \in Seq(Packet)
  BY CsnAssumption DEF TypeOK
<1>2. /\ sequenceNumber' \in 0 .. SequenceNumberMax
      /\ overflow' \in Nat /\ overflow <= overflow'
  BY <1>1 DEF SendPacket, Wraps
<1> DEFINE p == ToWire(overflow', sequenceNumber')
<1>3. p \in Packet /\ (overflow' < WireOverflow => Csn(p) = Combined(overflow', sequenceNumber'))
  BY <1>2, ToWireFaithful
<1>4. Combined(overflow', sequenceNumber') > Combined(overflow, sequenceNumber)
  BY <1>1, NextRaises DEF SendPacket, Wraps
<1>5. sent' = sent \/ sent' = Append(sent, p)
  BY DEF SendPacket
<1> HIDE DEF p
<1>6. sent' \in Seq(Packet) /\ Len(sent) <= Len(sent')
      /\ \A k \in DOMAIN sent : k \in DOMAIN sent' /\ sent'[k] = sent[k]
  BY <1>1, <1>3, <1>5
<1>7. TypeOK'
  BY <1>2, <1>6 DEF TypeOK, SendPacket
<1>8. Remembered'
  <2>1. last' = last /\ theirs' = theirs /\ last \in 0 .. Len(sent)
    BY DEF SendPacket, TypeOK
  <2>2. last # 0 => sent'[last] = sent[last]
    BY <1>1, <1>6, <2>1
  <2> QED BY <2>1, <2>2 DEF Remembered, Csn, Combined
<1>9. Ascending'
  <2> SUFFICES ASSUME overflow' < WireOverflow
               PROVE  /\ \A j, k \in DOMAIN sent' : j < k => Csn(sent'[j]) < Csn(sent'[k])
                      /\ \A k \in DOMAIN sent' :
                           Csn(sent'[k]) <= Combined(overflow', sequenceNumber')
    BY DEF Ascending, Csn, Combined
  <2>1. overflow < WireOverflow
    BY <1>1, <1>2, CsnAssumption
  <2>2. /\ \A j, k \in DOMAIN sent : j < k => Csn(sent[j]) < Csn(sent[k])
        /\ \A k \in DOMAIN sent : Csn(sent[k]) < Combined(overflow', sequenceNumber')
        /\ Combined(overflow', sequenceNumber') \in Nat
    <3>1. \A k \in DOMAIN sent : Csn(sent[k]) \in Nat
      BY <1>1, CsnNat
    <3>2. Combined(overflow', sequenceNumber') \in Nat /\ Combined(overflow, sequenceNumber) \in Nat
      <4>1. /\ overflow \in Nat /\ sequenceNumber \in Nat
            /\ overflow' \in Nat /\ sequenceNumber' \in Nat
        BY <1>1, <1>2
      <4> QED BY <4>1, CombinedNat
    <3> QED BY <2>1, <3>1, <3>2, <1>4 DEF Ascending
  <2>3. CASE sent' = sent
    BY <2>2, <2>3, <1>1, CsnNat
  <2>4. CASE sent' = Append(sent, p)
    <3>1. Len(sent') = Len(sent) + 1 /\ sent'[Len(sent')] = p /\ DOMAIN sent = 1 .. Len(sent)
          /\ DOMAIN sent' = 1 .. Len(sent')
      BY <1>1, <1>3, <2>4
    <3>2. Csn(p) = Combined(overflow', sequenceNumber')
      BY <1>3
    <3>3. \A k \in DOMAIN sent : Csn(sent[k]) \in Nat
      BY <1>1, CsnNat
    <3> QED BY <1>1, <1>6, <2>2, <3>1, <3>2, <3>3
  <2> QED BY <1>5, <2>3, <2>4
<1> QED BY <1>7, <1>8, <1>9

LEMMA ReceiveIInv == ASSUME IInv, NEW k \in DOMAIN sent, Receive(k) PROVE IInv'
<1>1. sent \in Seq(Packet) /\ k \in 1 .. Len(sent) /\ sent[k] \in Packet
  BY DEF IInv, TypeOK
<1>2. Csn(sent[k]) \in Nat
  BY <1>1, CsnNat
<1>3. TypeOK'
  BY <1>1, <1>2 DEF IInv, TypeOK, Receive
<1>4. Ascending'
  BY DEF IInv, Ascending, Receive, Csn, Combined
<1>5. Remembered'
  BY <1>1 DEF Remembered, Receive, Csn, Combined
<1> QED BY <1>3, <1>4, <1>5 DEF IInv

(* IInv is an invariant.                                                   *)
THEOREM Numbering == Spec => []IInv
<1>1. IInv /\ [Next]_vars => IInv'
  <2> SUFFICES ASSUME IInv, [Next]_vars PROVE IInv'
    OBVIOUS
  <2>1. CASE SendPacket
    BY <2>1, SendIInv
  <2>2. ASSUME NEW k \in DOMAIN sent, Receive(k) PROVE IInv'
    BY <2>2, ReceiveIInv
  <2>3. CASE UNCHANGED vars
    BY <2>3 DEF IInv, TypeOK, Ascending, Remembered, vars, Csn, Combined
  <2> QED BY <2>1, <2>2, <2>3 DEF Next
<1> QED BY InitIInv, <1>1, PTL DEF Spec

(* The variables of a CombinedSequence and of a CSN pair keep their types  *)
(* (csn.ts, common.ts validateNonceCsn).                                   *)
THEOREM TypeCorrect == Spec => []TypeOK
<1>1. IInv => TypeOK
  BY DEF IInv
<1> QED BY <1>1, Numbering, PTL

(* No nonce is used twice before the overflow number outgrows its field,   *)
(* whatever the random first number was (csn.ts next).                     *)
THEOREM UniqueNonces == Spec => []NonceUnique
<1>1. IInv => NonceUnique
  <2> SUFFICES ASSUME IInv, overflow < WireOverflow,
                      NEW j \in DOMAIN sent, NEW k \in DOMAIN sent, sent[j] = sent[k]
               PROVE  j = k
    BY DEF NonceUnique
  <2>1. sent \in Seq(Packet) /\ j \in Nat /\ k \in Nat
    BY DEF IInv, TypeOK
  <2>2. Csn(sent[j]) \in Nat /\ Csn(sent[j]) = Csn(sent[k])
    BY <2>1, CsnNat
  <2> QED BY <2>1, <2>2 DEF IInv, Ascending
<1> QED BY <1>1, Numbering, PTL

(* validateNonceCsn accepts exactly the packets that are newer than every  *)
(* one accepted before.                                                    *)
THEOREM AcceptsTheNew == Spec => []FreshIffNewer
<1>1. IInv => FreshIffNewer
  <2> SUFFICES ASSUME IInv, overflow < WireOverflow, sent # <<>>, sent[1].overflow = 0,
                      NEW k \in DOMAIN sent, last > 0 \/ k = 1
               PROVE  CsnValid(sent[k]) <=> k > last
    BY DEF FreshIffNewer
  <2>1. sent \in Seq(Packet) /\ k \in 1 .. Len(sent) /\ last \in 0 .. Len(sent)
    BY DEF IInv, TypeOK
  <2>2. CASE last = 0
    BY <2>1, <2>2 DEF IInv, Remembered, CsnValid
  <2>3. CASE last > 0
    <3>1. theirs = Csn(sent[last]) /\ theirs \in Nat /\ theirs # NoCsn
      BY <2>1, <2>3, CsnNat, CsnAssumption DEF IInv, Remembered
    <3>2. Csn(sent[k]) \in Nat
      BY <2>1, CsnNat
    <3>3. /\ k < last => Csn(sent[k]) < Csn(sent[last])
          /\ last < k => Csn(sent[last]) < Csn(sent[k])
      BY <2>1, <2>3 DEF IInv, Ascending
    <3> QED BY <2>1, <2>3, <3>1, <3>2, <3>3 DEF CsnValid
  <2> QED BY <2>1, <2>2, <2>3
<1> QED BY <1>1, Numbering, PTL
=============================================================================
