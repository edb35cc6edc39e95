-------------------------- MODULE CombinedSequence --------------------------
(***************************************************************************)
(* The numbers that keep nonces unique and refuse a message that was       *)
(* handled before: class CombinedSequence of csn.ts, the bytes a Nonce     *)
(* gives it (nonce.ts) and validateNonceCsn of signaling/common.ts.  One   *)
(* peer object sends; the other side sees its packets in any order, some   *)
(* of them again, some never.  Module Signaling abstracts all of this to   *)
(* natural numbers that grow by one.                                       *)
(***************************************************************************)
EXTENDS Naturals, Sequences

CONSTANTS
  SequenceNumberMax,  \* SEQUENCE_NUMBER_MAX, 2^32 - 1
  OverflowMax,        \* OVERFLOW_MAX, 0xFFFFF
  WireOverflow,       \* values of the overflow field of a nonce, 2^16
  NoCsn,              \* csnPair.theirs === null
  MaxPackets          \* bound: packets sent

ASSUME CsnAssumption ==
  /\ {SequenceNumberMax, OverflowMax, MaxPackets} \subseteq Nat
  /\ WireOverflow \in Nat \ {0}
  /\ NoCsn \notin Nat

VARIABLES
  sequenceNumber, overflow,  \* the sender's CombinedSequence
  sent,                      \* its packets: what their nonces say
  theirs,                    \* the receiver's csnPair.theirs
  last                       \* which packet was accepted last, 0 for none

vars == <<sequenceNumber, overflow, sent, theirs, last>>

-----------------------------------------------------------------------------
Combined_OffByOne(o, s) == o * SequenceNumberMax + s  \* mutant
Combined(o, s) == o * (SequenceNumberMax + 1) + s

(* nonce.combinedSequenceNumber of a packet that was received.             *)
Csn(n) == Combined(n.overflow, n.sequenceNumber)

(* toUint8Array writes the overflow number as an unsigned 16 bit integer.  *)
ToWire_Unbounded(o, s) == [overflow |-> o, sequenceNumber |-> s]  \* mutant
ToWire(o, s) == [overflow |-> o % WireOverflow, sequenceNumber |-> s]

(* next() throws after it has moved on; the packet is then not built, and  *)
(* nothing stops the next call.                                            *)
Wraps == sequenceNumber >= SequenceNumberMax
OverflowOverflow == Wraps /\ overflow + 1 >= OverflowMax

(* Mutant: the overflow number is forgotten.                               *)
SendPacket_NoOverflow ==
  /\ Len(sent) < MaxPackets
  /\ sequenceNumber' = IF Wraps THEN 0 ELSE sequenceNumber + 1
  /\ sent' = Append(sent, ToWire(overflow, sequenceNumber'))
  /\ UNCHANGED <<overflow, theirs, last>>

SendPacket ==
  /\ Len(sent) < MaxPackets
  /\ sequenceNumber' = IF Wraps THEN 0 ELSE sequenceNumber + 1
  /\ overflow' = IF Wraps THEN overflow + 1 ELSE overflow
  /\ sent' = IF OverflowOverflow THEN sent
             ELSE Append(sent, ToWire(overflow', sequenceNumber'))
  /\ UNCHANGED <<theirs, last>>

(* validateNonceCsn.                                                       *)
CsnValid(n) == IF theirs = NoCsn THEN n.overflow = 0 ELSE Csn(n) > theirs

Receive(k) ==
  /\ CsnValid(sent[k])
  /\ theirs' = Csn(sent[k])
  /\ last' = k
  /\ UNCHANGED <<sequenceNumber, overflow, sent>>

Init ==
  /\ sequenceNumber \in 0 .. SequenceNumberMax
  /\ overflow = 0
  /\ sent = <<>>
  /\ theirs = NoCsn
  /\ last = 0

Next == SendPacket \/ \E k \in DOMAIN sent : Receive(k)

Spec == Init /\ [][Next]_vars

-----------------------------------------------------------------------------
Packet == [overflow : 0 .. WireOverflow - 1, sequenceNumber : 0 .. SequenceNumberMax]

(* Every variable has its type.                                            *)
TypeOK ==
  /\ sequenceNumber \in 0 .. SequenceNumberMax
  /\ overflow \in Nat
  /\ sent \in Seq(Packet)
  /\ theirs \in Nat \cup {NoCsn}
  /\ last \in 0 .. Len(sent)

(* Until the overflow number outgrows its two bytes no two packets carry   *)
(* the same CSN.                                                           *)
NonceUnique ==
  overflow < WireOverflow =>
    \A j, k \in DOMAIN sent : sent[j] = sent[k] => j = k

(* Until then a packet is accepted exactly if it was sent after everything *)
(* accepted so far: no packet is accepted twice or after a later one, and  *)
(* none that arrives in order is refused.  The sender must not have begun  *)
(* with the highest sequence number.                                       *)
FreshIffNewer ==
  overflow < WireOverflow /\ sent # <<>> /\ sent[1].overflow = 0 =>
    \A k \in DOMAIN sent : (last > 0 \/ k = 1) => (CsnValid(sent[k]) <=> k > last)

(* What the constant's comment (csn.ts:12) and next() (csn.ts:23-24)       *)
(* promise: the overflow number never outgrows its two bytes, so that no   *)
(* nonce is ever repeated.                                                 *)
NonceNeverRepeats == \A j, k \in DOMAIN sent : sent[j] = sent[k] => j = k
=============================================================================
