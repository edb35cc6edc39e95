------------------------------- MODULE MCPath -------------------------------
(* Small paths: one or two initiators, one or two responders, two tasks.   *)
EXTENDS Path
CONSTANTS i1, i2, r1, r2, t1, t2

MCOurTasks == [i \in Initiators |-> <<t1, t2>>]
MCOffered == [r \in Responders |-> IF r = r1 THEN {t1, t2} ELSE {t2}]

(* Without a trusted key every responder has the token of i1, or each the  *)
(* token of one initiator.                                                 *)
MCUntrusted == [i \in Initiators |-> NoPeer]
MCToken == [r \in Responders |-> i1]
MCOwnToken == [r \in Responders |-> IF r = r1 THEN i1 ELSE i2]

(* All initiators trust r1, and it trusts their common key.                *)
MCTrusted == [i \in Initiators |-> r1]
MCNoToken == [r \in Responders |-> NoPeer]
=============================================================================
