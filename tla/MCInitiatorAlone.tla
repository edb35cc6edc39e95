-------------------------- MODULE MCInitiatorAlone --------------------------
EXTENDS InitiatorAlone
CONSTANTS i1, r1, t1, t2

MCOurTasks == (i1 :> <<t1, t2>>)
MCUntrusted == (i1 :> NoPeer)
MCTrusted == (i1 :> r1)
=============================================================================
