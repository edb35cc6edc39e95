-------------------------- MODULE MCResponderAlone --------------------------
EXTENDS ResponderAlone
CONSTANTS i1, r1, t1, t2

MCOffered == (r1 :> {t1})
MCToken == (r1 :> i1)
MCNoToken == (r1 :> NoPeer)
=============================================================================
