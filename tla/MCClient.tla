------------------------------ MODULE MCClient ------------------------------
(* One function of the application, and the events where it has most to    *)
(* change: a state change, and those emitted in the middle of a handler.   *)
EXTENDS Client
CONSTANTS f

MCMiddle == {"state-change", "new-responder"}
=============================================================================
