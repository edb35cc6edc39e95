------------------------------ MODULE Builder ------------------------------
(***************************************************************************)
(* SaltyRTCBuilder of client.ts: the calls that configure a client, in any *)
(* order, and the two that build it.  A call that throws changes nothing   *)
(* and is a stutter here.  What was configured is named by a flag: hosts,  *)
(* keys, token, ping interval and log level are passed on and left out.    *)
(***************************************************************************)
VARIABLES
  builder,   \* the SaltyRTCBuilder
  role       \* of the client it built

builderVars == <<builder, role>>

NoBuilder == [host |-> FALSE, factory |-> FALSE, keyStore |-> FALSE,
              trusted |-> FALSE, info |-> FALSE, tasks |-> FALSE]
NoRole == "none"

Building == role = NoRole

-----------------------------------------------------------------------------
(* Configuration.                                                          *)

ConnectTo == builder' = [builder EXCEPT !.host = TRUE]
ConnectWith == builder' = [builder EXCEPT !.factory = TRUE]
WithKeyStore == builder' = [builder EXCEPT !.keyStore = TRUE]
WithTrustedPeerKey == builder' = [builder EXCEPT !.trusted = TRUE]
UsingTasks == builder' = [builder EXCEPT !.tasks = TRUE]
InitiatorInfo == builder' = [builder EXCEPT !.info = TRUE]

Configure ==
  /\ Building
  /\ \/ ConnectTo \/ ConnectWith \/ WithKeyStore
     \/ WithTrustedPeerKey \/ UsingTasks \/ InitiatorInfo
  /\ UNCHANGED role

-----------------------------------------------------------------------------
(* Building.                                                               *)

Complete == (builder.host \/ builder.factory) /\ builder.keyStore /\ builder.tasks

CanBuild(r) ==
  /\ Complete
  /\ IF r = "initiator" THEN ~builder.info ELSE builder.trusted \/ builder.info

AsInitiator == Building /\ CanBuild("initiator") /\ role' = "initiator"
AsResponder == Building /\ CanBuild("responder") /\ role' = "responder"

InitBuilder == builder = NoBuilder /\ role = NoRole
=============================================================================
