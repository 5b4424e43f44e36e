-------------------------- MODULE MCAssistantChat --------------------------
(* Instance of AssistantChat for TLC.                                       *)
EXTENDS AssistantChat
=============================================================================
