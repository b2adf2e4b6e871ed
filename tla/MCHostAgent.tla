------------------------------ MODULE MCHostAgent ------------------------------
(***************************************************************************)
(* The login of MCEventPipeline under the whole agent: two cache entries   *)
(* for up to four findings, rings of two and three.                        *)
(***************************************************************************)
EXTENDS HostAgent, MCEventPipeline
===============================================================================
