------------------------------ MODULE MCParts ------------------------------
(***************************************************************************)
(* Two parts that share no state, one of them in a behaviour: the life of  *)
(* the sidecar, and the offline tools.                                     *)
(***************************************************************************)
EXTENDS MCSidecarLife, MCTools

VARIABLE part

LifeOff  == Init
ToolsOff == /\ tool = "off" /\ SoakOff /\ BuildOff /\ InputOff /\ AuditOff

PartsInit ==
  \/ part = "sidecar" /\ Init    /\ ToolsOff
  \/ part = "tools"   /\ LifeOff /\ ToolsInit

PartsNext ==
  /\ UNCHANGED part
  /\ \/ part = "sidecar" /\ Next      /\ UNCHANGED toolVars
     \/ part = "tools"   /\ ToolsNext /\ UNCHANGED vars

PartsSpec == PartsInit /\ [][PartsNext]_<<vars, toolVars, part>>
=============================================================================
