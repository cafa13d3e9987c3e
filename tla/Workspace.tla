----------------------------- MODULE Workspace -----------------------------
(***************************************************************************)
(* What a turn gives to the model and what that is made from: SessionMount *)
(* (with AgentVersions and MemoryStore) composed with Compaction.  The two *)
(* share no state and take turns.                                          *)
(***************************************************************************)
EXTENDS SessionMount, Compaction

\* Any files and skills that requests have made, and no turn yet; the files of a skill
\* come as a list.
IsList(list) == list \in Seq(Range(list))
MountStart ==
  /\ \A c \in Calls : Asks(c, "createSkill") => IsList(call[c].ask.files)
  /\ \E F \in SUBSET Files, K \in SUBSET Skills, turns \in 0 .. MaxTurns :
       /\ \A k \in K : SafePaths(skills[k].files) /\ IsList(skills[k].files)
       /\ MountInit([f \in F |-> files[f].blob], [k \in K |-> skills[k]], turns)

WorkspaceStart == AgentStart /\ MemoryStart /\ MountStart /\ \E tools \in SUBSET Uses : ContextInit(tools)
WorkspaceStep ==
  \/ MountStep /\ UNCHANGED contextVars
  \/ ContextStep /\ UNCHANGED <<agentVars, memoryVars, mountVars>>
WorkspaceSpec == WorkspaceStart /\ [][WorkspaceStep]_<<agentVars, memoryVars, mountVars, contextVars>>

(***************************************************************************)
(* Properties.                                                             *)
(***************************************************************************)
\* The types of the four parts.
WorkspaceTypeOK == AgentTypeOK /\ MemoryTypeOK /\ MountTypeOK /\ ContextTypeOK
=============================================================================
