------------------------------- MODULE Access -------------------------------
(***************************************************************************)
(* Who comes in and what goes out: VaultProxy (with its Vault) composed    *)
(* with Auth.  The two parts share no state and take turns.                *)
(***************************************************************************)
EXTENDS VaultProxy, Auth

DoorStart == AccessStart /\ AuthStart
DoorStep ==
  \/ AccessStep /\ Watch /\ UNCHANGED authVars
  \/ AuthStep /\ UNCHANGED <<vaultVars, proxyVars>>
DoorSpec == DoorStart /\ [][DoorStep]_<<vaultVars, proxyVars, authVars>>

(***************************************************************************)
(* Properties.                                                             *)
(***************************************************************************)
\* The types of the three parts.
AccessTypeOK == VaultTypeOK /\ ProxyTypeOK /\ AuthTypeOK
=============================================================================
