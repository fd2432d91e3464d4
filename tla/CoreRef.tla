------------------------------- MODULE CoreRef -------------------------------
(***************************************************************************)
(* refs/CoreRef.sol: the base contract of nearly every contract of the     *)
(* protocol.  It keeps a pause flag and the name of the role that acts as  *)
(* this contract's admin, and turns role membership in Core into guards.   *)
(* A contract that inherits CoreRef EXTENDS this module.  Role membership  *)
(* is a constant here: a component is studied under a fixed assignment of  *)
(* roles.                                                                  *)
(***************************************************************************)
EXTENDS Integers

CONSTANTS
    Actors,         \* the addresses that send transactions
    roleMembers,    \* roleMembers[role]: the addresses Core.hasRole(role, _) holds for
    AdminRoles      \* the roles governance may name as CONTRACT_ADMIN_ROLE

\* The roles of core/TribeRoles.sol that the modelled contracts refer to, and the one
\* that FIP-56 creates for the TRIBE minter.
TribeRoles ==
    {"GOVERNOR", "GUARDIAN", "MINTER", "PCV_CONTROLLER", "ADD_MINTER_ROLE",
     "PSM_ADMIN_ROLE", "PARAMETER_ADMIN", "TRIBAL_CHIEF_ADMIN_ROLE", "PCV_GUARD_ROLE", "ORACLE_ADMIN_ROLE",
     "TRIBE_MINTER_ROLE"}

ASSUME RolesAssumption ==
    /\ roleMembers \in [TribeRoles -> SUBSET Actors]
    /\ AdminRoles \subseteq TribeRoles

VARIABLES
    paused,             \* Pausable._paused
    contractAdminRole   \* CONTRACT_ADMIN_ROLE

coreRefVars == <<paused, contractAdminRole>>

hasRole(role, caller) == caller \in roleMembers[role]

isGovernor(caller) == hasRole("GOVERNOR", caller)

isContractAdmin(caller) == hasRole(contractAdminRole, caller)

onlyGovernorOrAdmin(caller) == isGovernor(caller) \/ isContractAdmin(caller)

onlyGuardianOrGovernor(caller) == isGovernor(caller) \/ hasRole("GUARDIAN", caller)

isGovernorOrGuardianOrAdmin(caller) ==
    onlyGuardianOrGovernor(caller) \/ isContractAdmin(caller)

hasAnyOfTwoRoles(role1, role2, caller) == hasRole(role1, caller) \/ hasRole(role2, caller)

CoreRefTypeOK == paused \in BOOLEAN /\ contractAdminRole \in TribeRoles

\* constructor: the admin role starts out as the governor role.
CoreRefInit == paused = FALSE /\ contractAdminRole = "GOVERNOR"

\* Pausable._pause and _unpause revert when the flag already has that value.
pause(caller) ==
    /\ onlyGuardianOrGovernor(caller)
    /\ ~paused
    /\ paused' = TRUE
    /\ UNCHANGED contractAdminRole

unpause(caller) ==
    /\ onlyGuardianOrGovernor(caller)
    /\ paused
    /\ paused' = FALSE
    /\ UNCHANGED contractAdminRole

setContractAdminRole(caller, role) ==
    /\ isGovernor(caller)
    /\ contractAdminRole' = role
    /\ UNCHANGED paused

CoreRefStep(caller) ==
    \/ pause(caller)
    \/ unpause(caller)
    \/ \E role \in AdminRoles : setContractAdminRole(caller, role)

\* Math.min of OpenZeppelin, used by most of the contracts below.
min(a, b) == IF a <= b THEN a ELSE b
=============================================================================
