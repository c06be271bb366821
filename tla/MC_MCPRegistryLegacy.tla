------------------------ MODULE MC_MCPRegistryLegacy ------------------------
(* Small instances of MCPRegistryLegacy for TLC. *)
EXTENDS MCPRegistryLegacy

CONSTANTS s1, s2

LgServers == {s1, s2}

(* Two registries that differ, the empty one, a missing key and bad JSON.  *)
LgSourceValuesAll == {{s1}, {s1, s2}, {}, Missing, Invalid}

(* Registries only: every sync can succeed. *)
LgSourceValuesData == {{s1}, {s1, s2}}

LgSourceValuesOne == {{s1}}

(* Bound: syncAttempts only grows while the source stays unreadable.       *)
LgAttemptCap == 4

LgStateConstraint == status.attempts <= LgAttemptCap
=============================================================================
