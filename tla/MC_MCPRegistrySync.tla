------------------------- MODULE MC_MCPRegistrySync -------------------------
(* Small instances of MCPRegistrySync for TLC. *)
EXTENDS MCPRegistrySync

CONSTANTS s1, s2

MCServers == {s1, s2}

(* Safety: every kind of payload, the empty registry included. *)
MCSourceValuesAll == {{s1}, {s1, s2}, {}, Missing, Invalid}

(* Liveness: the source ends up holding a registry. *)
MCSourceValuesData == {{s1}, {s1, s2}}

(* Scenario of spec S3: the filter drops s2. *)
MCFilterKeep == {s1}

(* Bound on status.syncAttempts explored (the code does not bound it). *)
AttemptCap == 14

StateConstraint == status.attempts <= AttemptCap
=============================================================================
