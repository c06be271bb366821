------------------------- MODULE RegistryPublication -------------------------
(***************************************************************************)
(* What a registry controller promises the readers of a declaration,      *)
(* whatever its reconcile loop looks like: the storage ConfigMap is        *)
(* rewritten only while the declaration is not published as Ready, and     *)
(* publishing records the hash of what the storage then holds, in the same *)
(* step.  A Ready declaration and its lastSyncHash therefore always        *)
(* describe the stored data.  Once the declaration is deleted (or marked   *)
(* for deletion) nothing more is promised.                                 *)
(*                                                                         *)
(* As in the detailed modules, a payload stands for its own SHA-256.       *)
(***************************************************************************)
CONSTANT NoData     \* no storage ConfigMap / empty lastSyncHash

VARIABLES
    live,       \* the declaration exists and is not being deleted
    storage,    \* the storage ConfigMap's data
    ready,      \* status.phase = Ready
    hash        \* status.lastSyncHash

pubVars == <<live, storage, ready, hash>>

Init ==
    /\ live = TRUE
    /\ storage = NoData
    /\ ready = FALSE
    /\ hash = NoData

(* A new sync starts: the declaration stops being published.               *)
Unpublish ==
    /\ live /\ ready
    /\ ready' = FALSE
    /\ UNCHANGED <<live, storage, hash>>

(* The storage is rewritten, only while unpublished.                       *)
Write ==
    /\ live /\ ~ready
    /\ UNCHANGED <<live, ready, hash>>

(* The sync completes: published with the hash of the stored data.         *)
Publish ==
    /\ live /\ ~ready
    /\ ready' = TRUE
    /\ hash' = storage
    /\ UNCHANGED <<live, storage>>

(* The user deletes the declaration.                                       *)
Retire ==
    /\ live
    /\ live' = FALSE
    /\ UNCHANGED <<storage, ready, hash>>

(* After deletion the controller may still finish or clean up anything.    *)
AfterRetire ==
    /\ ~live
    /\ live' = FALSE

Next == Unpublish \/ Write \/ Publish \/ Retire \/ AfterRetire

Spec == Init /\ [][Next]_pubVars

(* The promise readers rely on: a live Ready declaration's lastSyncHash is *)
(* the hash of its storage.                                                *)
Consistent == live /\ ready => storage = hash

=============================================================================
