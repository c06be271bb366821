---------------------------- MODULE RetryBackoff ----------------------------
(***************************************************************************)
(* The retry schedule of the sync manager (pkg/sync/manager.go): the       *)
(* syncAttempts arithmetic of the failure branches of PerformSync and the  *)
(* interval each of them asks the reconciler to wait, for a run of         *)
(* consecutive failed syncs.  Durations are in minutes.                    *)
(*                                                                         *)
(* The status writes are assumed to succeed here; what a failed write does *)
(* is the subject of MCPRegistrySync.                                      *)
(***************************************************************************)
EXTENDS Naturals, Sequences

CONSTANTS
    MaxSyncAttempts,            \* 10 in manager.go
    MaxHandlerCreationRetries,  \* 3 in manager.go
    MaxStreak                   \* bound on the length of a failure run

ASSUME BackoffAssumption ==
    /\ MaxSyncAttempts \in Nat
    /\ MaxHandlerCreationRetries \in Nat
    /\ MaxStreak \in Nat

VARIABLES
    attempts,   \* status.syncAttempts
    streak      \* the failures since the last success, oldest first

vars == <<attempts, streak>>

MinOf(a, b) == IF a <= b THEN a ELSE b

(* Mutant: the reconciler takes PerformSync's empty result as it is.       *)
GiveUpFallbackNone == 0

(* reconcileSync: when the re-read phase is Failed and PerformSync asked   *)
(* for no requeue, the reconciler falls back to five minutes.              *)
GiveUpFallback == 5

(* The reference: spec section 4.5.2, min(5m * 2^(attempts-1), 1h) for     *)
(* attempts >= 1, else 5m.                                                 *)
SpecRetryInterval(n) == IF n >= 1 THEN MinOf(5 * 2^(n - 1), 60) ELSE 5

(* Mutant: the exponent capped at 3 instead of 4.                          *)
calculateRetryIntervalCap3(n) ==
    IF n <= 0 THEN 5 ELSE MinOf(5 * 2^MinOf(n - 1, 3), 60)

(* Mutant: the one-hour cap forgotten.                                     *)
calculateRetryIntervalNoCap(n) ==
    IF n <= 0 THEN 5 ELSE 5 * 2^MinOf(n - 1, 4)

(* calculateRetryInterval: 5m base, exponent capped at 4, result capped at *)
(* one hour.                                                               *)
calculateRetryInterval(n) ==
    IF n <= 0 THEN 5 ELSE MinOf(5 * 2^MinOf(n - 1, 4), 60)

Kinds == {"process", "store"}

Entry == [kind : Kinds, giveUp : BOOLEAN, attempts : Nat, wait : Nat]

Init ==
    /\ attempts = 0
    /\ streak = <<>>

(* A failure inside fetchAndProcessRegistryData (handler creation,         *)
(* validation or the first fetch).  updatePhaseFailedWithCondition        *)
(* refreshes the declaration and increments syncAttempts (an increment the *)
(* fetch branch made before the refresh is overwritten by it); PerformSync *)
(* then tests that in-memory value against MaxHandlerCreationRetries and   *)
(* writes it plus one.  Below the limit it asks for one hour; at the limit *)
(* it asks for nothing and the reconciler falls back to five minutes.      *)
ProcessFailure ==
    LET interim == attempts + 1
        giveUp  == interim >= MaxHandlerCreationRetries
    IN  /\ Len(streak) < MaxStreak
        /\ attempts' = interim + 1
        /\ streak' = Append(streak,
               [kind |-> "process", giveUp |-> giveUp, attempts |-> interim + 1,
                wait |-> IF giveUp THEN GiveUpFallback ELSE 60])

(* A failure of the store (or of the re-fetch, whose branch is the same):  *)
(* the limit is tested on the stored syncAttempts, the interval is         *)
(* calculateRetryInterval of that same, not yet incremented, value, and    *)
(* syncAttempts + 1 is written.                                            *)
StoreFailure ==
    LET giveUp == attempts >= MaxSyncAttempts
    IN  /\ Len(streak) < MaxStreak
        /\ attempts' = attempts + 1
        /\ streak' = Append(streak,
               [kind |-> "store", giveUp |-> giveUp, attempts |-> attempts + 1,
                wait |-> IF giveUp THEN GiveUpFallback
                                   ELSE calculateRetryInterval(attempts)])

(* A successful sync resets syncAttempts and clears nextRetryTime.         *)
Success ==
    /\ attempts' = 0
    /\ streak' = <<>>

Next == ProcessFailure \/ StoreFailure \/ Success

Spec == Init /\ [][Next]_vars

-----------------------------------------------------------------------------
(* The waits a failure can ask for are 5m, 10m, 20m, 40m and 1h, and       *)
(* syncAttempts stays a natural.                                           *)
TypeOK ==
    /\ attempts \in Nat
    /\ streak \in Seq(Entry)
    /\ \A i \in 1..Len(streak) : streak[i].wait \in {5, 10, 20, 40, 60}

(* calculateRetryInterval agrees with the spec's formula on every attempt  *)
(* count syncAttempts has reached (past the give-up limit in these runs,   *)
(* where both have long reached 1h).                                       *)
IntervalMatchesSpecFormula ==
    \A n \in 0..attempts :
        calculateRetryInterval(n) = SpecRetryInterval(n)

(* Spec boundary behaviour 12: from the first failure, consecutive store   *)
(* (or re-fetch) failures wait 5m, 10m, 20m, 40m, 1h, 1h, ... until the    *)
(* attempt limit.  The code passes the count before the increment to      *)
(* calculateRetryInterval, so the second failure waits 5m again.           *)
BackoffSequenceMatchesSpec ==
    \A i \in 1..Len(streak) :
        (\A j \in 1..i : streak[j].kind = "store" /\ ~streak[j].giveUp)
            => streak[i].wait = SpecRetryInterval(i)


=============================================================================
