----------------------------- MODULE UserSlots -----------------------------
(***************************************************************************)
(* The concurrency slots and the wait count of one user in Redis           *)
(* (repository/concurrency_cache.go).  Each operation is one script.       *)
(***************************************************************************)
EXTENDS Integers, FiniteSets

CONSTANTS
    Limits,         \* what the user's concurrency may be set to
    MaxWait         \* how many requests may wait for a slot

ASSUME SlotAssumption == Limits \subseteq Nat \ {0} /\ MaxWait \in Nat

VARIABLES
    limit,          \* the user's concurrency
    slots,          \* members of the slot set
    waiting         \* the wait count

redis == <<limit, slots, waiting>>

SlotsInit == limit \in Limits /\ slots = {} /\ waiting = 0

(* Mutant of SlotFree: off by one. *)
SlotFreeAtLimit == Cardinality(slots) <= limit

SlotFree == Cardinality(slots) < limit

AcquireSlot(r) == SlotFree /\ slots' = slots \union {r}
ReleaseSlot(r) == slots' = slots \ {r}

IncrementWait == waiting < MaxWait /\ waiting' = waiting + 1

(* Mutant of DecrementWait: it may go below zero. *)
DecrementWaitAlways == waiting' = waiting - 1

DecrementWait == waiting' = IF waiting > 0 THEN waiting - 1 ELSE 0

(* CleanupStaleProcessSlots: a starting process removes every member that  *)
(* does not have its own prefix, and the wait count.                       *)
CleanupStaleProcessSlots == slots' = {} /\ waiting' = 0

=============================================================================
