--------------------------- MODULE SchedulerCache ---------------------------
(***************************************************************************)
(* One scheduling bucket in Redis (repository/scheduler_cache.go): the     *)
(* writers' epoch, the mark of a retired bucket, the active snapshot, the  *)
(* rebuild lock, and the lease under which a group's buckets are retired   *)
(* and reopened.  Each script is one step.  Snapshot versions are only     *)
(* ever compared, so what is kept of them is the order of the writers      *)
(* whose version is newer than the active one.                             *)
(***************************************************************************)
EXTENDS Integers, Sequences, SequencesExt

CONSTANTS Workers, Nil

ASSUME CacheAssumption == Nil \notin Workers \union Nat

VARIABLES
    bucket,         \* epoch, retired, and the account set that is active
    newer,          \* writers with a version above the active one, in order
    lock,           \* who holds the bucket's rebuild lock
    lease           \* who holds the group's lifecycle lease

cache == <<bucket, newer, lock, lease>>

CacheInit ==
    /\ bucket = [epoch |-> 1, retired |-> FALSE, active |-> Nil]
    /\ newer = <<>> /\ lock = Nil /\ lease = Nil

Fenced(epoch) == bucket.retired \/ bucket.epoch # epoch

(* allocateSnapshotVersionScript *)
AllocateVersion(w) == newer' = Append(newer, w)

(* A writer draws one version at a time. *)
Forget(w) == newer' = RemoveFirst(newer, w)

(* activateSnapshotScript: an older version than the active one is dropped *)
(* and that is no error.                                                   *)
ActivateSnapshot(w, content) ==
    LET at == SelectInSeq(newer, LAMBDA x : x = w) IN
    IF at = 0
    THEN UNCHANGED <<bucket, newer>>
    ELSE /\ bucket' = [bucket EXCEPT !.active = content]
         /\ newer' = SubSeq(newer, at + 1, Len(newer))

(* Mutant of RetireBucket: the epoch stays. *)
RetireSameEpoch == bucket' = [bucket EXCEPT !.retired = TRUE, !.active = Nil]

(* retireBucketScript: the first retirement ends the epoch. *)
RetireBucket ==
    bucket' = [epoch   |-> IF bucket.retired THEN bucket.epoch ELSE bucket.epoch + 1,
               retired |-> TRUE,
               active  |-> Nil]

(* reopenBucketScript *)
ReopenBucket ==
    bucket' = IF bucket.retired THEN [bucket EXCEPT !.retired = FALSE, !.active = Nil] ELSE bucket

(* UnlockBucket deletes whatever lock there is; the lease is only released *)
(* by its owner.                                                           *)
TryLockBucket(w) == lock = Nil /\ lock' = w
UnlockBucket     == lock' = Nil

TryAcquireLease(w) == lease = Nil /\ lease' = w
ReleaseLease(w)    == lease = w /\ lease' = Nil

=============================================================================
