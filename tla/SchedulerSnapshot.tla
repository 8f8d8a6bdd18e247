------------------------- MODULE SchedulerSnapshot -------------------------
(***************************************************************************)
(* How the scheduler's bucket of accounts follows the database             *)
(* (service/scheduler_snapshot_service.go).  Pollers apply the outbox's    *)
(* events in order and move the watermark; rebuilders rebuild everything   *)
(* at intervals; a request that finds no snapshot loads the accounts       *)
(* itself and publishes them.  One group and one of its buckets, of which  *)
(* only the members are modelled: the accounts' own data is under keys     *)
(* without a version, which every writer overwrites before its snapshot is *)
(* activated or refused.                                                   *)
(***************************************************************************)
EXTENDS SchedulerOutbox, SchedulerCache

CONSTANTS
    Pollers, Rebuilders, Requests,
    Crews,          \* which workers there may be together
    MaxChanges      \* bound, for each crew: changes of the group and its accounts

ASSUME WorkersAssumption ==
    /\ Workers = Pollers \union Rebuilders \union Requests
    /\ Pollers \intersect Rebuilders = {}
    /\ (Pollers \union Rebuilders) \intersect Requests = {}
    /\ Crews \subseteq SUBSET Workers
    /\ MaxChanges \in [Crews -> Nat]

VARIABLES
    crew,           \* the workers that run
    work,           \* per worker: step, token, accounts loaded, events left,
                    \* last id read, what it saw, whether it must not skip
    floor           \* ghost: the account set at the latest retirement

vars == <<outbox, missed, faults, cache, crew, work, floor>>

Idle == [pc |-> "idle", epoch |-> 0, loaded |-> 0, batch |-> <<>>, last |-> 0,
         saw |-> FALSE, strict |-> FALSE, ok |-> TRUE]

Init == /\ OutboxInit /\ CacheInit
        /\ crew \in Crews
        /\ work = [w \in Workers |-> Idle]
        /\ floor = 0

-----------------------------------------------------------------------------
At(w, l)   == work[w].pc = l
Goto(w, l) == work' = [work EXCEPT ![w].pc = l]
Stop(w)    == work' = [work EXCEPT ![w] = Idle]

(* handleOutboxEvent: where the next event of the batch begins. *)
EventStep(batch) ==
    IF batch = <<>> THEN "advance" ELSE IF Head(batch) = "account" THEN "capture" ELSE "lease"

(* What a batch still has to do once its first event is done: a group's    *)
(* lifecycle has rebuilt what the group's accounts would have.             *)
Rest(batch) == IF Head(batch) = "group" THEN <<>> ELSE Tail(batch)

(* The task is over; a poller goes on with its batch. *)
Done(w) ==
    LET rest == Rest(work[w].batch) IN
    IF w \in Pollers
    THEN work' = [work EXCEPT ![w] = [Idle EXCEPT !.pc = EventStep(rest), !.batch = rest, !.last = work[w].last]]
    ELSE Stop(w)

DoneOrStop(w, ok) == IF ok THEN Done(w) ELSE Stop(w)

-----------------------------------------------------------------------------
(* pollOutbox.                                                             *)

PollOutbox(w) ==
    /\ w \in Pollers /\ At(w, "idle")
    /\ work' = [work EXCEPT ![w].pc = "list", ![w].last = watermark]
    /\ UNCHANGED <<outbox, missed, faults, cache, floor>>

ListOutbox(w) ==
    LET found == After(work[w].last) IN
    /\ At(w, "list")
    /\ rows' = Released(work[w].last)
    /\ work' = [work EXCEPT ![w] =
                  IF found = {} THEN Idle
                  ELSE [Idle EXCEPT !.pc = EventStep(Batch(found)), !.batch = Batch(found), !.last = LastId(found)]]
    /\ UNCHANGED <<saved, seq, writer, watermark, missed, faults, cache, floor>>

(* Whatever the watermark is by now, another poller may have moved it on;  *)
(* then cleanupConsumedOutbox, if the rows are old enough.                 *)
SetWatermark(w) ==
    /\ At(w, "advance") /\ Stop(w)
    /\ \/ watermark' = work[w].last /\ rows' \in {rows, Consumed(work[w].last)} /\ UNCHANGED faults
       \/ Fault /\ UNCHANGED <<watermark, rows>>
    /\ UNCHANGED <<saved, seq, writer, missed, cache, floor>>

-----------------------------------------------------------------------------
(* rebuildFullSnapshot looks at the active groups, and at the groups of    *)
(* registered buckets, which are those with an active snapshot.            *)

FullRebuild(w) ==
    /\ w \in Rebuilders /\ At(w, "idle")
    /\ \/ GroupActive /\ Goto(w, "capture")
       \/ ~GroupActive /\ bucket.active # Nil /\ Goto(w, "lease")
    /\ UNCHANGED <<outbox, missed, faults, cache, floor>>

(* ListSchedulableAccounts without a snapshot: nothing is active, what is  *)
(* active is empty or lacks an account's data, or Redis fails.             *)
FallBack(w) ==
    /\ w \in Requests /\ At(w, "idle")
    /\ Goto(w, "capture")
    /\ UNCHANGED <<outbox, missed, faults, cache, floor>>

-----------------------------------------------------------------------------
(* rebuildBucketWithTokenPolicyAndQueryCache, and the request's own load   *)
(* and publish, which takes no lock.                                       *)

(* Mutant of CaptureToken: a full rebuild passes over retired buckets. *)
CaptureTokenOrSkip(w) ==
    /\ At(w, "capture")
    /\ \/ /\ ~bucket.retired
          /\ work' = [work EXCEPT ![w].pc = IF w \in Requests THEN "load" ELSE "lock",
                                  ![w].epoch = bucket.epoch]
       \/ bucket.retired /\ Done(w)
    /\ UNCHANGED <<outbox, missed, faults, cache, floor>>

(* An event passes over a retired bucket; a full rebuild, which has seen   *)
(* the group active, looks at its lifecycle.                               *)
CaptureToken(w) ==
    /\ At(w, "capture")
    /\ \/ /\ ~bucket.retired
          /\ work' = [work EXCEPT ![w].pc = IF w \in Requests THEN "load" ELSE "lock",
                                  ![w].epoch = bucket.epoch]
       \/ bucket.retired /\ w \in Rebuilders /\ Goto(w, "lease")
       \/ bucket.retired /\ w \notin Rebuilders /\ Done(w)
    /\ UNCHANGED <<outbox, missed, faults, cache, floor>>

(* A bucket that another worker rebuilds is passed over, unless it was     *)
(* just reopened.                                                          *)
LockBucket(w) ==
    /\ At(w, "lock")
    /\ \/ TryLockBucket(w) /\ Goto(w, "load") /\ UNCHANGED missed
       \/ /\ lock # Nil /\ DoneOrStop(w, ~work[w].strict) /\ UNCHANGED lock
          /\ missed' = (missed \/ (w \in Pollers /\ ~work[w].strict))
    /\ UNCHANGED <<outbox, faults, bucket, newer, lease, floor>>

LoadAccounts(w) ==
    /\ At(w, "load")
    /\ work' = [work EXCEPT ![w].pc = "allocate", ![w].loaded = saved["account"]]
    /\ UNCHANGED <<outbox, missed, faults, cache, floor>>

(* The write is over; the deferred unlock follows. *)
EndWrite(w, ok) ==
    IF w \in Requests THEN Stop(w)
    ELSE work' = [work EXCEPT ![w] = [@ EXCEPT !.pc = "unlock", !.ok = ok, !.epoch = 0, !.loaded = 0, !.strict = FALSE]]

Allocate(w) ==
    /\ At(w, "allocate")
    /\ \/ Fenced(work[w].epoch) /\ EndWrite(w, ~work[w].strict) /\ UNCHANGED newer
       \/ ~Fenced(work[w].epoch) /\ AllocateVersion(w) /\ Goto(w, "activate")
    /\ UNCHANGED <<outbox, missed, faults, bucket, lock, lease, floor>>

(* Accounts loaded earlier replace later ones, or keep them out: versions  *)
(* are drawn after the accounts are loaded.                                *)
Overtaken(w) ==
    /\ bucket.active # Nil
    /\ \/ Contains(newer, w) /\ work[w].loaded < bucket.active
       \/ ~Contains(newer, w) /\ work[w].loaded > bucket.active

Activate(w) ==
    /\ At(w, "activate")
    /\ \/ /\ Fenced(work[w].epoch) /\ Forget(w) /\ EndWrite(w, ~work[w].strict)
          /\ UNCHANGED <<bucket, missed>>
       \/ /\ ~Fenced(work[w].epoch) /\ ActivateSnapshot(w, work[w].loaded) /\ EndWrite(w, TRUE)
          /\ missed' = (missed \/ Overtaken(w))
    /\ UNCHANGED <<outbox, faults, lock, lease, floor>>

(* An unlock that fails leaves the lock to its TTL. *)
Unlock(w) ==
    /\ At(w, "unlock")
    /\ \/ UnlockBucket /\ UNCHANGED faults
       \/ Fault /\ UNCHANGED lock
    /\ DoneOrStop(w, work[w].ok)
    /\ UNCHANGED <<outbox, missed, bucket, newer, lease, floor>>

-----------------------------------------------------------------------------
(* prepareGroupLifecycle.                                                  *)

AcquireLease(w) ==
    /\ At(w, "lease")
    /\ \/ TryAcquireLease(w) /\ Goto(w, "read")
       \/ lease # Nil /\ Stop(w) /\ UNCHANGED lease
    /\ UNCHANGED <<outbox, missed, faults, bucket, newer, lock, floor>>

ReadGroup(w) ==
    /\ At(w, "read")
    /\ work' = [work EXCEPT ![w].pc = "decide", ![w].saw = GroupActive]
    /\ UNCHANGED <<outbox, missed, faults, cache, floor>>

Decide(w) ==
    /\ At(w, "decide")
    /\ \/ /\ work[w].saw /\ ReopenBucket /\ UNCHANGED floor
          /\ work' = [work EXCEPT ![w].pc = "release", ![w].epoch = bucket.epoch]
       \/ /\ ~work[w].saw /\ RetireBucket
          /\ floor' = IF bucket.retired THEN floor ELSE saved["account"]
          /\ Goto(w, "release")
    /\ UNCHANGED <<outbox, missed, faults, newer, lock, lease>>

(* A lost lease fails the task.  An active group's buckets are rebuilt, and *)
(* must be.                                                                *)
ReleaseLifecycle(w) ==
    /\ At(w, "release")
    /\ \/ /\ ReleaseLease(w)
          /\ IF ~work[w].ok THEN Stop(w)
             ELSE IF work[w].saw THEN work' = [work EXCEPT ![w] = [@ EXCEPT !.pc = "lock", !.strict = TRUE, !.saw = FALSE]]
             ELSE Done(w)
          /\ UNCHANGED faults
       \/ Stop(w) /\ Fault /\ UNCHANGED lease
    /\ UNCHANGED <<outbox, missed, bucket, newer, lock, floor>>

-----------------------------------------------------------------------------
Start(w) == PollOutbox(w) \/ FullRebuild(w) \/ FallBack(w)

Step(w) ==
    \/ ListOutbox(w) \/ SetWatermark(w) \/ CaptureToken(w) \/ LockBucket(w) \/ LoadAccounts(w) \/ Allocate(w) \/ Activate(w) \/ Unlock(w)
    \/ AcquireLease(w) \/ ReadGroup(w) \/ Decide(w) \/ ReleaseLifecycle(w)

Locked == {"load", "allocate", "activate"}
Leased == {"read", "decide"}

(* A statement fails: the worker gives up, past its deferred calls. *)
StepError(w) ==
    /\ work[w].pc \in Locked \union Leased \union {"list", "capture", "lock", "lease"}
    /\ Fault /\ Forget(w)
    /\ IF work[w].pc \in Locked THEN EndWrite(w, FALSE)
       ELSE IF work[w].pc \in Leased THEN work' = [work EXCEPT ![w].pc = "release", ![w].ok = FALSE]
       ELSE Stop(w)
    /\ UNCHANGED <<outbox, missed, bucket, lock, lease, floor>>

Crash(w) ==
    /\ ~At(w, "idle") /\ Fault /\ Forget(w) /\ Stop(w)
    /\ UNCHANGED <<outbox, missed, bucket, lock, lease, floor>>

(* The TTLs are no shorter than the time-outs of the holders' work. *)
LockExpires ==
    /\ lock # Nil /\ work[lock].pc \notin Locked
    /\ UnlockBucket
    /\ UNCHANGED <<outbox, missed, faults, bucket, newer, lease, work, floor>>

LeaseExpires ==
    /\ lease # Nil /\ work[lease].pc \notin Leased \union {"release"}
    /\ lease' = Nil
    /\ UNCHANGED <<outbox, missed, faults, bucket, newer, lock, work, floor>>

Next ==
    \/ \E s \in Subjects : Change(s) /\ Changes' <= MaxChanges[crew] /\ UNCHANGED <<cache, crew, work, floor>>
    \/ /\ \/ \E w \in crew : Start(w) \/ Step(w) \/ StepError(w) \/ Crash(w)
          \/ LockExpires \/ LeaseExpires
       /\ UNCHANGED crew

(* Fairness: what a worker has begun it ends, the rebuilder's ticker       *)
(* ticks, and keys with a TTL expire.                                      *)
Fairness ==
    /\ \A w \in Workers : WF_vars(Step(w) /\ UNCHANGED crew)
    /\ \A w \in Rebuilders : WF_vars(w \in crew /\ FullRebuild(w) /\ UNCHANGED crew)
    /\ WF_vars(LockExpires /\ UNCHANGED crew)
    /\ WF_vars(LeaseExpires /\ UNCHANGED crew)

Spec == Init /\ [][Next]_vars /\ Fairness

-----------------------------------------------------------------------------
(* The bucket agrees with the database: for an active group it is open and *)
(* what it serves is current, for an inactive one it serves nothing.       *)
Fresh ==
    IF GroupActive
    THEN ~bucket.retired /\ bucket.active \in {Nil, saved["account"]}
    ELSE bucket.active = Nil

(* The outbox suffices for what it announces: when no row is left to read  *)
(* and nobody is at work, the bucket has the members the database has,     *)
(* although rows are coalesced, pollers share events, the lease is refused *)
(* and retirement overtakes writers; unless                                *)
(*   a change was not announced, or its insert failed (ChangeUnannounced,  *)
(*   Enqueue),                                                             *)
(*   a row was committed below a higher id, or the row that stood for it   *)
(*   had been read (Commit),                                               *)
(*   a poller passed over a bucket that another worker was rebuilding      *)
(*   (LockBucket), or                                                      *)
(*   a snapshot loaded earlier replaced a later one (Overtaken).           *)
(* It says nothing of the accounts' own data.                              *)
QuietMeansFresh ==
    /\ ~missed
    /\ After(watermark) = {}
    /\ \A s \in Subjects : writer[s].pc = "none"
    /\ \A w \in Workers : At(w, "idle")
    => Fresh

(* A retired bucket serves nothing, and no members loaded before a group's *)
(* retirement are ever served after it, however slow their writer (the     *)
(* epochs of scheduler_cache.go).  The accounts' own data is not fenced:   *)
(* it is written before the epoch is compared.                             *)
RetiredIsGone ==
    /\ bucket.retired => bucket.active = Nil
    /\ bucket.active # Nil => bucket.active >= floor

(* Whatever race or failure happened, the bucket comes to agree with the   *)
(* database and stays so once changes and failures end                     *)
(* (runFullRebuildWorker).                                                 *)
SnapshotConverges == crew \intersect Rebuilders # {} => <>[]Fresh

=============================================================================
