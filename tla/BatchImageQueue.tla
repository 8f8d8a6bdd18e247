-------------------------- MODULE BatchImageQueue --------------------------
(***************************************************************************)
(* The Redis queue of batch image jobs (repository/batch_image_queue.go):  *)
(* a ready list, a delayed and an active sorted set, the in-flight keys    *)
(* that keep a job from being queued twice, and the job locks.  Every      *)
(* script or pipeline is one step.  A job may be on the ready list several *)
(* times; the list's order and the sets' scores are left out.              *)
(***************************************************************************)
EXTENDS BatchImageJobs

CONSTANTS Workers, Nil

ASSUME QueueAssumption == Nil \notin Workers \union Batches

VARIABLES
    ready,      \* how often each job is on the ready list
    delayed, active, inflight,
    lock        \* the worker whose token holds each job's lock

queue == <<ready, delayed, active, inflight, lock>>

QueueTypeOK ==
    /\ ready \in [Batches -> Nat]
    /\ delayed \subseteq Batches
    /\ active \subseteq Batches
    /\ inflight \subseteq Batches
    /\ lock \in [Batches -> Workers \union {Nil}]

QueueInit ==
    /\ ready = [b \in Batches |-> 0] /\ delayed = {} /\ active = {} /\ inflight = {}
    /\ lock = [b \in Batches |-> Nil]

Pushed(b) == [ready EXCEPT ![b] = @ + 1]

(* A job that is in flight is not queued again (ErrBatchImageAlreadyQueued, *)
(* which every caller takes for success).                                  *)
Enqueue(b) ==
    /\ ready' = IF b \in inflight THEN ready ELSE Pushed(b)
    /\ inflight' = inflight \union {b}
    /\ UNCHANGED <<delayed, active, lock>>

ReserveNext(b) ==
    /\ ready[b] > 0
    /\ ready' = [ready EXCEPT ![b] = @ - 1]
    /\ active' = active \union {b}
    /\ UNCHANGED <<delayed, inflight, lock>>

Unlocked(w, b) == [lock EXCEPT ![b] = IF @ = w THEN Nil ELSE @]

(* RequeueAfter, then the deferred Release of the lock. *)
RequeueAfter(w, b) ==
    /\ active' = active \ {b}
    /\ delayed' = delayed \union {b}
    /\ lock' = Unlocked(w, b)
    /\ UNCHANGED <<ready, inflight>>

(* Mutant of Ack: the in-flight key is forgotten. *)
AckKeepsKey(w, b) ==
    /\ active' = active \ {b}
    /\ delayed' = delayed \ {b}
    /\ lock' = Unlocked(w, b)
    /\ UNCHANGED <<ready, inflight>>

(* Ack, then the deferred Release of the lock. *)
Ack(w, b) ==
    /\ active' = active \ {b}
    /\ delayed' = delayed \ {b}
    /\ inflight' = inflight \ {b}
    /\ lock' = Unlocked(w, b)
    /\ UNCHANGED ready

MoveDueDelayedToReady(b) ==
    /\ b \in delayed
    /\ delayed' = delayed \ {b}
    /\ ready' = Pushed(b)
    /\ UNCHANGED <<active, inflight, lock>>

RecoverStaleActive(b) ==
    /\ b \in active
    /\ active' = active \ {b}
    /\ ready' = Pushed(b)
    /\ UNCHANGED <<delayed, inflight, lock>>

(* Mutant of TryAcquireJobLock: SET without NX. *)
TakeJobLock(w, b) ==
    /\ lock' = [lock EXCEPT ![b] = w]
    /\ UNCHANGED <<ready, delayed, active, inflight>>

TryAcquireJobLock(w, b) ==
    /\ lock[b] = Nil
    /\ lock' = [lock EXCEPT ![b] = w]
    /\ UNCHANGED <<ready, delayed, active, inflight>>

LockExpires(b) ==
    /\ lock[b] # Nil
    /\ lock' = [lock EXCEPT ![b] = Nil]
    /\ UNCHANGED <<ready, delayed, active, inflight>>

=============================================================================
