------------------------ MODULE SystemOperationLock ------------------------
(***************************************************************************)
(* The global lock of update, rollback and restart: Acquire, the renewal   *)
(* loop and Release on one row of idempotency_records whose fingerprint is *)
(* the operation's id.  A caller that is refused may try again, also with  *)
(* the same id, once its previous attempt is over.                         *)
(***************************************************************************)
EXTENDS IdempotencyStore

VARIABLES
    op,       \* each operation: next step, its time.Now(), the id and status
              \* it read, whether it created the row, and the time of the last
              \* renewal (0: the loop has ended)
    timely    \* acquisitions and renewals keep to their schedule (see Tick)

vars == <<rec, clock, op, timely>>

Ops == Fingerprints

AcquirePcs == {"create", "get", "reclaim"}
Idle == [pc |-> "idle", now |-> 0, id |-> 0, from |-> "none", created |-> FALSE, beat |-> 0]

Init == StoreInit /\ op = [o \in Ops |-> Idle] /\ timely \in BOOLEAN

At(o, l)   == op[o].pc = l
Leave(o)   == op' = [op EXCEPT ![o] = Idle]
Same       == UNCHANGED <<clock, timely>>

(* The lock is taken and its renewal loop started. *)
Hold(o, id, created) ==
    op' = [op EXCEPT ![o] = [Idle EXCEPT !.pc = "held", !.id = id, !.created = created, !.beat = op[o].now]]

-----------------------------------------------------------------------------
Acquire(o) ==
    /\ At(o, "idle")
    /\ op' = [op EXCEPT ![o] = [Idle EXCEPT !.pc = "create", !.now = clock]]
    /\ Same /\ UNCHANGED rec

Create(o) ==
    /\ At(o, "create")
    /\ IF Exists THEN op' = [op EXCEPT ![o].pc = "get"] /\ UNCHANGED rec
                 ELSE CreateProcessing(o, op[o].now) /\ Hold(o, rec.id + 1, TRUE)
    /\ Same

Busy(o) == rec.status = "processing" /\ rec.locked > op[o].now

ReadLock(o) ==
    /\ At(o, "get")
    /\ IF Exists /\ ~Busy(o)
       THEN op' = [op EXCEPT ![o].pc = "reclaim", ![o].id = rec.id, ![o].from = rec.status]
       ELSE Leave(o)
    /\ Same /\ UNCHANGED rec

ReclaimLock(o) ==
    /\ At(o, "reclaim")
    /\ IF Reclaimable(op[o].id, op[o].from, op[o].now)
       THEN TryReclaim(op[o].now) /\ Hold(o, rec.id, FALSE)
       ELSE Leave(o) /\ UNCHANGED rec
    /\ Same

(* One turn of renewLoop: it ends when no row matches the operation. *)
Renew(o) ==
    /\ op[o].beat # 0
    /\ ExtendProcessingLock(op[o].id, o)
    /\ op' = [op EXCEPT ![o].beat = IF Extendable(op[o].id, o) THEN clock ELSE 0]
    /\ Same

Release(o) ==
    /\ At(o, "held")
    /\ \/ MarkSucceeded(op[o].id, "none", clock + TTL)
       \/ MarkFailedRetryable(op[o].id, clock, clock + TTL)
    /\ Leave(o)
    /\ Same

-----------------------------------------------------------------------------
(* The process dies, or a statement of Acquire or Release fails. *)
Crash(o) ==
    /\ ~At(o, "idle")
    /\ Leave(o)
    /\ Same /\ UNCHANGED rec

Cleanup == DeleteExpired /\ Same /\ UNCHANGED op

(* When timely, an acquisition ends and a renewal is tried within the      *)
(* period.                                                                 *)
OnSchedule(o) ==
    /\ op[o].pc \in AcquirePcs => clock + 1 < op[o].now + Period
    /\ op[o].beat # 0 => clock + 1 < op[o].beat + Period

Tick ==
    /\ clock < MaxTime
    /\ timely => \A o \in Ops : OnSchedule(o)
    /\ clock' = clock + 1
    /\ UNCHANGED <<rec, op, timely>>

Step(o) ==
    \/ Acquire(o) \/ Create(o) \/ ReadLock(o) \/ ReclaimLock(o)
    \/ Renew(o) \/ Release(o) \/ Crash(o)

Next == (\E o \in Ops : Step(o)) \/ Cleanup \/ Tick

Spec == Init /\ [][Next]_vars

-----------------------------------------------------------------------------
(* An operation that created the lock's row and renews it on schedule      *)
(* keeps every other operation out until it ends, however long it runs and *)
(* whatever it overlaps with: no lapse, clean-up or stale read lets one in *)
(* (Acquire, renewLoop).                                                   *)
CreatorKeepsOthersOut ==
    [][\A o, q \in Ops :
         timely /\ At(o, "held") /\ op[o].created /\ ~At(q, "held") => op'[q].pc # "held"]_vars

(* "The swap keeps running after a client disconnect; a later retry then   *)
(* hits the system operation lock" (system_handler.go): while everything   *)
(* is on schedule no two operations hold the lock.  Not kept: see the      *)
(* findings.                                                               *)
OneOperationAtATime ==
    timely => \A o, q \in Ops : At(o, "held") /\ At(q, "held") => o = q
=============================================================================
