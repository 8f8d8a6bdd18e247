----------------------- MODULE IdempotencyCoordinator -----------------------
(***************************************************************************)
(* IdempotencyCoordinator.Execute for concurrent requests that carry the   *)
(* same Idempotency-Key in the same scope: claim the record or answer from *)
(* it, run the operation, record its outcome.  The record may expire, and  *)
(* be reclaimed or deleted, at any time; requests stall and die anywhere.  *)
(* An operation that fails has had no effect.                              *)
(***************************************************************************)
EXTENDS IdempotencyStore

CONSTANT Requests

VARIABLES
    req,       \* each request: next step, fingerprint, its time.Now(), the id
               \* and status it read, the body to replay, and the time of the
               \* last renewal (0: no renewal is running)
    effects,   \* how often the operation succeeded
    detached,  \* the operation runs with ExecutionTimeout: its lease is renewed
    timely     \* claims and renewals keep to their schedule (see Tick)

vars == <<rec, clock, req, effects, detached, timely>>

ClaimPcs == {"create", "get", "reclaimExpired", "again", "reclaim"}
RunPcs   == {"execute", "markOk", "markFailed"}

Idle == [pc |-> "idle", fp |-> "none", now |-> 0, id |-> 0, from |-> "none", out |-> "none", beat |-> 0]

TypeOK ==
    /\ StoreTypeOK
    /\ req \in [Requests -> [pc: {"idle", "replay"} \union ClaimPcs \union RunPcs, fp: Fingerprints \union {"none"},
                             now: 0..MaxTime, id: Nat, from: Recorded \union {"none"},
                             out: Fingerprints \union {"none", "cut"}, beat: 0..MaxTime]]
    /\ effects \in Nat
    /\ detached \in BOOLEAN /\ timely \in BOOLEAN

Init ==
    /\ StoreInit
    /\ req = [p \in Requests |-> Idle]
    /\ effects = 0
    /\ detached \in BOOLEAN /\ timely \in BOOLEAN

At(p, l)   == req[p].pc = l
Leave(p)   == req' = [req EXCEPT ![p] = Idle]
Goto(p, l) == req' = [req EXCEPT ![p].pc = l]
Same       == UNCHANGED <<clock, detached, timely>>

(* The record is claimed: the operation runs, its lease renewed if asked. *)
Claimed(p, id) ==
    req' = [req EXCEPT ![p].pc = "execute", ![p].id = id, ![p].from = "none",
                       ![p].beat = IF detached THEN req[p].now ELSE 0]

-----------------------------------------------------------------------------
Begin(p) ==
    /\ At(p, "idle")
    /\ \E f \in Fingerprints : req' = [req EXCEPT ![p] = [Idle EXCEPT !.pc = "create", !.fp = f, !.now = clock]]
    /\ Same /\ UNCHANGED <<rec, effects>>

Create(p) ==
    /\ At(p, "create")
    /\ IF Exists THEN Goto(p, "get") /\ UNCHANGED rec
                 ELSE CreateProcessing(req[p].fp, req[p].now) /\ Claimed(p, rec.id + 1)
    /\ Same /\ UNCHANGED effects

(* Mutant of Matches: the payload is not compared. *)
MatchesAny(p) == Exists

Matches(p) == Exists /\ rec.fp = req[p].fp

(* Mutant of Retryable: a processing record whose lock has timed out is    *)
(* taken over.                                                             *)
RetryableTimedOut(p) ==
    rec.status \in {"failed_retryable", "processing"} /\ rec.locked <= req[p].now

Retryable(p) == rec.status = "failed_retryable" /\ rec.locked <= req[p].now

(* The switch on the status of the record that was read: replay, try to    *)
(* reclaim, or refuse (in progress, or in backoff).                        *)
Decide(p) ==
    CASE rec.status = "succeeded" -> req' = [req EXCEPT ![p].pc = "replay", ![p].out = rec.body]
      [] Retryable(p) -> req' = [req EXCEPT ![p].pc = "reclaim", ![p].id = rec.id, ![p].from = rec.status]
      [] OTHER -> Leave(p)

GetExisting(p) ==
    /\ At(p, "get")
    /\ IF ~Matches(p) THEN Leave(p)
       ELSE IF rec.expires <= req[p].now
       THEN req' = [req EXCEPT ![p].pc = "reclaimExpired", ![p].id = rec.id, ![p].from = rec.status]
       ELSE Decide(p)
    /\ Same /\ UNCHANGED <<rec, effects>>

ReclaimExpired(p) ==
    /\ At(p, "reclaimExpired")
    /\ IF Reclaimable(req[p].id, req[p].from, req[p].now)
       THEN TryReclaim(req[p].now) /\ Claimed(p, rec.id)
       ELSE Goto(p, "again") /\ UNCHANGED rec
    /\ Same /\ UNCHANGED effects

GetLatest(p) ==
    /\ At(p, "again")
    /\ IF Matches(p) THEN Decide(p) ELSE Leave(p)
    /\ Same /\ UNCHANGED <<rec, effects>>

Reclaim(p) ==
    /\ At(p, "reclaim")
    /\ IF Reclaimable(req[p].id, req[p].from, req[p].now)
       THEN TryReclaim(req[p].now) /\ Claimed(p, rec.id)
       ELSE Leave(p) /\ UNCHANGED rec
    /\ Same /\ UNCHANGED effects

(* A body that was cut does not decode: the answer is then an error. *)
Replay(p) ==
    /\ At(p, "replay")
    /\ Leave(p)
    /\ Same /\ UNCHANGED <<rec, effects>>

-----------------------------------------------------------------------------
Execute(p) ==
    /\ At(p, "execute")
    /\ \/ Goto(p, "markOk") /\ effects' = effects + 1
       \/ Goto(p, "markFailed") /\ UNCHANGED effects
    /\ Same /\ UNCHANGED rec

(* The expiry of the outcome counts from the end of a detached operation,  *)
(* and from the arrival of any other.                                      *)
Expiry(p) == (IF detached THEN clock ELSE req[p].now) + TTL

(* The stored response is the operation's, or is cut when it is too long. *)
RecordSuccess(p) ==
    /\ At(p, "markOk")
    /\ \E body \in {req[p].fp, "cut"} : MarkSucceeded(req[p].id, body, Expiry(p))
    /\ Leave(p)
    /\ Same /\ UNCHANGED effects

RecordFailure(p) ==
    /\ At(p, "markFailed")
    /\ MarkFailedRetryable(req[p].id, clock + Backoff, Expiry(p))
    /\ Leave(p)
    /\ Same /\ UNCHANGED effects

(* renewProcessingLease: one attempt; the loop ends when no row matches. *)
Renew(p) ==
    /\ req[p].beat # 0
    /\ ExtendProcessingLock(req[p].id, req[p].fp)
    /\ req' = [req EXCEPT ![p].beat = IF Extendable(req[p].id, req[p].fp) THEN clock ELSE 0]
    /\ Same /\ UNCHANGED effects

-----------------------------------------------------------------------------
(* The process dies, the request is cancelled, or a statement fails and    *)
(* the request is answered with an error.                                  *)
Crash(p) ==
    /\ ~At(p, "idle")
    /\ Leave(p)
    /\ Same /\ UNCHANGED <<rec, effects>>

Cleanup ==
    /\ DeleteExpired
    /\ Same /\ UNCHANGED <<req, effects>>

(* When timely, a claim ends and a renewal is tried within the period. *)
OnSchedule(p) ==
    /\ req[p].pc \in ClaimPcs => clock + 1 < req[p].now + Period
    /\ req[p].beat # 0 => clock + 1 < req[p].beat + Period

Tick ==
    /\ clock < MaxTime
    /\ timely => \A p \in Requests : OnSchedule(p)
    /\ clock' = clock + 1
    /\ UNCHANGED <<rec, req, effects, detached, timely>>

Step(p) ==
    \/ Begin(p) \/ Create(p) \/ GetExisting(p) \/ ReclaimExpired(p) \/ GetLatest(p) \/ Reclaim(p) \/ Replay(p)
    \/ Execute(p) \/ RecordSuccess(p) \/ RecordFailure(p) \/ Renew(p) \/ Crash(p)

Next == (\E p \in Requests : Step(p)) \/ Cleanup \/ Tick

Spec == Init /\ [][Next]_vars

-----------------------------------------------------------------------------
Executing == {p \in Requests : At(p, "execute")}

(* Within one lifetime of the first record the operation takes effect once *)
(* for all requests with the key, whatever fails, crashes or stalls: while *)
(* one runs no other does, and after it took effect none starts again,     *)
(* also when its outcome could not be recorded (Execute).                  *)
SingleSideEffect ==
    clock <= TTL => /\ effects <= 1
                    /\ effects = 1 => Executing = {}
                    /\ \A p, q \in Executing : p = q

(* A response is only replayed to the payload that produced it, across     *)
(* reclaims, deletions and late outcomes of stale requests                 *)
(* (BuildIdempotencyFingerprint, MarkSucceeded by id).                     *)
ReplayIsOwn ==
    \A p \in Requests : At(p, "replay") => req[p].out \in {req[p].fp, "cut"}

(* A detached operation that renews its lease on schedule runs alone,      *)
(* however long it takes: its record neither expires nor is cleaned up     *)
(* under it (renewProcessingLease).                                        *)
RenewedRunsAlone ==
    detached /\ timely => \A p, q \in Executing : p = q

=============================================================================
