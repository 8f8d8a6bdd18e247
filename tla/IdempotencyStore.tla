-------------------------- MODULE IdempotencyStore --------------------------
(***************************************************************************)
(* The row of idempotency_records for one (scope, key), and the statements *)
(* of the repository on it.  Every statement is atomic.  A row that is     *)
(* absent keeps the last id the sequence handed out, so that the next row  *)
(* gets a new one.  Time is a bounded clock; NULL in locked_until is 0,    *)
(* which is before every time.                                             *)
(***************************************************************************)
EXTENDS Naturals

CONSTANTS
    Fingerprints, \* the request fingerprints that use the key
    Lease,        \* ProcessingTimeout
    TTL,          \* how long a record lives
    Backoff,      \* FailedRetryBackoff
    MaxTime       \* bound on the clock

ASSUME TimesAssumption == {Lease, TTL, MaxTime} \subseteq Nat \ {0} /\ Backoff \in Nat
ASSUME FingerprintsAssumption == "none" \notin Fingerprints /\ "cut" \notin Fingerprints

VARIABLES
    rec,    \* the row
    clock   \* time.Now()

Null      == 0
Recorded  == {"processing", "succeeded", "failed_retryable"}
Rows      == [id: Nat, status: Recorded \union {"absent"}, fp: Fingerprints \union {"none"},
              locked: Nat, expires: Nat, body: Fingerprints \union {"none", "cut"}]
NoRow(id) == [id |-> id, status |-> "absent", fp |-> "none", locked |-> Null, expires |-> 0, body |-> "none"]

StoreTypeOK == rec \in Rows /\ clock \in 1..MaxTime
StoreInit   == rec = NoRow(0) /\ clock = 1

Exists == rec.status # "absent"
Row(id) == Exists /\ rec.id = id

(* INSERT ... ON CONFLICT DO NOTHING; the caller looks at Exists. *)
CreateProcessing(f, now) ==
    rec' = [id |-> rec.id + 1, status |-> "processing", fp |-> f,
            locked |-> now + Lease, expires |-> now + TTL, body |-> "none"]

(* The WHERE and the SET of TryReclaim: the fingerprint, the stored body   *)
(* and whether the record has expired are left alone.                      *)
Reclaimable(id, from, now) == Row(id) /\ rec.status = from /\ rec.locked <= now

TryReclaim(now) ==
    rec' = [rec EXCEPT !.status = "processing", !.locked = now + Lease, !.expires = now + TTL]

Extendable(id, f) == Row(id) /\ rec.status = "processing" /\ rec.fp = f

(* Mutant of ExtendProcessingLock: the new times are not written. *)
ExtendNothing(id, f) == rec' = rec

ExtendProcessingLock(id, f) ==
    rec' = IF Extendable(id, f) THEN [rec EXCEPT !.locked = clock + Lease, !.expires = clock + TTL] ELSE rec

(* Mutant of MarkSucceeded: a status no reader knows. *)
MarkSucceededDone(id, body, expires) ==
    rec' = IF Row(id) THEN [rec EXCEPT !.status = "done", !.body = body, !.locked = Null, !.expires = expires]
                      ELSE rec

(* Neither mark checks who owns the row. *)
MarkSucceeded(id, body, expires) ==
    rec' = IF Row(id) THEN [rec EXCEPT !.status = "succeeded", !.body = body, !.locked = Null, !.expires = expires]
                      ELSE rec

MarkFailedRetryable(id, until, expires) ==
    rec' = IF Row(id) THEN [rec EXCEPT !.status = "failed_retryable", !.locked = until, !.expires = expires] ELSE rec

DeleteExpired ==
    /\ Exists /\ rec.expires <= clock
    /\ rec' = NoRow(rec.id)

(* The longest time that a renewal on schedule may leave between two of    *)
(* its attempts; the interval is a third of it.                            *)
Period == IF Lease <= TTL THEN Lease ELSE TTL
=============================================================================
