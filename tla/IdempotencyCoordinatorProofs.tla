-------------------- MODULE IdempotencyCoordinatorProofs --------------------
(***************************************************************************)
(* Proofs about IdempotencyCoordinator, for any set of requests, any       *)
(* payloads and any lease, lifetime and backoff.                           *)
(*                                                                         *)
(* A record lives for TTL from the time.Now() of the request that claims   *)
(* it, so no record expires while the clock is within the first lifetime   *)
(* (TimesInv).  Until then a claim comes from an absent or a failed row    *)
(* only, and the row is processing as long as somebody runs (OnceInv).     *)
(* The id of a row stands for its fingerprint at all times (OwnInv).       *)
(* An operation whose lease is renewed on schedule holds the row: no claim *)
(* reaches it, whatever the clock (RenewInv).                              *)
(***************************************************************************)
EXTENDS IdempotencyCoordinator, TLAPS

TimesInv ==
    /\ \A p \in Requests : req[p].now <= clock /\ (req[p].pc # "idle" => req[p].now >= 1)
    /\ Exists => rec.expires > TTL

(* A request that may claim or mark a row by its id has the fingerprint of *)
(* that row, and the body of a success belongs to its fingerprint.         *)
OwnInv ==
    /\ \A p \in Requests :
         /\ req[p].id <= rec.id
         /\ req[p].pc \in {"reclaimExpired", "reclaim"} \union RunPcs /\ Row(req[p].id)
              => rec.fp = req[p].fp
    /\ rec.status = "succeeded" => rec.body \in {rec.fp, "cut"}

Running(p) == req[p].pc \in RunPcs

OnceInv ==
    clock <= TTL =>
      /\ \A p \in Requests :
           /\ req[p].pc \notin {"reclaimExpired", "again"}
           /\ req[p].pc = "reclaim" => req[p].from = "failed_retryable"
           /\ Running(p) => rec.status = "processing"
           /\ req[p].pc \in {"execute", "markFailed"} => effects = 0
      /\ \A p, q \in Requests : Running(p) /\ Running(q) => p = q
      /\ rec.status \in {"absent", "failed_retryable"} => effects = 0
      /\ effects <= 1

IndInv == TypeOK /\ TimesInv /\ OwnInv /\ ReplayIsOwn /\ OnceInv

-----------------------------------------------------------------------------
ReqType == [pc: {"idle", "replay"} \union ClaimPcs \union RunPcs, fp: Fingerprints \union {"none"},
            now: 0..MaxTime, id: Nat, from: Recorded \union {"none"},
            out: Fingerprints \union {"none", "cut"}, beat: 0..MaxTime]

(* A step of p turns its record into r and leaves the others alone. *)
Becomes(p, r) ==
    /\ req' \in [Requests -> ReqType]
    /\ req'[p] = r
    /\ \A q \in Requests \ {p} : req'[q] = req[q]

(* The row keeps its id, or a new row has a greater one; a row that keeps  *)
(* its id keeps its fingerprint.                                           *)
RowKept ==
    /\ rec'.id >= rec.id
    /\ Exists' /\ rec'.id = rec.id => Exists /\ rec'.fp = rec.fp
    /\ Exists' => rec'.expires > TTL
    /\ rec'.status = "succeeded" => rec'.body \in {rec'.fp, "cut"}

(* What a request with record r owes to the parts of the invariant.        *)
OwnOk(r, row) ==
    /\ r.now <= clock /\ (r.pc # "idle" => r.now >= 1)
    /\ r.id <= row.id
    /\ r.pc \in {"reclaimExpired", "reclaim"} \union RunPcs /\ row.status # "absent" /\ row.id = r.id
         => row.fp = r.fp
    /\ r.pc = "replay" => r.out \in {r.fp, "cut"}

OnceOk(r, row, n) ==
    /\ r.pc \notin {"reclaimExpired", "again"}
    /\ r.pc = "reclaim" => r.from = "failed_retryable"
    /\ r.pc \in RunPcs => row.status = "processing"
    /\ r.pc \in {"execute", "markFailed"} => n = 0

(* The invariant after a step of p, from what the step does to p, to the   *)
(* row and to those who run.                                               *)
LEMMA Assemble ==
    ASSUME IndInv, NEW p \in Requests, NEW r \in ReqType, Becomes(p, r),
           Same, rec' \in Rows, effects' \in Nat, RowKept, OwnOk(r, rec'),
           clock <= TTL =>
             /\ OnceOk(r, rec', effects')
             /\ \/ rec'.status = rec.status /\ effects' = effects
                \/ \A q \in Requests \ {p} : ~Running(q)
             /\ r.pc \in RunPcs => Running(p) \/ \A q \in Requests : ~Running(q)
             /\ rec'.status \in {"absent", "failed_retryable"} => effects' = 0
             /\ effects' <= 1
    PROVE  IndInv'
<1>1. TypeOK'
  BY DEF IndInv, TypeOK, StoreTypeOK, Becomes, ReqType, Same
<1>2. TimesInv'
  BY DEF IndInv, TimesInv, Becomes, Same, RowKept, OwnOk
<1>3. OwnInv'
  <2>1. ASSUME NEW q \in Requests
        PROVE  /\ req'[q].id <= rec'.id
               /\ req'[q].pc \in {"reclaimExpired", "reclaim"} \union RunPcs /\ Row(req[q].id)'
                    => rec'.fp = req'[q].fp
    <3>1. CASE q = p
      BY <3>1 DEF Becomes, OwnOk, Row, Exists
    <3>2. CASE q # p
      <4>1. req'[q] = req[q] /\ req[q].id <= rec.id /\ req[q].id \in Nat
        BY <3>2 DEF Becomes, IndInv, OwnInv, TypeOK
      <4>2. rec.id \in Nat /\ rec'.id \in Nat
        BY DEF IndInv, TypeOK, StoreTypeOK, Rows
      <4>3. req'[q].id <= rec'.id
        BY <4>1, <4>2 DEF RowKept
      <4>4. Row(req[q].id)' => Row(req[q].id) /\ rec'.fp = rec.fp
        BY <4>1, <4>2 DEF RowKept, Row
      <4> QED
        BY <4>1, <4>3, <4>4 DEF IndInv, OwnInv
    <3> QED
      BY <3>1, <3>2
  <2> QED
    BY <2>1 DEF OwnInv, RowKept
<1>4. ReplayIsOwn'
  BY DEF IndInv, ReplayIsOwn, At, Becomes, OwnOk
<1>5. OnceInv'
  <2> SUFFICES ASSUME clock <= TTL
               PROVE  OnceInv'
    BY DEF OnceInv, Same
  <2>1. ASSUME NEW q \in Requests
        PROVE  OnceOk(req'[q], rec', effects')
    <3>1. CASE q = p
      BY <3>1 DEF Becomes
    <3>2. CASE q # p
      BY <3>2 DEF Becomes, IndInv, OnceInv, OnceOk, Running, RunPcs
    <3> QED
      BY <3>1, <3>2
  <2>2. ASSUME NEW q \in Requests, NEW s \in Requests, Running(q)', Running(s)'
        PROVE  q = s
    BY <2>2 DEF Becomes, IndInv, OnceInv, Running
  <2> QED
    BY <2>1, <2>2 DEF OnceInv, OnceOk, Running
<1> QED
  BY <1>1, <1>2, <1>3, <1>4, <1>5 DEF IndInv

-----------------------------------------------------------------------------
(* The row as it is satisfies RowKept. *)
LEMMA SameRowKept ==
    ASSUME IndInv, UNCHANGED rec
    PROVE  RowKept
<1>1. rec.id \in Nat
  BY DEF IndInv, TypeOK, StoreTypeOK, Rows
<1> QED
  BY <1>1 DEF RowKept, IndInv, TimesInv, OwnInv, Exists

(* An idle request owes nothing. *)
LEMMA IdleOwesNothing ==
    ASSUME IndInv, NEW row \in Rows, NEW n
    PROVE  Idle \in ReqType /\ OwnOk(Idle, row) /\ OnceOk(Idle, row, n)
<1>1. clock \in Nat /\ MaxTime \in Nat /\ row.id \in Nat
  BY TimesAssumption DEF IndInv, TypeOK, StoreTypeOK, Rows
<1>2. Idle \in ReqType
  BY <1>1 DEF Idle, ReqType
<1> QED
  BY <1>1, <1>2 DEF Idle, OwnOk, OnceOk, RunPcs

(* What the invariant says of request p. *)
LEMMA ReqFacts ==
    ASSUME IndInv, NEW p \in Requests
    PROVE  /\ req[p] \in ReqType
           /\ OwnOk(req[p], rec)
           /\ clock <= TTL => OnceOk(req[p], rec, effects)
           /\ clock <= TTL => effects <= 1 /\ (rec.status \in {"absent", "failed_retryable"} => effects = 0)
           /\ clock \in 1..MaxTime /\ MaxTime \in Nat /\ TTL \in Nat /\ Lease \in Nat /\ effects \in Nat
           /\ rec \in Rows
<1>1. /\ clock \in 1..MaxTime /\ effects \in Nat /\ rec \in Rows /\ req[p] \in ReqType
  BY DEF IndInv, TypeOK, StoreTypeOK, ReqType
<1>2. MaxTime \in Nat /\ TTL \in Nat /\ Lease \in Nat
  BY TimesAssumption
<1>3. OwnOk(req[p], rec)
  BY DEF IndInv, TimesInv, OwnInv, ReplayIsOwn, OwnOk, At, Row, Exists
<1>4. clock <= TTL => OnceOk(req[p], rec, effects)
  BY DEF IndInv, OnceInv, OnceOk, Running
<1> QED
  BY <1>1, <1>2, <1>3, <1>4 DEF IndInv, OnceInv

(* A step that leaves the row alone and leads p to a record that owes      *)
(* nothing new.                                                            *)
LEMMA ControlStep ==
    ASSUME IndInv, NEW p \in Requests, NEW r \in ReqType, req' = [req EXCEPT ![p] = r],
           Same, UNCHANGED <<rec, effects>>, OwnOk(r, rec),
           clock <= TTL => OnceOk(r, rec, effects) /\ (r.pc \in RunPcs => Running(p))
    PROVE  IndInv'
<1>1. Becomes(p, r)
  BY DEF IndInv, TypeOK, ReqType, Becomes
<1>2. RowKept
  BY SameRowKept
<1>3. rec' \in Rows /\ effects' \in Nat
  BY DEF IndInv, TypeOK, StoreTypeOK
<1>4. clock <= TTL => effects <= 1 /\ (rec.status \in {"absent", "failed_retryable"} => effects = 0)
  BY DEF IndInv, OnceInv
<1> QED
  BY <1>1, <1>2, <1>3, <1>4, Assemble

(* A request that ends without touching the row. *)
LEMMA LeaveStep ==
    ASSUME IndInv, NEW p \in Requests, Leave(p), Same, UNCHANGED <<rec, effects>>
    PROVE  IndInv'
<1>1. rec \in Rows
  BY DEF IndInv, TypeOK, StoreTypeOK
<1>2. Idle \in ReqType /\ OwnOk(Idle, rec) /\ OnceOk(Idle, rec, effects)
  BY <1>1, IdleOwesNothing
<1>3. Idle.pc \notin RunPcs
  BY DEF Idle, RunPcs
<1> QED
  BY <1>2, <1>3, ControlStep DEF Leave

(* A request that goes on without touching the row. *)
LEMMA GotoStep ==
    ASSUME IndInv, NEW p \in Requests, NEW l \in {"get", "again", "markOk", "markFailed"},
           Goto(p, l), Same, UNCHANGED <<rec, effects>>, req[p].pc # "idle",
           l \in RunPcs => Running(p),
           clock <= TTL => l # "again" /\ (l = "markFailed" => effects = 0)
    PROVE  IndInv'
<1> DEFINE r == [req[p] EXCEPT !.pc = l]
<1>1. req[p] \in ReqType /\ OwnOk(req[p], rec) /\ (clock <= TTL => OnceOk(req[p], rec, effects))
  BY ReqFacts
<1>2. r \in ReqType /\ r.pc = l /\ r.now = req[p].now /\ r.id = req[p].id /\ r.fp = req[p].fp
  BY <1>1 DEF ReqType, ClaimPcs, RunPcs
<1>3. req' = [req EXCEPT ![p] = r]
  BY DEF Goto
<1>4. OwnOk(r, rec)
  BY <1>1, <1>2 DEF OwnOk, Running, RunPcs
<1>5. clock <= TTL => OnceOk(r, rec, effects) /\ (r.pc \in RunPcs => Running(p))
  BY <1>1, <1>2 DEF OnceOk, Running, RunPcs
<1> QED
  BY <1>2, <1>3, <1>4, <1>5, ControlStep

-----------------------------------------------------------------------------
(* The steps of a claim. *)

(* A request arrives. *)
LEMMA BeginInd ==
    ASSUME IndInv, NEW p \in Requests, Begin(p)
    PROVE  IndInv'
<1>1. PICK f \in Fingerprints :
        req' = [req EXCEPT ![p] = [Idle EXCEPT !.pc = "create", !.fp = f, !.now = clock]]
  BY DEF Begin
<1> DEFINE r == [Idle EXCEPT !.pc = "create", !.fp = f, !.now = clock]
<1>2. clock \in 1..MaxTime /\ MaxTime \in Nat /\ rec \in Rows
  BY ReqFacts
<1>3. r \in ReqType /\ r.pc = "create" /\ r.now = clock /\ r.id = 0
  <2>1. clock \in 0..MaxTime
    BY <1>2
  <2>2. Idle \in ReqType /\ Idle.id = 0
    BY <1>2, IdleOwesNothing DEF Idle
  <2> QED
    BY <2>1, <2>2 DEF ReqType, ClaimPcs
<1>4. OwnOk(r, rec) /\ OnceOk(r, rec, effects) /\ r.pc \notin RunPcs
  BY <1>2, <1>3 DEF OwnOk, OnceOk, RunPcs, Rows
<1> QED
  BY <1>1, <1>3, <1>4, ControlStep DEF Begin

(* A request that creates or reclaims the row: within the first lifetime   *)
(* nobody runs then and the operation has had no effect yet.               *)
LEMMA ClaimStep ==
    ASSUME IndInv, NEW p \in Requests, NEW id \in Nat, Claimed(p, id), Same, UNCHANGED effects,
           req[p].pc # "idle",
           rec' \in Rows, RowKept, rec'.status = "processing", rec'.id = id, rec'.fp = req[p].fp,
           clock <= TTL => effects = 0 /\ \A q \in Requests : ~Running(q)
    PROVE  IndInv'
<1> DEFINE r == [req[p] EXCEPT !.pc = "execute", !.id = id, !.from = "none",
                               !.beat = IF detached THEN req[p].now ELSE 0]
<1>1. /\ req[p] \in ReqType /\ OwnOk(req[p], rec) /\ clock \in 1..MaxTime /\ MaxTime \in Nat
      /\ effects \in Nat
  BY ReqFacts
<1>2. r \in ReqType
  <2>1. req[p].now \in 0..MaxTime /\ 0 \in 0..MaxTime
    BY <1>1 DEF ReqType
  <2>2. (IF detached THEN req[p].now ELSE 0) \in 0..MaxTime
    BY <2>1
  <2> QED
    BY <1>1, <2>2 DEF ReqType, RunPcs
<1>3. r.pc = "execute" /\ r.id = id /\ r.now = req[p].now /\ r.fp = req[p].fp
  BY <1>1 DEF ReqType
<1>4. Becomes(p, r)
  BY <1>2 DEF Claimed, IndInv, TypeOK, ReqType, Becomes
<1>5. OwnOk(r, rec')
  BY <1>1, <1>3 DEF OwnOk
<1>6. clock <= TTL => OnceOk(r, rec', effects')
  BY <1>3 DEF OnceOk, RunPcs
<1> QED
  BY <1>1, <1>2, <1>4, <1>5, <1>6, Assemble

(* CreateProcessing claims the row or finds one. *)
LEMMA CreateInd ==
    ASSUME IndInv, NEW p \in Requests, Create(p)
    PROVE  IndInv'
<1>1. CASE Exists
  <2>1. Goto(p, "get") /\ Same /\ UNCHANGED <<rec, effects>> /\ req[p].pc # "idle" /\ "get" \notin RunPcs
    BY <1>1 DEF Create, At, RunPcs
  <2> QED
    BY <2>1, GotoStep
<1>2. CASE ~Exists
  <2>1. /\ CreateProcessing(req[p].fp, req[p].now) /\ Claimed(p, rec.id + 1) /\ Same
        /\ UNCHANGED effects /\ req[p].pc = "create"
    BY <1>2 DEF Create, At
  <2>2. /\ req[p] \in ReqType /\ OwnOk(req[p], rec) /\ clock \in 1..MaxTime /\ MaxTime \in Nat
        /\ TTL \in Nat /\ Lease \in Nat /\ rec \in Rows
    BY ReqFacts
  <2>3. /\ req[p].now \in Nat /\ req[p].now >= 1 /\ req[p].fp \in Fingerprints \union {"none"} /\ rec.id \in Nat
    BY <2>1, <2>2 DEF ReqType, OwnOk, Rows
  <2>4. /\ rec'.status = "processing" /\ rec'.id = rec.id + 1 /\ rec'.fp = req[p].fp
        /\ rec'.expires = req[p].now + TTL
    BY <2>1 DEF CreateProcessing
  <2>5. rec' \in Rows
    BY <2>1, <2>2, <2>3 DEF CreateProcessing, Rows, Recorded
  <2>6. RowKept
    BY <2>2, <2>3, <2>4 DEF RowKept
  <2>7. clock <= TTL => effects = 0 /\ \A q \in Requests : ~Running(q)
    BY <1>2 DEF IndInv, OnceInv, Exists
  <2> QED
    BY <2>1, <2>3, <2>4, <2>5, <2>6, <2>7, ClaimStep
<1> QED
  BY <1>1, <1>2

(* The switch of Decide on a row that matches and, within the first        *)
(* lifetime, has not expired.                                              *)
LEMMA DecideInd ==
    ASSUME IndInv, NEW p \in Requests, Decide(p), Matches(p), Same, UNCHANGED <<rec, effects>>,
           req[p].pc # "idle"
    PROVE  IndInv'
<1>1. /\ req[p] \in ReqType /\ OwnOk(req[p], rec) /\ rec \in Rows /\ rec.id \in Nat
  BY ReqFacts DEF Rows
<1>2. CASE rec.status = "succeeded"
  <2> DEFINE r == [req[p] EXCEPT !.pc = "replay", !.out = rec.body]
  <2>1. req' = [req EXCEPT ![p] = r]
    BY <1>2 DEF Decide, Retryable
  <2>2. r \in ReqType
    BY <1>1 DEF ReqType, Rows
  <2>3. r.pc = "replay" /\ r.out = rec.body /\ r.fp = req[p].fp /\ r.id = req[p].id /\ r.now = req[p].now
    BY <1>1 DEF ReqType
  <2>4. rec.body \in {req[p].fp, "cut"}
    BY <1>2 DEF IndInv, OwnInv, Matches
  <2>5. OwnOk(r, rec) /\ OnceOk(r, rec, effects) /\ r.pc \notin RunPcs
    BY <1>1, <2>3, <2>4 DEF OwnOk, OnceOk, RunPcs
  <2> QED
    BY <2>1, <2>2, <2>5, ControlStep
<1>3. CASE rec.status # "succeeded" /\ Retryable(p)
  <2> DEFINE r == [req[p] EXCEPT !.pc = "reclaim", !.id = rec.id, !.from = rec.status]
  <2>1. req' = [req EXCEPT ![p] = r]
    BY <1>3 DEF Decide
  <2>2. r \in ReqType
    BY <1>1, <1>3 DEF ReqType, ClaimPcs, Recorded, Retryable
  <2>3. r.pc = "reclaim" /\ r.from = "failed_retryable" /\ r.fp = req[p].fp /\ r.id = rec.id /\ r.now = req[p].now
    BY <1>1, <1>3 DEF ReqType, Retryable
  <2>4. OwnOk(r, rec) /\ OnceOk(r, rec, effects) /\ r.pc \notin RunPcs
    BY <1>1, <2>3 DEF OwnOk, OnceOk, RunPcs, Matches
  <2> QED
    BY <2>1, <2>2, <2>4, ControlStep
<1>4. CASE rec.status # "succeeded" /\ ~Retryable(p)
  BY <1>4, LeaveStep DEF Decide
<1> QED
  BY <1>2, <1>3, <1>4

(* Both reads of the record; the first may find it expired. *)
LEMMA ReadInd ==
    ASSUME IndInv, NEW p \in Requests, GetExisting(p) \/ GetLatest(p)
    PROVE  IndInv'
<1>0. Same /\ UNCHANGED <<rec, effects>> /\ req[p].pc # "idle"
  BY DEF GetExisting, GetLatest, At
<1>1. CASE ~Matches(p)
  BY <1>0, <1>1, LeaveStep DEF GetExisting, GetLatest
<1>2. CASE Matches(p) /\ GetLatest(p)
  BY <1>0, <1>2, DecideInd DEF GetLatest
<1>3. CASE Matches(p) /\ GetExisting(p) /\ ~(rec.expires <= req[p].now)
  BY <1>0, <1>3, DecideInd DEF GetExisting
<1>4. CASE Matches(p) /\ GetExisting(p) /\ rec.expires <= req[p].now
  <2> DEFINE r == [req[p] EXCEPT !.pc = "reclaimExpired", !.id = rec.id, !.from = rec.status]
  <2>1. req' = [req EXCEPT ![p] = r]
    BY <1>4 DEF GetExisting
  <2>2. /\ req[p] \in ReqType /\ OwnOk(req[p], rec) /\ rec \in Rows /\ rec.id \in Nat /\ rec.expires \in Nat
        /\ clock \in 1..MaxTime /\ MaxTime \in Nat /\ TTL \in Nat
    BY ReqFacts DEF Rows
  <2>3. r \in ReqType
    BY <1>4, <2>2 DEF ReqType, ClaimPcs, Rows, Matches, Exists
  <2>4. r.pc = "reclaimExpired" /\ r.fp = req[p].fp /\ r.id = rec.id /\ r.now = req[p].now
    BY <2>2 DEF ReqType
  <2>5. OwnOk(r, rec)
    BY <1>0, <1>4, <2>2, <2>4 DEF OwnOk, RunPcs, Matches
  <2>6. ~(clock <= TTL)
    <3>1. rec.expires > TTL
      BY <1>4 DEF IndInv, TimesInv, Matches
    <3>2. req[p].now <= clock /\ req[p].now \in Nat
      BY <2>2 DEF OwnOk, ReqType
    <3> QED
      BY <1>4, <2>2, <3>1, <3>2
  <2> QED
    BY <1>0, <2>1, <2>3, <2>5, <2>6, ControlStep
<1> QED
  BY <1>1, <1>2, <1>3, <1>4

(* A reclaim of the row that p read: later than the first lifetime, or     *)
(* from a failed row, when nobody runs.                                    *)
LEMMA TakeOver ==
    ASSUME IndInv, NEW p \in Requests, Reclaimable(req[p].id, req[p].from, req[p].now),
           TryReclaim(req[p].now), Claimed(p, rec.id), Same, UNCHANGED effects,
           req[p].pc \in {"reclaimExpired", "reclaim"}
    PROVE  IndInv'
<1>1. /\ req[p] \in ReqType /\ OwnOk(req[p], rec) /\ rec \in Rows
      /\ (clock <= TTL => OnceOk(req[p], rec, effects)) /\ TTL \in Nat /\ Lease \in Nat
  BY ReqFacts
<1>2. rec.id \in Nat /\ req[p].now \in Nat /\ req[p].now >= 1
  BY <1>1 DEF Rows, ReqType, OwnOk
<1>3. rec.fp = req[p].fp /\ Exists /\ rec.status = req[p].from
  BY <1>1 DEF OwnOk, Reclaimable, Row, Exists
<1>4. /\ rec'.status = "processing" /\ rec'.id = rec.id /\ rec'.fp = rec.fp
      /\ rec'.expires = req[p].now + TTL /\ rec' \in Rows
  <2>1. req[p].now + Lease \in Nat /\ req[p].now + TTL \in Nat
    BY <1>1, <1>2
  <2>2. "processing" \in Recorded \union {"absent"}
    BY DEF Recorded
  <2> QED
    BY <1>1, <2>1, <2>2 DEF TryReclaim, Rows
<1>5. RowKept
  BY <1>1, <1>2, <1>3, <1>4 DEF RowKept
<1>6. clock <= TTL => effects = 0 /\ \A q \in Requests : ~Running(q)
  <2> SUFFICES ASSUME clock <= TTL
               PROVE  effects = 0 /\ \A q \in Requests : ~Running(q)
    OBVIOUS
  <2>1. rec.status = "failed_retryable"
    BY <1>1, <1>3 DEF OnceOk
  <2> QED
    BY <2>1 DEF IndInv, OnceInv
<1> QED
  BY <1>2, <1>3, <1>4, <1>5, <1>6, ClaimStep

(* TryReclaim, of an expired and of a failed record. *)
LEMMA ReclaimInd ==
    ASSUME IndInv, NEW p \in Requests, ReclaimExpired(p) \/ Reclaim(p)
    PROVE  IndInv'
<1>1. Same /\ UNCHANGED effects /\ req[p].pc \in {"reclaimExpired", "reclaim"}
  BY DEF ReclaimExpired, Reclaim, At
<1>2. CASE Reclaimable(req[p].id, req[p].from, req[p].now)
  BY <1>1, <1>2, TakeOver DEF ReclaimExpired, Reclaim
<1>3. CASE ~Reclaimable(req[p].id, req[p].from, req[p].now) /\ Reclaim(p)
  BY <1>1, <1>3, LeaveStep DEF Reclaim
<1>4. CASE ~Reclaimable(req[p].id, req[p].from, req[p].now) /\ ReclaimExpired(p)
  <2>1. clock <= TTL => FALSE
    BY <1>4, ReqFacts DEF ReclaimExpired, At, OnceOk
  <2>2. "again" \notin RunPcs
    BY DEF RunPcs
  <2> QED
    BY <1>1, <1>4, <2>1, <2>2, GotoStep DEF ReclaimExpired
<1> QED
  BY <1>2, <1>3, <1>4

-----------------------------------------------------------------------------
(* The operation and its outcome. *)

(* The operation takes effect or fails. *)
LEMMA ExecuteInd ==
    ASSUME IndInv, NEW p \in Requests, Execute(p)
    PROVE  IndInv'
<1>1. Same /\ UNCHANGED rec /\ req[p].pc = "execute" /\ Running(p)
  BY DEF Execute, At, Running, RunPcs
<1>2. /\ req[p] \in ReqType /\ OwnOk(req[p], rec) /\ (clock <= TTL => OnceOk(req[p], rec, effects))
      /\ rec \in Rows /\ effects \in Nat
      /\ (clock <= TTL => (rec.status \in {"absent", "failed_retryable"} => effects = 0))
  BY ReqFacts
<1>3. CASE Goto(p, "markFailed") /\ UNCHANGED effects
  BY <1>1, <1>2, <1>3, GotoStep DEF OnceOk
<1>4. CASE Goto(p, "markOk") /\ effects' = effects + 1
  <2> DEFINE r == [req[p] EXCEPT !.pc = "markOk"]
  <2>1. r \in ReqType /\ r.pc = "markOk" /\ r.now = req[p].now /\ r.id = req[p].id /\ r.fp = req[p].fp
    BY <1>2 DEF ReqType, RunPcs
  <2>2. Becomes(p, r)
    BY <1>4, <2>1 DEF Goto, IndInv, TypeOK, ReqType, Becomes
  <2>3. OwnOk(r, rec')
    BY <1>1, <1>2, <2>1 DEF OwnOk, RunPcs
  <2>4. ASSUME clock <= TTL
        PROVE  /\ OnceOk(r, rec', effects')
               /\ \A q \in Requests \ {p} : ~Running(q)
               /\ rec'.status = "processing"
               /\ effects' <= 1
    <3>1. effects = 0 /\ rec.status = "processing"
      BY <1>1, <1>2, <2>4 DEF OnceOk, RunPcs
    <3>2. OnceOk(r, rec', effects')
      BY <1>1, <2>1, <3>1 DEF OnceOk
    <3>3. \A q \in Requests \ {p} : ~Running(q)
      BY <1>1, <2>4 DEF IndInv, OnceInv
    <3> QED
      BY <1>1, <1>4, <3>1, <3>2, <3>3
  <2>5. RowKept
    BY <1>1, SameRowKept
  <2>6. effects' \in Nat /\ rec' \in Rows
    BY <1>1, <1>2, <1>4
  <2> QED
    BY <1>1, <2>1, <2>2, <2>3, <2>4, <2>5, <2>6, Assemble
<1> QED
  BY <1>3, <1>4 DEF Execute

(* A mark by p that ends its run: the row stays or gets the new status.    *)
LEMMA MarkStep ==
    ASSUME IndInv, NEW p \in Requests, Running(p), Leave(p), Same, UNCHANGED effects,
           rec' \in Rows, RowKept,
           rec'.status = "failed_retryable" => req[p].pc = "markFailed" \/ rec'.status = rec.status,
           rec'.status = "absent" => rec.status = "absent"
    PROVE  IndInv'
<1>1. effects \in Nat /\ (clock <= TTL => OnceOk(req[p], rec, effects) /\ effects <= 1)
  BY ReqFacts
<1>2. Idle \in ReqType /\ OwnOk(Idle, rec') /\ OnceOk(Idle, rec', effects') /\ Idle.pc \notin RunPcs
  BY IdleOwesNothing DEF Idle, RunPcs
<1>3. Becomes(p, Idle)
  BY <1>2 DEF Leave, IndInv, TypeOK, ReqType, Becomes
<1>4. ASSUME clock <= TTL
      PROVE  /\ \A q \in Requests \ {p} : ~Running(q)
             /\ rec'.status \in {"absent", "failed_retryable"} => effects' = 0
  <2>1. rec.status = "processing"
    BY <1>1, <1>4 DEF OnceOk, Running
  <2>2. rec'.status \in {"absent", "failed_retryable"} => req[p].pc = "markFailed"
    BY <2>1
  <2>3. \A q \in Requests \ {p} : ~Running(q)
    BY <1>4 DEF IndInv, OnceInv
  <2> QED
    BY <1>1, <1>4, <2>2, <2>3 DEF OnceOk
<1> QED
  BY <1>1, <1>2, <1>3, <1>4, Assemble

(* The expiry of an outcome lies beyond the first lifetime. *)
LEMMA ExpiryIsLate ==
    ASSUME IndInv, NEW p \in Requests, req[p].pc # "idle"
    PROVE  Expiry(p) \in Nat /\ Expiry(p) > TTL
<1>1. /\ clock \in 1..MaxTime /\ MaxTime \in Nat /\ TTL \in Nat
      /\ req[p] \in ReqType /\ OwnOk(req[p], rec)
  BY ReqFacts
<1>2. req[p].now \in Nat /\ req[p].now >= 1 /\ clock \in Nat /\ clock >= 1
  BY <1>1 DEF ReqType, OwnOk
<1> QED
  BY <1>1, <1>2 DEF Expiry

(* MarkSucceeded and MarkFailedRetryable, which go by the id alone. *)
LEMMA OutcomeInd ==
    ASSUME IndInv, NEW p \in Requests, RecordSuccess(p) \/ RecordFailure(p)
    PROVE  IndInv'
<1>1. Leave(p) /\ Same /\ UNCHANGED effects /\ req[p].pc # "idle" /\ Running(p)
  BY DEF RecordSuccess, RecordFailure, At, Running, RunPcs
<1>2. /\ rec \in Rows /\ req[p] \in ReqType /\ OwnOk(req[p], rec) /\ clock \in 1..MaxTime
  BY ReqFacts
<1>3. Expiry(p) \in Nat /\ Expiry(p) > TTL
  BY <1>1, ExpiryIsLate
<1>4. CASE ~Row(req[p].id)
  <2>1. UNCHANGED rec
    BY <1>4 DEF RecordSuccess, RecordFailure, MarkSucceeded, MarkFailedRetryable
  <2> QED
    BY <1>1, <2>1, LeaveStep
<1>5. CASE Row(req[p].id) /\ RecordSuccess(p)
  <2>1. PICK body \in {req[p].fp, "cut"} :
          rec' = [rec EXCEPT !.status = "succeeded", !.body = body, !.locked = Null, !.expires = Expiry(p)]
    BY <1>5 DEF RecordSuccess, MarkSucceeded
  <2>2. body \in Fingerprints \union {"none", "cut"} /\ Null \in Nat /\ "succeeded" \in Recorded \union {"absent"}
    BY <1>2 DEF ReqType, Null, Recorded
  <2>3. /\ rec' \in Rows /\ rec'.status = "succeeded" /\ rec'.id = rec.id /\ rec'.fp = rec.fp
        /\ rec'.body = body /\ rec'.expires = Expiry(p)
    BY <1>2, <1>3, <2>1, <2>2 DEF Rows
  <2>4. rec.fp = req[p].fp /\ rec.id \in Nat /\ Exists
    BY <1>1, <1>2, <1>5 DEF OwnOk, Row, Exists, Running, Rows
  <2>5. RowKept
    BY <1>3, <2>3, <2>4 DEF RowKept
  <2> QED
    BY <1>1, <2>3, <2>5, MarkStep
<1>6. CASE Row(req[p].id) /\ RecordFailure(p)
  <2>1. rec' = [rec EXCEPT !.status = "failed_retryable", !.locked = clock + Backoff, !.expires = Expiry(p)]
    BY <1>6 DEF RecordFailure, MarkFailedRetryable
  <2>2. clock + Backoff \in Nat
    BY <1>2, TimesAssumption
  <2>3. "failed_retryable" \in Recorded \union {"absent"}
    BY DEF Recorded
  <2>4. /\ rec' \in Rows /\ rec'.status = "failed_retryable" /\ rec'.id = rec.id /\ rec'.fp = rec.fp
        /\ rec'.expires = Expiry(p)
    BY <1>2, <1>3, <2>1, <2>2, <2>3 DEF Rows
  <2>5. rec.id \in Nat /\ Exists /\ req[p].pc = "markFailed"
    BY <1>2, <1>6 DEF Row, Rows, RecordFailure, At
  <2>6. RowKept
    BY <1>3, <2>4, <2>5 DEF RowKept
  <2> QED
    BY <1>1, <2>4, <2>5, <2>6, MarkStep
<1> QED
  BY <1>4, <1>5, <1>6

(* A renewal moves the times of the row only. *)
LEMMA RenewInd ==
    ASSUME IndInv, NEW p \in Requests, Renew(p)
    PROVE  IndInv'
<1> DEFINE r == [req[p] EXCEPT !.beat = IF Extendable(req[p].id, req[p].fp) THEN clock ELSE 0]
<1>1. /\ Same /\ UNCHANGED effects /\ ExtendProcessingLock(req[p].id, req[p].fp)
      /\ req' = [req EXCEPT ![p].beat = IF Extendable(req[p].id, req[p].fp) THEN clock ELSE 0]
  BY DEF Renew
<1>2. /\ rec \in Rows /\ req[p] \in ReqType /\ OwnOk(req[p], rec) /\ (clock <= TTL => OnceOk(req[p], rec, effects))
      /\ (clock <= TTL => effects <= 1 /\ (rec.status \in {"absent", "failed_retryable"} => effects = 0))
      /\ clock \in 1..MaxTime /\ MaxTime \in Nat /\ TTL \in Nat /\ Lease \in Nat /\ effects \in Nat
  BY ReqFacts
<1>3. /\ clock + Lease \in Nat /\ clock + TTL \in Nat /\ clock + TTL > TTL
      /\ (IF Extendable(req[p].id, req[p].fp) THEN clock ELSE 0) \in 0..MaxTime
  BY <1>2
<1>4. /\ r \in ReqType /\ r.pc = req[p].pc /\ r.now = req[p].now /\ r.id = req[p].id /\ r.fp = req[p].fp
      /\ r.from = req[p].from /\ r.out = req[p].out
  BY <1>2, <1>3 DEF ReqType
<1>5. Becomes(p, r)
  BY <1>1, <1>4 DEF IndInv, TypeOK, ReqType, Becomes
<1>6. /\ rec' \in Rows /\ rec'.status = rec.status /\ rec'.id = rec.id /\ rec'.fp = rec.fp
      /\ rec'.body = rec.body /\ (Exists => rec'.expires > TTL)
  <2>1. CASE Extendable(req[p].id, req[p].fp)
    BY <1>1, <1>2, <1>3, <2>1 DEF ExtendProcessingLock, Rows
  <2>2. CASE ~Extendable(req[p].id, req[p].fp)
    BY <1>1, <1>2, <2>2 DEF ExtendProcessingLock, IndInv, TimesInv
  <2> QED
    BY <2>1, <2>2
<1>7. RowKept
  <2>1. rec.id \in Nat
    BY <1>2 DEF Rows
  <2> QED
    BY <1>6, <2>1 DEF RowKept, Exists, IndInv, OwnInv
<1>8. OwnOk(r, rec') /\ (clock <= TTL => OnceOk(r, rec', effects'))
  BY <1>1, <1>2, <1>4, <1>6 DEF OwnOk, OnceOk
<1>9. r.pc \in RunPcs => Running(p)
  BY <1>4 DEF Running
<1> QED
  BY <1>1, <1>2, <1>4, <1>5, <1>6, <1>7, <1>8, <1>9, Assemble

-----------------------------------------------------------------------------
(* The actions that are no request's. *)

(* The clean-up deletes nothing within the first lifetime. *)
LEMMA CleanupInd ==
    ASSUME IndInv, Cleanup
    PROVE  IndInv'
<1>1. /\ Same /\ UNCHANGED <<req, effects>> /\ Exists /\ rec.expires <= clock /\ rec' = NoRow(rec.id)
  BY DEF Cleanup, DeleteExpired
<1>2. /\ rec \in Rows /\ rec.id \in Nat /\ rec.expires \in Nat /\ clock \in Nat /\ TTL \in Nat
  BY TimesAssumption DEF IndInv, TypeOK, StoreTypeOK, Rows
<1>3. ~(clock <= TTL)
  BY <1>1, <1>2 DEF IndInv, TimesInv
<1>4. rec' \in Rows /\ rec'.id = rec.id /\ rec'.status = "absent"
  BY <1>1, <1>2 DEF NoRow, Rows, Null
<1>5. TypeOK'
  BY <1>1, <1>4 DEF IndInv, TypeOK, StoreTypeOK, Same
<1>6. TimesInv' /\ OwnInv'
  BY <1>1, <1>4 DEF IndInv, TimesInv, OwnInv, Exists, Row, Same
<1>7. ReplayIsOwn' /\ OnceInv'
  BY <1>1, <1>3 DEF IndInv, ReplayIsOwn, At, OnceInv, Same
<1> QED
  BY <1>5, <1>6, <1>7 DEF IndInv

(* Time passes. *)
LEMMA TickInd ==
    ASSUME IndInv, Tick
    PROVE  IndInv'
<1>1. clock < MaxTime /\ clock' = clock + 1 /\ UNCHANGED <<rec, req, effects, detached, timely>>
  BY DEF Tick
<1>2. clock \in 1..MaxTime /\ MaxTime \in Nat /\ TTL \in Nat
  BY TimesAssumption DEF IndInv, TypeOK, StoreTypeOK
<1>3. TypeOK'
  BY <1>1, <1>2 DEF IndInv, TypeOK, StoreTypeOK
<1>4. TimesInv'
  <2>1. \A p \in Requests : req[p].now \in Nat
    BY <1>2 DEF IndInv, TypeOK
  <2> QED
    BY <1>1, <1>2, <2>1 DEF IndInv, TimesInv, Exists
<1>5. OwnInv' /\ ReplayIsOwn'
  BY <1>1 DEF IndInv, OwnInv, ReplayIsOwn, At, Row, Exists
<1>6. OnceInv'
  BY <1>1, <1>2 DEF IndInv, OnceInv, Running
<1> QED
  BY <1>3, <1>4, <1>5, <1>6 DEF IndInv

-----------------------------------------------------------------------------
(* The invariant holds at the start. *)
LEMMA InitInd == Init => IndInv
<1> SUFFICES ASSUME Init
             PROVE  IndInv
  OBVIOUS
<1>1. rec = NoRow(0) /\ clock = 1 /\ req = [p \in Requests |-> Idle] /\ effects = 0
  BY DEF Init, StoreInit
<1>2. MaxTime \in Nat /\ MaxTime >= 1
  BY TimesAssumption
<1>3. rec \in Rows /\ rec.id = 0 /\ rec.status = "absent"
  BY <1>1 DEF NoRow, Rows, Null
<1>4. Idle \in ReqType
  BY <1>2 DEF Idle, ReqType
<1>5. TypeOK
  BY <1>1, <1>2, <1>3, <1>4 DEF TypeOK, StoreTypeOK, ReqType, Init
<1>6. \A p \in Requests : req[p].pc = "idle" /\ req[p].now = 0 /\ req[p].id = 0
  BY <1>1 DEF Idle
<1>7. TimesInv /\ OwnInv
  BY <1>1, <1>3, <1>6 DEF TimesInv, OwnInv, Exists, RunPcs
<1>8. ReplayIsOwn /\ OnceInv
  BY <1>1, <1>6 DEF ReplayIsOwn, OnceInv, At, Running, RunPcs
<1> QED
  BY <1>5, <1>7, <1>8 DEF IndInv

(* Every step keeps it. *)
LEMMA NextInd == IndInv /\ [Next]_vars => IndInv'
<1> SUFFICES ASSUME IndInv, [Next]_vars
             PROVE  IndInv'
  OBVIOUS
<1>1. ASSUME NEW p \in Requests, Step(p)
      PROVE  IndInv'
  <2>1. CASE Replay(p) \/ Crash(p)
    BY <2>1, LeaveStep DEF Replay, Crash
  <2> QED
    BY <1>1, <2>1, BeginInd, CreateInd, ReadInd, ReclaimInd, ExecuteInd, OutcomeInd, RenewInd DEF Step
<1>2. CASE UNCHANGED vars
  BY <1>2 DEF vars, IndInv, TypeOK, StoreTypeOK, TimesInv, OwnInv, ReplayIsOwn, OnceInv, Running, At, Row, Exists
<1> QED
  BY <1>1, <1>2, CleanupInd, TickInd DEF Next

(* The inductive invariant holds in every state of Execute. *)
THEOREM Inductive == Spec => []IndInv
BY InitInd, NextInd, PTL DEF Spec

(* The row, the clock and every request keep their types.                  *)
THEOREM TypeCorrect == Spec => []TypeOK
<1>1. IndInv => TypeOK
  BY DEF IndInv
<1> QED
  BY <1>1, Inductive, PTL

(* Within one lifetime of the first record the operation takes effect once *)
(* and is never run by two requests, for any number of requests and any    *)
(* lease and lifetime (Execute, TryReclaim).                               *)
THEOREM EffectOnce == Spec => []SingleSideEffect
<1>1. IndInv => SingleSideEffect
  <2> SUFFICES ASSUME IndInv, clock <= TTL
               PROVE  /\ effects <= 1
                      /\ effects = 1 => Executing = {}
                      /\ \A p, q \in Executing : p = q
    BY DEF SingleSideEffect
  <2>1. effects <= 1
    BY DEF IndInv, OnceInv
  <2>2. \A p \in Executing : p \in Requests /\ req[p].pc = "execute" /\ Running(p)
    BY DEF Executing, At, Running, RunPcs
  <2>3. \A p \in Executing : effects = 0
    BY <2>2 DEF IndInv, OnceInv
  <2>4. \A p, q \in Executing : p = q
    BY <2>2 DEF IndInv, OnceInv
  <2> QED
    BY <2>1, <2>3, <2>4
<1> QED
  BY <1>1, Inductive, PTL

(* A response is only replayed to the payload that produced it, at any     *)
(* time, across expiry, reclaim and clean-up (MarkSucceeded by id).        *)
THEOREM ReplayBelongs == Spec => []ReplayIsOwn
<1>1. IndInv => ReplayIsOwn
  BY DEF IndInv
<1> QED
  BY <1>1, Inductive, PTL

-----------------------------------------------------------------------------
(* The lease of a detached operation that is renewed on schedule.          *)

(* The row is the one r claimed, and was extended for it within Period.    *)
HoldsRow(r, row) ==
    /\ clock < r.beat + Period
    /\ row.status = "processing" /\ row.id = r.id
    /\ row.locked >= r.beat + Lease /\ row.expires >= r.beat + TTL

RenewOk(r, row) ==
    /\ r.pc \in ClaimPcs => clock < r.now + Period
    /\ r.beat # 0 <=> r.pc \in RunPcs
    /\ r.pc \in RunPcs => HoldsRow(r, row)

RenewInv ==
    detached /\ timely =>
      /\ \A p \in Requests : RenewOk(req[p], rec)
      /\ \A p, q \in Requests : Running(p) /\ Running(q) => p = q

(* The period is within the lease and within the lifetime. *)
LEMMA PeriodFacts ==
    /\ Period \in Nat /\ Period >= 1 /\ Period <= Lease /\ Period <= TTL
    /\ Lease \in Nat /\ TTL \in Nat
BY TimesAssumption DEF Period

(* While q runs, the row is locked, alive and q's own. *)
LEMMA RunnerBarsRow ==
    ASSUME IndInv, RenewInv, detached, timely, NEW q \in Requests, Running(q)
    PROVE  /\ rec.status = "processing" /\ rec.fp = req[q].fp /\ rec.id = req[q].id
           /\ rec.locked > clock /\ rec.expires > clock
<1>1. HoldsRow(req[q], rec)
  BY DEF RenewInv, RenewOk, Running
<1>2. req[q].beat \in Nat /\ clock \in Nat /\ rec.locked \in Nat /\ rec.expires \in Nat
  BY ReqFacts DEF ReqType, Rows
<1>3. rec.locked > clock /\ rec.expires > clock
  BY <1>1, <1>2, PeriodFacts DEF HoldsRow
<1>4. rec.fp = req[q].fp
  BY <1>1 DEF HoldsRow, IndInv, OwnInv, Row, Exists, Running
<1> QED
  BY <1>1, <1>3, <1>4 DEF HoldsRow

(* The invariant after a step of p: the row is as it was and p is no new   *)
(* runner, or nobody else runs.                                            *)
LEMMA RenewAssemble ==
    ASSUME RenewInv, Same, NEW p \in Requests, NEW r, req[p] \in ReqType,
           req' = [req EXCEPT ![p] = r], req \in [Requests -> ReqType],
           detached /\ timely =>
             /\ RenewOk(r, rec')
             /\ \/ UNCHANGED rec /\ (r.pc \in RunPcs => Running(p))
                \/ \A q \in Requests \ {p} : ~Running(q)
    PROVE  RenewInv'
<1> SUFFICES ASSUME detached, timely
             PROVE  /\ \A q \in Requests : RenewOk(req[q], rec)'
                    /\ \A q, s \in Requests : Running(q)' /\ Running(s)' => q = s
  BY DEF RenewInv, Same
<1>1. req'[p] = r /\ \A q \in Requests \ {p} : req'[q] = req[q]
  OBVIOUS
<1>2. ASSUME NEW q \in Requests
      PROVE  RenewOk(req[q], rec)'
  <2>1. CASE q = p
    BY <1>1, <2>1 DEF RenewOk, HoldsRow, Same
  <2>2. CASE q # p
    <3>1. req'[q] = req[q] /\ RenewOk(req[q], rec)
      BY <1>1, <2>2 DEF RenewInv
    <3>2. UNCHANGED rec \/ req[q].pc \notin RunPcs
      BY <2>2 DEF Running
    <3> QED
      BY <3>1, <3>2 DEF RenewOk, HoldsRow, Same
  <2> QED
    BY <2>1, <2>2
<1>3. ASSUME NEW q \in Requests, NEW s \in Requests, Running(q)', Running(s)'
      PROVE  q = s
  BY <1>1, <1>3 DEF RenewInv, Running
<1> QED
  BY <1>2, <1>3

(* A step of p that leaves the row alone and starts no run. *)
LEMMA RenewControl ==
    ASSUME IndInv, RenewInv, Same, UNCHANGED rec, NEW p \in Requests, NEW r, req' = [req EXCEPT ![p] = r],
           r.pc \in ClaimPcs => (r.now = req[p].now /\ req[p].pc \in ClaimPcs) \/ r.now = clock,
           r.beat # 0 <=> r.pc \in RunPcs,
           r.pc \in RunPcs => Running(p) /\ r.beat = req[p].beat /\ r.id = req[p].id
    PROVE  RenewInv'
<1>1. req[p] \in ReqType /\ req \in [Requests -> ReqType] /\ clock \in Nat
  BY ReqFacts DEF IndInv, TypeOK, ReqType
<1>2. detached /\ timely => RenewOk(r, rec')
  <2> SUFFICES ASSUME detached, timely
               PROVE  RenewOk(r, rec')
    OBVIOUS
  <2>1. RenewOk(req[p], rec)
    BY DEF RenewInv
  <2>2. r.pc \in ClaimPcs => clock < r.now + Period
    BY <1>1, <2>1, PeriodFacts DEF RenewOk
  <2> QED
    BY <2>1, <2>2 DEF RenewOk, HoldsRow, Running
<1> QED
  BY <1>1, <1>2, RenewAssemble

(* A request that ends, or goes on, without touching the row. *)
LEMMA RenewMove ==
    ASSUME IndInv, RenewInv, Same, UNCHANGED rec, NEW p \in Requests,
           \/ Leave(p)
           \/ \E l \in {"get", "again"} : Goto(p, l) /\ req[p].pc \in ClaimPcs
           \/ Running(p) /\ \E l \in RunPcs : Goto(p, l)
    PROVE  RenewInv'
<1>1. req[p] \in ReqType
  BY ReqFacts
<1>2. CASE Leave(p)
  <2>1. Idle.pc \notin ClaimPcs /\ Idle.pc \notin RunPcs /\ Idle.beat = 0
    BY DEF Idle, ClaimPcs, RunPcs
  <2> QED
    BY <1>2, <2>1, RenewControl DEF Leave
<1>3. ASSUME NEW l \in ClaimPcs \union RunPcs, Goto(p, l),
             l \in ClaimPcs => req[p].pc \in ClaimPcs, l \in RunPcs => Running(p)
      PROVE  RenewInv'
  <2> DEFINE r == [req[p] EXCEPT !.pc = l]
  <2>1. r.pc = l /\ r.now = req[p].now /\ r.beat = req[p].beat /\ r.id = req[p].id
    BY <1>1 DEF ReqType
  <2>2. req' = [req EXCEPT ![p] = r]
    BY <1>3 DEF Goto
  <2>3. CASE detached /\ timely
    <3>1. req[p].beat # 0 <=> req[p].pc \in RunPcs
      BY <2>3 DEF RenewInv, RenewOk
    <3>2. l \in RunPcs <=> req[p].pc \in RunPcs
      BY <1>3 DEF ClaimPcs, RunPcs, Running
    <3> HIDE DEF r
    <3> QED
      BY <1>3, <2>1, <2>2, <3>1, <3>2, RenewControl
  <2>4. CASE ~(detached /\ timely)
    BY <2>4 DEF RenewInv, Same
  <2> QED
    BY <2>3, <2>4
<1> QED
  BY <1>2, <1>3 DEF ClaimPcs, RunPcs

(* A claim: nobody runs, and the new lease counts from p's now.            *)
LEMMA RenewClaim ==
    ASSUME IndInv, RenewInv, Same, NEW p \in Requests, NEW id \in Nat, Claimed(p, id),
           req[p].pc \in ClaimPcs,
           rec'.status = "processing", rec'.id = id,
           rec'.locked = req[p].now + Lease, rec'.expires = req[p].now + TTL,
           detached /\ timely => \A q \in Requests : ~Running(q)
    PROVE  RenewInv'
<1> DEFINE r == [req[p] EXCEPT !.pc = "execute", !.id = id, !.from = "none",
                               !.beat = IF detached THEN req[p].now ELSE 0]
<1>1. req[p] \in ReqType /\ req \in [Requests -> ReqType] /\ OwnOk(req[p], rec)
  BY ReqFacts DEF IndInv, TypeOK, ReqType
<1>2. req' = [req EXCEPT ![p] = r]
  BY DEF Claimed
<1>3. req[p].now \in Nat /\ req[p].now >= 1
  BY <1>1 DEF ReqType, OwnOk, ClaimPcs
<1>4. ASSUME detached, timely
      PROVE  RenewOk(r, rec')
  <2>1. r.pc = "execute" /\ r.id = id /\ r.beat = req[p].now
    BY <1>1, <1>4 DEF ReqType
  <2>2. clock < req[p].now + Period
    BY <1>4 DEF RenewInv, RenewOk
  <2>3. HoldsRow(r, rec')
    BY <1>3, <2>1, <2>2, PeriodFacts DEF HoldsRow
  <2>4. r.pc \notin ClaimPcs /\ r.pc \in RunPcs /\ r.beat # 0
    BY <1>3, <2>1 DEF ClaimPcs, RunPcs
  <2> QED
    BY <2>3, <2>4 DEF RenewOk
<1> HIDE DEF r
<1> QED
  BY <1>1, <1>2, <1>4, RenewAssemble

(* The claims: an absent row and a row whose lock timed out have no runner. *)
LEMMA RenewClaims ==
    ASSUME IndInv, RenewInv, NEW p \in Requests, Create(p) \/ ReclaimExpired(p) \/ Reclaim(p)
    PROVE  RenewInv'
<1>1. Same /\ req[p].pc \in ClaimPcs
  BY DEF Create, ReclaimExpired, Reclaim, At, ClaimPcs
<1>2. rec.id \in Nat /\ rec \in Rows /\ clock \in Nat /\ req[p] \in ReqType /\ OwnOk(req[p], rec)
  BY ReqFacts DEF Rows
<1>3. CASE Create(p) /\ ~Exists
  <2>1. CreateProcessing(req[p].fp, req[p].now) /\ Claimed(p, rec.id + 1)
    BY <1>3 DEF Create
  <2>2. \A q \in Requests : detached /\ timely => ~Running(q)
    BY <1>3, RunnerBarsRow DEF Exists
  <2> QED
    BY <1>1, <1>2, <2>1, <2>2, RenewClaim DEF CreateProcessing
<1>4. CASE (ReclaimExpired(p) \/ Reclaim(p)) /\ Reclaimable(req[p].id, req[p].from, req[p].now)
  <2>1. TryReclaim(req[p].now) /\ Claimed(p, rec.id)
    BY <1>4 DEF ReclaimExpired, Reclaim
  <2>2. rec.locked <= clock
    <3>1. rec.locked <= req[p].now /\ req[p].now <= clock
      BY <1>2, <1>4 DEF Reclaimable, OwnOk
    <3>2. rec.locked \in Nat /\ req[p].now \in Nat
      BY <1>2 DEF Rows, ReqType
    <3> QED
      BY <1>2, <3>1, <3>2
  <2>3. \A q \in Requests : detached /\ timely /\ ~(rec.locked > clock) => ~Running(q)
    BY RunnerBarsRow
  <2>4. ~(rec.locked > clock)
    BY <1>2, <2>2 DEF Rows
  <2>5. /\ rec'.status = "processing" /\ rec'.id = rec.id
        /\ rec'.locked = req[p].now + Lease /\ rec'.expires = req[p].now + TTL
    BY <1>2, <2>1 DEF TryReclaim, Rows
  <2> QED
    BY <1>1, <1>2, <2>1, <2>3, <2>4, <2>5, RenewClaim
<1>5. CASE Create(p) /\ Exists
  BY <1>1, <1>5, RenewMove DEF Create
<1>6. CASE ReclaimExpired(p) /\ ~Reclaimable(req[p].id, req[p].from, req[p].now)
  BY <1>1, <1>6, RenewMove DEF ReclaimExpired
<1>7. CASE Reclaim(p) /\ ~Reclaimable(req[p].id, req[p].from, req[p].now)
  BY <1>1, <1>7, RenewMove DEF Reclaim
<1> QED
  BY <1>3, <1>4, <1>5, <1>6, <1>7

(* The steps that read the row, and the arrival of a request. *)
LEMMA RenewReads ==
    ASSUME IndInv, RenewInv, NEW p \in Requests, Begin(p) \/ GetExisting(p) \/ GetLatest(p)
    PROVE  RenewInv'
<1>1. Same /\ UNCHANGED rec /\ req[p] \in ReqType
  BY ReqFacts DEF Begin, GetExisting, GetLatest
<1>2. CASE Begin(p)
  <2>1. PICK f \in Fingerprints : 
          req' = [req EXCEPT ![p] = [Idle EXCEPT !.pc = "create", !.fp = f, !.now = clock]]
    BY <1>2 DEF Begin
  <2> DEFINE r == [Idle EXCEPT !.pc = "create", !.fp = f, !.now = clock]
  <2>2. r.pc = "create" /\ r.now = clock /\ r.beat = 0
    BY DEF Idle
  <2> HIDE DEF r
  <2>3. r.pc \in ClaimPcs /\ r.pc \notin RunPcs
    BY <2>2 DEF ClaimPcs, RunPcs
  <2>4. req' = [req EXCEPT ![p] = r]
    BY <2>1 DEF r
  <2> QED
    BY <1>1, <2>2, <2>3, <2>4, RenewControl
<1>3. CASE (GetExisting(p) \/ GetLatest(p)) /\ ~Leave(p)
  <2>1. req[p].pc \in ClaimPcs
    BY <1>3 DEF GetExisting, GetLatest, At, ClaimPcs
  <2>2. PICK r \in {[req[p] EXCEPT !.pc = "replay", !.out = rec.body],
                    [req[p] EXCEPT !.pc = "reclaim", !.id = rec.id, !.from = rec.status],
                    [req[p] EXCEPT !.pc = "reclaimExpired", !.id = rec.id, !.from = rec.status]} :
          req' = [req EXCEPT ![p] = r]
    BY <1>3 DEF GetExisting, GetLatest, Decide
  <2>3. r.pc \in {"replay", "reclaim", "reclaimExpired"} /\ r.now = req[p].now /\ r.beat = req[p].beat
    BY <1>1, <2>2 DEF ReqType
  <2>4. r.pc \notin RunPcs /\ req[p].pc \notin RunPcs
    BY <2>1, <2>3 DEF ClaimPcs, RunPcs
  <2>5. CASE detached /\ timely
    <3>1. req[p].beat = 0
      BY <2>4, <2>5 DEF RenewInv, RenewOk
    <3> QED
      BY <1>1, <2>1, <2>2, <2>3, <2>4, <3>1, RenewControl
  <2>6. CASE ~(detached /\ timely)
    BY <1>1, <2>6 DEF RenewInv, Same
  <2> QED
    BY <2>5, <2>6
<1> QED
  BY <1>1, <1>2, <1>3, RenewMove

(* The outcome of the only runner, whatever it does to the row. *)
LEMMA RenewOutcome ==
    ASSUME IndInv, RenewInv, NEW p \in Requests, RecordSuccess(p) \/ RecordFailure(p)
    PROVE  RenewInv'
<1>1. Leave(p) /\ Same /\ Running(p) /\ req[p] \in ReqType /\ req \in [Requests -> ReqType]
  BY ReqFacts DEF RecordSuccess, RecordFailure, At, Running, RunPcs, IndInv, TypeOK, ReqType
<1>2. Idle.pc \notin ClaimPcs /\ Idle.pc \notin RunPcs /\ Idle.beat = 0
  BY DEF Idle, ClaimPcs, RunPcs
<1>3. detached /\ timely => \A q \in Requests \ {p} : ~Running(q)
  BY <1>1 DEF RenewInv
<1> QED
  BY <1>1, <1>2, <1>3, RenewAssemble DEF Leave, RenewOk

(* A renewal of the runner finds its row and moves both times on. *)
LEMMA RenewRenew ==
    ASSUME IndInv, RenewInv, NEW p \in Requests, Renew(p)
    PROVE  RenewInv'
<1> DEFINE r == [req[p] EXCEPT !.beat = clock]
<1>1. /\ Same /\ req[p].beat # 0 /\ ExtendProcessingLock(req[p].id, req[p].fp)
      /\ req' = [req EXCEPT ![p].beat = IF Extendable(req[p].id, req[p].fp) THEN clock ELSE 0]
  BY DEF Renew
<1>2. /\ req[p] \in ReqType /\ req \in [Requests -> ReqType] /\ clock \in Nat /\ clock >= 1 /\ rec \in Rows
  BY ReqFacts DEF IndInv, TypeOK, ReqType
<1>3. CASE ~(detached /\ timely)
  BY <1>1, <1>3 DEF RenewInv, Same
<1>4. CASE detached /\ timely
  <2>1. Running(p)
    BY <1>1, <1>4 DEF RenewInv, RenewOk, Running
  <2>2. Extendable(req[p].id, req[p].fp) /\ rec.id = req[p].id /\ rec.status = "processing"
    BY <1>4, <2>1, RunnerBarsRow DEF Extendable, Row, Exists
  <2>3. /\ rec'.status = "processing" /\ rec'.id = req[p].id
        /\ rec'.locked = clock + Lease /\ rec'.expires = clock + TTL
    BY <1>1, <1>2, <2>2 DEF ExtendProcessingLock, Rows
  <2>4. r.pc = req[p].pc /\ r.id = req[p].id /\ r.beat = clock
    BY <1>2 DEF ReqType
  <2>5. req' = [req EXCEPT ![p] = r]
    BY <1>1, <2>2
  <2>6. HoldsRow(r, rec')
    BY <1>2, <2>3, <2>4, PeriodFacts DEF HoldsRow
  <2>7. r.pc \in RunPcs /\ r.pc \notin ClaimPcs /\ r.beat # 0
    BY <1>2, <2>1, <2>4 DEF Running, RunPcs, ClaimPcs
  <2>8. \A q \in Requests \ {p} : ~Running(q)
    BY <1>4, <2>1 DEF RenewInv
  <2> HIDE DEF r
  <2>9. RenewOk(r, rec')
    BY <2>6, <2>7 DEF RenewOk
  <2> QED
    BY <1>1, <1>2, <2>5, <2>8, <2>9, RenewAssemble
<1> QED
  BY <1>3, <1>4

(* Nothing is cleaned up under a runner, and time waits for its renewal.   *)
LEMMA RenewClock ==
    ASSUME IndInv, RenewInv, Cleanup \/ Tick
    PROVE  RenewInv'
<1>1. UNCHANGED <<req, detached, timely>> /\ clock \in Nat
  BY DEF Cleanup, Tick, Same, IndInv, TypeOK, StoreTypeOK
<1> SUFFICES ASSUME detached, timely
             PROVE  \A p \in Requests : RenewOk(req[p], rec)'
  BY <1>1 DEF RenewInv, Running
<1> SUFFICES ASSUME NEW p \in Requests
             PROVE  RenewOk(req[p], rec)'
  OBVIOUS
<1>2. RenewOk(req[p], rec) /\ req[p] \in ReqType
  BY ReqFacts DEF RenewInv
<1>3. CASE Cleanup
  <2>1. ~(rec.expires > clock) /\ UNCHANGED clock
    BY <1>3, ReqFacts DEF Cleanup, DeleteExpired, Same, Rows
  <2>2. ~Running(p)
    BY <2>1, RunnerBarsRow
  <2> QED
    BY <1>1, <1>2, <2>1, <2>2 DEF RenewOk, Running
<1>4. CASE Tick
  <2>1. clock' = clock + 1 /\ UNCHANGED rec /\ OnSchedule(p)
    BY <1>4 DEF Tick
  <2> QED
    BY <1>1, <1>2, <2>1 DEF RenewOk, HoldsRow, OnSchedule
<1> QED
  BY <1>3, <1>4

(* A detached operation that renews its lease on schedule runs alone, at   *)
(* any time and for any lease and lifetime (renewProcessingLease,          *)
(* ExtendProcessingLock).                                                  *)
THEOREM RenewedAlone == Spec => []RenewedRunsAlone
<1>1. Init => RenewInv
  BY DEF Init, RenewInv, RenewOk, Running, Idle, ClaimPcs, RunPcs
<1>2. IndInv /\ RenewInv /\ [Next]_vars => RenewInv'
  <2> SUFFICES ASSUME IndInv, RenewInv, [Next]_vars
               PROVE  RenewInv'
    OBVIOUS
  <2>1. ASSUME NEW p \in Requests, Step(p)
        PROVE  RenewInv'
    <3>1. CASE Replay(p) \/ Crash(p)
      BY <3>1, RenewMove DEF Replay, Crash
    <3>2. CASE Execute(p)
      BY <3>2, RenewMove DEF Execute, At, Running, RunPcs
    <3> QED
      BY <2>1, <3>1, <3>2, RenewClaims, RenewReads, RenewOutcome, RenewRenew DEF Step
  <2>2. CASE UNCHANGED vars
    BY <2>2 DEF vars, RenewInv, RenewOk, HoldsRow, Running
  <2> QED
    BY <2>1, <2>2, RenewClock DEF Next
<1>3. RenewInv => RenewedRunsAlone
  BY DEF RenewInv, RenewedRunsAlone, Executing, At, Running, RunPcs
<1> QED
  BY <1>1, <1>2, <1>3, Inductive, PTL DEF Spec

=============================================================================
