---------------------- MODULE SystemOperationLockProofs ----------------------
(***************************************************************************)
(* Proofs about SystemOperationLock, for any operations and any lease and  *)
(* lifetime.                                                               *)
(*                                                                         *)
(* While the creator of the row renews it on schedule the row bears its    *)
(* fingerprint and is locked and alive (CreatorInv), so no acquisition     *)
(* creates or reclaims it.  A stale holder cannot touch it either: its id  *)
(* is that of an older row, because ids only grow (TimesInv), and its      *)
(* renewals ask for its own fingerprint.                                   *)
(***************************************************************************)
EXTENDS SystemOperationLock, TLAPS

OpType == [pc: {"idle", "held"} \union AcquirePcs, now: Nat, id: Nat, from: Recorded \union {"none"},
           created: BOOLEAN, beat: Nat]

TypeInv == StoreTypeOK /\ op \in [Ops -> OpType] /\ timely \in BOOLEAN

TimesOk(r, row) ==
    /\ r.now <= clock /\ (r.pc \in AcquirePcs => r.now >= 1)
    /\ r.id <= row.id

TimesInv == \A o \in Ops : TimesOk(op[o], rec)

Creates(r) == r.pc = "held" /\ r.created

(* The row is the one that o created, and was extended for it within       *)
(* Period.                                                                 *)
HoldsRow(r, o, row) ==
    /\ r.beat # 0 /\ clock < r.beat + Period
    /\ row.status = "processing" /\ row.id = r.id /\ row.fp = o
    /\ row.locked >= r.beat + Lease /\ row.expires >= r.beat + TTL

CreatorOk(r, o, row) ==
    /\ r.pc \in AcquirePcs => clock < r.now + Period
    /\ Creates(r) => HoldsRow(r, o, row)

CreatorInv ==
    timely =>
      /\ \A o \in Ops : CreatorOk(op[o], o, rec)
      /\ \A o, q \in Ops : Creates(op[o]) /\ At(q, "held") /\ o # q => op[q].id < rec.id

LockInv == TypeInv /\ TimesInv /\ CreatorInv

-----------------------------------------------------------------------------
(* The period is within the lease and within the lifetime. *)
LEMMA PeriodFacts ==
    /\ Period \in Nat /\ Period >= 1 /\ Period <= Lease /\ Period <= TTL
    /\ Lease \in Nat /\ TTL \in Nat
BY TimesAssumption DEF Period

(* What the invariant says of operation o. *)
LEMMA OpFacts ==
    ASSUME LockInv, NEW o \in Ops
    PROVE  /\ op[o] \in OpType /\ rec \in Rows /\ rec.id \in Nat /\ clock \in Nat /\ clock >= 1
           /\ op[o].now \in Nat /\ op[o].id \in Nat /\ op[o].beat \in Nat
           /\ TimesOk(op[o], rec)
           /\ timely => CreatorOk(op[o], o, rec)
<1>1. op[o] \in OpType /\ rec \in Rows /\ clock \in 1..MaxTime /\ MaxTime \in Nat
  BY TimesAssumption DEF LockInv, TypeInv, StoreTypeOK
<1>2. TimesOk(op[o], rec) /\ (timely => CreatorOk(op[o], o, rec))
  BY DEF LockInv, TimesInv, CreatorInv
<1> QED
  BY <1>1, <1>2 DEF OpType, Rows

(* While its creator renews it, the row is locked and alive. *)
LEMMA CreatorBarsRow ==
    ASSUME LockInv, timely, NEW o \in Ops, Creates(op[o])
    PROVE  /\ rec.status = "processing" /\ rec.fp = o /\ rec.id = op[o].id
           /\ rec.locked > clock /\ rec.expires > clock
<1>1. HoldsRow(op[o], o, rec)
  BY DEF LockInv, CreatorInv, CreatorOk
<1>2. op[o].beat \in Nat /\ clock \in Nat /\ rec.locked \in Nat /\ rec.expires \in Nat
  BY OpFacts DEF Rows
<1> QED
  BY <1>1, <1>2, PeriodFacts DEF HoldsRow

(* The invariant after a step of o that leads it to r: the row of another  *)
(* creator stays as it is, and o takes no lock beside it.                  *)
LEMMA Assemble ==
    ASSUME LockInv, Same, NEW o \in Ops, NEW r \in OpType, op' = [op EXCEPT ![o] = r],
           rec' \in Rows, rec'.id >= rec.id, TimesOk(r, rec'),
           timely =>
             /\ CreatorOk(r, o, rec')
             /\ UNCHANGED rec \/ \A q \in Ops \ {o} : ~Creates(op[q])
             /\ r.pc = "held" => \/ At(o, "held") /\ r.id = op[o].id
                                 \/ \A q \in Ops \ {o} : ~Creates(op[q])
             /\ Creates(r) => (Creates(op[o]) /\ rec'.id = rec.id) \/ rec'.id > rec.id
    PROVE  LockInv'
<1>1. op'[o] = r /\ \A q \in Ops \ {o} : op'[q] = op[q]
  BY DEF LockInv, TypeInv
<1>2. TypeInv'
  BY <1>1 DEF LockInv, TypeInv, StoreTypeOK, Same
<1>3. TimesInv'
  <2> SUFFICES ASSUME NEW q \in Ops
               PROVE  TimesOk(op[q], rec)'
    BY DEF TimesInv
  <2>1. op[q].id \in Nat /\ rec.id \in Nat /\ rec'.id \in Nat /\ TimesOk(op[q], rec)
    BY OpFacts DEF Rows
  <2> QED
    BY <1>1, <2>1 DEF TimesOk, Same
<1>4. ASSUME timely, NEW q \in Ops
      PROVE  CreatorOk(op[q], q, rec)'
  <2>1. CASE q = o
    BY <1>1, <1>4, <2>1 DEF CreatorOk, HoldsRow, Creates, Same
  <2>2. CASE q # o
    <3>1. op'[q] = op[q] /\ CreatorOk(op[q], q, rec) /\ (UNCHANGED rec \/ ~Creates(op[q]))
      BY <1>1, <1>4, <2>2 DEF LockInv, CreatorInv
    <3> QED
      BY <3>1 DEF CreatorOk, HoldsRow, Creates, Same
  <2> QED
    BY <2>1, <2>2
<1>5. ASSUME timely, NEW q \in Ops, NEW s \in Ops, Creates(op[q])', At(s, "held")', q # s
      PROVE  op'[s].id < rec'.id
  <2>1. CASE q = o
    <3>1. op'[s] = op[s] /\ op[s].id <= rec.id /\ op[s].id \in Nat /\ rec.id \in Nat /\ rec'.id \in Nat
      BY <1>1, <1>5, <2>1, OpFacts DEF TimesOk, Rows
    <3>2. Creates(r) /\ At(s, "held")
      BY <1>1, <1>5, <2>1, <3>1 DEF Creates, At
    <3>3. CASE Creates(op[o]) /\ rec'.id = rec.id
      BY <1>5, <2>1, <3>1, <3>2, <3>3 DEF LockInv, CreatorInv
    <3>4. CASE rec'.id > rec.id
      BY <3>1, <3>4
    <3> QED
      BY <1>5, <3>2, <3>3, <3>4
  <2>2. CASE q # o
    <3>1. Creates(op[q]) /\ UNCHANGED rec
      BY <1>1, <1>5, <2>2 DEF Creates
    <3>2. CASE s = o
      <4>1. At(o, "held") /\ r.id = op[o].id
        BY <1>1, <1>5, <2>2, <3>1, <3>2 DEF At
      <4> QED
        BY <1>1, <1>5, <3>1, <3>2, <4>1 DEF LockInv, CreatorInv
    <3>3. CASE s # o
      BY <1>1, <1>5, <3>1, <3>3 DEF LockInv, CreatorInv, At
    <3> QED
      BY <3>2, <3>3
  <2> QED
    BY <2>1, <2>2
<1>6. CreatorInv'
  BY <1>4, <1>5 DEF CreatorInv, Same
<1> QED
  BY <1>2, <1>3, <1>6 DEF LockInv

(* A step that leaves the row alone and takes no lock. *)
LEMMA ControlStep ==
    ASSUME LockInv, Same, UNCHANGED rec, NEW o \in Ops, NEW r \in OpType, op' = [op EXCEPT ![o] = r],
           r.pc # "held", TimesOk(r, rec),
           r.pc \in AcquirePcs => r.now = clock \/ (r.now = op[o].now /\ op[o].pc \in AcquirePcs)
    PROVE  LockInv'
<1>1. rec \in Rows /\ rec.id \in Nat /\ clock \in Nat
  BY OpFacts
<1>2. timely => CreatorOk(r, o, rec')
  <2> SUFFICES ASSUME timely, r.pc \in AcquirePcs
               PROVE  clock < r.now + Period
    BY DEF CreatorOk, Creates
  <2>1. op[o].pc \in AcquirePcs => clock < op[o].now + Period
    BY OpFacts DEF CreatorOk
  <2> QED
    BY <1>1, <2>1, PeriodFacts
<1>3. rec' \in Rows /\ rec'.id >= rec.id /\ ~Creates(r) /\ TimesOk(r, rec')
  BY <1>1 DEF Creates
<1>4. timely => UNCHANGED rec /\ (r.pc = "held" => FALSE) /\ (Creates(r) => FALSE)
  BY <1>3
<1> QED
  BY <1>2, <1>3, <1>4, Assemble

(* An operation that ends without touching the row. *)
LEMMA LeaveStep ==
    ASSUME LockInv, Same, UNCHANGED rec, NEW o \in Ops, Leave(o)
    PROVE  LockInv'
<1>1. Idle \in OpType /\ Idle.pc = "idle" /\ Idle.now = 0 /\ Idle.id = 0
  BY DEF Idle, OpType
<1>2. Idle.pc # "held" /\ Idle.pc \notin AcquirePcs
  BY <1>1 DEF AcquirePcs
<1>3. TimesOk(Idle, rec)
  BY <1>1, <1>2, OpFacts DEF TimesOk
<1> QED
  BY <1>1, <1>2, <1>3, ControlStep DEF Leave

-----------------------------------------------------------------------------
(* The record of an operation that took the lock. *)
LEMMA HoldFacts ==
    ASSUME LockInv, NEW o \in Ops, NEW id \in Nat, NEW c \in BOOLEAN, Hold(o, id, c), op[o].pc \in AcquirePcs
    PROVE  \E r \in OpType :
             /\ op' = [op EXCEPT ![o] = r]
             /\ r.pc = "held" /\ r.now = 0 /\ r.id = id /\ r.created = c
             /\ r.beat = op[o].now /\ r.beat >= 1
<1> DEFINE r == [Idle EXCEPT !.pc = "held", !.id = id, !.created = c, !.beat = op[o].now]
<1>1. op[o].now \in Nat /\ op[o].now >= 1
  BY OpFacts DEF TimesOk
<1>2. /\ r \in OpType /\ r.pc = "held" /\ r.now = 0 /\ r.id = id /\ r.created = c /\ r.beat = op[o].now
  BY <1>1 DEF Idle, OpType
<1> QED
  BY <1>1, <1>2 DEF Hold

(* The row is inserted, or found. *)
LEMMA CreateInd ==
    ASSUME LockInv, NEW o \in Ops, Create(o)
    PROVE  LockInv'
<1>1. /\ Same /\ op[o].pc = "create" /\ op[o].pc \in AcquirePcs
      /\ op[o] \in OpType /\ rec \in Rows /\ rec.id \in Nat /\ clock \in Nat /\ clock >= 1
      /\ op[o].now \in Nat /\ op[o].id \in Nat /\ op[o].beat \in Nat /\ TimesOk(op[o], rec)
  BY OpFacts DEF Create, At, AcquirePcs
<1>2. CASE Exists
  <2> DEFINE r == [op[o] EXCEPT !.pc = "get"]
  <2>1. op' = [op EXCEPT ![o] = r] /\ UNCHANGED rec
    BY <1>2 DEF Create
  <2>2. r \in OpType /\ r.pc = "get" /\ r.now = op[o].now /\ r.id = op[o].id
    BY <1>1 DEF OpType, AcquirePcs
  <2>3. TimesOk(r, rec) /\ r.pc # "held"
    BY <1>1, <2>2 DEF TimesOk
  <2> QED
    BY <1>1, <2>1, <2>2, <2>3, ControlStep
<1>3. CASE ~Exists
  <2>1. CreateProcessing(o, op[o].now) /\ Hold(o, rec.id + 1, TRUE)
    BY <1>3 DEF Create
  <2>2. PICK r \in OpType :
          /\ op' = [op EXCEPT ![o] = r]
          /\ r.pc = "held" /\ r.now = 0 /\ r.id = rec.id + 1 /\ r.created = TRUE
          /\ r.beat = op[o].now /\ r.beat >= 1
    <3>1. PICK id \in Nat : id = rec.id + 1
      BY <1>1
    <3>2. PICK c \in BOOLEAN : c = TRUE
      OBVIOUS
    <3>3. Hold(o, id, c)
      BY <2>1, <3>1, <3>2
    <3>4. \E r \in OpType :
            /\ op' = [op EXCEPT ![o] = r]
            /\ r.pc = "held" /\ r.now = 0 /\ r.id = id /\ r.created = c
            /\ r.beat = op[o].now /\ r.beat >= 1
      BY <1>1, <3>3, HoldFacts
    <3> QED
      BY <3>1, <3>2, <3>4
  <2>3. /\ rec'.status = "processing" /\ rec'.id = rec.id + 1 /\ rec'.fp = o
        /\ rec'.locked = op[o].now + Lease /\ rec'.expires = op[o].now + TTL
    BY <2>1 DEF CreateProcessing
  <2>4. rec' \in Rows
    BY <1>1, <2>1, PeriodFacts DEF CreateProcessing, Rows, Recorded, Ops
  <2>5. TimesOk(r, rec')
    BY <1>1, <2>2, <2>3 DEF TimesOk, AcquirePcs
  <2>6. timely => CreatorOk(r, o, rec')
    <3>1. timely => clock < op[o].now + Period
      BY <1>1, OpFacts DEF CreatorOk
    <3> QED
      BY <1>1, <2>2, <2>3, <3>1, PeriodFacts DEF CreatorOk, HoldsRow, AcquirePcs
  <2>7. timely => \A q \in Ops : ~Creates(op[q])
    BY <1>3, CreatorBarsRow DEF Exists
  <2>8. rec'.id > rec.id /\ rec'.id >= rec.id
    BY <1>1, <2>3
  <2>9. timely => \A q \in Ops \ {o} : ~Creates(op[q])
    BY <2>7
  <2>10. op' = [op EXCEPT ![o] = r]
    BY <2>2
  <2> QED
    BY <1>1, <2>10, <2>4, <2>5, <2>6, <2>8, <2>9, Assemble
<1> QED
  BY <1>2, <1>3

(* An expired lock is taken over; that of a creator on schedule is not.    *)
LEMMA ReclaimInd ==
    ASSUME LockInv, NEW o \in Ops, ReclaimLock(o)
    PROVE  LockInv'
<1>1. /\ Same /\ op[o].pc \in AcquirePcs
      /\ op[o] \in OpType /\ rec \in Rows /\ rec.id \in Nat /\ clock \in Nat /\ clock >= 1
      /\ op[o].now \in Nat /\ TimesOk(op[o], rec)
  BY OpFacts DEF ReclaimLock, At, AcquirePcs
<1>2. CASE ~Reclaimable(op[o].id, op[o].from, op[o].now)
  BY <1>1, <1>2, LeaveStep DEF ReclaimLock
<1>3. CASE Reclaimable(op[o].id, op[o].from, op[o].now)
  <2>1. TryReclaim(op[o].now) /\ Hold(o, rec.id, FALSE)
    BY <1>3 DEF ReclaimLock
  <2>2. PICK r \in OpType :
          /\ op' = [op EXCEPT ![o] = r]
          /\ r.pc = "held" /\ r.now = 0 /\ r.id = rec.id /\ r.created = FALSE
          /\ r.beat = op[o].now /\ r.beat >= 1
    BY ZenonT(40), <1>1, <2>1, HoldFacts
  <2>3. rec' \in Rows /\ rec'.id = rec.id
    <3>1. op[o].now + Lease \in Nat /\ op[o].now + TTL \in Nat
      BY <1>1, PeriodFacts
    <3> QED
      BY <1>1, <2>1, <3>1 DEF TryReclaim, Rows, Recorded
  <2>4. TimesOk(r, rec')
    BY <1>1, <2>2, <2>3 DEF TimesOk, AcquirePcs
  <2>5. CreatorOk(r, o, rec') /\ ~Creates(r)
    BY <2>2 DEF CreatorOk, Creates, AcquirePcs
  <2>6. ~(rec.locked > clock)
    BY <1>1, <1>3 DEF Reclaimable, TimesOk, Rows
  <2>7. timely => \A q \in Ops : ~Creates(op[q])
    BY <2>6, CreatorBarsRow
  <2>8. rec'.id >= rec.id
    BY <1>1, <2>3
  <2> QED
    BY <1>1, <2>2, <2>3, <2>4, <2>5, <2>7, <2>8, Assemble
<1> QED
  BY <1>2, <1>3

(* An acquisition starts, and reads the row that is in its way. *)
LEMMA AcquireInd ==
    ASSUME LockInv, NEW o \in Ops, Acquire(o) \/ ReadLock(o)
    PROVE  LockInv'
<1>1. /\ Same /\ UNCHANGED rec
      /\ op[o] \in OpType /\ rec \in Rows /\ rec.id \in Nat /\ clock \in Nat /\ clock >= 1
      /\ op[o].now \in Nat /\ TimesOk(op[o], rec)
  BY OpFacts DEF Acquire, ReadLock
<1>2. CASE Acquire(o)
  <2> DEFINE r == [Idle EXCEPT !.pc = "create", !.now = clock]
  <2>1. r \in OpType /\ r.pc = "create" /\ r.now = clock /\ r.id = 0
    BY <1>1 DEF Idle, OpType, AcquirePcs
  <2>2. op' = [op EXCEPT ![o] = r]
    BY <1>2 DEF Acquire
  <2>3. TimesOk(r, rec) /\ r.pc # "held"
    BY <1>1, <2>1 DEF TimesOk
  <2>4. r.pc \in AcquirePcs => r.now = clock \/ (r.now = op[o].now /\ op[o].pc \in AcquirePcs)
    BY <2>1
  <2>5. r.pc # "held" /\ TimesOk(r, rec) /\ r \in OpType
    BY <2>1, <2>3
  <2> HIDE DEF r
  <2> QED
    BY <1>1, <2>2, <2>4, <2>5, ControlStep
<1>3. CASE ReadLock(o) /\ Exists /\ ~Busy(o)
  <2> DEFINE r == [op[o] EXCEPT !.pc = "reclaim", !.id = rec.id, !.from = rec.status]
  <2>1. op' = [op EXCEPT ![o] = r] /\ op[o].pc \in AcquirePcs
    BY <1>3 DEF ReadLock, At, AcquirePcs
  <2>2. rec.status \in Recorded
    BY <1>1, <1>3 DEF Exists, Rows
  <2>3. r \in OpType /\ r.pc = "reclaim" /\ r.now = op[o].now /\ r.id = rec.id
    BY <1>1, <2>2 DEF OpType, AcquirePcs
  <2>4. TimesOk(r, rec) /\ r.pc # "held"
    BY <1>1, <2>1, <2>3 DEF TimesOk
  <2> QED
    BY <1>1, <2>1, <2>3, <2>4, ControlStep
<1>4. CASE ReadLock(o) /\ ~(Exists /\ ~Busy(o))
  BY <1>1, <1>4, LeaveStep DEF ReadLock
<1> QED
  BY <1>2, <1>3, <1>4

(* A renewal extends the row of its own fingerprint only. *)
LEMMA RenewInd ==
    ASSUME LockInv, NEW o \in Ops, Renew(o)
    PROVE  LockInv'
<1> DEFINE r == [op[o] EXCEPT !.beat = IF Extendable(op[o].id, o) THEN clock ELSE 0]
<1>1. /\ Same /\ ExtendProcessingLock(op[o].id, o)
      /\ op[o] \in OpType /\ rec \in Rows /\ rec.id \in Nat /\ clock \in Nat /\ clock >= 1
      /\ op[o].now \in Nat /\ op[o].id \in Nat /\ TimesOk(op[o], rec)
  BY OpFacts DEF Renew
<1>2. op' = [op EXCEPT ![o] = r]
  BY DEF Renew
<1>3. /\ r \in OpType /\ r.pc = op[o].pc /\ r.now = op[o].now /\ r.id = op[o].id /\ r.created = op[o].created
      /\ r.beat = IF Extendable(op[o].id, o) THEN clock ELSE 0
  BY <1>1 DEF OpType
<1> HIDE DEF r
<1>4. /\ rec' \in Rows /\ rec'.id = rec.id
      /\ rec'.status = rec.status /\ rec'.fp = rec.fp
      /\ Extendable(op[o].id, o) => rec'.locked = clock + Lease /\ rec'.expires = clock + TTL
      /\ ~Extendable(op[o].id, o) => UNCHANGED rec
  <2>1. clock + Lease \in Nat /\ clock + TTL \in Nat
    BY <1>1, PeriodFacts
  <2>2. CASE Extendable(op[o].id, o)
    BY <1>1, <2>1, <2>2 DEF ExtendProcessingLock, Rows
  <2>3. CASE ~Extendable(op[o].id, o)
    BY <1>1, <2>3 DEF ExtendProcessingLock
  <2> QED
    BY <2>2, <2>3
<1>5. TimesOk(r, rec') /\ rec'.id >= rec.id
  BY <1>1, <1>3, <1>4 DEF TimesOk
<1>6. ASSUME timely
      PROVE  CreatorOk(r, o, rec')
  <2>1. CreatorOk(op[o], o, rec)
    BY <1>6, OpFacts
  <2>2. ASSUME Creates(op[o])
        PROVE  HoldsRow(r, o, rec')
    <3>1. Extendable(op[o].id, o)
      BY <1>6, <2>2, CreatorBarsRow DEF Extendable, Row, Exists
    <3> QED
      BY <1>1, <1>3, <1>4, <3>1, PeriodFacts DEF HoldsRow, Extendable, Row
  <2> QED
    BY <1>3, <2>1, <2>2 DEF CreatorOk, Creates
<1>7. ASSUME timely
      PROVE  UNCHANGED rec \/ \A q \in Ops \ {o} : ~Creates(op[q])
  <2>1. CASE Extendable(op[o].id, o)
    <3>1. \A q \in Ops : Creates(op[q]) => rec.fp = q
      BY <1>7, CreatorBarsRow
    <3> QED
      BY <2>1, <3>1 DEF Extendable
  <2>2. CASE ~Extendable(op[o].id, o)
    BY <1>4, <2>2
  <2> QED
    BY <2>1, <2>2
<1> QED
  BY <1>1, <1>2, <1>3, <1>4, <1>5, <1>6, <1>7, Assemble DEF Creates, At

(* A release ends the row of the creator, or one that no creator holds.    *)
LEMMA ReleaseInd ==
    ASSUME LockInv, NEW o \in Ops, Release(o)
    PROVE  LockInv'
<1>1. /\ Same /\ Leave(o) /\ At(o, "held")
      /\ rec \in Rows /\ rec.id \in Nat /\ clock \in Nat /\ clock >= 1 /\ op[o].id \in Nat
      /\ TimesOk(op[o], rec)
  BY OpFacts DEF Release
<1>2. CASE ~Row(op[o].id)
  <2>1. UNCHANGED rec
    BY <1>2 DEF Release, MarkSucceeded, MarkFailedRetryable
  <2> QED
    BY <1>1, <2>1, LeaveStep
<1>3. CASE Row(op[o].id)
  <2>1. rec' \in Rows /\ rec'.id = rec.id
    <3>1. clock + TTL \in Nat /\ Null \in Nat
      BY <1>1, PeriodFacts DEF Null
    <3>2. CASE MarkSucceeded(op[o].id, "none", clock + TTL)
      BY <1>1, <1>3, <3>1, <3>2 DEF MarkSucceeded, Rows, Recorded
    <3>3. CASE MarkFailedRetryable(op[o].id, clock, clock + TTL)
      BY <1>1, <1>3, <3>1, <3>3 DEF MarkFailedRetryable, Rows, Recorded
    <3> QED
      BY <3>2, <3>3 DEF Release
  <2>2. timely => \A q \in Ops \ {o} : ~Creates(op[q])
    <3> SUFFICES ASSUME timely, NEW q \in Ops \ {o}, Creates(op[q])
                 PROVE  FALSE
      OBVIOUS
    <3>1. op[o].id < rec.id
      BY <1>1 DEF LockInv, CreatorInv
    <3> QED
      BY <1>1, <1>3, <3>1 DEF Row
  <2>3. Idle \in OpType /\ Idle.pc = "idle" /\ Idle.now = 0 /\ Idle.id = 0
    BY DEF Idle, OpType
  <2>4. Idle.pc # "held" /\ Idle.pc \notin AcquirePcs /\ ~Creates(Idle)
    BY <2>3 DEF AcquirePcs, Creates
  <2>5. TimesOk(Idle, rec') /\ CreatorOk(Idle, o, rec') /\ rec'.id >= rec.id
    BY <1>1, <2>1, <2>3, <2>4 DEF TimesOk, CreatorOk
  <2> QED
    BY <1>1, <2>1, <2>2, <2>3, <2>4, <2>5, Assemble DEF Leave
<1> QED
  BY <1>2, <1>3

(* The clean-up deletes no creator's row; time waits for its renewal.      *)
LEMMA ClockInd ==
    ASSUME LockInv, Cleanup \/ Tick
    PROVE  LockInv'
<1>1. rec \in Rows /\ rec.id \in Nat /\ clock \in 1..MaxTime /\ MaxTime \in Nat /\ UNCHANGED <<op, timely>>
  BY TimesAssumption DEF LockInv, TypeInv, StoreTypeOK, Rows, Cleanup, Tick, Same
<1>2. CASE Cleanup
  <2>1. rec' = NoRow(rec.id) /\ UNCHANGED clock /\ ~(rec.expires > clock)
    BY <1>1, <1>2 DEF Cleanup, DeleteExpired, Same, Rows
  <2>2. rec' \in Rows /\ rec'.id = rec.id
    BY <1>1, <2>1 DEF NoRow, Rows, Null
  <2>3. timely => \A o \in Ops : ~Creates(op[o])
    BY <2>1, CreatorBarsRow
  <2>4. TypeInv' /\ TimesInv'
    BY <1>1, <2>1, <2>2 DEF LockInv, TypeInv, StoreTypeOK, TimesInv, TimesOk
  <2>5. CreatorInv'
    BY <1>1, <2>1, <2>2, <2>3 DEF LockInv, CreatorInv, CreatorOk, Creates, At
  <2> QED
    BY <2>4, <2>5 DEF LockInv
<1>3. CASE Tick
  <2>1. clock' = clock + 1 /\ clock < MaxTime /\ UNCHANGED rec
    BY <1>3 DEF Tick
  <2>2. TypeInv'
    BY <1>1, <2>1 DEF LockInv, TypeInv, StoreTypeOK
  <2>3. TimesInv'
    <3>1. \A o \in Ops : op[o].now \in Nat
      BY OpFacts
    <3> QED
      BY <1>1, <2>1, <3>1 DEF LockInv, TimesInv, TimesOk
  <2>4. CreatorInv'
    BY <1>1, <1>3, <2>1 DEF LockInv, CreatorInv, CreatorOk, HoldsRow, Creates, At, Tick, OnSchedule
  <2> QED
    BY <2>2, <2>3, <2>4 DEF LockInv
<1> QED
  BY <1>2, <1>3

-----------------------------------------------------------------------------
(* The invariant holds at the start. *)
LEMMA InitInd == Init => LockInv
<1> SUFFICES ASSUME Init
             PROVE  LockInv
  OBVIOUS
<1>1. rec = NoRow(0) /\ clock = 1 /\ op = [o \in Ops |-> Idle] /\ timely \in BOOLEAN
  BY DEF Init, StoreInit
<1>2. MaxTime \in Nat /\ MaxTime >= 1
  BY TimesAssumption
<1>3. rec \in Rows /\ rec.id = 0
  BY <1>1 DEF NoRow, Rows, Null
<1>4. Idle \in OpType /\ Idle.pc = "idle" /\ Idle.now = 0 /\ Idle.id = 0
  BY DEF Idle, OpType
<1>5. TypeInv
  BY <1>1, <1>2, <1>3, <1>4 DEF TypeInv, StoreTypeOK
<1>6. TimesInv /\ CreatorInv
  BY <1>1, <1>3, <1>4 DEF TimesInv, TimesOk, CreatorInv, CreatorOk, Creates, At, AcquirePcs
<1> QED
  BY <1>5, <1>6 DEF LockInv

(* Every step keeps it. *)
LEMMA NextInd == LockInv /\ [Next]_vars => LockInv'
<1> SUFFICES ASSUME LockInv, [Next]_vars
             PROVE  LockInv'
  OBVIOUS
<1>1. ASSUME NEW o \in Ops, Step(o)
      PROVE  LockInv'
  <2>1. CASE Crash(o)
    BY <2>1, LeaveStep DEF Crash
  <2> QED
    BY <1>1, <2>1, AcquireInd, CreateInd, ReclaimInd, RenewInd, ReleaseInd DEF Step
<1>2. CASE UNCHANGED vars
  BY <1>2 DEF vars, LockInv, TypeInv, StoreTypeOK, TimesInv, TimesOk, CreatorInv, CreatorOk, HoldsRow, Creates, At
<1> QED
  BY <1>1, <1>2, ClockInd DEF Next

(* The inductive invariant holds in every state of the lock. *)
THEOREM Inductive == Spec => []LockInv
BY InitInd, NextInd, PTL DEF Spec

(* The lock's row is the creator's as long as it renews it on schedule:    *)
(* no step of any other operation takes the lock (Acquire, renewLoop,      *)
(* TryReclaim).                                                            *)
THEOREM CreatorIsAlone == Spec => CreatorKeepsOthersOut
<1> DEFINE Kept == \A o, q \in Ops :
                     timely /\ At(o, "held") /\ op[o].created /\ ~At(q, "held") => op'[q].pc # "held"
<1>1. LockInv /\ [Next]_vars => [Kept]_vars
  <2> SUFFICES ASSUME LockInv, Next,
                      NEW o \in Ops, NEW q \in Ops, timely, At(o, "held"), op[o].created, ~At(q, "held"),
                      op'[q].pc = "held"
               PROVE  FALSE
    OBVIOUS
  <2>1. Exists /\ rec.locked > clock
    BY CreatorBarsRow DEF Creates, At, Exists
  <2>2. PICK s \in Ops : Step(s)
    BY DEF Next, Cleanup, Tick, At
  <2>3. op[s] \in OpType /\ op \in [Ops -> OpType] /\ op[q] \in OpType
    BY DEF LockInv, TypeInv
  <2>4. CASE s # q
    BY <2>2, <2>3, <2>4 DEF Step, Acquire, Create, ReadLock, ReclaimLock, Renew, Release, Crash, Leave, Hold, At
  <2>5. CASE s = q /\ ~ReclaimLock(s)
    <3>1. Idle.pc = "idle" /\ [Idle EXCEPT !.pc = "create", !.now = clock].pc = "create"
      BY DEF Idle
    <3>2. ~(Acquire(s) \/ Release(s) \/ Crash(s))
      BY <2>3, <2>5, <3>1 DEF Acquire, Release, Crash, Leave
    <3>3. ~(Create(s) \/ ReadLock(s))
      BY <2>1, <2>3, <2>5, <3>1 DEF Create, ReadLock, Leave, OpType
    <3>4. ~Renew(s)
      BY <2>3, <2>5 DEF Renew, At, OpType
    <3> QED
      BY <2>2, <2>5, <3>2, <3>3, <3>4 DEF Step
  <2>6. CASE s = q /\ ReclaimLock(s)
    <3>1. Idle.pc = "idle"
      BY DEF Idle
    <3>2. Reclaimable(op[s].id, op[s].from, op[s].now)
      BY <2>3, <2>6, <3>1 DEF ReclaimLock, Leave
    <3>3. /\ rec.locked <= op[s].now /\ op[s].now <= clock
          /\ rec.locked \in Nat /\ op[s].now \in Nat /\ clock \in Nat
      BY <3>2, OpFacts DEF Reclaimable, TimesOk, Rows
    <3> QED
      BY <2>1, <3>3
  <2> QED
    BY <2>4, <2>5, <2>6
<1> QED
  BY <1>1, Inductive, PTL DEF Spec, CreatorKeepsOthersOut

=============================================================================
