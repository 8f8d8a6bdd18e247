-------------------------- MODULE BatchImageProofs --------------------------
(***************************************************************************)
(* Proofs about BatchImage, for any jobs, workers, costs, holds and bound  *)
(* on the failures.                                                        *)
(***************************************************************************)
EXTENDS BatchImage, TLAPS

Ended == {"failed", "cancelled"}
Later == {"submitted", "running", "indexing", "settling", "completed"}

Released(b) == Claimed(<<"release", b>>)

(* Money moves at most once per request, and only with a row that claims   *)
(* it.                                                                     *)
LedgerInv ==
    /\ \A r \in Requests : moved[r] \in {0, 1} /\ (moved[r] = 1 => Claimed(r))
    /\ \A b \in Batches : /\ Claimed(<<"hold", b>>) => Held(b)
                          /\ Claimed(<<"capture", b>>) => Captured(b)
                          /\ Returned(b) => Held(b)

(* A worker that is past the lock holds it, unless it lost it while its    *)
(* heartbeats failed.                                                      *)
LockInv ==
    \A w \in Workers :
      /\ pc[w] = "idle" <=> on[w] = Nil
      /\ pc[w] \notin {"idle", "lock", "requeue"} => lock[on[w]] = w \/ (w \in silent /\ on[w] \in lapsed)

(* Heartbeats fail only by a fault. *)
Undisturbed == faults = 0 => silent = {} /\ lapsed = {}

(* Where a submission stands decides what the job's status can be. *)
SubmissionOk(s, st, held) ==
    /\ s = "new" => st = "none"
    /\ s = "reserve" => st \in {"created"} \union Ended
    /\ s \in {"items", "upload"} => held /\ st \in {"created"} \union Ended
    /\ s \in {"submit", "name"} => held /\ st \in {"uploading"} \union Ended
    /\ s = "unfreezeQuiet" => st \in Ended
    /\ s \in {"unfreeze", "failed", "failedShown"} => st \in {"created", "uploading"} \union Ended
    /\ st \in Later => held /\ s \in {"enqueue", "abort", "over"}

Early == {"new", "reserve", "items", "upload", "submit", "name"}

(* Where a job's money can be in each status. *)
MoneyOk(s, b) ==
    /\ Captured(b) => Held(b) /\ (Exhausted(b) \/ Status(b) \in {"settling", "completed"} \/ b \in lapsed)
    /\ Status(b) = "completed" => Captured(b)
    /\ Returned(b) => Exhausted(b) \/ Status(b) \in Ended
                      \/ (Status(b) \in {"created", "uploading"} /\ s \notin Early)

BatchOk(b) ==
    /\ SubmissionOk(pc[<<"submit", b>>], Status(b), Held(b))
    /\ MoneyOk(pc[<<"submit", b>>], b)
    /\ pc[<<"cancel", b>>] = "refund" => Status(b) \in Ended
    /\ pc[<<"sweep", b>>] = "refund" => Status(b) \in Ended

JobInv == \A b \in Batches : BatchOk(b)

(* What a worker knows of its job at each step for good, whatever others   *)
(* do to the job meanwhile ...                                             *)
KnowsOk(l, b) ==
    /\ l \in {"toRunning", "toIndexing", "index", "toSettling", "toFailed", "toCancelled", "capture", "record", "mark",
              "exhaust", "exhausted"} => Status(b) \in Later \union Ended
    /\ l = "refund" => Status(b) \in Ended
    /\ l = "capture" => Held(b)
    /\ l = "mark" => Captured(b)
    /\ l \in {"exhaust", "exhausted"} => Exhausted(b)
    /\ l = "exhausted" => Released(b)

(* ... and what it knows as long as it is alone with the job. *)
AloneOk(l, b) ==
    /\ l = "process" => Status(b) # "settling"
    /\ l \in {"toRunning", "toIndexing", "index", "toSettling", "toFailed", "toCancelled"} =>
         Status(b) \in {"submitted", "running", "indexing"} \union Ended
    /\ l \in {"settle", "capture", "record", "mark", "exhaust", "exhausted"} => Status(b) = "settling"
    /\ l \in {"capture", "record"} => ~Exhausted(b)
    /\ l = "reread" => Status(b) = "settling" \/ Released(b)
    /\ l = "ack" => Status(b) = "completed" \/ Released(b)

WorkOk(l, b) == KnowsOk(l, b) /\ (AloneOk(l, b) \/ b \in lapsed)

WorkInv == \A w \in Workers : WorkOk(pc[w], on[w])

(* As long as nothing fails, a job in flight has exactly one place ...     *)
OnePlace(b) ==
    /\ ready[b] <= 1
    /\ ready[b] = 1 => b \in inflight /\ b \notin delayed /\ b \notin active
    /\ b \in delayed => b \in inflight /\ b \notin active
    /\ b \in active => b \in inflight
    /\ b \in active <=> \E w \in Workers : on[w] = b
    /\ \A w, v \in Workers : on[w] = b /\ on[v] = b => w = v

(* ... and somebody will still return the money of a job that ended.       *)
Owed(b) ==
    \/ b \in inflight
    \/ pc[<<"submit", b>>] \in {"items", "upload", "unfreeze", "unfreezeQuiet", "failedShown", "enqueue"}
    \/ pc[<<"cancel", b>>] \in {"refund", "retry"}
    \/ pc[<<"sweep", b>>] \in {"refund", "retry"}

DebtOk(b) ==
    /\ pc[<<"submit", b>>] = "failed" => ~Held(b) \/ Released(b)
    /\ Status(b) \in Ended /\ Held(b) /\ ~Released(b) => Owed(b)

DebtInv == faults = 0 => \A b \in Batches : OnePlace(b) /\ DebtOk(b)

BatchInv == TypeOK /\ LedgerInv /\ LockInv /\ Undisturbed /\ JobInv /\ WorkInv /\ NeverLost /\ DebtInv

-----------------------------------------------------------------------------
(* The ledger. *)

LEMMA Constants ==
    /\ Hold \in Nat /\ StartBalance \in Int /\ OtherHolds \in Nat
    /\ Costs \subseteq Nat /\ MaxRetries \in Nat \ {0} /\ MaxFaults \in Nat
    /\ HeartbeatCost \in Nat \ {0} /\ Holders = Batches
    /\ Nil \notin Workers /\ Nil \notin Batches
BY LedgerAssumption, JobsAssumption, QueueAssumption, FaultsAssumption

LEMMA HolderRequests ==
    ASSUME NEW b \in Batches
    PROVE  <<"hold", b>> \in Requests /\ <<"capture", b>> \in Requests /\ <<"release", b>> \in Requests
BY Constants DEF Requests

(* What a claim does to the rows. *)
LEMMA ClaimFacts ==
    ASSUME LedgerTypeOK, NEW r \in Requests, NEW f \in Nat, Claim(r, f)
    PROVE  /\ \A q : Claimed(q)' <=> (Claimed(q) \/ q = r)
           /\ dedup' \subseteq Requests \X Nat /\ archive' \subseteq Requests \X Nat
<1>1. PICK e : e = <<r, f>> /\ e[1] = r /\ e \in Requests \X Nat
  <2>1. <<r, f>>[1] = r /\ <<r, f>> \in Requests \X Nat
    OBVIOUS
  <2> QED
    BY <2>1
<1>2. dedup' = dedup \union {e} /\ archive' = archive /\ Rows' = Rows \union {e}
  BY <1>1 DEF Claim, Rows
<1>3. \A q : Claimed(q)' <=> (Claimed(q) \/ q = r)
  BY <1>1, <1>2, Zenon DEF Claimed
<1> QED
  BY <1>1, <1>2, <1>3 DEF LedgerTypeOK

LEMMA MovesFacts ==
    ASSUME LedgerTypeOK, NEW r \in Requests, Moves(r)
    PROVE  /\ moved' \in [Requests -> Nat] /\ moved'[r] = moved[r] + 1 /\ moved[r] \in Nat
           /\ \A q \in Requests \ {r} : moved'[q] = moved[q]
BY DEF LedgerTypeOK, Moves

LEMMA LedgerKept ==
    ASSUME LedgerTypeOK, LedgerInv, UNCHANGED ledger
    PROVE  /\ LedgerTypeOK' /\ LedgerInv' /\ moved' = moved
           /\ \A q : Claimed(q)' <=> Claimed(q)
<1>1. balance' = balance /\ frozen' = frozen /\ dedup' = dedup /\ archive' = archive /\ moved' = moved
  BY DEF ledger
<1>2. \A q : Claimed(q)' <=> Claimed(q)
  BY <1>1 DEF Claimed, Rows
<1>3. LedgerTypeOK'
  BY <1>1 DEF LedgerTypeOK
<1> QED
  BY <1>1, <1>2, <1>3 DEF LedgerInv, Held, Captured, Returned

(* Requests other than r are left alone. *)
Spared(r) == \A q \in Requests \ {r} : moved'[q] = moved[q] /\ (Claimed(q)' <=> Claimed(q))

(* A request that is claimed now, and perhaps moves money. *)
LEMMA ClaimNow ==
    ASSUME LedgerTypeOK, LedgerInv, NEW r \in Requests, NEW f \in Nat, ~Claimed(r), Claim(r, f),
           Moves(r) \/ UNCHANGED moved
    PROVE  /\ Spared(r) /\ Claimed(r)' /\ moved' \in [Requests -> Nat] /\ moved[r] = 0
           /\ (Moves(r) => moved'[r] = 1) /\ moved'[r] \in {0, 1}
           /\ dedup' \subseteq Requests \X Nat /\ archive' \subseteq Requests \X Nat
<1>1. moved[r] = 0
  BY DEF LedgerInv
<1>2. moved \in [Requests -> Nat]
  BY DEF LedgerTypeOK
<1> QED
  BY <1>1, <1>2, ClaimFacts, MovesFacts DEF Spared

(* Of ReserveBatchImageBalance, CaptureBatchImageBalance and               *)
(* ReleaseBatchImageBalance: whose request is touched, and what it leaves. *)
LEMMA ReserveFacts ==
    ASSUME LedgerTypeOK, LedgerInv, NEW b \in Batches, Reserve(b)
    PROVE  LedgerTypeOK' /\ LedgerInv' /\ Spared(<<"hold", b>>) /\ Held(b)'
<1> DEFINE r == <<"hold", b>>
<1>1. r \in Requests
  BY HolderRequests
<1>2. CASE Already(r)
  <2>1. Held(b) /\ UNCHANGED ledger
    BY <1>2 DEF Already, LedgerInv
  <2>2. LedgerTypeOK' /\ LedgerInv' /\ moved' = moved /\ \A q : Claimed(q)' <=> Claimed(q)
    BY <2>1, LedgerKept
  <2> QED
    BY <2>1, <2>2 DEF Spared, Held
<1>3. CASE ~Claimed(r) /\ Claim(r, 0) /\ Moves(r) /\ balance' = balance - Hold /\ frozen' = frozen + Hold
  <2> HIDE DEF r
  <2>1. /\ Spared(r) /\ Claimed(r)' /\ moved' \in [Requests -> Nat] /\ moved'[r] = 1
        /\ dedup' \subseteq Requests \X Nat /\ archive' \subseteq Requests \X Nat
    BY <1>1, <1>3, ClaimNow
  <2>2. LedgerTypeOK'
    BY <1>3, <2>1, Constants DEF LedgerTypeOK
  <2>3. \A q \in Requests : moved'[q] \in {0, 1} /\ (moved'[q] = 1 => Claimed(q)')
    BY <2>1 DEF LedgerInv, Spared
  <2>4. \A c \in Batches : /\ <<"hold", c>> \in Requests /\ <<"capture", c>> \in Requests /\ <<"release", c>> \in Requests
                           /\ <<"capture", c>> # r /\ <<"release", c>> # r /\ (c # b => <<"hold", c>> # r)
    BY HolderRequests DEF r
  <2>0. Held(b)'
    BY <2>1 DEF Held, r
  <2>5. ASSUME NEW c \in Batches
        PROVE  /\ Claimed(<<"hold", c>>)' => Held(c)'
               /\ Claimed(<<"capture", c>>)' => Captured(c)'
               /\ Returned(c)' => Held(c)'
    <3>1. Claimed(<<"hold", c>>)' => Held(c)'
      <4>1. CASE c # b
        BY <2>1, <2>4, <4>1 DEF LedgerInv, Spared, Held
      <4> QED
        BY <2>0, <4>1
    <3>2. Claimed(<<"capture", c>>)' => Captured(c)'
      BY <2>1, <2>4 DEF LedgerInv, Spared, Captured
    <3>3. Returned(c)' => Held(c)'
      <4>1. Returned(c)' => Returned(c)
        BY <2>1, <2>4 DEF Spared, Returned
      <4>2. c # b /\ Held(c) => Held(c)'
        BY <2>1, <2>4 DEF Spared, Held
      <4> QED
        BY <2>0, <4>1, <4>2 DEF LedgerInv
    <3> QED
      BY <3>1, <3>2, <3>3
  <2> QED
    BY <2>0, <2>1, <2>2, <2>3, <2>5 DEF LedgerInv, r
<1> QED
  BY <1>2, <1>3 DEF Reserve

LEMMA CaptureFacts ==
    ASSUME LedgerTypeOK, LedgerInv, NEW b \in Batches, NEW n \in Nat, CaptureOK(b, n), Capture(b, n)
    PROVE  LedgerTypeOK' /\ LedgerInv' /\ Spared(<<"capture", b>>) /\ Captured(b)'
<1> DEFINE r == <<"capture", b>>
<1>1. r \in Requests
  BY HolderRequests
<1>2. CASE Already(r)
  <2>1. Captured(b) /\ UNCHANGED ledger
    BY <1>2 DEF Already, LedgerInv
  <2>2. LedgerTypeOK' /\ LedgerInv' /\ moved' = moved /\ \A q : Claimed(q)' <=> Claimed(q)
    BY <2>1, LedgerKept
  <2> QED
    BY <2>1, <2>2 DEF Spared, Captured
<1>3. CASE ~Claimed(r) /\ Claim(r, n) /\ Moves(r) /\ balance' = balance + (Hold - n) /\ frozen' = frozen - Hold
  <2>1. frozen >= Hold
    BY <1>3 DEF CaptureOK
  <2> HIDE DEF r
  <2>2. /\ Spared(r) /\ Claimed(r)' /\ moved' \in [Requests -> Nat] /\ moved'[r] = 1
        /\ dedup' \subseteq Requests \X Nat /\ archive' \subseteq Requests \X Nat
    BY <1>1, <1>3, ClaimNow
  <2>3. LedgerTypeOK'
    BY <1>3, <2>1, <2>2, Constants DEF LedgerTypeOK
  <2>4. \A q \in Requests : moved'[q] \in {0, 1} /\ (moved'[q] = 1 => Claimed(q)')
    BY <2>2 DEF LedgerInv, Spared
  <2>5. \A c \in Batches : /\ <<"hold", c>> \in Requests /\ <<"capture", c>> \in Requests /\ <<"release", c>> \in Requests
                           /\ <<"hold", c>> # r /\ <<"release", c>> # r /\ (c # b => <<"capture", c>> # r)
    BY HolderRequests DEF r
  <2>0. Captured(b)'
    BY <2>2 DEF Captured, r
  <2>6. ASSUME NEW c \in Batches
        PROVE  /\ Claimed(<<"hold", c>>)' => Held(c)'
               /\ Claimed(<<"capture", c>>)' => Captured(c)'
               /\ Returned(c)' => Held(c)'
    <3>1. Claimed(<<"hold", c>>)' => Held(c)'
      BY <2>2, <2>5 DEF LedgerInv, Spared, Held
    <3>2. Claimed(<<"capture", c>>)' => Captured(c)'
      <4>1. CASE c # b
        BY <2>2, <2>5, <4>1 DEF LedgerInv, Spared, Captured
      <4> QED
        BY <2>0, <4>1
    <3>3. Returned(c)' => Held(c)'
      <4>1. Returned(c)' => Returned(c)
        BY <2>2, <2>5 DEF Spared, Returned
      <4>2. Held(c) => Held(c)'
        BY <2>2, <2>5 DEF Spared, Held
      <4> QED
        BY <4>1, <4>2 DEF LedgerInv
    <3> QED
      BY <3>1, <3>2, <3>3
  <2> QED
    BY <2>0, <2>2, <2>3, <2>4, <2>6 DEF LedgerInv, r
<1> QED
  BY <1>2, <1>3 DEF Capture

LEMMA ReleaseFacts ==
    ASSUME LedgerTypeOK, LedgerInv, NEW b \in Batches, ReleaseOK(b), Release(b)
    PROVE  LedgerTypeOK' /\ LedgerInv' /\ Spared(<<"release", b>>) /\ Released(b)'
<1> DEFINE r == <<"release", b>>
<1>1. r \in Requests
  BY HolderRequests
<1>2. CASE Already(r)
  <2>1. Claimed(r) /\ UNCHANGED ledger
    BY <1>2 DEF Already
  <2>2. LedgerTypeOK' /\ LedgerInv' /\ moved' = moved /\ \A q : Claimed(q)' <=> Claimed(q)
    BY <2>1, LedgerKept
  <2> QED
    BY <2>1, <2>2 DEF Spared, Released
<1>3. CASE ~Claimed(r) /\ Claim(r, 0) /\ \/ /\ Claimed(<<"hold", b>>) /\ Moves(r)
                                            /\ balance' = balance + Hold /\ frozen' = frozen - Hold
                                         \/ ~Claimed(<<"hold", b>>) /\ UNCHANGED <<balance, frozen, moved>>
  <2>1. Claimed(<<"hold", b>>) => frozen >= Hold
    BY <1>3 DEF ReleaseOK
  <2>2. /\ Spared(r) /\ Claimed(r)' /\ moved' \in [Requests -> Nat] /\ moved'[r] \in {0, 1}
        /\ moved[r] = 0
        /\ dedup' \subseteq Requests \X Nat /\ archive' \subseteq Requests \X Nat
    <3> HIDE DEF r
    <3> QED
      BY <1>1, <1>3, ClaimNow
  <2>3. LedgerTypeOK'
    <3>1. balance' \in Int /\ frozen' \in Nat
      BY <1>3, <2>1, Constants DEF LedgerTypeOK
    <3> QED
      BY <2>2, <3>1 DEF LedgerTypeOK
  <2>4. moved'[r] = 1 => Claimed(<<"hold", b>>)
    BY <1>3, <2>2
  <2> HIDE DEF r
  <2>5. \A q \in Requests : moved'[q] \in {0, 1} /\ (moved'[q] = 1 => Claimed(q)')
    BY <2>2 DEF LedgerInv, Spared
  <2>6. \A c \in Batches : /\ <<"hold", c>> \in Requests /\ <<"capture", c>> \in Requests /\ <<"release", c>> \in Requests
                           /\ <<"hold", c>> # r /\ <<"capture", c>> # r /\ (c # b => <<"release", c>> # r)
    BY HolderRequests DEF r
  <2>7. \A c \in Batches : /\ Claimed(<<"hold", c>>)' => Held(c)'
                           /\ Claimed(<<"capture", c>>)' => Captured(c)'
    BY <2>2, <2>6 DEF LedgerInv, Spared, Held, Captured
  <2>8. \A c \in Batches : Returned(c)' => Held(c)'
    <3> SUFFICES ASSUME NEW c \in Batches, Returned(c)'
                 PROVE  Held(c)'
      OBVIOUS
    <3>1. CASE c = b
      <4>1. moved'[r] = 1
        BY <2>2, <3>1 DEF Returned, r
      <4> QED
        BY <2>2, <2>4, <2>6, <3>1, <4>1 DEF LedgerInv, Spared, Held
    <3>2. CASE c # b
      BY <2>2, <2>6, <3>2 DEF LedgerInv, Spared, Held, Returned
    <3> QED
      BY <3>1, <3>2
  <2> QED
    BY <2>2, <2>3, <2>5, <2>7, <2>8 DEF LedgerInv, Released, r
<1> QED
  BY <1>2, <1>3 DEF Release

LEMMA ArchiveFacts ==
    ASSUME LedgerTypeOK, LedgerInv, Cleanup
    PROVE  LedgerTypeOK' /\ LedgerInv' /\ moved' = moved /\ \A q : Claimed(q)' <=> Claimed(q)
<1>1. balance' = balance /\ frozen' = frozen /\ moved' = moved /\ Rows' = Rows
  BY DEF Cleanup, Rows
<1>2. \A q : Claimed(q)' <=> Claimed(q)
  BY <1>1 DEF Claimed
<1>3. LedgerTypeOK'
  BY DEF Cleanup, LedgerTypeOK
<1> QED
  BY <1>1, <1>2, <1>3 DEF LedgerInv, Held, Captured, Returned

-----------------------------------------------------------------------------
(* The job table. *)

JobType == [status: Statuses, named: BOOLEAN, hidden: BOOLEAN, cost: Costs \union {0}, retry: 0..MaxRetries]

LEMMA JobFacts ==
    ASSUME JobsTypeOK, NEW b \in Batches
    PROVE  /\ job \in [Batches -> JobType] /\ job[b] \in JobType /\ Status(b) \in Statuses
           /\ job[b].named \in BOOLEAN /\ job[b].hidden \in BOOLEAN /\ job[b].cost \in Costs \union {0}
           /\ job[b].cost \in Nat /\ job[b].retry \in 0..MaxRetries /\ job[b].retry \in Nat /\ MaxRetries \in Nat
<1>1. job \in [Batches -> JobType]
  BY DEF JobsTypeOK, JobType
<1>2. job[b] \in JobType
  BY <1>1
<1>3. job[b].cost \in Costs \union {0} /\ job[b].retry \in 0..MaxRetries /\ Status(b) \in Statuses
  BY <1>2 DEF JobType, Status
<1>4. job[b].named \in BOOLEAN /\ job[b].hidden \in BOOLEAN
  BY <1>2 DEF JobType
<1>5. job[b].cost \in Nat
  <2>1. \A n \in Costs \union {0} : n \in Nat
    BY Constants
  <2> QED
    BY <1>3, <2>1
<1>6. job[b].retry \in Nat /\ MaxRetries \in Nat
  <2>1. MaxRetries \in Nat
    BY Constants
  <2> QED
    BY <1>3, <2>1
<1> QED
  BY <1>1, <1>2, <1>3, <1>4, <1>5, <1>6, Zenon

(* Only the row of b changes, and its count of failed settlements stays. *)
Wrote(b, st) ==
    /\ JobsTypeOK' /\ Status(b)' = st /\ job'[b].retry = job[b].retry
    /\ \A c \in Batches \ {b} : job'[c] = job[c]

(* The row of b is replaced. *)
LEMMA RowWritten ==
    ASSUME JobsTypeOK, NEW b \in Batches, NEW row \in JobType, job' = [job EXCEPT ![b] = row]
    PROVE  JobsTypeOK' /\ job'[b] = row /\ \A c \in Batches \ {b} : job'[c] = job[c]
BY JobFacts DEF JobsTypeOK, JobType

LEMMA StatusWritten ==
    ASSUME JobsTypeOK, NEW b \in Batches, NEW st \in Statuses,
           \/ job' = [job EXCEPT ![b].status = st]
           \/ job' = [job EXCEPT ![b].status = st, ![b].named = TRUE]
           \/ \E hide \in BOOLEAN : job' = [job EXCEPT ![b].status = st, ![b].hidden = @ \/ hide]
    PROVE  Wrote(b, st)
<1>1. job[b] \in JobType /\ job \in [Batches -> JobType]
  BY JobFacts
<1>2. PICK row \in JobType : job' = [job EXCEPT ![b] = row] /\ row.status = st /\ row.retry = job[b].retry
  <2>1. CASE job' = [job EXCEPT ![b].status = st]
    <3>1. PICK row \in JobType : row = [job[b] EXCEPT !.status = st]
      BY <1>1 DEF JobType
    <3>2. row.status = st /\ row.retry = job[b].retry
      BY <1>1, <3>1 DEF JobType
    <3>3. job' = [job EXCEPT ![b] = row]
      BY <1>1, <2>1, <3>1
    <3> QED
      BY <3>2, <3>3
  <2>2. CASE job' = [job EXCEPT ![b].status = st, ![b].named = TRUE]
    <3>1. PICK row \in JobType : row = [job[b] EXCEPT !.status = st, !.named = TRUE]
      BY <1>1 DEF JobType
    <3>2. row.status = st /\ row.retry = job[b].retry
      BY <1>1, <3>1 DEF JobType
    <3>3. job' = [job EXCEPT ![b] = row]
      BY <1>1, <2>2, <3>1
    <3> QED
      BY <3>2, <3>3
  <2>3. ASSUME NEW hide \in BOOLEAN, job' = [job EXCEPT ![b].status = st, ![b].hidden = @ \/ hide]
        PROVE  \E row \in JobType : job' = [job EXCEPT ![b] = row] /\ row.status = st /\ row.retry = job[b].retry
    <3>1. PICK h \in BOOLEAN : h = (job[b].hidden \/ hide)
      OBVIOUS
    <3>2. PICK row \in JobType : row = [job[b] EXCEPT !.status = st, !.hidden = h]
      BY <1>1 DEF JobType
    <3>3. row.status = st /\ row.retry = job[b].retry
      BY <1>1, <3>2 DEF JobType
    <3>4. job' = [job EXCEPT ![b] = row]
      BY <1>1, <2>3, <3>1, <3>2
    <3> QED
      BY <3>3, <3>4
  <2> QED
    BY <2>1, <2>2, <2>3
<1> QED
  BY <1>2, RowWritten DEF Wrote, Status

(* The other columns. *)
LEMMA ColumnWritten ==
    ASSUME JobsTypeOK, NEW b \in Batches,
           \/ \E c \in Costs \union {0} : job' = [job EXCEPT ![b].cost = c]
           \/ job' = [job EXCEPT ![b].hidden = TRUE]
    PROVE  Wrote(b, Status(b))
<1>1. job[b] \in JobType /\ job \in [Batches -> JobType]
  BY JobFacts
<1>2. PICK row \in JobType : job' = [job EXCEPT ![b] = row] /\ row.status = Status(b) /\ row.retry = job[b].retry
  <2>1. ASSUME NEW c \in Costs \union {0}, job' = [job EXCEPT ![b].cost = c]
        PROVE  \E row \in JobType : job' = [job EXCEPT ![b] = row] /\ row.status = Status(b) /\ row.retry = job[b].retry
    <3>1. PICK row \in JobType : row = [job[b] EXCEPT !.cost = c]
      BY <1>1 DEF JobType
    <3>2. row.status = Status(b) /\ row.retry = job[b].retry
      BY <1>1, <3>1 DEF JobType, Status
    <3>3. job' = [job EXCEPT ![b] = row]
      BY <1>1, <2>1, <3>1
    <3> QED
      BY <3>2, <3>3
  <2>2. CASE job' = [job EXCEPT ![b].hidden = TRUE]
    <3>1. PICK row \in JobType : row = [job[b] EXCEPT !.hidden = TRUE]
      BY <1>1 DEF JobType
    <3>2. row.status = Status(b) /\ row.retry = job[b].retry
      BY <1>1, <3>1 DEF JobType, Status
    <3>3. job' = [job EXCEPT ![b] = row]
      BY <1>1, <2>2, <3>1
    <3> QED
      BY <3>2, <3>3
  <2> QED
    BY <2>1, <2>2
<1> QED
  BY <1>2, RowWritten DEF Wrote, Status

(* The count of failed settlements. *)
LEMMA RetryWritten ==
    ASSUME JobsTypeOK, NEW b \in Batches, SettlementFailed(b)
    PROVE  /\ JobsTypeOK' /\ Status(b)' = Status(b) /\ (Exhausted(b) => Exhausted(b)')
           /\ job[b].retry + 1 >= MaxRetries => Exhausted(b)'
           /\ \A c \in Batches \ {b} : job'[c] = job[c]
<1>1. job[b] \in JobType /\ job \in [Batches -> JobType] /\ job[b].retry \in 0..MaxRetries /\ MaxRetries \in Nat
  BY JobFacts
<1>2. PICK n \in 0..MaxRetries : n = IF Exhausted(b) THEN job[b].retry ELSE job[b].retry + 1
  BY <1>1 DEF Exhausted
<1>3. PICK row \in JobType : row = [job[b] EXCEPT !.retry = n]
  BY <1>1 DEF JobType
<1>4. row.status = Status(b) /\ row.retry = n
  BY <1>1, <1>3 DEF JobType, Status
<1>5. job' = [job EXCEPT ![b] = row]
  BY <1>1, <1>2, <1>3 DEF SettlementFailed
<1>6. JobsTypeOK' /\ job'[b] = row /\ \A c \in Batches \ {b} : job'[c] = job[c]
  BY <1>5, RowWritten
<1> QED
  BY <1>1, <1>2, <1>4, <1>6 DEF Status, Exhausted

-----------------------------------------------------------------------------
(* What a step of one process leaves of everybody else. *)

LEMMA ClientIds ==
    ASSUME NEW b \in Batches
    PROVE  /\ <<"submit", b>> \in Procs /\ <<"cancel", b>> \in Procs /\ <<"sweep", b>> \in Procs
           /\ <<"submit", b>> \notin Workers /\ <<"cancel", b>> \notin Workers /\ <<"sweep", b>> \notin Workers
BY ProcessAssumption DEF Procs, Submitters, Cancellers, Sweepers

LEMMA WorkerIds == Workers \subseteq Procs
BY DEF Procs

LEMMA Moved ==
    ASSUME TypeOK, NEW p \in Procs, NEW l, Goto(p, l)
    PROVE  pc'[p] = l /\ \A q \in Procs \ {p} : pc'[q] = pc[q]
BY DEF TypeOK, Goto

Same(c) ==
    /\ job'[c] = job[c]
    /\ \A k \in {"hold", "capture", "release"} :
         moved'[<<k, c>>] = moved[<<k, c>>] /\ (Claimed(<<k, c>>)' <=> Claimed(<<k, c>>))

OthersSame(b) == \A c \in Batches \ {b} : Same(c)

SameMoney(b) ==
    /\ Held(b)' <=> Held(b)
    /\ Captured(b)' <=> Captured(b)
    /\ Returned(b)' <=> Returned(b)
    /\ Released(b)' <=> Released(b)

LEMMA SameFacts ==
    ASSUME NEW c \in Batches, Same(c)
    PROVE  Status(c)' = Status(c) /\ (Exhausted(c)' <=> Exhausted(c)) /\ SameMoney(c)
<1>1. /\ moved'[<<"hold", c>>] = moved[<<"hold", c>>] /\ moved'[<<"capture", c>>] = moved[<<"capture", c>>]
      /\ moved'[<<"release", c>>] = moved[<<"release", c>>]
      /\ Claimed(<<"release", c>>)' <=> Claimed(<<"release", c>>)
  BY DEF Same
<1>2. SameMoney(c)
  BY <1>1 DEF SameMoney, Held, Captured, Returned, Released
<1> QED
  BY <1>2 DEF Same, Status, Exhausted

(* A request of b does not touch the others. *)
LEMMA SparedOthers ==
    ASSUME NEW b \in Batches, NEW k \in {"hold", "capture", "release"}, Spared(<<k, b>>), UNCHANGED job
    PROVE  /\ OthersSame(b) /\ Status(b)' = Status(b) /\ job'[b].retry = job[b].retry
           /\ \A m \in {"hold", "capture", "release"} \ {k} :
                moved'[<<m, b>>] = moved[<<m, b>>] /\ (Claimed(<<m, b>>)' <=> Claimed(<<m, b>>))
<1>1. ASSUME NEW c \in Batches, NEW m \in {"hold", "capture", "release"}, c # b \/ m # k
      PROVE  moved'[<<m, c>>] = moved[<<m, c>>] /\ (Claimed(<<m, c>>)' <=> Claimed(<<m, c>>))
  <2>1. <<m, c>> \in Requests /\ <<m, c>> # <<k, b>>
    BY <1>1, HolderRequests
  <2> QED
    BY <2>1 DEF Spared
<1>2. OthersSame(b)
  BY <1>1 DEF OthersSame, Same
<1> QED
  BY <1>1, <1>2 DEF Status

LEMMA NoEffect ==
    ASSUME LedgerTypeOK, LedgerInv, UNCHANGED ledger
    PROVE  /\ LedgerTypeOK' /\ LedgerInv'
           /\ \A c \in Batches : SameMoney(c) /\ (job'[c] = job[c] => Same(c))
<1>1. LedgerTypeOK' /\ LedgerInv' /\ moved' = moved /\ \A q : Claimed(q)' <=> Claimed(q)
  BY LedgerKept
<1> QED
  BY <1>1 DEF Same, SameMoney, Held, Captured, Returned, Released

LEMMA ReserveEffect ==
    ASSUME LedgerTypeOK, LedgerInv, NEW b \in Batches, Reserve(b), UNCHANGED job
    PROVE  /\ LedgerTypeOK' /\ LedgerInv' /\ OthersSame(b) /\ Status(b)' = Status(b)
           /\ job'[b].retry = job[b].retry /\ Held(b)' /\ (Captured(b)' <=> Captured(b))
           /\ (Returned(b)' <=> Returned(b)) /\ (Released(b)' <=> Released(b))
<1>1. LedgerTypeOK' /\ LedgerInv' /\ Spared(<<"hold", b>>) /\ Held(b)'
  BY ReserveFacts
<1>2. /\ OthersSame(b) /\ Status(b)' = Status(b) /\ job'[b].retry = job[b].retry
      /\ \A m \in {"hold", "capture", "release"} \ {"hold"} :
           moved'[<<m, b>>] = moved[<<m, b>>] /\ (Claimed(<<m, b>>)' <=> Claimed(<<m, b>>))
  BY <1>1, SparedOthers
<1>3. /\ moved'[<<"capture", b>>] = moved[<<"capture", b>>] /\ moved'[<<"release", b>>] = moved[<<"release", b>>]
      /\ Claimed(<<"release", b>>)' <=> Claimed(<<"release", b>>)
  BY <1>2
<1>4. (Captured(b)' <=> Captured(b)) /\ (Returned(b)' <=> Returned(b)) /\ (Released(b)' <=> Released(b))
  BY <1>3 DEF Captured, Returned, Released
<1> QED
  BY <1>1, <1>2, <1>4

LEMMA CaptureEffect ==
    ASSUME LedgerTypeOK, LedgerInv, NEW b \in Batches, NEW n \in Nat, CaptureOK(b, n), Capture(b, n), UNCHANGED job
    PROVE  /\ LedgerTypeOK' /\ LedgerInv' /\ OthersSame(b) /\ Status(b)' = Status(b)
           /\ job'[b].retry = job[b].retry /\ (Held(b)' <=> Held(b)) /\ Captured(b)'
           /\ (Returned(b)' <=> Returned(b)) /\ (Released(b)' <=> Released(b))
<1>1. LedgerTypeOK' /\ LedgerInv' /\ Spared(<<"capture", b>>) /\ Captured(b)'
  BY CaptureFacts
<1>2. /\ OthersSame(b) /\ Status(b)' = Status(b) /\ job'[b].retry = job[b].retry
      /\ \A m \in {"hold", "capture", "release"} \ {"capture"} :
           moved'[<<m, b>>] = moved[<<m, b>>] /\ (Claimed(<<m, b>>)' <=> Claimed(<<m, b>>))
  BY <1>1, SparedOthers
<1>3. /\ moved'[<<"hold", b>>] = moved[<<"hold", b>>] /\ moved'[<<"release", b>>] = moved[<<"release", b>>]
      /\ Claimed(<<"release", b>>)' <=> Claimed(<<"release", b>>)
  BY <1>2
<1>4. (Held(b)' <=> Held(b)) /\ (Returned(b)' <=> Returned(b)) /\ (Released(b)' <=> Released(b))
  BY <1>3 DEF Held, Returned, Released
<1> QED
  BY <1>1, <1>2, <1>4

LEMMA ReleaseEffect ==
    ASSUME LedgerTypeOK, LedgerInv, NEW b \in Batches, ReleaseOK(b), Release(b), UNCHANGED job
    PROVE  /\ LedgerTypeOK' /\ LedgerInv' /\ OthersSame(b) /\ Status(b)' = Status(b)
           /\ job'[b].retry = job[b].retry /\ (Held(b)' <=> Held(b)) /\ (Captured(b)' <=> Captured(b)) /\ Released(b)'
<1>1. LedgerTypeOK' /\ LedgerInv' /\ Spared(<<"release", b>>) /\ Released(b)'
  BY ReleaseFacts
<1>2. /\ OthersSame(b) /\ Status(b)' = Status(b) /\ job'[b].retry = job[b].retry
      /\ \A m \in {"hold", "capture", "release"} \ {"release"} :
           moved'[<<m, b>>] = moved[<<m, b>>] /\ (Claimed(<<m, b>>)' <=> Claimed(<<m, b>>))
  BY <1>1, SparedOthers
<1>3. moved'[<<"hold", b>>] = moved[<<"hold", b>>] /\ moved'[<<"capture", b>>] = moved[<<"capture", b>>]
  BY <1>2
<1>4. (Held(b)' <=> Held(b)) /\ (Captured(b)' <=> Captured(b))
  BY <1>3 DEF Held, Captured
<1> QED
  BY <1>1, <1>2, <1>4

LEMMA WroteEffect ==
    ASSUME LedgerTypeOK, LedgerInv, NEW b \in Batches, NEW st, Wrote(b, st), UNCHANGED ledger
    PROVE  /\ LedgerTypeOK' /\ LedgerInv' /\ OthersSame(b) /\ Status(b)' = st /\ job'[b].retry = job[b].retry
           /\ SameMoney(b)
BY NoEffect DEF Wrote, OthersSame

-----------------------------------------------------------------------------
(* From what a step does to its own job to everybody's invariant. *)

Core == TypeOK /\ LedgerInv /\ LockInv /\ JobInv /\ WorkInv
Data == JobsTypeOK /\ LedgerTypeOK /\ LedgerInv

LEMMA CoreFacts ==
    ASSUME Core
    PROVE  /\ TypeOK /\ LedgerInv /\ LockInv /\ JobInv /\ WorkInv /\ JobsTypeOK /\ LedgerTypeOK /\ QueueTypeOK
           /\ \A b \in Batches : /\ SubmissionOk(pc[<<"submit", b>>], Status(b), Held(b))
                                 /\ MoneyOk(pc[<<"submit", b>>], b)
                                 /\ pc[<<"cancel", b>>] = "refund" => Status(b) \in Ended
                                 /\ pc[<<"sweep", b>>] = "refund" => Status(b) \in Ended
           /\ \A w \in Workers : /\ WorkOk(pc[w], on[w]) /\ on[w] \in Batches \union {Nil}
                                 /\ pc[w] = "idle" <=> on[w] = Nil
                                 /\ pc[w] \notin {"idle", "lock", "requeue"} =>
                                      lock[on[w]] = w \/ (w \in silent /\ on[w] \in lapsed)
BY DEF Core, TypeOK, JobInv, BatchOk, WorkInv, LockInv

LEMMA WorkSame ==
    ASSUME NEW c \in Batches, NEW l, WorkOk(l, c), Same(c), UNCHANGED lapsed
    PROVE  WorkOk(l, c)'
<1>1. Status(c)' = Status(c) /\ (Exhausted(c)' <=> Exhausted(c)) /\ SameMoney(c)
  BY SameFacts
<1> QED
  BY <1>1 DEF WorkOk, KnowsOk, AloneOk, SameMoney

LEMMA WorkIdle ==
    ASSUME NEW c, NEW l \in {"idle", "lock", "requeue", "pipeline"}
    PROVE  WorkOk(l, c)'
BY DEF WorkOk, KnowsOk, AloneOk

LEMMA BatchSame ==
    ASSUME NEW c \in Batches, BatchOk(c), Same(c), pc'[<<"submit", c>>] = pc[<<"submit", c>>],
           pc'[<<"cancel", c>>] = pc[<<"cancel", c>>], pc'[<<"sweep", c>>] = pc[<<"sweep", c>>], UNCHANGED lapsed
    PROVE  BatchOk(c)'
<1>1. Status(c)' = Status(c) /\ (Exhausted(c)' <=> Exhausted(c)) /\ SameMoney(c)
  BY SameFacts
<1> QED
  BY <1>1 DEF BatchOk, SubmissionOk, MoneyOk, SameMoney

(* How the status of a job may move under a worker that handles it. *)
StatusMoves(b) ==
    /\ \/ Status(b)' = Status(b)
       \/ /\ Status(b) \notin {"settling", "completed"} /\ Status(b)' \notin {"settling", "completed"}
          /\ Status(b) \in {"submitted", "running", "indexing"} \union Ended => Status(b)' \in Ended
    /\ job'[b].retry = job[b].retry
    /\ Held(b) => Held(b)'
    /\ Captured(b) => Captured(b)'
    /\ Released(b) => Released(b)'

(* What no step takes back. *)
Keeps(b) ==
    /\ Status(b) \in Ended => Status(b)' \in Ended
    /\ Status(b) \in Later \union Ended => Status(b)' \in Later \union Ended
    /\ Held(b) => Held(b)'
    /\ Captured(b) => Captured(b)'
    /\ Exhausted(b) => Exhausted(b)'
    /\ Released(b) => Released(b)'

LEMMA KnowsKept ==
    ASSUME NEW b, NEW l, KnowsOk(l, b), Keeps(b)
    PROVE  KnowsOk(l, b)'
BY DEF KnowsOk, Keeps

LEMMA WorkMoves ==
    ASSUME NEW b \in Batches, NEW l, WorkOk(l, b), StatusMoves(b), UNCHANGED lapsed
    PROVE  WorkOk(l, b)'
<1>1. Exhausted(b)' <=> Exhausted(b)
  BY DEF StatusMoves, Exhausted
<1>2. (Held(b) => Held(b)') /\ (Captured(b) => Captured(b)') /\ (Released(b) => Released(b)')
  BY DEF StatusMoves
<1>3. Keeps(b)
  BY <1>1, <1>2 DEF StatusMoves, Keeps, Later, Ended
<1>4. KnowsOk(l, b)'
  BY <1>3, KnowsKept DEF WorkOk
<1>5. ASSUME AloneOk(l, b)
      PROVE  AloneOk(l, b)'
  <2>1. CASE Status(b)' = Status(b)
    BY <1>1, <1>2, <1>5, <2>1 DEF AloneOk
  <2>2. CASE /\ Status(b) \notin {"settling", "completed"} /\ Status(b)' \notin {"settling", "completed"}
             /\ Status(b) \in {"submitted", "running", "indexing"} \union Ended => Status(b)' \in Ended
    BY <1>1, <1>2, <1>5, <2>2 DEF AloneOk, Ended
  <2> QED
    BY <2>1, <2>2 DEF StatusMoves
<1> QED
  BY <1>4, <1>5 DEF WorkOk

(* A step of a client or of the sweep, for its job b. *)
LEMMA ClientStep ==
    ASSUME Core, NEW b \in Batches, NEW p \in {<<"submit", b>>, <<"cancel", b>>, <<"sweep", b>>}, NEW l, Goto(p, l),
           UNCHANGED <<on, lapsed>>, OthersSame(b), StatusMoves(b),
           NEW s, s = pc'[<<"submit", b>>], SubmissionOk(s, Status(b)', Held(b)'), MoneyOk(s, b)',
           p # <<"submit", b>> /\ l = "refund" => Status(b)' \in Ended
    PROVE  JobInv' /\ WorkInv'
<1>1. p \in Procs /\ p \notin Workers
  BY ClientIds
<1>2. pc'[p] = l /\ \A q \in Procs \ {p} : pc'[q] = pc[q]
  BY <1>1, Moved, CoreFacts
<1>3. ASSUME NEW c \in Batches \ {b}
      PROVE  BatchOk(c)'
  <2>1. BatchOk(c) /\ Same(c) /\ c \in Batches
    BY CoreFacts DEF JobInv, OthersSame
  <2>2. <<"submit", c>> # p /\ <<"cancel", c>> # p /\ <<"sweep", c>> # p
    OBVIOUS
  <2>3. <<"submit", c>> \in Procs /\ <<"cancel", c>> \in Procs /\ <<"sweep", c>> \in Procs
    BY <2>1, ClientIds
  <2>4. /\ pc'[<<"submit", c>>] = pc[<<"submit", c>>] /\ pc'[<<"cancel", c>>] = pc[<<"cancel", c>>]
        /\ pc'[<<"sweep", c>>] = pc[<<"sweep", c>>]
    BY <1>2, <2>2, <2>3
  <2> QED
    BY <2>1, <2>4, BatchSame
<1>4. BatchOk(b)'
  <2>1. Status(b) \in Ended => Status(b)' \in Ended
    BY DEF StatusMoves
  <2>2. /\ pc[<<"cancel", b>>] = "refund" => Status(b) \in Ended
        /\ pc[<<"sweep", b>>] = "refund" => Status(b) \in Ended
    BY CoreFacts
  <2>3. <<"cancel", b>> \in Procs /\ <<"sweep", b>> \in Procs
    BY ClientIds
  <2>4. pc'[<<"cancel", b>>] = "refund" => Status(b)' \in Ended
    <3>1. CASE p = <<"cancel", b>>
      BY <1>2, <3>1
    <3>2. CASE p # <<"cancel", b>>
      BY <1>2, <2>1, <2>2, <2>3, <3>2
    <3> QED
      BY <3>1, <3>2
  <2>5. pc'[<<"sweep", b>>] = "refund" => Status(b)' \in Ended
    <3>1. CASE p = <<"sweep", b>>
      BY <1>2, <3>1
    <3>2. CASE p # <<"sweep", b>>
      BY <1>2, <2>1, <2>2, <2>3, <3>2
    <3> QED
      BY <3>1, <3>2
  <2>6. SubmissionOk(pc'[<<"submit", b>>], Status(b)', Held(b)')
    OBVIOUS
  <2>7. MoneyOk(pc[<<"submit", b>>], b)'
    BY DEF MoneyOk
  <2> QED
    BY <2>4, <2>5, <2>6, <2>7 DEF BatchOk, Ended, SubmissionOk
<1>5. ASSUME NEW w \in Workers
      PROVE  WorkOk(pc[w], on[w])'
  <2>1. pc'[w] = pc[w] /\ on'[w] = on[w]
    BY <1>1, <1>2, WorkerIds
  <2>2. PICK m, c : m = pc[w] /\ c = on[w] /\ WorkOk(m, c) /\ c \in Batches \union {Nil} /\ (c = Nil => m = "idle")
    BY CoreFacts
  <2>3. WorkOk(m, c)'
    <3>1. CASE c = Nil
      BY <2>2, <3>1, WorkIdle
    <3>2. CASE c = b
      BY <2>2, <3>2, WorkMoves
    <3>3. CASE c \in Batches \ {b}
      BY <2>2, <3>3, WorkSame DEF OthersSame
    <3> QED
      BY <2>2, <3>1, <3>2, <3>3
  <2> QED
    BY <2>1, <2>2, <2>3 DEF WorkOk, KnowsOk, AloneOk
<1> QED
  BY <1>3, <1>4, <1>5 DEF JobInv, WorkInv

LEMMA SubmitStep ==
    ASSUME Core, NEW b \in Batches, NEW l, Goto(<<"submit", b>>, l), UNCHANGED <<on, lapsed>>, OthersSame(b), StatusMoves(b),
           SubmissionOk(l, Status(b)', Held(b)'), MoneyOk(l, b)'
    PROVE  JobInv' /\ WorkInv'
<1>1. pc'[<<"submit", b>>] = l
  BY ClientIds, Moved, CoreFacts
<1> QED
  BY <1>1, ClientStep

(* Nothing happens to the job. *)
LEMMA JobKept ==
    ASSUME Core, NEW b \in Batches, UNCHANGED job, UNCHANGED ledger
    PROVE  /\ Data' /\ OthersSame(b) /\ StatusMoves(b) /\ Status(b)' = Status(b) /\ (Exhausted(b)' <=> Exhausted(b))
           /\ SameMoney(b)
<1>1. LedgerTypeOK' /\ LedgerInv' /\ \A c \in Batches : Same(c)
  BY NoEffect, CoreFacts
<1>2. Status(b)' = Status(b) /\ (Exhausted(b)' <=> Exhausted(b)) /\ SameMoney(b)
  BY <1>1, SameFacts
<1>3. JobsTypeOK'
  BY CoreFacts DEF JobsTypeOK
<1> QED
  BY <1>1, <1>2, <1>3 DEF Data, OthersSame, StatusMoves, SameMoney, Same

LEMMA SubmitQuiet ==
    ASSUME Core, NEW b \in Batches, NEW l, Goto(<<"submit", b>>, l), UNCHANGED <<on, lapsed>>, UNCHANGED job, UNCHANGED ledger,
           SubmissionOk(l, Status(b), Held(b)), l \in Early => pc[<<"submit", b>>] \in Early
    PROVE  Data' /\ JobInv' /\ WorkInv'
<1>1. /\ Data' /\ OthersSame(b) /\ StatusMoves(b) /\ Status(b)' = Status(b) /\ (Exhausted(b)' <=> Exhausted(b))
      /\ SameMoney(b)
  BY JobKept
<1>2. MoneyOk(pc[<<"submit", b>>], b)
  BY CoreFacts
<1>3. SubmissionOk(l, Status(b)', Held(b)') /\ MoneyOk(l, b)'
  BY <1>1, <1>2 DEF SubmissionOk, MoneyOk, SameMoney
<1> QED
  BY <1>1, <1>3, SubmitStep

(* The job's row is written. *)
LEMMA SubmitWrites ==
    ASSUME Core, NEW b \in Batches, NEW l, Goto(<<"submit", b>>, l), UNCHANGED <<on, lapsed>>, UNCHANGED ledger,
           NEW st, Wrote(b, st), st \notin {"settling", "completed"}, Status(b) \notin {"settling", "completed"},
           Status(b) \in {"submitted", "running", "indexing"} \union Ended => st \in Ended,
           SubmissionOk(l, st, Held(b)), Returned(b) => Exhausted(b) \/ st \in Ended
    PROVE  Data' /\ JobInv' /\ WorkInv'
<1>1. /\ LedgerTypeOK' /\ LedgerInv' /\ OthersSame(b) /\ Status(b)' = st /\ job'[b].retry = job[b].retry
      /\ SameMoney(b) /\ JobsTypeOK'
  BY WroteEffect, CoreFacts DEF Wrote
<1>2. StatusMoves(b) /\ (Exhausted(b)' <=> Exhausted(b))
  BY <1>1 DEF StatusMoves, SameMoney, Exhausted
<1>3. MoneyOk(pc[<<"submit", b>>], b)
  BY CoreFacts
<1>4. SubmissionOk(l, Status(b)', Held(b)') /\ MoneyOk(l, b)'
  BY <1>1, <1>2, <1>3 DEF SubmissionOk, MoneyOk, SameMoney
<1> QED
  BY <1>1, <1>2, <1>4, SubmitStep DEF Data

LEMMA SubmitCreateData ==
    ASSUME Core, NEW b \in Batches, SubmitCreate(b)
    PROVE  Data' /\ JobInv' /\ WorkInv'
<1>1. PICK l \in {"reserve", "over"} :
        /\ Goto(<<"submit", b>>, l) /\ UNCHANGED <<on, lapsed>> /\ UNCHANGED ledger
        /\ CreateJob(b) \/ (l = "over" /\ UNCHANGED job)
  BY DEF SubmitCreate, JobCall, Answered, Refused, Env, state, ledger
<1>2. /\ SubmissionOk(pc[<<"submit", b>>], Status(b), Held(b)) /\ MoneyOk(pc[<<"submit", b>>], b)
      /\ pc[<<"submit", b>>] = "new"
  BY CoreFacts DEF SubmitCreate, At
<1>3. Status(b) = "none"
  BY <1>2 DEF SubmissionOk
<1>4. CASE CreateJob(b)
  <2>1. Wrote(b, "created")
    BY <1>4, StatusWritten, CoreFacts DEF CreateJob, Statuses, Unsubmitted
  <2>2. Returned(b) => Exhausted(b)
    BY <1>2, <1>3 DEF MoneyOk, Ended
  <2>3. SubmissionOk(l, "created", Held(b))
    BY <1>1 DEF SubmissionOk, Later
  <2> QED
    BY <1>1, <1>3, <2>1, <2>2, <2>3, SubmitWrites DEF Ended
<1>5. CASE l = "over" /\ UNCHANGED job
  BY <1>1, <1>2, <1>3, <1>5, SubmitQuiet DEF SubmissionOk, Early, Later
<1> QED
  BY <1>1, <1>4, <1>5

LEMMA SubmitReserveData ==
    ASSUME Core, NEW b \in Batches, SubmitReserve(b)
    PROVE  Data' /\ JobInv' /\ WorkInv'
<1>1. PICK l \in {"items", "failed"} :
        /\ Goto(<<"submit", b>>, l) /\ UNCHANGED <<on, lapsed>> /\ UNCHANGED job
        /\ Reserve(b) \/ (l = "failed" /\ UNCHANGED ledger)
  BY DEF SubmitReserve, LedgerCall, Answered, Refused, Env, state, ledger
<1>2. /\ SubmissionOk(pc[<<"submit", b>>], Status(b), Held(b)) /\ MoneyOk(pc[<<"submit", b>>], b)
      /\ pc[<<"submit", b>>] = "reserve"
  BY CoreFacts DEF SubmitReserve, At
<1>3. Status(b) \in {"created"} \union Ended
  BY <1>2 DEF SubmissionOk
<1>4. CASE Reserve(b)
  <2>1. /\ LedgerTypeOK' /\ LedgerInv' /\ OthersSame(b) /\ Status(b)' = Status(b)
        /\ job'[b].retry = job[b].retry /\ Held(b)' /\ (Captured(b)' <=> Captured(b))
        /\ (Returned(b)' <=> Returned(b)) /\ (Released(b)' <=> Released(b))
    BY <1>1, <1>4, ReserveEffect, CoreFacts
  <2>2. JobsTypeOK' /\ StatusMoves(b) /\ (Exhausted(b)' <=> Exhausted(b))
    BY <1>1, <2>1, CoreFacts DEF StatusMoves, Exhausted, JobsTypeOK
  <2>3. SubmissionOk(l, Status(b)', Held(b)')
    BY <1>1, <1>3, <2>1 DEF SubmissionOk, Later, Ended
  <2>4. MoneyOk(l, b)'
    BY <1>1, <1>2, <2>1, <2>2, <1>3 DEF MoneyOk, Early, Ended
  <2> QED
    BY <1>1, <2>1, <2>2, <2>3, <2>4, SubmitStep DEF Data
<1>5. CASE l = "failed" /\ UNCHANGED ledger
  BY <1>1, <1>2, <1>3, <1>5, SubmitQuiet DEF SubmissionOk, Early, Later, Ended
<1> QED
  BY <1>1, <1>4, <1>5

LEMMA SubmitReadsData ==
    ASSUME Core, NEW b \in Batches, SubmitItems(b) \/ SubmitProvider(b) \/ SubmitAbort(b) \/ SubmitEnqueue(b)
    PROVE  Data' /\ JobInv' /\ WorkInv'
<1>1. PICK l \in {"upload", "unfreeze", "name", "over"} :
        /\ Goto(<<"submit", b>>, l) /\ UNCHANGED <<on, lapsed>> /\ UNCHANGED job /\ UNCHANGED ledger
        /\ l = "upload" => pc[<<"submit", b>>] = "items"
        /\ l = "name" => pc[<<"submit", b>>] = "submit"
        /\ l = "unfreeze" => pc[<<"submit", b>>] \in {"items", "submit"}
  BY DEF SubmitItems, SubmitProvider, SubmitAbort, SubmitEnqueue, At, Decide, Refused, EnqueueCall, Env, state, ledger,
         hearts
<1>2. SubmissionOk(pc[<<"submit", b>>], Status(b), Held(b))
  BY CoreFacts
<1>3. SubmissionOk(l, Status(b), Held(b))
  BY <1>1, <1>2 DEF SubmissionOk, Ended, Later
<1> QED
  BY <1>1, <1>3, SubmitQuiet DEF Early

LEMMA SubmitUploadData ==
    ASSUME Core, NEW b \in Batches, SubmitUpload(b)
    PROVE  Data' /\ JobInv' /\ WorkInv'
<1>1. PICK l \in {"submit", "unfreeze", "unfreezeQuiet"} :
        /\ Goto(<<"submit", b>>, l) /\ UNCHANGED <<on, lapsed>> /\ UNCHANGED ledger
        /\ \/ TransitionOK(b, "uploading") /\ Transition(b, "uploading") /\ l \in {"submit", "unfreeze"}
           \/ l = "unfreeze" /\ UNCHANGED job
           \/ l = "unfreezeQuiet" /\ UNCHANGED job /\ ~TransitionOK(b, "uploading")
  BY DEF SubmitUpload, TransitionCall, JobCall, Answered, Refused, Decide, Env, state, ledger
<1>2. /\ SubmissionOk(pc[<<"submit", b>>], Status(b), Held(b)) /\ MoneyOk(pc[<<"submit", b>>], b)
      /\ pc[<<"submit", b>>] = "upload"
  BY CoreFacts DEF SubmitUpload, At
<1>3. Held(b) /\ Status(b) \in {"created"} \union Ended /\ (Returned(b) => Exhausted(b) \/ Status(b) \in Ended)
  BY <1>2 DEF SubmissionOk, MoneyOk, Early
<1>4. TransitionOK(b, "uploading") <=> Status(b) = "created"
  BY <1>3 DEF TransitionOK, CanTransition, Ended, Terminal
<1>5. CASE TransitionOK(b, "uploading") /\ Transition(b, "uploading") /\ l \in {"submit", "unfreeze"}
  <2>1. Wrote(b, "uploading")
    BY <1>5, StatusWritten, CoreFacts DEF Transition, Statuses, Unsubmitted
  <2>2. Returned(b) => Exhausted(b)
    BY <1>3, <1>4, <1>5 DEF Ended
  <2>3. SubmissionOk(l, "uploading", Held(b))
    BY <1>3, <1>5 DEF SubmissionOk, Later
  <2> QED
    BY <1>1, <1>4, <1>5, <2>1, <2>2, <2>3, SubmitWrites DEF Ended
<1>6. CASE l = "unfreeze" /\ UNCHANGED job
  BY <1>1, <1>2, <1>3, <1>6, SubmitQuiet DEF SubmissionOk, Early, Later, Ended
<1>7. CASE l = "unfreezeQuiet" /\ UNCHANGED job /\ ~TransitionOK(b, "uploading")
  BY <1>1, <1>2, <1>3, <1>4, <1>7, SubmitQuiet DEF SubmissionOk, Early, Later, Ended
<1> QED
  BY <1>1, <1>5, <1>6, <1>7

LEMMA SubmitNameData ==
    ASSUME Core, NEW b \in Batches, SubmitName(b)
    PROVE  Data' /\ JobInv' /\ WorkInv'
<1>1. PICK l \in {"enqueue", "abort"} :
        /\ Goto(<<"submit", b>>, l) /\ UNCHANGED <<on, lapsed>> /\ UNCHANGED ledger
        /\ (TransitionOK(b, "submitted") /\ ProviderSubmit(b)) \/ (l = "abort" /\ UNCHANGED job)
  BY DEF SubmitName, JobCall, Answered, Refused, Env, state, ledger
<1>2. /\ SubmissionOk(pc[<<"submit", b>>], Status(b), Held(b)) /\ MoneyOk(pc[<<"submit", b>>], b)
      /\ pc[<<"submit", b>>] = "name"
  BY CoreFacts DEF SubmitName, At
<1>3. Held(b) /\ Status(b) \in {"uploading"} \union Ended /\ (Returned(b) => Exhausted(b) \/ Status(b) \in Ended)
  BY <1>2 DEF SubmissionOk, MoneyOk, Early
<1>4. CASE TransitionOK(b, "submitted") /\ ProviderSubmit(b)
  <2>1. Wrote(b, "submitted")
    BY <1>4, StatusWritten, CoreFacts DEF ProviderSubmit, Statuses
  <2>2. Status(b) = "uploading"
    BY <1>3, <1>4 DEF TransitionOK, CanTransition, Ended, Terminal
  <2>3. SubmissionOk(l, "submitted", Held(b))
    BY <1>1, <1>3 DEF SubmissionOk, Later
  <2> QED
    BY <1>1, <1>3, <2>1, <2>2, <2>3, SubmitWrites DEF Ended
<1>5. CASE l = "abort" /\ UNCHANGED job
  BY <1>1, <1>2, <1>3, <1>5, SubmitQuiet DEF SubmissionOk, Early, Later, Ended
<1> QED
  BY <1>1, <1>4, <1>5

LEMMA SubmitUnfreezeData ==
    ASSUME Core, NEW b \in Batches, SubmitUnfreeze(b)
    PROVE  Data' /\ JobInv' /\ WorkInv'
<1>1. PICK l \in {"failed", "failedShown", "over"} :
        /\ Goto(<<"submit", b>>, l) /\ UNCHANGED <<on, lapsed>> /\ UNCHANGED job
        /\ (ReleaseOK(b) /\ Release(b)) \/ UNCHANGED ledger
  BY DEF SubmitUnfreeze, ReleaseCall, LedgerCall, Answered, Refused, Env, state, ledger
<1>2. /\ SubmissionOk(pc[<<"submit", b>>], Status(b), Held(b)) /\ MoneyOk(pc[<<"submit", b>>], b)
      /\ pc[<<"submit", b>>] \in {"unfreeze", "unfreezeQuiet"}
  BY CoreFacts DEF SubmitUnfreeze, At
<1>3. Status(b) \in {"created", "uploading"} \union Ended
  BY <1>2 DEF SubmissionOk
<1>4. SubmissionOk(l, Status(b), Held(b))
  BY <1>1, <1>3 DEF SubmissionOk, Later, Ended
<1>5. CASE ReleaseOK(b) /\ Release(b)
  <2>1. /\ LedgerTypeOK' /\ LedgerInv' /\ OthersSame(b) /\ Status(b)' = Status(b)
        /\ job'[b].retry = job[b].retry /\ (Held(b)' <=> Held(b)) /\ (Captured(b)' <=> Captured(b)) /\ Released(b)'
    BY <1>1, <1>5, ReleaseEffect, CoreFacts
  <2>2. JobsTypeOK' /\ StatusMoves(b) /\ (Exhausted(b)' <=> Exhausted(b))
    BY <1>1, <2>1, CoreFacts DEF StatusMoves, Exhausted, JobsTypeOK
  <2>3. SubmissionOk(l, Status(b)', Held(b)')
    BY <1>4, <2>1 DEF SubmissionOk
  <2>4. MoneyOk(l, b)'
    BY <1>1, <1>2, <1>3, <2>1, <2>2 DEF MoneyOk, Early, Ended
  <2> QED
    BY <1>1, <2>1, <2>2, <2>3, <2>4, SubmitStep DEF Data
<1>6. CASE UNCHANGED ledger
  BY <1>1, <1>4, <1>6, SubmitQuiet DEF Early
<1> QED
  BY <1>1, <1>5, <1>6

LEMMA SubmitFailData ==
    ASSUME Core, NEW b \in Batches, SubmitFail(b)
    PROVE  Data' /\ JobInv' /\ WorkInv'
<1>1. PICK l \in {"over", "enqueue"} :
        /\ Goto(<<"submit", b>>, l) /\ UNCHANGED <<on, lapsed>> /\ UNCHANGED ledger
        /\ UNCHANGED job \/ \E hide \in BOOLEAN : SubmitFailure(b, hide)
  BY DEF SubmitFail, JobCall, Answered, Refused, Env, state, ledger
<1>2. /\ SubmissionOk(pc[<<"submit", b>>], Status(b), Held(b)) /\ MoneyOk(pc[<<"submit", b>>], b)
      /\ pc[<<"submit", b>>] \in {"failed", "failedShown"}
  BY CoreFacts DEF SubmitFail, At
<1>3. Status(b) \in {"created", "uploading"} \union Ended
  BY <1>2 DEF SubmissionOk
<1>4. CASE UNCHANGED job
  BY <1>1, <1>3, <1>4, SubmitQuiet DEF SubmissionOk, Early, Later, Ended
<1>5. CASE \E hide \in BOOLEAN : SubmitFailure(b, hide)
  <2>1. Wrote(b, "failed")
    BY <1>5, StatusWritten, CoreFacts DEF SubmitFailure, Statuses, Terminal
  <2>2. SubmissionOk(l, "failed", Held(b))
    BY <1>1 DEF SubmissionOk, Later
  <2> QED
    BY <1>1, <1>3, <2>1, <2>2, SubmitWrites DEF Ended
<1> QED
  BY <1>1, <1>4, <1>5

(* A cancellation or the sweep. *)
LEMMA RefunderStep ==
    ASSUME Core, NEW b \in Batches, NEW p \in {<<"cancel", b>>, <<"sweep", b>>}, NEW l, Goto(p, l),
           UNCHANGED <<on, lapsed>>, OthersSame(b), StatusMoves(b),
           NEW s, s = pc[<<"submit", b>>], SubmissionOk(s, Status(b)', Held(b)'), MoneyOk(s, b)',
           l = "refund" => Status(b)' \in Ended
    PROVE  JobInv' /\ WorkInv'
<1>1. pc'[<<"submit", b>>] = s
  <2>1. p \in Procs /\ <<"submit", b>> \in Procs
    BY ClientIds
  <2>2. p # <<"submit", b>>
    OBVIOUS
  <2> QED
    BY <2>1, <2>2, Moved, CoreFacts
<1> QED
  BY <1>1, ClientStep

LEMMA RefunderQuiet ==
    ASSUME Core, NEW b \in Batches, NEW p \in {<<"cancel", b>>, <<"sweep", b>>}, NEW l, Goto(p, l),
           UNCHANGED <<on, lapsed>>, UNCHANGED job, UNCHANGED ledger, l = "refund" => Status(b) \in Ended
    PROVE  Data' /\ JobInv' /\ WorkInv'
<1>1. /\ Data' /\ OthersSame(b) /\ StatusMoves(b) /\ Status(b)' = Status(b) /\ (Exhausted(b)' <=> Exhausted(b))
      /\ SameMoney(b)
  BY JobKept
<1>2. PICK s : s = pc[<<"submit", b>>] /\ SubmissionOk(s, Status(b), Held(b)) /\ MoneyOk(s, b)
  BY CoreFacts
<1>3. SubmissionOk(s, Status(b)', Held(b)') /\ MoneyOk(s, b)'
  BY <1>1, <1>2 DEF SubmissionOk, MoneyOk, SameMoney
<1>4. l = "refund" => Status(b)' \in Ended
  BY <1>1
<1>5. OthersSame(b) /\ StatusMoves(b) /\ Data'
  BY <1>1
<1> QED
  BY <1>2, <1>3, <1>4, <1>5, RefunderStep

LEMMA RefunderEnds ==
    ASSUME Core, NEW b \in Batches, NEW p \in {<<"cancel", b>>, <<"sweep", b>>}, NEW l, Goto(p, l),
           UNCHANGED <<on, lapsed>>, UNCHANGED ledger, NEW st \in Ended, Wrote(b, st),
           Status(b) \notin {"none", "settling", "completed"}
    PROVE  Data' /\ JobInv' /\ WorkInv'
<1>1. /\ LedgerTypeOK' /\ LedgerInv' /\ OthersSame(b) /\ Status(b)' = st /\ job'[b].retry = job[b].retry
      /\ SameMoney(b) /\ JobsTypeOK'
  BY WroteEffect, CoreFacts DEF Wrote
<1>2. StatusMoves(b) /\ (Exhausted(b)' <=> Exhausted(b))
  BY <1>1 DEF StatusMoves, SameMoney, Exhausted, Ended
<1>3. PICK s : s = pc[<<"submit", b>>] /\ SubmissionOk(s, Status(b), Held(b)) /\ MoneyOk(s, b)
  BY CoreFacts
<1>4. SubmissionOk(s, Status(b)', Held(b)')
  BY <1>1, <1>3 DEF SubmissionOk, SameMoney, Ended, Later
<1>5. MoneyOk(s, b)'
  BY <1>1, <1>2, <1>3 DEF MoneyOk, SameMoney, Ended
<1> QED
  BY <1>1, <1>2, <1>3, <1>4, <1>5, RefunderStep DEF Data

LEMMA RefunderReleases ==
    ASSUME Core, NEW b \in Batches, NEW p \in {<<"cancel", b>>, <<"sweep", b>>}, NEW l, Goto(p, l),
           UNCHANGED <<on, lapsed>>, UNCHANGED job, ReleaseOK(b), Release(b), Status(b) \in Ended
    PROVE  Data' /\ JobInv' /\ WorkInv'
<1>1. /\ LedgerTypeOK' /\ LedgerInv' /\ OthersSame(b) /\ Status(b)' = Status(b)
      /\ job'[b].retry = job[b].retry /\ (Held(b)' <=> Held(b)) /\ (Captured(b)' <=> Captured(b)) /\ Released(b)'
  BY ReleaseEffect, CoreFacts
<1>2. JobsTypeOK' /\ StatusMoves(b) /\ (Exhausted(b)' <=> Exhausted(b))
  BY <1>1, CoreFacts DEF StatusMoves, Exhausted, JobsTypeOK
<1>3. PICK s : s = pc[<<"submit", b>>] /\ SubmissionOk(s, Status(b), Held(b)) /\ MoneyOk(s, b)
  BY CoreFacts
<1>4. SubmissionOk(s, Status(b)', Held(b)') /\ MoneyOk(s, b)'
  BY <1>1, <1>2, <1>3 DEF SubmissionOk, MoneyOk, Ended
<1> QED
  BY <1>1, <1>2, <1>3, <1>4, RefunderStep DEF Data

LEMMA CancelData ==
    ASSUME Core, NEW b \in Batches,
           Cancel(b) \/ CancelTransition(b) \/ CancelRefund(b) \/ CancelProvider(b) \/ CancelEnqueue(b)
    PROVE  Data' /\ JobInv' /\ WorkInv'
<1> DEFINE p == <<"cancel", b>>
<1>1. CASE Cancel(b) \/ CancelProvider(b) \/ CancelEnqueue(b)
  <2>1. PICK l : /\ Goto(p, l) /\ UNCHANGED <<on, lapsed>> /\ UNCHANGED job /\ UNCHANGED ledger
                 /\ l = "refund" => Status(b) \in Terminal \ {"completed"}
    BY <1>1 DEF Cancel, CancelProvider, CancelEnqueue, EnqueueCall, Refused, Decide, Env, state, ledger, hearts
  <2> QED
    BY <2>1, RefunderQuiet DEF Terminal, Ended
<1>2. CASE CancelTransition(b)
  <2>1. PICK l \in {"refund", "idle"} :
          /\ Goto(p, l) /\ UNCHANGED <<on, lapsed>> /\ UNCHANGED ledger
          /\ \/ TransitionOK(b, "cancelled") /\ Transition(b, "cancelled")
             \/ UNCHANGED job /\ l = "idle"
    BY <1>2 DEF CancelTransition, TransitionCall, JobCall, Answered, Refused, Env, state, ledger
  <2>2. CASE TransitionOK(b, "cancelled") /\ Transition(b, "cancelled")
    <3>1. Wrote(b, "cancelled")
      BY <2>2, StatusWritten, CoreFacts DEF Transition, Statuses, Terminal
    <3>2. Status(b) \notin {"none", "settling", "completed"}
      BY <2>2 DEF TransitionOK, CanTransition, Terminal
    <3>3. "cancelled" \in Ended
      BY DEF Ended
    <3> QED
      BY <2>1, <3>1, <3>2, <3>3, RefunderEnds
  <2>3. CASE UNCHANGED job /\ l = "idle"
    BY <2>1, <2>3, RefunderQuiet
  <2> QED
    BY <2>1, <2>2, <2>3
<1>3. CASE CancelRefund(b)
  <2>1. PICK l \in {"idle", "retry"} :
          /\ Goto(p, l) /\ UNCHANGED <<on, lapsed>> /\ UNCHANGED job
          /\ (ReleaseOK(b) /\ Release(b)) \/ UNCHANGED ledger
    BY <1>3 DEF CancelRefund, ReleaseCall, LedgerCall, Answered, Refused, Env, state, ledger
  <2>2. Status(b) \in Ended
    BY <1>3, CoreFacts DEF CancelRefund, At
  <2> QED
    BY <2>1, <2>2, RefunderReleases, RefunderQuiet
<1> QED
  BY <1>1, <1>2, <1>3

LEMMA SweepData ==
    ASSUME Core, NEW b \in Batches, Sweep(b)
    PROVE  Data' /\ JobInv' /\ WorkInv'
<1> DEFINE p == <<"sweep", b>>
<1>1. CASE SweepFail(b)
  <2>1. PICK l \in {"refund", "idle"} :
          /\ Goto(p, l) /\ UNCHANGED <<on, lapsed>> /\ UNCHANGED ledger
          /\ FailStale(b) \/ (UNCHANGED job /\ l = "idle")
    BY <1>1 DEF SweepFail, JobCall, Answered, Refused, Env, state, ledger
  <2>2. CASE FailStale(b)
    <3>1. Wrote(b, "failed")
      BY <2>2, StatusWritten, CoreFacts DEF FailStale, Statuses, Terminal
    <3>2. Status(b) \notin {"none", "settling", "completed"}
      BY <1>1 DEF SweepFail, Unnamed, Unsubmitted
    <3>3. "failed" \in Ended
      BY DEF Ended
    <3> QED
      BY <2>1, <3>1, <3>2, <3>3, RefunderEnds
  <2>3. CASE UNCHANGED job /\ l = "idle"
    BY <2>1, <2>3, RefunderQuiet
  <2> QED
    BY <2>1, <2>2, <2>3
<1>2. CASE SweepRefund(b)
  <2>1. PICK l \in {"idle", "retry"} :
          /\ Goto(p, l) /\ UNCHANGED <<on, lapsed>> /\ UNCHANGED job
          /\ (ReleaseOK(b) /\ Release(b)) \/ UNCHANGED ledger
    BY <1>2 DEF SweepRefund, ReleaseCall, LedgerCall, Answered, Refused, Env, state, ledger
  <2>2. Status(b) \in Ended
    BY <1>2, CoreFacts DEF SweepRefund, At
  <2> QED
    BY <2>1, <2>2, RefunderReleases, RefunderQuiet
<1>3. CASE SweepEnqueue(b)
  <2>1. Goto(p, "idle") /\ UNCHANGED <<on, lapsed>> /\ UNCHANGED job /\ UNCHANGED ledger
    BY <1>3 DEF SweepEnqueue, EnqueueCall, Refused, Env, state, ledger
  <2> QED
    BY <2>1, RefunderQuiet
<1> QED
  BY <1>1, <1>2, <1>3 DEF Sweep

-----------------------------------------------------------------------------
(* A step of a worker, for the job it has reserved.  Whatever it changes   *)
(* there, no other worker is at work on the job, for the lock is its own,  *)
(* or the other one can rely only on what no step takes back.              *)
LEMMA WorkerStep ==
    ASSUME Core, NEW w \in Workers, NEW b \in Batches, b = on[w], NEW l, Goto(w, l), UNCHANGED <<on, lapsed>>, OthersSame(b),
           Same(b) \/ pc[w] \notin {"idle", "lock", "requeue"},
           NEW s, s = pc[<<"submit", b>>], SubmissionOk(s, Status(b)', Held(b)'), MoneyOk(s, b)',
           Keeps(b), WorkOk(l, b)'
    PROVE  JobInv' /\ WorkInv'
<1>1. w \in Procs /\ pc'[w] = l /\ \A q \in Procs \ {w} : pc'[q] = pc[q]
  BY WorkerIds, Moved, CoreFacts
<1>2. ASSUME NEW c \in Batches
      PROVE  /\ pc'[<<"submit", c>>] = pc[<<"submit", c>>] /\ pc'[<<"cancel", c>>] = pc[<<"cancel", c>>]
             /\ pc'[<<"sweep", c>>] = pc[<<"sweep", c>>]
  BY <1>1, ClientIds
<1>3. ASSUME NEW c \in Batches
      PROVE  BatchOk(c)'
  <2>1. BatchOk(c)
    BY CoreFacts DEF JobInv
  <2>2. CASE c # b
    BY <1>2, <2>1, <2>2, BatchSame DEF OthersSame
  <2>3. CASE c = b
    <3>1. /\ pc'[<<"cancel", b>>] = "refund" => Status(b)' \in Ended
          /\ pc'[<<"sweep", b>>] = "refund" => Status(b)' \in Ended
      BY <1>2, CoreFacts DEF Keeps
    <3>2. SubmissionOk(pc'[<<"submit", b>>], Status(b)', Held(b)') /\ MoneyOk(pc[<<"submit", b>>], b)'
      BY <1>2 DEF MoneyOk
    <3> QED
      BY <2>3, <3>1, <3>2 DEF BatchOk, Ended, SubmissionOk
  <2> QED
    BY <2>2, <2>3
<1>4. ASSUME NEW v \in Workers
      PROVE  WorkOk(pc[v], on[v])'
  <2>1. PICK c : c = on[v] /\ WorkOk(pc[v], c) /\ c \in Batches \union {Nil} /\ (c = Nil => pc[v] = "idle")
    BY CoreFacts
  <2>2. PICK m : m = pc'[v]
    OBVIOUS
  <2>3. WorkOk(m, c)'
    <3>1. CASE v = w
      BY <1>1, <2>1, <2>2, <3>1
    <3>2. CASE v # w
      <4>1. m = pc[v] /\ WorkOk(m, c)
        BY <1>1, <2>1, <2>2, <3>2, WorkerIds
      <4>2. CASE c \in Batches /\ Same(c)
        BY <4>1, <4>2, WorkSame
      <4>3. CASE c = Nil
        BY <2>1, <4>1, <4>3, WorkIdle
      <4>4. CASE c \in Batches /\ ~Same(c)
        <5>1. c = b /\ (lock[b] = w \/ b \in lapsed)
          BY <4>4, CoreFacts DEF OthersSame
        <5>2. m \in {"idle", "lock", "requeue"} \/ b \in lapsed
          BY <2>1, <3>2, <4>1, <5>1, CoreFacts
        <5>3. CASE m \in {"idle", "lock", "requeue"}
          BY <5>3, WorkIdle
        <5>4. CASE b \in lapsed
          <6>1. KnowsOk(m, b)'
            BY <4>1, <5>1, KnowsKept DEF WorkOk
          <6>2. b \in lapsed'
            BY <5>4
          <6> QED
            BY <5>1, <6>1, <6>2 DEF WorkOk
        <5> QED
          BY <5>2, <5>3, <5>4
      <4> QED
        BY <2>1, <4>2, <4>3, <4>4
    <3> QED
      BY <3>1, <3>2
  <2> QED
    BY <2>1, <2>2, <2>3 DEF WorkOk, KnowsOk, AloneOk
<1> QED
  BY <1>3, <1>4 DEF JobInv, WorkInv

LEMMA WorkerQuiet ==
    ASSUME Core, NEW w \in Workers, NEW b \in Batches, b = on[w], NEW l, Goto(w, l), UNCHANGED <<on, lapsed>>,
           UNCHANGED job, UNCHANGED ledger, WorkOk(l, b)
    PROVE  Data' /\ JobInv' /\ WorkInv'
<1>1. /\ Data' /\ OthersSame(b) /\ StatusMoves(b) /\ Status(b)' = Status(b) /\ (Exhausted(b)' <=> Exhausted(b))
      /\ SameMoney(b)
  BY JobKept
<1>2. Same(b)
  BY NoEffect, CoreFacts
<1>3. PICK s : s = pc[<<"submit", b>>] /\ SubmissionOk(s, Status(b), Held(b)) /\ MoneyOk(s, b)
  BY CoreFacts
<1>4. SubmissionOk(s, Status(b)', Held(b)') /\ MoneyOk(s, b)'
  BY <1>1, <1>3 DEF SubmissionOk, MoneyOk, SameMoney
<1>5. WorkOk(l, b)'
  BY <1>2, WorkSame
<1>6. OthersSame(b) /\ Data' /\ Keeps(b)
  BY <1>1 DEF Keeps, SameMoney
<1> QED
  BY <1>2, <1>3, <1>4, <1>5, <1>6, WorkerStep

LEMMA WorkerWrites ==
    ASSUME Core, NEW w \in Workers, NEW b \in Batches, b = on[w], NEW l, Goto(w, l), UNCHANGED <<on, lapsed>>,
           NEW st, Wrote(b, st), UNCHANGED ledger, pc[w] \notin {"idle", "lock", "requeue"},
           Status(b) \in Ended => st \in Ended, st \in Later => Status(b) \in Later, st \in Ended \union Later,
           Status(b) \in Later \union Ended,
           Captured(b) => Exhausted(b) \/ st \in {"settling", "completed"} \/ b \in lapsed,
           st = "completed" => Captured(b),
           Returned(b) => Exhausted(b) \/ st \in Ended,
           WorkOk(l, b)'
    PROVE  Data' /\ JobInv' /\ WorkInv'
<1>1. /\ LedgerTypeOK' /\ LedgerInv' /\ OthersSame(b) /\ Status(b)' = st /\ job'[b].retry = job[b].retry
      /\ SameMoney(b) /\ JobsTypeOK'
  BY WroteEffect, CoreFacts DEF Wrote
<1>2. Exhausted(b)' <=> Exhausted(b)
  BY <1>1 DEF Exhausted
<1>3. PICK s : s = pc[<<"submit", b>>] /\ SubmissionOk(s, Status(b), Held(b)) /\ MoneyOk(s, b)
  BY CoreFacts
<1>4. SubmissionOk(s, st, Held(b)')
  BY <1>1, <1>3 DEF SubmissionOk, SameMoney, Ended, Later
<1>5. MoneyOk(s, b)'
  BY <1>1, <1>2, <1>3 DEF MoneyOk, SameMoney, Ended
<1>6. SubmissionOk(s, Status(b)', Held(b)') /\ OthersSame(b) /\ Data' /\ Keeps(b)
  BY <1>1, <1>2, <1>4 DEF Data, Keeps, SameMoney
<1> QED
  BY <1>3, <1>5, <1>6, WorkerStep

LEMMA WorkerReleases ==
    ASSUME Core, NEW w \in Workers, NEW b \in Batches, b = on[w], NEW l, Goto(w, l), UNCHANGED <<on, lapsed>>,
           UNCHANGED job, ReleaseOK(b), Release(b), pc[w] \notin {"idle", "lock", "requeue"},
           Status(b) \in Ended \/ Exhausted(b),
           l \in {"ack", "exhausted", "requeue", "reread"},
           l = "exhausted" => /\ Exhausted(b) /\ Status(b) \in Later \union Ended
                              /\ Status(b) = "settling" \/ b \in lapsed
    PROVE  Data' /\ JobInv' /\ WorkInv'
<1>1. /\ LedgerTypeOK' /\ LedgerInv' /\ OthersSame(b) /\ Status(b)' = Status(b)
      /\ job'[b].retry = job[b].retry /\ (Held(b)' <=> Held(b)) /\ (Captured(b)' <=> Captured(b)) /\ Released(b)'
  BY ReleaseEffect, CoreFacts
<1>2. JobsTypeOK' /\ (Exhausted(b)' <=> Exhausted(b))
  BY <1>1, CoreFacts DEF Exhausted, JobsTypeOK
<1>3. PICK s : s = pc[<<"submit", b>>] /\ SubmissionOk(s, Status(b), Held(b)) /\ MoneyOk(s, b)
  BY CoreFacts
<1>4. SubmissionOk(s, Status(b)', Held(b)') /\ MoneyOk(s, b)'
  BY <1>1, <1>2, <1>3 DEF SubmissionOk, MoneyOk, Ended
<1>5. WorkOk(l, b)'
  BY <1>1, <1>2 DEF WorkOk, KnowsOk, AloneOk
<1>6. OthersSame(b) /\ Data' /\ Keeps(b)
  BY <1>1, <1>2 DEF Data, Keeps
<1> QED
  BY <1>3, <1>4, <1>5, <1>6, WorkerStep

(* The job that a worker is at. *)
LEMMA AtWork ==
    ASSUME Core, NEW w \in Workers, pc[w] # "idle"
    PROVE  /\ on[w] \in Batches /\ WorkOk(pc[w], on[w])
           /\ SubmissionOk(pc[<<"submit", on[w]>>], Status(on[w]), Held(on[w]))
           /\ MoneyOk(pc[<<"submit", on[w]>>], on[w])
           /\ Status(on[w]) \in Statuses
<1>1. on[w] \in Batches /\ WorkOk(pc[w], on[w])
  BY CoreFacts
<1> QED
  BY <1>1, CoreFacts, JobFacts

LEMMA WorkReadsData ==
    ASSUME Core, NEW w \in Workers, WorkLock(w) \/ WorkPipeline(w) \/ WorkProcess(w) \/ WorkReread(w) \/ WorkSettle(w)
    PROVE  Data' /\ JobInv' /\ WorkInv'
<1>1. pc[w] \in {"lock", "pipeline", "process", "reread", "settle"}
  BY DEF WorkLock, WorkPipeline, WorkProcess, WorkReread, WorkSettle, At
<1>2. PICK b \in Batches : b = on[w] /\ WorkOk(pc[w], b) /\ SubmissionOk(pc[<<"submit", b>>], Status(b), Held(b))
  BY <1>1, AtWork
<1>3. PICK l : Goto(w, l) /\ UNCHANGED <<on, lapsed>> /\ UNCHANGED job /\ UNCHANGED ledger /\ WorkOk(l, b)
  <2>1. CASE WorkLock(w)
    <3>1. \E l \in {"pipeline", "requeue"} : Goto(w, l) /\ UNCHANGED <<on, lapsed>> /\ UNCHANGED job /\ UNCHANGED ledger
      BY <2>1 DEF WorkLock, Refused, Env, state, ledger
    <3> QED
      BY <3>1 DEF WorkOk, KnowsOk, AloneOk
  <2>2. CASE WorkPipeline(w)
    <3>1. PICK l \in {"settle", "process", "requeue"} :
            /\ Goto(w, l) /\ UNCHANGED <<on, lapsed>> /\ UNCHANGED job /\ UNCHANGED ledger
            /\ l = "settle" => Status(b) = "settling"
            /\ l = "process" => Status(b) # "settling"
      BY <1>2, <2>2 DEF WorkPipeline, Refused, Decide, Env, state, ledger
    <3> QED
      BY <3>1 DEF WorkOk, KnowsOk, AloneOk
  <2>3. CASE WorkProcess(w)
    <3>1. Status(b) # "settling" \/ b \in lapsed
      BY <1>2, <2>3 DEF WorkOk, AloneOk, WorkProcess, At
    <3>2. PICK l :
            /\ Goto(w, l) /\ UNCHANGED <<on, lapsed>> /\ UNCHANGED job /\ UNCHANGED ledger
            /\ \/ l = "refund" /\ Status(b) \in Ended
               \/ l = "ack" /\ Status(b) \in {"completed", "settling"}
               \/ l = "requeue"
               \/ l = "index" /\ Status(b) = "indexing"
               \/ l \in {"toIndexing", "toFailed", "toCancelled", "toRunning"} /\ Status(b) \in {"submitted", "running"}
      <4>1. \A l \in ProviderAnswer(b) : l \in {"toIndexing", "toFailed", "toCancelled", "toRunning", "requeue"}
        BY DEF ProviderAnswer
      <4> QED
        BY <1>2, <2>3, <4>1 DEF WorkProcess, Refused, Decide, Env, state, ledger, Ended
    <3> QED
      BY <3>1, <3>2 DEF WorkOk, KnowsOk, AloneOk, Later, Ended
  <2>4. CASE WorkReread(w)
    <3>1. PICK l \in {"ack", "requeue"} :
            /\ Goto(w, l) /\ UNCHANGED <<on, lapsed>> /\ UNCHANGED job /\ UNCHANGED ledger
            /\ l = "ack" => Status(b) \in Terminal
      BY <1>2, <2>4 DEF WorkReread, Decide, Env, state, ledger
    <3>2. Status(b) = "settling" \/ Released(b) \/ b \in lapsed
      BY <1>2, <2>4 DEF WorkOk, AloneOk, WorkReread, At
    <3> QED
      BY <3>1, <3>2 DEF WorkOk, KnowsOk, AloneOk, Terminal
  <2>5. CASE WorkSettle(w)
    <3>1. PICK l :
            /\ Goto(w, l) /\ UNCHANGED <<on, lapsed>> /\ UNCHANGED job /\ UNCHANGED ledger
            /\ \/ l = "ack" /\ Status(b) = "completed"
               \/ l = "requeue"
               \/ l = "exhaust" /\ Status(b) = "settling" /\ Exhausted(b)
               \/ l \in {"record", "capture"} /\ Status(b) = "settling" /\ ~Exhausted(b)
      BY <1>2, <2>5 DEF WorkSettle, Decide, Env, state, ledger
    <3>2. Status(b) = "settling" => Held(b)
      BY <1>2 DEF SubmissionOk, Later
    <3> QED
      BY <3>1, <3>2 DEF WorkOk, KnowsOk, AloneOk, Later
  <2> QED
    BY <2>1, <2>2, <2>3, <2>4, <2>5
<1> QED
  BY <1>2, <1>3, WorkerQuiet

LEMMA WorkTransitionData ==
    ASSUME Core, NEW w \in Workers, WorkTransition(w)
    PROVE  Data' /\ JobInv' /\ WorkInv'
<1>1. pc[w] \in {"toRunning", "toIndexing", "toSettling", "toFailed", "toCancelled"}
  BY DEF WorkTransition, At
<1>2. PICK b \in Batches :
        /\ b = on[w] /\ WorkOk(pc[w], b) /\ MoneyOk(pc[<<"submit", b>>], b) /\ Status(b) \in Statuses
  BY <1>1, AtWork
<1>3. Status(b) \in Later \union Ended /\ (Status(b) \in {"submitted", "running", "indexing"} \union Ended \/ b \in lapsed)
  BY <1>1, <1>2 DEF WorkOk, KnowsOk, AloneOk
<1>4. PICK l \in {"requeue", "index", "refund"}, st \in {"running", "indexing", "settling", "failed", "cancelled"} :
        /\ Goto(w, l) /\ UNCHANGED <<on, lapsed>> /\ UNCHANGED ledger
        /\ \/ TransitionOK(b, st) /\ Transition(b, st) /\ (l = "index" => st = "indexing") /\ (l = "refund" => st \in Ended)
           \/ l = "requeue" /\ UNCHANGED job
  BY <1>2 DEF WorkTransition, TransitionCall, JobCall, Answered, Refused, Env, state, ledger, Ended
<1>5. CASE TransitionOK(b, st) /\ Transition(b, st) /\ (l = "index" => st = "indexing") /\ (l = "refund" => st \in Ended)
  <2>1. Wrote(b, st)
    BY <1>4, <1>5, StatusWritten, CoreFacts DEF Transition, Statuses, Terminal
  <2>2. /\ Status(b) \in {"submitted", "running", "indexing"} \/ (Status(b) = "settling" /\ b \in lapsed /\ st = "failed")
        /\ Status(b) \in Later
    BY <1>3, <1>4, <1>5 DEF TransitionOK, CanTransition, Terminal, Later, Ended
  <2>3. (Captured(b) => Exhausted(b) \/ b \in lapsed) /\ (Returned(b) => Exhausted(b))
    BY <1>2, <2>2 DEF MoneyOk, Ended
  <2>4. WorkOk(l, b)'
    <3>1. Status(b)' = st
      BY <2>1 DEF Wrote
    <3> QED
      BY <1>4, <1>5, <3>1 DEF WorkOk, KnowsOk, AloneOk, Later
  <2>5. /\ st \in Later => Status(b) \in Later
        /\ st \in Ended \union Later /\ Status(b) \in Later \union Ended /\ st # "completed"
        /\ Status(b) \in Ended => st \in Ended
    BY <1>4, <2>2 DEF Later, Ended
  <2>6. pc[w] \notin {"idle", "lock", "requeue"}
    BY <1>1
  <2> QED
    BY <1>2, <1>4, <2>1, <2>3, <2>4, <2>5, <2>6, WorkerWrites
<1>6. CASE l = "requeue" /\ UNCHANGED job
  <2>1. WorkOk(l, b)
    BY <1>6 DEF WorkOk, KnowsOk, AloneOk
  <2> QED
    BY <1>2, <1>4, <1>6, <2>1, WorkerQuiet
<1> QED
  BY <1>4, <1>5, <1>6

LEMMA WorkIndexData ==
    ASSUME Core, NEW w \in Workers, WorkIndex(w)
    PROVE  Data' /\ JobInv' /\ WorkInv'
<1>1. pc[w] = "index"
  BY DEF WorkIndex, At
<1>2. PICK b \in Batches :
        /\ b = on[w] /\ WorkOk(pc[w], b) /\ MoneyOk(pc[<<"submit", b>>], b) /\ Status(b) \in Statuses
  BY <1>1, AtWork
<1>3. Status(b) \in Later \union Ended /\ (Status(b) \in {"submitted", "running", "indexing"} \union Ended \/ b \in lapsed)
  BY <1>1, <1>2 DEF WorkOk, KnowsOk, AloneOk
<1>4. PICK l \in {"toSettling", "toFailed", "requeue"} :
        /\ Goto(w, l) /\ UNCHANGED <<on, lapsed>> /\ UNCHANGED ledger
        /\ (ReplaceOK(b) /\ ReplaceItems(b, output[b])) \/ UNCHANGED job
  BY <1>2 DEF WorkIndex, Answered, Refused, Decide, Env, state, ledger
<1>5. CASE ReplaceOK(b) /\ ReplaceItems(b, output[b])
  <2>1. output[b] \in Costs \union {0}
    BY CoreFacts DEF TypeOK
  <2>2. Wrote(b, Status(b))
    BY <1>5, <2>1, ColumnWritten, CoreFacts DEF ReplaceItems
  <2>3. Status(b) = "indexing"
    BY <1>5 DEF ReplaceOK
  <2>4. WorkOk(l, b)'
    <3>1. Status(b)' = "indexing"
      BY <2>2, <2>3 DEF Wrote
    <3> QED
      BY <1>4, <3>1 DEF WorkOk, KnowsOk, AloneOk, Later
  <2>5. (Captured(b) => Exhausted(b) \/ b \in lapsed) /\ (Returned(b) => Exhausted(b))
    BY <1>2, <2>3 DEF MoneyOk, Ended
  <2>6. pc[w] \notin {"idle", "lock", "requeue"} /\ Status(b) \in Later
    BY <1>1, <2>3 DEF Later
  <2> QED
    BY <1>2, <1>4, <2>2, <2>3, <2>4, <2>5, <2>6, WorkerWrites
<1>6. CASE UNCHANGED job
  <2>1. WorkOk(l, b)
    BY <1>3, <1>4 DEF WorkOk, KnowsOk, AloneOk
  <2> QED
    BY <1>2, <1>4, <1>6, <2>1, WorkerQuiet
<1> QED
  BY <1>4, <1>5, <1>6

LEMMA WorkRefundData ==
    ASSUME Core, NEW w \in Workers, WorkRefund(w)
    PROVE  Data' /\ JobInv' /\ WorkInv'
<1>1. pc[w] = "refund"
  BY DEF WorkRefund, At
<1>2. PICK b \in Batches : b = on[w] /\ WorkOk(pc[w], b)
  BY <1>1, AtWork
<1>3. Status(b) \in Ended
  BY <1>1, <1>2 DEF WorkOk, KnowsOk
<1>4. PICK l \in {"ack", "requeue"} :
        /\ Goto(w, l) /\ UNCHANGED <<on, lapsed>> /\ UNCHANGED job
        /\ (ReleaseOK(b) /\ Release(b)) \/ (UNCHANGED ledger /\ l = "requeue")
  BY <1>2 DEF WorkRefund, ReleaseCall, LedgerCall, Answered, Refused, Env, state, ledger
<1>5. CASE ReleaseOK(b) /\ Release(b)
  <2>1. pc[w] \notin {"idle", "lock", "requeue"} /\ l \in {"ack", "exhausted", "requeue", "reread"} /\ l # "exhausted"
    BY <1>1, <1>4
  <2> QED
    BY <1>2, <1>3, <1>4, <1>5, <2>1, WorkerReleases
<1>6. CASE UNCHANGED ledger /\ l = "requeue"
  <2>1. WorkOk(l, b)
    BY <1>6 DEF WorkOk, KnowsOk, AloneOk
  <2> QED
    BY <1>2, <1>4, <1>6, <2>1, WorkerQuiet
<1> QED
  BY <1>4, <1>5, <1>6

LEMMA WorkCaptureData ==
    ASSUME Core, NEW w \in Workers, WorkCapture(w)
    PROVE  Data' /\ JobInv' /\ WorkInv'
<1>1. pc[w] = "capture"
  BY DEF WorkCapture, At
<1>2. PICK b \in Batches :
        /\ b = on[w] /\ WorkOk(pc[w], b) /\ SubmissionOk(pc[<<"submit", b>>], Status(b), Held(b))
        /\ MoneyOk(pc[<<"submit", b>>], b)
  BY <1>1, AtWork
<1>3. /\ Held(b) /\ Status(b) \in Later \union Ended
      /\ (Status(b) = "settling" /\ ~Exhausted(b)) \/ b \in lapsed
  BY <1>1, <1>2 DEF WorkOk, KnowsOk, AloneOk
<1>4. PICK n \in Nat : n = job[b].cost
  BY JobFacts, CoreFacts
<1>5. PICK l \in {"mark", "record"} :
        /\ Goto(w, l) /\ UNCHANGED <<on, lapsed>> /\ UNCHANGED job
        /\ (CaptureOK(b, n) /\ Capture(b, n)) \/ (UNCHANGED ledger /\ l = "record")
  BY <1>2, <1>4 DEF WorkCapture, LedgerCall, Answered, Refused, Env, state, ledger
<1>6. CASE CaptureOK(b, n) /\ Capture(b, n)
  <2>1. /\ LedgerTypeOK' /\ LedgerInv' /\ OthersSame(b) /\ Status(b)' = Status(b)
        /\ job'[b].retry = job[b].retry /\ (Held(b)' <=> Held(b)) /\ Captured(b)'
        /\ (Returned(b)' <=> Returned(b)) /\ (Released(b)' <=> Released(b))
    BY <1>5, <1>6, CaptureEffect, CoreFacts
  <2>2. Data' /\ (Exhausted(b)' <=> Exhausted(b))
    BY <1>5, <2>1, CoreFacts DEF Exhausted, JobsTypeOK, Data
  <2>3. PICK s : s = pc[<<"submit", b>>] /\ SubmissionOk(s, Status(b), Held(b)) /\ MoneyOk(s, b)
    BY <1>2
  <2>4. SubmissionOk(s, Status(b)', Held(b)') /\ MoneyOk(s, b)'
    BY <1>3, <1>5, <2>1, <2>2, <2>3 DEF SubmissionOk, MoneyOk, Later, Ended
  <2>5. WorkOk(l, b)'
    BY <1>3, <1>5, <2>1, <2>2 DEF WorkOk, KnowsOk, AloneOk
  <2>6. OthersSame(b) /\ pc[w] \notin {"idle", "lock", "requeue"} /\ Keeps(b)
    BY <1>1, <2>1, <2>2 DEF Keeps
  <2> QED
    BY <1>2, <1>5, <2>2, <2>3, <2>4, <2>5, <2>6, WorkerStep
<1>7. CASE UNCHANGED ledger /\ l = "record"
  <2>1. WorkOk(l, b)
    BY <1>3, <1>7 DEF WorkOk, KnowsOk, AloneOk
  <2> QED
    BY <1>2, <1>5, <1>7, <2>1, WorkerQuiet
<1> QED
  BY <1>5, <1>6, <1>7

LEMMA WorkMarkData ==
    ASSUME Core, NEW w \in Workers, WorkMark(w)
    PROVE  Data' /\ JobInv' /\ WorkInv'
<1>1. pc[w] = "mark"
  BY DEF WorkMark, At
<1>2. PICK b \in Batches : b = on[w] /\ WorkOk(pc[w], b) /\ MoneyOk(pc[<<"submit", b>>], b)
  BY <1>1, AtWork
<1>3. Captured(b) /\ (Status(b) = "settling" => (Returned(b) => Exhausted(b)))
  BY <1>1, <1>2 DEF WorkOk, KnowsOk, MoneyOk, Ended
<1>4. PICK l \in {"ack", "requeue"} :
        /\ Goto(w, l) /\ UNCHANGED <<on, lapsed>> /\ UNCHANGED ledger
        /\ (Status(b) = "settling" /\ MarkSettled(b)) \/ (UNCHANGED job /\ l = "requeue")
  BY <1>2 DEF WorkMark, MarkOK, JobCall, Answered, Refused, Env, state, ledger
<1>5. CASE Status(b) = "settling" /\ MarkSettled(b)
  <2>1. Wrote(b, "completed")
    BY <1>5, StatusWritten, CoreFacts DEF MarkSettled, Statuses, Terminal
  <2>2. WorkOk(l, b)'
    <3>1. Status(b)' = "completed"
      BY <2>1 DEF Wrote
    <3> QED
      BY <1>4, <3>1 DEF WorkOk, KnowsOk, AloneOk
  <2>3. /\ "completed" \in Later /\ "completed" \in Ended \union Later /\ Status(b) \in Later /\ Status(b) \in Later \union Ended
        /\ Status(b) \notin Ended /\ pc[w] \notin {"idle", "lock", "requeue"}
    BY <1>1, <1>5 DEF Later, Ended
  <2> QED
    BY <1>2, <1>3, <1>4, <1>5, <2>1, <2>2, <2>3, WorkerWrites
<1>6. CASE UNCHANGED job /\ l = "requeue"
  <2>1. WorkOk(l, b)
    BY <1>6 DEF WorkOk, KnowsOk, AloneOk
  <2> QED
    BY <1>2, <1>4, <1>6, <2>1, WorkerQuiet
<1> QED
  BY <1>4, <1>5, <1>6

LEMMA WorkRecordData ==
    ASSUME Core, NEW w \in Workers, WorkRecord(w)
    PROVE  Data' /\ JobInv' /\ WorkInv'
<1>1. pc[w] = "record"
  BY DEF WorkRecord, At
<1>2. PICK b \in Batches : b = on[w] /\ WorkOk(pc[w], b)
  BY <1>1, AtWork
<1>3. Status(b) \in Later \union Ended /\ (Status(b) = "settling" \/ b \in lapsed)
  BY <1>1, <1>2 DEF WorkOk, KnowsOk, AloneOk
<1>4. PICK l \in {"exhaust", "reread"} :
        /\ Goto(w, l) /\ UNCHANGED <<on, lapsed>> /\ UNCHANGED ledger
        /\ (SettlementFailed(b) /\ (l = "exhaust" => job[b].retry + 1 >= MaxRetries)) \/ (UNCHANGED job /\ l = "reread")
  BY <1>2 DEF WorkRecord, JobCall, Answered, Refused, Env, state, ledger
<1>5. CASE SettlementFailed(b) /\ (l = "exhaust" => job[b].retry + 1 >= MaxRetries)
  <2>1. /\ JobsTypeOK' /\ Status(b)' = Status(b) /\ (Exhausted(b) => Exhausted(b)')
        /\ job[b].retry + 1 >= MaxRetries => Exhausted(b)'
        /\ \A c \in Batches \ {b} : job'[c] = job[c]
    BY <1>5, RetryWritten, CoreFacts
  <2>2. LedgerTypeOK' /\ LedgerInv' /\ OthersSame(b) /\ SameMoney(b)
    BY <1>4, <2>1, NoEffect, CoreFacts DEF OthersSame
  <2>3. l = "exhaust" => Exhausted(b)'
    BY <1>5, <2>1
  <2>4. PICK s : s = pc[<<"submit", b>>] /\ SubmissionOk(s, Status(b), Held(b)) /\ MoneyOk(s, b)
    BY <1>2, CoreFacts
  <2>5. SubmissionOk(s, Status(b)', Held(b)') /\ MoneyOk(s, b)'
    BY <1>4, <2>1, <2>2, <2>4 DEF SubmissionOk, MoneyOk, SameMoney, Ended
  <2>6. WorkOk(l, b)'
    BY <1>3, <1>4, <2>1, <2>3 DEF WorkOk, KnowsOk, AloneOk
  <2>7. OthersSame(b) /\ pc[w] \notin {"idle", "lock", "requeue"} /\ Keeps(b) /\ Data'
    BY <1>1, <2>1, <2>2 DEF Data, Keeps, SameMoney
  <2> QED
    BY <1>2, <1>4, <2>4, <2>5, <2>6, <2>7, WorkerStep
<1>6. CASE UNCHANGED job /\ l = "reread"
  <2>1. WorkOk(l, b)
    BY <1>3, <1>6 DEF WorkOk, KnowsOk, AloneOk
  <2> QED
    BY <1>2, <1>4, <1>6, <2>1, WorkerQuiet
<1> QED
  BY <1>4, <1>5, <1>6

LEMMA WorkExhaustData ==
    ASSUME Core, NEW w \in Workers, WorkExhaust(w)
    PROVE  Data' /\ JobInv' /\ WorkInv'
<1>1. pc[w] \in {"exhaust", "exhausted"}
  BY DEF WorkExhaust, At
<1>2. PICK b \in Batches : b = on[w] /\ WorkOk(pc[w], b) /\ MoneyOk(pc[<<"submit", b>>], b)
  BY <1>1, AtWork
<1>3. /\ Exhausted(b) /\ Status(b) \in Later \union Ended
      /\ Status(b) = "settling" \/ b \in lapsed
  BY <1>1, <1>2 DEF WorkOk, KnowsOk, AloneOk
<1>4. pc[w] \notin {"idle", "lock", "requeue"}
  BY <1>1
<1>5. CASE pc[w] = "exhaust"
  <2>1. PICK l \in {"exhausted", "reread"} :
          /\ Goto(w, l) /\ UNCHANGED <<on, lapsed>> /\ UNCHANGED job
          /\ (ReleaseOK(b) /\ Release(b)) \/ (UNCHANGED ledger /\ l = "reread")
    BY <1>2, <1>5 DEF WorkExhaust, At, ReleaseCall, LedgerCall, Answered, Refused, Env, state, ledger
  <2>2. CASE ReleaseOK(b) /\ Release(b)
    <3>1. l \in {"ack", "exhausted", "requeue", "reread"}
      BY <2>1
    <3> QED
      BY <1>2, <1>3, <1>4, <2>1, <2>2, <3>1, WorkerReleases
  <2>3. CASE UNCHANGED ledger /\ l = "reread"
    <3>1. WorkOk(l, b)
      BY <1>3, <2>3 DEF WorkOk, KnowsOk, AloneOk
    <3> QED
      BY <1>2, <2>1, <2>3, <3>1, WorkerQuiet
  <2> QED
    BY <2>1, <2>2, <2>3
<1>6. CASE pc[w] = "exhausted"
  <2>1. PICK l \in {"reread", "requeue"} :
          /\ Goto(w, l) /\ UNCHANGED <<on, lapsed>> /\ UNCHANGED ledger
          /\ (TransitionOK(b, "failed") /\ Transition(b, "failed")) \/ (UNCHANGED job /\ l = "requeue")
    BY <1>2, <1>6 DEF WorkExhaust, At, TransitionCall, JobCall, Answered, Refused, Env, state, ledger
  <2>2. CASE TransitionOK(b, "failed") /\ Transition(b, "failed")
    <3>1. Wrote(b, "failed")
      BY <2>2, StatusWritten, CoreFacts DEF Transition, Statuses, Terminal
    <3>2. Released(b) /\ SameMoney(b) /\ Status(b)' = "failed"
      BY <1>2, <1>6, <2>1, <3>1, WroteEffect, CoreFacts DEF WorkOk, KnowsOk
    <3>3. WorkOk(l, b)'
      BY <2>1, <3>2 DEF WorkOk, KnowsOk, AloneOk, SameMoney
    <3>4. "failed" \in Ended /\ "failed" \in Ended \union Later /\ "failed" \notin Later /\ Status(b) \in Later \union Ended
      BY <1>3 DEF Ended, Later
    <3> QED
      BY <1>2, <1>3, <1>4, <2>1, <3>1, <3>3, <3>4, WorkerWrites
  <2>3. CASE UNCHANGED job /\ l = "requeue"
    <3>1. WorkOk(l, b)
      BY <2>3 DEF WorkOk, KnowsOk, AloneOk
    <3> QED
      BY <1>2, <2>1, <2>3, <3>1, WorkerQuiet
  <2> QED
    BY <2>1, <2>2, <2>3
<1> QED
  BY <1>1, <1>5, <1>6

-----------------------------------------------------------------------------
(* The steps after which every job and its money are what they were: at    *)
(* most a process gives up or a worker takes a job.                        *)

Alike(c) ==
    /\ Status(c)' = Status(c) /\ (Exhausted(c)' <=> Exhausted(c))
    /\ SameMoney(c)

LEMMA IdleStep ==
    ASSUME Core, \A c \in Batches : Alike(c), lapsed \subseteq lapsed',
           \A c \in Batches : /\ pc'[<<"submit", c>>] \in {pc[<<"submit", c>>], "over"}
                              /\ pc'[<<"cancel", c>>] \in {pc[<<"cancel", c>>], "idle"}
                              /\ pc'[<<"sweep", c>>] \in {pc[<<"sweep", c>>], "idle"},
           \A w \in Workers : (pc'[w] = pc[w] /\ on'[w] = on[w]) \/ pc'[w] \in {"idle", "lock"}
    PROVE  JobInv' /\ WorkInv'
<1>1. ASSUME NEW c \in Batches
      PROVE  BatchOk(c)'
  <2>1. PICK s : s = pc[<<"submit", c>>] /\ SubmissionOk(s, Status(c), Held(c)) /\ MoneyOk(s, c)
    BY CoreFacts
  <2>2. PICK t : t = pc'[<<"submit", c>>]
    OBVIOUS
  <2>3. t \in {s, "over"}
    BY <2>1, <2>2
  <2>4. Alike(c)
    OBVIOUS
  <2>5. SubmissionOk(t, Status(c)', Held(c)')
    BY <2>1, <2>3, <2>4 DEF SubmissionOk, Alike, SameMoney, Later, Ended
  <2>6. MoneyOk(t, c)'
    BY <2>1, <2>3, <2>4 DEF MoneyOk, Alike, SameMoney, Early, Ended
  <2>7. /\ pc'[<<"cancel", c>>] = "refund" => Status(c)' \in Ended
        /\ pc'[<<"sweep", c>>] = "refund" => Status(c)' \in Ended
    BY <2>4, CoreFacts DEF Alike
  <2>8. SubmissionOk(pc'[<<"submit", c>>], Status(c)', Held(c)')
    BY <2>2, <2>5
  <2> QED
    BY <2>2, <2>6, <2>7, <2>8 DEF BatchOk, MoneyOk, SubmissionOk, Ended
<1>2. ASSUME NEW w \in Workers
      PROVE  WorkOk(pc[w], on[w])'
  <2>1. PICK m, c : m = pc[w] /\ c = on[w] /\ WorkOk(m, c) /\ c \in Batches \union {Nil} /\ (c = Nil => m = "idle")
    BY CoreFacts
  <2>2. CASE pc'[w] = pc[w] /\ on'[w] = on[w]
    <3>1. WorkOk(m, c)'
      <4>1. CASE c = Nil
        BY <2>1, <4>1, WorkIdle
      <4>2. CASE c \in Batches
        <5>1. Alike(c)
          BY <4>2
        <5> QED
          BY <2>1, <5>1 DEF WorkOk, KnowsOk, AloneOk, Alike, SameMoney
      <4> QED
        BY <2>1, <4>1, <4>2
    <3> QED
      BY <2>1, <2>2, <3>1 DEF WorkOk, KnowsOk, AloneOk
  <2>3. CASE pc'[w] \in {"idle", "lock"}
    BY <2>3 DEF WorkOk, KnowsOk, AloneOk
  <2> QED
    BY <2>2, <2>3
<1> QED
  BY <1>1, <1>2 DEF JobInv, WorkInv

LEMMA NothingWritten ==
    ASSUME Core, UNCHANGED job, UNCHANGED ledger
    PROVE  Data' /\ \A c \in Batches : Alike(c)
<1>1. LedgerTypeOK' /\ LedgerInv' /\ \A c \in Batches : Same(c)
  BY NoEffect, CoreFacts
<1>2. JobsTypeOK'
  BY CoreFacts DEF JobsTypeOK
<1> QED
  BY <1>1, <1>2, SameFacts DEF Data, Alike

LEMMA WorkTurnData ==
    ASSUME Core, NEW w \in Workers, (\E b \in Batches : WorkReserve(w, b)) \/ WorkEnd(w)
    PROVE  Data' /\ JobInv' /\ WorkInv'
<1>1. PICK l \in {"lock", "idle"} : /\ UNCHANGED job /\ UNCHANGED ledger /\ UNCHANGED lapsed
                                    /\ Goto(w, l) \/ UNCHANGED <<pc, on>>
                                    /\ \A v \in Workers \ {w} : on'[v] = on[v]
  BY CoreFacts DEF WorkReserve, WorkEnd, hearts, ledger, TypeOK
<1>2. Data' /\ \A c \in Batches : Alike(c)
  BY <1>1, NothingWritten
<1>3. CASE Goto(w, l)
  <2>1. w \in Procs /\ pc'[w] = l /\ \A q \in Procs \ {w} : pc'[q] = pc[q]
    BY <1>3, WorkerIds, Moved, CoreFacts
  <2>2. ASSUME NEW c \in Batches
        PROVE  /\ pc'[<<"submit", c>>] \in {pc[<<"submit", c>>], "over"}
               /\ pc'[<<"cancel", c>>] \in {pc[<<"cancel", c>>], "idle"}
               /\ pc'[<<"sweep", c>>] \in {pc[<<"sweep", c>>], "idle"}
    BY <2>1, ClientIds
  <2>3. \A v \in Workers : (pc'[v] = pc[v] /\ on'[v] = on[v]) \/ pc'[v] \in {"idle", "lock"}
    BY <1>1, <2>1, WorkerIds
  <2> QED
    BY <1>1, <1>2, <2>2, <2>3, IdleStep
<1>4. CASE UNCHANGED <<pc, on>>
  BY <1>1, <1>2, <1>4, IdleStep
<1> QED
  BY <1>1, <1>3, <1>4

LEMMA CrashData ==
    ASSUME Core, NEW p \in Procs, Crash(p)
    PROVE  Data' /\ JobInv' /\ WorkInv'
<1>1. PICK l \in {"over", "idle"} : Goto(p, l) /\ (l = "over" <=> p \in Submitters)
  BY DEF Crash
<1>2. UNCHANGED job /\ UNCHANGED ledger /\ UNCHANGED lapsed /\ \A v \in Workers \ {p} : on'[v] = on[v]
  BY CoreFacts DEF Crash, TypeOK, state, ledger
<1>3. Data' /\ \A c \in Batches : Alike(c)
  BY <1>2, NothingWritten
<1>4. pc'[p] = l /\ \A q \in Procs \ {p} : pc'[q] = pc[q]
  BY <1>1, Moved, CoreFacts
<1>5. ASSUME NEW c \in Batches
      PROVE  /\ pc'[<<"submit", c>>] \in {pc[<<"submit", c>>], "over"}
             /\ pc'[<<"cancel", c>>] \in {pc[<<"cancel", c>>], "idle"}
             /\ pc'[<<"sweep", c>>] \in {pc[<<"sweep", c>>], "idle"}
  <2>1. <<"submit", c>> \in Submitters /\ <<"cancel", c>> \notin Submitters /\ <<"sweep", c>> \notin Submitters
    BY DEF Submitters
  <2>2. /\ p = <<"submit", c>> => l = "over"
        /\ p \in {<<"cancel", c>>, <<"sweep", c>>} => l = "idle"
    BY <1>1, <2>1
  <2>3. <<"submit", c>> \in Procs /\ <<"cancel", c>> \in Procs /\ <<"sweep", c>> \in Procs
    BY ClientIds
  <2> QED
    BY <1>4, <2>2, <2>3
<1>6. ASSUME NEW v \in Workers
      PROVE  (pc'[v] = pc[v] /\ on'[v] = on[v]) \/ pc'[v] \in {"idle", "lock"}
  <2>1. v \notin Submitters /\ v \in Procs
    BY ProcessAssumption, WorkerIds DEF Submitters
  <2> QED
    BY <1>1, <1>2, <1>4, <2>1
<1> QED
  BY <1>2, <1>3, <1>5, <1>6, IdleStep

LEMMA OthersData ==
    ASSUME Core, NEW b \in Batches,
           Resubmit(b) \/ MoveDue(b) \/ RecoverActive(b) \/ LockLapses(b) \/ ProviderEnds(b)
    PROVE  Data' /\ JobInv' /\ WorkInv'
<1>1. UNCHANGED job /\ UNCHANGED ledger /\ UNCHANGED <<pc, on>> /\ lapsed \subseteq lapsed'
  BY DEF Resubmit, MoveDue, RecoverActive, LockLapses, ProviderEnds, Env, hearts, state, ledger
<1>2. Data' /\ \A c \in Batches : Alike(c)
  BY <1>1, NothingWritten
<1> QED
  BY <1>1, <1>2, IdleStep

LEMMA HeartbeatData ==
    ASSUME Core, NEW w \in Workers, HeartbeatsFail(w)
    PROVE  Data' /\ JobInv' /\ WorkInv'
<1>1. UNCHANGED job /\ UNCHANGED ledger /\ UNCHANGED <<pc, on, lapsed>>
  BY DEF HeartbeatsFail, state, ledger
<1>2. Data' /\ \A c \in Batches : Alike(c)
  BY <1>1, NothingWritten
<1> QED
  BY <1>1, <1>2, IdleStep

LEMMA DeleteData ==
    ASSUME Core, NEW b \in Batches, DeleteRecord(b)
    PROVE  Data' /\ JobInv' /\ WorkInv'
<1>1. UserDelete(b) /\ UNCHANGED ledger /\ UNCHANGED <<pc, on, lapsed>>
  BY DEF DeleteRecord, Env
<1>2. Wrote(b, Status(b))
  BY <1>1, ColumnWritten, CoreFacts DEF UserDelete
<1>3. /\ LedgerTypeOK' /\ LedgerInv' /\ OthersSame(b) /\ Status(b)' = Status(b) /\ job'[b].retry = job[b].retry
      /\ SameMoney(b) /\ JobsTypeOK'
  BY <1>1, <1>2, WroteEffect, CoreFacts DEF Wrote
<1>4. ASSUME NEW c \in Batches
      PROVE  Alike(c)
  <2>1. CASE c = b
    BY <1>3, <2>1 DEF Alike, Exhausted
  <2>2. CASE c # b
    BY <1>3, <2>2, SameFacts DEF Alike, OthersSame
  <2> QED
    BY <2>1, <2>2
<1> QED
  BY <1>1, <1>3, <1>4, IdleStep DEF Data

LEMMA ArchiveData ==
    ASSUME Core, ArchiveDedup
    PROVE  Data' /\ JobInv' /\ WorkInv'
<1>1. Cleanup /\ UNCHANGED job /\ UNCHANGED <<pc, on, lapsed>>
  BY DEF ArchiveDedup, Env
<1>2. LedgerTypeOK' /\ LedgerInv' /\ moved' = moved /\ \A q : Claimed(q)' <=> Claimed(q)
  BY <1>1, ArchiveFacts, CoreFacts
<1>3. JobsTypeOK' /\ \A c \in Batches : Same(c)
  BY <1>1, <1>2, CoreFacts DEF JobsTypeOK, Same
<1>4. \A c \in Batches : Alike(c)
  BY <1>3, SameFacts DEF Alike
<1> QED
  BY <1>1, <1>2, <1>3, <1>4, IdleStep DEF Data

LEMMA StutterData ==
    ASSUME Core, UNCHANGED vars
    PROVE  Data' /\ JobInv' /\ WorkInv'
<1>1. UNCHANGED job /\ UNCHANGED ledger /\ UNCHANGED <<pc, on, lapsed>>
  BY DEF vars, ledger
<1>2. Data' /\ \A c \in Batches : Alike(c)
  BY <1>1, NothingWritten
<1> QED
  BY <1>1, <1>2, IdleStep

LEMMA NextData ==
    ASSUME Core, [Next]_vars
    PROVE  Data' /\ JobInv' /\ WorkInv'
<1>1. ASSUME NEW b \in Batches, JobNext(b)
      PROVE  Data' /\ JobInv' /\ WorkInv'
  <2>1. CASE Submit(b)
    BY <2>1, SubmitCreateData, SubmitReserveData, SubmitReadsData, SubmitUploadData, SubmitNameData,
       SubmitUnfreezeData, SubmitFailData DEF Submit
  <2>2. CASE Cancel(b) \/ CancelTransition(b) \/ CancelRefund(b) \/ CancelProvider(b) \/ CancelEnqueue(b)
    BY <2>2, CancelData
  <2> QED
    BY <1>1, <2>1, <2>2, SweepData, DeleteData, OthersData DEF JobNext
<1>2. ASSUME NEW w \in Workers, Work(w)
      PROVE  Data' /\ JobInv' /\ WorkInv'
  <2>1. CASE (\E b \in Batches : WorkReserve(w, b)) \/ WorkEnd(w)
    BY <2>1, WorkTurnData
  <2>2. CASE WorkLock(w) \/ WorkPipeline(w) \/ WorkProcess(w) \/ WorkReread(w) \/ WorkSettle(w)
    BY <2>2, WorkReadsData
  <2> QED
    BY <1>2, <2>1, <2>2, WorkTransitionData, WorkIndexData, WorkRefundData, WorkCaptureData, WorkMarkData,
       WorkRecordData, WorkExhaustData DEF Work
<1> QED
  BY <1>1, <1>2, HeartbeatData, CrashData, ArchiveData, StutterData DEF Next

-----------------------------------------------------------------------------
(* The rest of the state: where the processes are, and the queue. *)

Pcs == SubmitPcs \union CancelPcs \union SweepPcs \union WorkPcs

Counted == UNCHANGED faults \/ Fault \/ Faults(HeartbeatCost)

(* A step of a client or of the sweep. *)
ClientFrame(b, p) ==
    /\ \E l \in Pcs : Goto(p, l)
    /\ UNCHANGED <<on, output>> /\ UNCHANGED hearts /\ Counted
    /\ UNCHANGED provider \/ \E s \in {"open", "cancelled", provider[b]} : provider' = [provider EXCEPT ![b] = s]
    /\ UNCHANGED queue \/ Enqueue(b)

(* A step of a worker that has its job's lock. *)
WorkFrame(w) ==
    /\ \E l \in Pcs \ {"idle"} : Goto(w, l)
    /\ pc[w] \notin {"idle", "lock", "requeue"}
    /\ UNCHANGED <<on, provider, output, silent, lapsed>> /\ UNCHANGED queue /\ Counted

LEMMA SubmitFrame ==
    ASSUME NEW b \in Batches, Submit(b)
    PROVE  ClientFrame(b, <<"submit", b>>)
<1> USE DEF Pcs, SubmitPcs
<1> DEFINE p == <<"submit", b>>
<1>1. CASE SubmitCreate(b) \/ SubmitReserve(b) \/ SubmitName(b) \/ SubmitUnfreeze(b) \/ SubmitFail(b)
  <2>1. CASE SubmitCreate(b)
    BY <2>1 DEF SubmitCreate, JobCall, Answered, Refused, Env, state, queue, Counted, hearts, ClientFrame
  <2>2. CASE SubmitReserve(b)
    BY <2>2 DEF SubmitReserve, LedgerCall, Answered, Refused, Env, state, queue, Counted, hearts, ClientFrame
  <2>3. CASE SubmitName(b)
    BY <2>3 DEF SubmitName, JobCall, Answered, Refused, Env, state, queue, Counted, hearts, ClientFrame
  <2>4. CASE SubmitUnfreeze(b)
    BY <2>4 DEF SubmitUnfreeze, ReleaseCall, LedgerCall, Answered, Refused, Env, state, queue, Counted, hearts, ClientFrame
  <2>5. CASE SubmitFail(b)
    BY <2>5 DEF SubmitFail, JobCall, Answered, Refused, Env, state, queue, Counted, hearts, ClientFrame
  <2> QED
    BY <1>1, <2>1, <2>2, <2>3, <2>4, <2>5
<1>2. CASE SubmitItems(b) \/ SubmitUpload(b)
  BY <1>2 DEF SubmitItems, SubmitUpload, TransitionCall, JobCall, Answered, Refused, Decide, Env, state, queue, Counted,
              hearts, ClientFrame
<1>3. CASE SubmitProvider(b) \/ SubmitEnqueue(b)
  BY <1>3 DEF SubmitProvider, SubmitEnqueue, EnqueueCall, Refused, Decide, Env, state, queue, Counted, hearts, ClientFrame
<1>4. CASE SubmitAbort(b)
  BY <1>4 DEF SubmitAbort, state, queue, Counted, hearts, ClientFrame
<1> QED
  BY <1>1, <1>2, <1>3, <1>4 DEF Submit

LEMMA CancelFrame ==
    ASSUME NEW b \in Batches,
           Cancel(b) \/ CancelTransition(b) \/ CancelRefund(b) \/ CancelProvider(b) \/ CancelEnqueue(b)
    PROVE  ClientFrame(b, <<"cancel", b>>)
<1> USE DEF Pcs, CancelPcs
<1>1. CASE Cancel(b)
  BY <1>1 DEF Cancel, Decide, Env, state, queue, Counted, hearts, ClientFrame
<1>2. CASE CancelTransition(b) \/ CancelRefund(b)
  BY <1>2 DEF CancelTransition, TransitionCall, JobCall, CancelRefund, ReleaseCall, LedgerCall, Answered, Refused, Env,
              state, queue, Counted, hearts, ClientFrame
<1>3. CASE CancelProvider(b)
  BY <1>3 DEF CancelProvider, Decide, Env, state, queue, Counted, hearts, ClientFrame
<1>4. CASE CancelEnqueue(b)
  BY <1>4 DEF CancelEnqueue, EnqueueCall, Refused, Env, state, queue, Counted, hearts, ClientFrame
<1> QED
  BY <1>1, <1>2, <1>3, <1>4

LEMMA SweepFrame ==
    ASSUME NEW b \in Batches, Sweep(b)
    PROVE  ClientFrame(b, <<"sweep", b>>)
<1> USE DEF Pcs, SweepPcs
<1>1. CASE SweepFail(b) \/ SweepRefund(b)
  BY <1>1 DEF SweepFail, JobCall, SweepRefund, ReleaseCall, LedgerCall, Answered, Refused, Env, state, queue, Counted,
              hearts, ClientFrame
<1>2. CASE SweepEnqueue(b)
  BY <1>2 DEF SweepEnqueue, EnqueueCall, Refused, Env, state, queue, Counted, hearts, ClientFrame
<1> QED
  BY <1>1, <1>2 DEF Sweep

LEMMA WorkerFrame ==
    ASSUME Core, NEW w \in Workers,
           \/ WorkPipeline(w) \/ WorkProcess(w) \/ WorkTransition(w) \/ WorkIndex(w) \/ WorkRefund(w) \/ WorkSettle(w)
           \/ WorkCapture(w) \/ WorkMark(w) \/ WorkRecord(w) \/ WorkExhaust(w) \/ WorkReread(w)
    PROVE  WorkFrame(w)
<1> USE DEF Pcs, WorkPcs
<1>1. CASE WorkPipeline(w) \/ WorkReread(w) \/ WorkSettle(w)
  BY <1>1 DEF WorkPipeline, WorkReread, WorkSettle, At, Refused, Decide, Env, state, queue, Counted, WorkFrame
<1>2. CASE WorkProcess(w)
  <2>1. \A l \in ProviderAnswer(on[w]) : l \in {"toIndexing", "toFailed", "toCancelled", "toRunning", "requeue"}
    BY DEF ProviderAnswer
  <2>2. /\ pc[w] = "process"
        /\ \/ \E l \in {"refund", "ack", "requeue", "index", "toIndexing", "toFailed", "toCancelled", "toRunning"} : Decide(w, l)
           \/ Refused(w, TRUE, "requeue")
    BY <1>2, <2>1 DEF WorkProcess, At
  <2> QED
    BY <2>2 DEF Refused, Decide, Env, state, queue, Counted, WorkFrame
<1>3. CASE WorkTransition(w)
  <2>1. PICK l \in {"index", "refund", "requeue"} : Goto(w, l) /\ UNCHANGED <<on, provider, output, silent, lapsed>> /\ UNCHANGED queue /\ Counted
    BY <1>3 DEF WorkTransition, TransitionCall, JobCall, Answered, Refused, Env, state, queue, Counted
  <2>2. pc[w] \in {"toRunning", "toIndexing", "toSettling", "toFailed", "toCancelled"}
    BY <1>3 DEF WorkTransition, At
  <2> QED
    BY <2>1, <2>2 DEF WorkFrame
<1>4. CASE WorkIndex(w)
  <2>1. PICK l \in {"toSettling", "toFailed", "requeue"} : Goto(w, l) /\ UNCHANGED <<on, provider, output, silent, lapsed>> /\ UNCHANGED queue /\ Counted
    BY <1>4 DEF WorkIndex, Decide, Answered, Refused, Env, state, queue, Counted
  <2>2. pc[w] \in {"index"}
    BY <1>4 DEF WorkIndex, At
  <2> QED
    BY <2>1, <2>2 DEF WorkFrame
<1>5. CASE WorkRefund(w)
  <2>1. PICK l \in {"ack", "requeue"} : Goto(w, l) /\ UNCHANGED <<on, provider, output, silent, lapsed>> /\ UNCHANGED queue /\ Counted
    BY <1>5 DEF WorkRefund, ReleaseCall, LedgerCall, Answered, Refused, Env, state, queue, Counted
  <2>2. pc[w] \in {"refund"}
    BY <1>5 DEF WorkRefund, At
  <2> QED
    BY <2>1, <2>2 DEF WorkFrame
<1>6. CASE WorkExhaust(w)
  <2>1. PICK l \in {"exhausted", "reread", "requeue"} : Goto(w, l) /\ UNCHANGED <<on, provider, output, silent, lapsed>> /\ UNCHANGED queue /\ Counted
    BY <1>6 DEF WorkExhaust, ReleaseCall, LedgerCall, TransitionCall, JobCall, Answered, Refused, Env, state, queue, Counted
  <2>2. pc[w] \in {"exhaust", "exhausted"}
    BY <1>6 DEF WorkExhaust, At
  <2> QED
    BY <2>1, <2>2 DEF WorkFrame
<1>7. CASE WorkCapture(w)
  <2>1. PICK l \in {"mark", "record"} : Goto(w, l) /\ UNCHANGED <<on, provider, output, silent, lapsed>> /\ UNCHANGED queue /\ Counted
    BY <1>7 DEF WorkCapture, LedgerCall, Answered, Refused, Env, state, queue, Counted
  <2>2. pc[w] \in {"capture"}
    BY <1>7 DEF WorkCapture, At
  <2> QED
    BY <2>1, <2>2 DEF WorkFrame
<1>8. CASE WorkMark(w)
  <2>1. PICK l \in {"ack", "requeue"} : Goto(w, l) /\ UNCHANGED <<on, provider, output, silent, lapsed>> /\ UNCHANGED queue /\ Counted
    BY <1>8 DEF WorkMark, JobCall, Answered, Refused, Env, state, queue, Counted
  <2>2. pc[w] \in {"mark"}
    BY <1>8 DEF WorkMark, At
  <2> QED
    BY <2>1, <2>2 DEF WorkFrame
<1>9. CASE WorkRecord(w)
  <2>1. PICK l \in {"exhaust", "reread"} : Goto(w, l) /\ UNCHANGED <<on, provider, output, silent, lapsed>> /\ UNCHANGED queue /\ Counted
    BY <1>9 DEF WorkRecord, JobCall, Answered, Refused, Env, state, queue, Counted
  <2>2. pc[w] \in {"record"}
    BY <1>9 DEF WorkRecord, At
  <2> QED
    BY <2>1, <2>2 DEF WorkFrame
<1> QED
  BY <1>1, <1>2, <1>3, <1>4, <1>5, <1>6, <1>7, <1>8, <1>9

(* What the queue's scripts keep. *)
LEMMA EnqueueFacts ==
    ASSUME QueueTypeOK, NEW b \in Batches, Enqueue(b)
    PROVE  /\ QueueTypeOK' /\ lock' = lock /\ delayed' = delayed /\ active' = active
           /\ inflight' = inflight \union {b}
           /\ \A c \in Batches \ {b} : ready'[c] = ready[c]
           /\ ready'[b] = IF b \in inflight THEN ready[b] ELSE ready[b] + 1
BY DEF QueueTypeOK, Enqueue, Pushed

LEMMA QueueKept ==
    ASSUME QueueTypeOK, NeverLost, UNCHANGED queue
    PROVE  QueueTypeOK' /\ NeverLost'
BY DEF QueueTypeOK, NeverLost, queue

LEMMA EnqueueKeeps ==
    ASSUME QueueTypeOK, NeverLost, NEW b \in Batches, Enqueue(b)
    PROVE  QueueTypeOK' /\ NeverLost'
<1>1. /\ QueueTypeOK' /\ lock' = lock /\ delayed' = delayed /\ active' = active
      /\ inflight' = inflight \union {b}
      /\ \A c \in Batches \ {b} : ready'[c] = ready[c]
      /\ ready'[b] = IF b \in inflight THEN ready[b] ELSE ready[b] + 1
  BY EnqueueFacts
<1>2. ready[b] \in Nat /\ inflight \subseteq Batches
  BY DEF QueueTypeOK
<1> QED
  BY <1>1, <1>2 DEF NeverLost

LEMMA ReserveKeeps ==
    ASSUME QueueTypeOK, NeverLost, NEW b \in Batches, ReserveNext(b)
    PROVE  QueueTypeOK' /\ NeverLost'
<1>1. /\ ready \in [Batches -> Nat] /\ ready[b] > 0 /\ ready' = [ready EXCEPT ![b] = ready[b] - 1]
      /\ active' = active \union {b} /\ delayed' = delayed /\ inflight' = inflight /\ lock' = lock
      /\ inflight \subseteq Batches
  BY DEF QueueTypeOK, ReserveNext
<1>2. ready' \in [Batches -> Nat] /\ \A c \in Batches \ {b} : ready'[c] = ready[c]
  BY <1>1
<1> QED
  BY <1>1, <1>2 DEF NeverLost, QueueTypeOK

LEMMA PushKeeps ==
    ASSUME QueueTypeOK, NeverLost, NEW b \in Batches, MoveDueDelayedToReady(b) \/ RecoverStaleActive(b)
    PROVE  QueueTypeOK' /\ NeverLost'
<1>1. /\ ready \in [Batches -> Nat] /\ ready' = [ready EXCEPT ![b] = ready[b] + 1]
      /\ active' \in {active, active \ {b}} /\ delayed' \in {delayed, delayed \ {b}}
      /\ inflight' = inflight /\ lock' = lock
      /\ inflight \subseteq Batches
  BY DEF QueueTypeOK, MoveDueDelayedToReady, RecoverStaleActive, Pushed
<1>2. ready' \in [Batches -> Nat] /\ ready'[b] > 0 /\ \A c \in Batches \ {b} : ready'[c] = ready[c]
  BY <1>1
<1> QED
  BY <1>1, <1>2 DEF NeverLost, QueueTypeOK

LEMMA EndKeeps ==
    ASSUME QueueTypeOK, NeverLost, NEW w \in Workers, NEW b \in Batches, RequeueAfter(w, b) \/ Ack(w, b)
    PROVE  QueueTypeOK' /\ NeverLost'
<1>1. /\ active' = active \ {b} /\ ready' = ready
      /\ \/ delayed' = delayed \union {b} /\ inflight' = inflight
         \/ delayed' = delayed \ {b} /\ inflight' = inflight \ {b}
      /\ lock' \in [Batches -> Workers \union {Nil}]
  BY DEF QueueTypeOK, RequeueAfter, Ack, Unlocked
<1> QED
  BY <1>1 DEF NeverLost, QueueTypeOK

LEMMA LockKeeps ==
    ASSUME QueueTypeOK, NeverLost, NEW w \in Workers, NEW b \in Batches, TryAcquireJobLock(w, b) \/ LockExpires(b)
    PROVE  QueueTypeOK' /\ NeverLost'
<1>1. /\ active' = active /\ ready' = ready /\ delayed' = delayed /\ inflight' = inflight
      /\ lock' \in [Batches -> Workers \union {Nil}]
  BY DEF QueueTypeOK, TryAcquireJobLock, LockExpires
<1> QED
  BY <1>1 DEF NeverLost, QueueTypeOK

-----------------------------------------------------------------------------
(* Where everybody is keeps its type, and a worker its lock. *)

Control ==
    /\ pc \in [Procs -> Pcs]
    /\ on \in [Workers -> Batches \union {Nil}]
    /\ provider \in [Batches -> {"none", "open"} \union Finals]
    /\ output \in [Batches -> Costs \union {0}]
    /\ silent \subseteq Workers /\ lapsed \subseteq Batches
    /\ faults \in 0..MaxFaults

LEMMA TypeSplit == TypeOK <=> JobsTypeOK /\ LedgerTypeOK /\ QueueTypeOK /\ Control
BY DEF TypeOK, Control, Pcs

LEMMA TypeSplitNext == (JobsTypeOK /\ LedgerTypeOK /\ QueueTypeOK /\ Control)' => TypeOK'
BY DEF TypeOK, Control, Pcs

LEMMA CountedFacts ==
    ASSUME Control, Counted
    PROVE  faults' \in 0..MaxFaults
BY Constants DEF Control, Counted, Fault, Faults

LEMMA ClientControl ==
    ASSUME Core, NeverLost, NEW b \in Batches, NEW p \in Procs \ Workers, ClientFrame(b, p)
    PROVE  Control' /\ LockInv' /\ QueueTypeOK' /\ NeverLost'
<1>1. Control /\ QueueTypeOK
  BY CoreFacts, TypeSplit
<1>2. QueueTypeOK' /\ NeverLost' /\ lock' = lock
  BY <1>1, QueueKept, EnqueueKeeps, EnqueueFacts DEF ClientFrame, queue
<1>3. PICK l \in Pcs : Goto(p, l)
  BY DEF ClientFrame
<1>4. pc'[p] = l /\ \A q \in Procs \ {p} : pc'[q] = pc[q]
  BY <1>3, Moved, CoreFacts
<1>5. on' = on /\ output' = output /\ silent' = silent /\ lapsed' = lapsed
  BY DEF ClientFrame, hearts
<1>6. Control'
  <2>1. pc' \in [Procs -> Pcs]
    BY <1>1, <1>3 DEF Control, Goto
  <2>2. provider' \in [Batches -> {"none", "open"} \union Finals]
    BY <1>1 DEF Control, ClientFrame, Finals
  <2>3. faults' \in 0..MaxFaults
    BY <1>1, CountedFacts DEF ClientFrame
  <2> QED
    BY <1>1, <1>5, <2>1, <2>2, <2>3 DEF Control
<1>7. LockInv'
  <2> SUFFICES ASSUME NEW w \in Workers
               PROVE  /\ pc'[w] = "idle" <=> on'[w] = Nil
                      /\ pc'[w] \notin {"idle", "lock", "requeue"} =>
                           lock'[on'[w]] = w \/ (w \in silent' /\ on'[w] \in lapsed')
    BY DEF LockInv
  <2>1. pc'[w] = pc[w] /\ on'[w] = on[w]
    BY <1>4, <1>5, WorkerIds
  <2> QED
    BY <1>2, <1>5, <2>1, CoreFacts
<1> QED
  BY <1>2, <1>6, <1>7

LEMMA WorkControl ==
    ASSUME Core, NeverLost, NEW w \in Workers, WorkFrame(w)
    PROVE  Control' /\ LockInv' /\ QueueTypeOK' /\ NeverLost'
<1>1. Control /\ QueueTypeOK
  BY CoreFacts, TypeSplit
<1>2. QueueTypeOK' /\ NeverLost' /\ lock' = lock
  BY <1>1, QueueKept DEF WorkFrame, queue
<1>3. PICK l \in Pcs \ {"idle"} : Goto(w, l)
  BY DEF WorkFrame
<1>4. w \in Procs /\ pc'[w] = l /\ \A q \in Procs \ {w} : pc'[q] = pc[q]
  BY <1>3, Moved, CoreFacts, WorkerIds
<1>5. on' = on /\ output' = output /\ provider' = provider /\ silent' = silent /\ lapsed' = lapsed
  BY DEF WorkFrame
<1>6. Control'
  <2>1. pc' \in [Procs -> Pcs]
    BY <1>1, <1>3 DEF Control, Goto
  <2>2. faults' \in 0..MaxFaults
    BY <1>1, CountedFacts DEF WorkFrame
  <2> QED
    BY <1>1, <1>5, <2>1, <2>2 DEF Control
<1>7. LockInv'
  <2> SUFFICES ASSUME NEW v \in Workers
               PROVE  /\ pc'[v] = "idle" <=> on'[v] = Nil
                      /\ pc'[v] \notin {"idle", "lock", "requeue"} =>
                           lock'[on'[v]] = v \/ (v \in silent' /\ on'[v] \in lapsed')
    BY DEF LockInv
  <2>1. on'[v] = on[v] /\ (v # w => pc'[v] = pc[v])
    BY <1>4, <1>5, WorkerIds
  <2>2. pc[w] \notin {"idle", "lock", "requeue"}
    BY DEF WorkFrame
  <2>3. CASE v = w
    BY <1>2, <1>4, <1>5, <2>1, <2>2, <2>3, CoreFacts
  <2>4. CASE v # w
    BY <1>2, <1>5, <2>1, <2>4, CoreFacts
  <2> QED
    BY <2>3, <2>4
<1> QED
  BY <1>2, <1>6, <1>7

LEMMA LockControl ==
    ASSUME Core, NeverLost, NEW w \in Workers, WorkLock(w)
    PROVE  Control' /\ LockInv' /\ QueueTypeOK' /\ NeverLost'
<1>1. Control /\ QueueTypeOK
  BY CoreFacts, TypeSplit
<1>2. PICK b \in Batches : b = on[w] /\ pc[w] = "lock"
  BY AtWork DEF WorkLock, At
<1>3. PICK l \in {"pipeline", "requeue"} :
        /\ Goto(w, l) /\ UNCHANGED <<on, provider, output, silent, lapsed>> /\ Counted
        /\ (TryAcquireJobLock(w, b) /\ l = "pipeline") \/ (UNCHANGED queue /\ l = "requeue")
  BY <1>2 DEF WorkLock, Refused, Env, state, queue, Counted
<1>4. w \in Procs /\ pc'[w] = l /\ \A q \in Procs \ {w} : pc'[q] = pc[q]
  BY <1>3, Moved, CoreFacts, WorkerIds
<1>5. QueueTypeOK' /\ NeverLost'
  BY <1>1, <1>3, LockKeeps, QueueKept
<1>6. Control'
  <2>1. pc' \in [Procs -> Pcs]
    BY <1>1, <1>3 DEF Control, Goto, Pcs, WorkPcs
  <2>2. faults' \in 0..MaxFaults
    BY <1>1, <1>3, CountedFacts
  <2> QED
    BY <1>1, <1>3, <2>1, <2>2 DEF Control
<1>7. LockInv'
  <2> SUFFICES ASSUME NEW v \in Workers
               PROVE  /\ pc'[v] = "idle" <=> on'[v] = Nil
                      /\ pc'[v] \notin {"idle", "lock", "requeue"} =>
                           lock'[on'[v]] = v \/ (v \in silent' /\ on'[v] \in lapsed')
    BY DEF LockInv
  <2>1. on'[v] = on[v] /\ (v # w => pc'[v] = pc[v])
    BY <1>3, <1>4, WorkerIds
  <2>2. /\ pc[v] = "idle" <=> on[v] = Nil
        /\ pc[v] \notin {"idle", "lock", "requeue"} => lock[on[v]] = v \/ (v \in silent /\ on[v] \in lapsed)
        /\ on[v] \in Batches \union {Nil}
    BY CoreFacts
  <2>3. CASE TryAcquireJobLock(w, b) /\ l = "pipeline"
    <3>1. lock[b] = Nil /\ lock'[b] = w /\ \A c \in Batches \ {b} : lock'[c] = lock[c]
      BY <1>1, <2>3 DEF QueueTypeOK, TryAcquireJobLock
    <3>2. CASE v = w
      BY <1>2, <1>4, <2>1, <2>2, <2>3, <3>1, <3>2
    <3>3. CASE v # w
      <4>1. pc[v] \notin {"idle", "lock", "requeue"} => on[v] # b \/ (v \in silent /\ on[v] \in lapsed)
        BY <2>2, <3>1, Constants
      <4> QED
        BY <1>3, <2>1, <2>2, <3>1, <3>3, <4>1
    <3> QED
      BY <3>2, <3>3
  <2>4. CASE UNCHANGED queue /\ l = "requeue"
    <3>1. lock' = lock
      BY <2>4 DEF queue
    <3>2. CASE v = w
      BY <1>2, <1>4, <2>1, <2>2, <2>4, <3>2
    <3> QED
      BY <1>3, <2>1, <2>2, <3>1, <3>2
  <2> QED
    BY <1>3, <2>3, <2>4
<1> QED
  BY <1>5, <1>6, <1>7

LEMMA ReserveControl ==
    ASSUME Core, NeverLost, NEW w \in Workers, NEW b \in Batches, WorkReserve(w, b)
    PROVE  Control' /\ LockInv' /\ QueueTypeOK' /\ NeverLost'
<1>1. Control /\ QueueTypeOK
  BY CoreFacts, TypeSplit
<1>2. /\ ReserveNext(b) /\ UNCHANGED <<provider, output, silent, lapsed>> /\ Counted
      /\ \/ Goto(w, "lock") /\ on' = [on EXCEPT ![w] = b]
         \/ UNCHANGED <<pc, on>>
  BY DEF WorkReserve, hearts, Counted
<1>3. QueueTypeOK' /\ NeverLost' /\ lock' = lock
  BY <1>1, <1>2, ReserveKeeps DEF ReserveNext
<1>4. on' \in [Workers -> Batches \union {Nil}] /\ faults' \in 0..MaxFaults
  BY <1>1, <1>2, CountedFacts DEF Control
<1>5. Control'
  <2>1. pc' \in [Procs -> Pcs]
    BY <1>1, <1>2 DEF Control, Goto, Pcs, WorkPcs
  <2> QED
    BY <1>1, <1>2, <1>4, <2>1 DEF Control
<1>6. LockInv'
  <2> SUFFICES ASSUME NEW v \in Workers
               PROVE  /\ pc'[v] = "idle" <=> on'[v] = Nil
                      /\ pc'[v] \notin {"idle", "lock", "requeue"} =>
                           lock'[on'[v]] = v \/ (v \in silent' /\ on'[v] \in lapsed')
    BY DEF LockInv
  <2>1. CASE UNCHANGED <<pc, on>>
    BY <1>2, <1>3, <2>1, CoreFacts
  <2>2. CASE Goto(w, "lock") /\ on' = [on EXCEPT ![w] = b]
    <3>1. pc'[w] = "lock" /\ (v # w => pc'[v] = pc[v])
      BY <2>2, Moved, CoreFacts, WorkerIds
    <3>2. on'[w] = b /\ (v # w => on'[v] = on[v]) /\ b # Nil
      BY <1>1, <2>2, Constants DEF Control
    <3>3. CASE v = w
      BY <3>1, <3>2, <3>3
    <3>4. CASE v # w
      BY <1>2, <1>3, <3>1, <3>2, <3>4, CoreFacts
    <3> QED
      BY <3>3, <3>4
  <2> QED
    BY <1>2, <2>1, <2>2
<1> QED
  BY <1>3, <1>5, <1>6

LEMMA EndControl ==
    ASSUME Core, NeverLost, NEW w \in Workers, WorkEnd(w)
    PROVE  Control' /\ LockInv' /\ QueueTypeOK' /\ NeverLost'
<1>1. Control /\ QueueTypeOK
  BY CoreFacts, TypeSplit
<1>2. PICK b \in Batches : b = on[w]
  BY AtWork DEF WorkEnd, At
<1>3. /\ UNCHANGED <<provider, output, lapsed>> /\ silent' = silent \ {w} /\ Counted
      /\ RequeueAfter(w, b) \/ Ack(w, b) \/ UNCHANGED queue
      /\ Goto(w, "idle") /\ on' = [on EXCEPT ![w] = Nil]
  BY <1>2 DEF WorkEnd, Counted
<1>4. QueueTypeOK' /\ NeverLost'
  BY <1>1, <1>3, EndKeeps, QueueKept
<1>5. \A c \in Batches : lock[c] # w => lock'[c] = lock[c]
  BY <1>1, <1>3 DEF QueueTypeOK, RequeueAfter, Ack, Unlocked, queue
<1>6. on' \in [Workers -> Batches \union {Nil}] /\ faults' \in 0..MaxFaults
  BY <1>1, <1>3, CountedFacts DEF Control
<1>7. Control'
  <2>1. pc' \in [Procs -> Pcs]
    BY <1>1, <1>3 DEF Control, Goto, Pcs, WorkPcs
  <2> QED
    BY <1>1, <1>3, <1>6, <2>1 DEF Control
<1>8. LockInv'
  <2> SUFFICES ASSUME NEW v \in Workers
               PROVE  /\ pc'[v] = "idle" <=> on'[v] = Nil
                      /\ pc'[v] \notin {"idle", "lock", "requeue"} =>
                           lock'[on'[v]] = v \/ (v \in silent' /\ on'[v] \in lapsed')
    BY DEF LockInv
  <2>1. pc'[w] = "idle" /\ (v # w => pc'[v] = pc[v])
    BY <1>3, Moved, CoreFacts, WorkerIds
  <2>2. on'[w] = Nil /\ (v # w => on'[v] = on[v])
    BY <1>1, <1>3 DEF Control
  <2>3. CASE v = w
    BY <2>1, <2>2, <2>3
  <2>4. CASE v # w
    <3>1. /\ pc[v] = "idle" <=> on[v] = Nil
          /\ pc[v] \notin {"idle", "lock", "requeue"} => lock[on[v]] = v \/ (v \in silent /\ on[v] \in lapsed)
          /\ on[v] \in Batches \union {Nil}
      BY CoreFacts
    <3> QED
      BY <1>3, <1>5, <2>1, <2>2, <2>4, <3>1
  <2> QED
    BY <2>3, <2>4
<1> QED
  BY <1>4, <1>7, <1>8

LEMMA CrashControl ==
    ASSUME Core, NeverLost, NEW p \in Procs, Crash(p)
    PROVE  Control' /\ LockInv' /\ QueueTypeOK' /\ NeverLost'
<1>1. Control /\ QueueTypeOK
  BY CoreFacts, TypeSplit
<1>2. PICK l \in {"over", "idle"} : Goto(p, l) /\ (l = "over" <=> p \in Submitters)
  BY DEF Crash
<1>3. UNCHANGED <<provider, output, lapsed>> /\ silent' = silent \ {p} /\ UNCHANGED queue /\ Counted
  BY DEF Crash, state, queue, Counted
<1>4. /\ on' \in [Workers -> Batches \union {Nil}] /\ \A v \in Workers \ {p} : on'[v] = on[v]
      /\ p \in Workers => on'[p] = Nil
  BY <1>1 DEF Crash, Control
<1>5. QueueTypeOK' /\ NeverLost' /\ lock' = lock
  BY <1>1, <1>3, QueueKept DEF queue
<1>6. Control'
  <2>1. pc' \in [Procs -> Pcs]
    BY <1>1, <1>2 DEF Control, Goto, Pcs, SubmitPcs, WorkPcs
  <2>2. faults' \in 0..MaxFaults
    BY <1>1, <1>3, CountedFacts
  <2> QED
    BY <1>1, <1>3, <1>4, <2>1, <2>2 DEF Control
<1>7. LockInv'
  <2> SUFFICES ASSUME NEW v \in Workers
               PROVE  /\ pc'[v] = "idle" <=> on'[v] = Nil
                      /\ pc'[v] \notin {"idle", "lock", "requeue"} =>
                           lock'[on'[v]] = v \/ (v \in silent' /\ on'[v] \in lapsed')
    BY DEF LockInv
  <2>1. pc'[p] = l /\ (v # p => pc'[v] = pc[v])
    BY <1>2, Moved, CoreFacts, WorkerIds
  <2>2. CASE v = p
    <3>1. v \notin Submitters
      BY ProcessAssumption DEF Submitters
    <3> QED
      BY <1>2, <1>4, <2>1, <2>2, <3>1
  <2>3. CASE v # p
    BY <1>3, <1>4, <1>5, <2>1, <2>3, CoreFacts
  <2> QED
    BY <2>2, <2>3
<1> QED
  BY <1>5, <1>6, <1>7

(* The lock of b lapses: of those that live only a silent worker loses it. *)
Lapsing(b) ==
    LockExpires(b) /\ \A w \in Workers : on[w] = b /\ lock[b] = w => w \in silent /\ b \in lapsed'

(* The steps that leave every process where it is. *)
LEMMA OthersControl ==
    ASSUME Core, NeverLost,
           \/ \E b \in Batches : \/ Resubmit(b) \/ MoveDue(b) \/ RecoverActive(b) \/ LockLapses(b) \/ ProviderEnds(b)
                                 \/ DeleteRecord(b)
           \/ \E w \in Workers : HeartbeatsFail(w)
           \/ ArchiveDedup \/ UNCHANGED vars
    PROVE  Control' /\ LockInv' /\ QueueTypeOK' /\ NeverLost'
<1>1. Control /\ QueueTypeOK
  BY CoreFacts, TypeSplit
<1>2. /\ UNCHANGED <<pc, on>> /\ Counted
      /\ \/ UNCHANGED <<provider, output>>
         \/ \E b \in Batches : ProviderEnds(b)
      /\ \/ UNCHANGED queue
         \/ \E b \in Batches : Enqueue(b) \/ MoveDueDelayedToReady(b) \/ RecoverStaleActive(b)
         \/ \E b \in Batches : Lapsing(b)
      /\ silent \subseteq silent' /\ silent' \subseteq Workers /\ lapsed \subseteq lapsed' /\ lapsed' \subseteq Batches
  BY <1>1 DEF Resubmit, MoveDue, RecoverActive, LockLapses, Lapsing, Holding, ProviderEnds, DeleteRecord, HeartbeatsFail,
         ArchiveDedup, Env, hearts, state, queue, vars, Counted, Control
<1>3. QueueTypeOK' /\ NeverLost'
  <2>1. ASSUME NEW b \in Batches, LockExpires(b)
        PROVE  QueueTypeOK' /\ NeverLost'
    <3>1. /\ active' = active /\ ready' = ready /\ delayed' = delayed /\ inflight' = inflight
          /\ lock' \in [Batches -> Workers \union {Nil}]
      BY <1>1, <2>1 DEF QueueTypeOK, LockExpires
    <3> QED
      BY <1>1, <3>1 DEF NeverLost, QueueTypeOK
  <2> QED
    BY <1>1, <1>2, <2>1, QueueKept, EnqueueKeeps, PushKeeps DEF Lapsing
<1>4. Control'
  <2>1. faults' \in 0..MaxFaults
    BY <1>1, <1>2, CountedFacts
  <2>2. /\ provider' \in [Batches -> {"none", "open"} \union Finals]
        /\ output' \in [Batches -> Costs \union {0}]
    BY <1>1, <1>2 DEF Control, ProviderEnds, Finals
  <2> QED
    BY <1>1, <1>2, <2>1, <2>2 DEF Control
<1>5. LockInv'
  <2> SUFFICES ASSUME NEW v \in Workers
               PROVE  /\ pc'[v] = "idle" <=> on'[v] = Nil
                      /\ pc'[v] \notin {"idle", "lock", "requeue"} =>
                           lock'[on'[v]] = v \/ (v \in silent' /\ on'[v] \in lapsed')
    BY DEF LockInv
  <2>1. pc'[v] = pc[v] /\ on'[v] = on[v]
    BY <1>2
  <2>2. /\ pc[v] = "idle" <=> on[v] = Nil
        /\ pc[v] \notin {"idle", "lock", "requeue"} => lock[on[v]] = v \/ (v \in silent /\ on[v] \in lapsed)
        /\ on[v] \in Batches \union {Nil}
    BY CoreFacts
  <2>3. CASE \E b \in Batches : Lapsing(b)
    <3>1. PICK b \in Batches : Lapsing(b)
      BY <2>3
    <3>2. \A c \in Batches \ {b} : lock'[c] = lock[c]
      BY <1>1, <3>1 DEF Lapsing, LockExpires, QueueTypeOK
    <3>3. on[v] = b /\ lock[b] = v => v \in silent /\ b \in lapsed'
      BY <3>1 DEF Lapsing
    <3> QED
      BY <1>2, <2>1, <2>2, <3>2, <3>3
  <2>4. CASE lock' = lock
    BY <1>2, <2>1, <2>2, <2>4
  <2>5. lock' = lock \/ \E b \in Batches : Lapsing(b)
    BY <1>2 DEF queue, Enqueue, MoveDueDelayedToReady, RecoverStaleActive
  <2> QED
    BY <2>3, <2>4, <2>5
<1> QED
  BY <1>3, <1>4, <1>5

LEMMA NextControl ==
    ASSUME Core, NeverLost, [Next]_vars
    PROVE  Control' /\ LockInv' /\ QueueTypeOK' /\ NeverLost'
<1>1. ASSUME NEW b \in Batches, JobNext(b)
      PROVE  Control' /\ LockInv' /\ QueueTypeOK' /\ NeverLost'
  <2>1. CASE Submit(b)
    BY <2>1, SubmitFrame, ClientControl, ClientIds
  <2>2. CASE Cancel(b) \/ CancelTransition(b) \/ CancelRefund(b) \/ CancelProvider(b) \/ CancelEnqueue(b)
    BY <2>2, CancelFrame, ClientControl, ClientIds
  <2>3. CASE Sweep(b)
    BY <2>3, SweepFrame, ClientControl, ClientIds
  <2> QED
    BY <1>1, <2>1, <2>2, <2>3, OthersControl DEF JobNext
<1>2. ASSUME NEW w \in Workers, Work(w)
      PROVE  Control' /\ LockInv' /\ QueueTypeOK' /\ NeverLost'
  <2>1. CASE \/ WorkPipeline(w) \/ WorkProcess(w) \/ WorkTransition(w) \/ WorkIndex(w) \/ WorkRefund(w) \/ WorkSettle(w)
             \/ WorkCapture(w) \/ WorkMark(w) \/ WorkRecord(w) \/ WorkExhaust(w) \/ WorkReread(w)
    BY <2>1, WorkerFrame, WorkControl
  <2> QED
    BY <1>2, <2>1, ReserveControl, LockControl, EndControl DEF Work
<1> QED
  BY <1>1, <1>2, CrashControl, OthersControl DEF Next

-----------------------------------------------------------------------------
(* Without failures: one place in the queue. *)

Calm ==
    /\ Core /\ Undisturbed /\ faults = 0 /\ faults' = 0
    /\ \A b \in Batches : OnePlace(b) /\ DebtOk(b)

LEMMA CalmFacts ==
    ASSUME Calm
    PROVE  /\ Core /\ ~Fault /\ ~Faults(HeartbeatCost) /\ (Counted => UNCHANGED faults) /\ silent = {} /\ lapsed = {}
           /\ \A b \in Batches : OnePlace(b) /\ DebtOk(b)
BY Constants DEF Calm, Undisturbed, Fault, Faults, Counted

LEMMA PlaceTypes ==
    ASSUME Calm
    PROVE  /\ ready \in [Batches -> Nat] /\ delayed \subseteq Batches /\ active \subseteq Batches
           /\ inflight \subseteq Batches /\ on \in [Workers -> Batches \union {Nil}]
BY CoreFacts DEF Calm, QueueTypeOK, TypeOK

Places == <<ready, delayed, active, inflight, on>>

LEMMA PlaceKept ==
    ASSUME Calm, UNCHANGED Places
    PROVE  \A c \in Batches : OnePlace(c)'
BY DEF Calm, OnePlace, Places

LEMMA PlaceEnqueue ==
    ASSUME Calm, NEW b \in Batches, Enqueue(b), UNCHANGED on
    PROVE  \A c \in Batches : OnePlace(c)'
<1> SUFFICES ASSUME NEW c \in Batches
             PROVE  OnePlace(c)'
  OBVIOUS
<1>1. /\ delayed' = delayed /\ active' = active /\ inflight' = inflight \union {b}
      /\ c # b => ready'[c] = ready[c]
      /\ ready'[b] = IF b \in inflight THEN ready[b] ELSE ready[b] + 1
  BY EnqueueFacts, CoreFacts DEF Calm
<1>2. OnePlace(c) /\ OnePlace(b) /\ ready[b] \in Nat
  BY PlaceTypes DEF Calm
<1>3. CASE c = b /\ b \notin inflight
  <2>1. ready[b] = 0 /\ b \notin delayed /\ b \notin active
    BY <1>2, <1>3 DEF OnePlace
  <2> QED
    BY <1>1, <1>2, <1>3, <2>1 DEF OnePlace
<1>4. CASE c # b \/ b \in inflight
  BY <1>1, <1>2, <1>4 DEF OnePlace
<1> QED
  BY <1>3, <1>4

LEMMA PlaceReserve ==
    ASSUME Calm, NEW w \in Workers, NEW b \in Batches, WorkReserve(w, b)
    PROVE  \A c \in Batches : OnePlace(c)'
<1> SUFFICES ASSUME NEW c \in Batches
             PROVE  OnePlace(c)'
  OBVIOUS
<1>1. /\ ready[b] > 0 /\ ready' = [ready EXCEPT ![b] = ready[b] - 1] /\ active' = active \union {b}
      /\ delayed' = delayed /\ inflight' = inflight /\ on' = [on EXCEPT ![w] = b] /\ pc[w] = "idle"
  BY CalmFacts DEF WorkReserve, ReserveNext, At
<1>2. OnePlace(c) /\ OnePlace(b)
  BY DEF Calm
<1>3. on[w] = Nil /\ Nil \notin Batches
  BY <1>1, CalmFacts, CoreFacts, Constants
<1>4. ready[b] = 1 /\ b \in inflight /\ b \notin delayed /\ b \notin active /\ \A v \in Workers : on[v] # b
  BY <1>1, <1>2, PlaceTypes DEF OnePlace
<1>5. on'[w] = b /\ \A v \in Workers \ {w} : on'[v] = on[v]
  BY <1>1, PlaceTypes
<1>6. CASE c = b
  <2>1. ready'[b] = 0
    BY <1>1, <1>4, PlaceTypes
  <2> QED
    BY <1>1, <1>2, <1>4, <1>5, <1>6, <2>1 DEF OnePlace
<1>7. CASE c # b
  <2>1. ready'[c] = ready[c] /\ (c \in active' <=> c \in active)
    BY <1>1, <1>7, PlaceTypes
  <2>2. \A v \in Workers : on'[v] = c <=> on[v] = c
    BY <1>3, <1>5, <1>7
  <2> QED
    BY <1>1, <1>2, <2>1, <2>2 DEF OnePlace
<1> QED
  BY <1>6, <1>7

LEMMA PlaceEnd ==
    ASSUME Calm, NEW w \in Workers, NEW b \in Batches, b = on[w], RequeueAfter(w, b) \/ Ack(w, b),
           on' = [on EXCEPT ![w] = Nil]
    PROVE  \A c \in Batches : OnePlace(c)'
<1> SUFFICES ASSUME NEW c \in Batches
             PROVE  OnePlace(c)'
  OBVIOUS
<1>1. /\ active' = active \ {b} /\ ready' = ready
      /\ \/ delayed' = delayed \union {b} /\ inflight' = inflight
         \/ delayed' = delayed \ {b} /\ inflight' = inflight \ {b}
  BY DEF RequeueAfter, Ack
<1>2. OnePlace(c) /\ OnePlace(b)
  BY DEF Calm
<1>3. b \in active /\ b \in inflight /\ ready[b] # 1 /\ \A v \in Workers \ {w} : on[v] # b
  BY <1>2 DEF OnePlace
<1>4. on'[w] = Nil /\ Nil # b /\ Nil # c /\ \A v \in Workers \ {w} : on'[v] = on[v]
  BY PlaceTypes, Constants
<1>5. CASE c = b
  <2>1. \A v \in Workers : on'[v] # b
    BY <1>3, <1>4
  <2> QED
    BY <1>1, <1>2, <1>3, <1>5, <2>1 DEF OnePlace
<1>6. CASE c # b
  <2>1. \A v \in Workers : on'[v] = c <=> on[v] = c
    BY <1>4, <1>6
  <2> QED
    BY <1>1, <1>2, <1>6, <2>1 DEF OnePlace
<1> QED
  BY <1>5, <1>6

LEMMA PlaceMoveDue ==
    ASSUME Calm, NEW b \in Batches, MoveDueDelayedToReady(b), UNCHANGED on
    PROVE  \A c \in Batches : OnePlace(c)'
<1> SUFFICES ASSUME NEW c \in Batches
             PROVE  OnePlace(c)'
  OBVIOUS
<1>1. /\ b \in delayed /\ delayed' = delayed \ {b} /\ ready' = [ready EXCEPT ![b] = ready[b] + 1]
      /\ active' = active /\ inflight' = inflight
  BY DEF MoveDueDelayedToReady, Pushed
<1>2. OnePlace(c) /\ OnePlace(b)
  BY DEF Calm
<1>3. ready[b] = 0 /\ b \in inflight /\ b \notin active
  BY <1>1, <1>2, PlaceTypes DEF OnePlace
<1>4. ready'[b] = 1 /\ (c # b => ready'[c] = ready[c])
  BY <1>1, <1>3, PlaceTypes
<1>5. CASE c = b
  BY <1>1, <1>2, <1>3, <1>4, <1>5 DEF OnePlace
<1>6. CASE c # b
  BY <1>1, <1>2, <1>4, <1>6 DEF OnePlace
<1> QED
  BY <1>5, <1>6

(* A job whose worker lives is not taken from it. *)
LEMMA NotRecovered ==
    ASSUME Calm, NEW b \in Batches
    PROVE  ~RecoverActive(b)
BY CalmFacts DEF RecoverActive, RecoverStaleActive, OnePlace

-----------------------------------------------------------------------------
(* Without failures: the money of a job that ended. *)

(* A step writes the row of b, or makes one billing request for b. *)
Effect(b) ==
    \/ UNCHANGED ledger /\ \A c \in Batches \ {b} : job'[c] = job[c]
    \/ UNCHANGED job /\ ReleaseOK(b) /\ Release(b)
    \/ UNCHANGED job /\ \E n \in Nat : CaptureOK(b, n) /\ Capture(b, n)

LEMMA EffectFacts ==
    ASSUME Core, NEW b \in Batches, Effect(b)
    PROVE  /\ OthersSame(b) /\ (Held(b)' <=> Held(b)) /\ (Released(b) => Released(b)')
           /\ UNCHANGED job => Status(b)' = Status(b)
<1>1. CASE UNCHANGED ledger /\ \A c \in Batches \ {b} : job'[c] = job[c]
  BY <1>1, NoEffect, CoreFacts DEF OthersSame, SameMoney, Status
<1>2. CASE UNCHANGED job /\ ReleaseOK(b) /\ Release(b)
  BY <1>2, ReleaseEffect, CoreFacts
<1>3. CASE UNCHANGED job /\ \E n \in Nat : CaptureOK(b, n) /\ Capture(b, n)
  BY <1>3, CaptureEffect, CoreFacts
<1> QED
  BY <1>1, <1>2, <1>3 DEF Effect

SubmitOwes == {"items", "upload", "unfreeze", "unfreezeQuiet", "failedShown", "enqueue"}
RefundOwes == {"refund", "retry"}

(* The job is not the step's. *)
LEMMA DebtKept ==
    ASSUME NEW c \in Batches, DebtOk(c), Status(c)' = Status(c), Held(c)' <=> Held(c), Released(c) => Released(c)',
           pc'[<<"submit", c>>] = pc[<<"submit", c>>],
           pc[<<"cancel", c>>] \in RefundOwes => pc'[<<"cancel", c>>] \in RefundOwes,
           pc[<<"sweep", c>>] \in RefundOwes => pc'[<<"sweep", c>>] \in RefundOwes,
           c \in inflight => c \in inflight'
    PROVE  DebtOk(c)'
BY DEF DebtOk, Owed, RefundOwes

LEMMA DebtOfOthers ==
    ASSUME Calm, NEW b \in Batches, NEW p \in Procs, NEW l, Goto(p, l), OthersSame(b),
           p \in Workers \union {<<"submit", b>>, <<"cancel", b>>, <<"sweep", b>>},
           \A c \in Batches \ {b} : c \in inflight => c \in inflight'
    PROVE  \A c \in Batches \ {b} : DebtOk(c)'
<1> SUFFICES ASSUME NEW c \in Batches \ {b}
             PROVE  DebtOk(c)'
  OBVIOUS
<1>1. \A q \in Procs \ {p} : pc'[q] = pc[q]
  BY Moved, CalmFacts, CoreFacts
<1>2. /\ <<"submit", c>> \in Procs \ {p} /\ <<"cancel", c>> \in Procs \ {p} /\ <<"sweep", c>> \in Procs \ {p}
  BY ClientIds
<1>3. Status(c)' = Status(c) /\ (Held(c)' <=> Held(c)) /\ (Released(c)' <=> Released(c))
  BY SameFacts DEF OthersSame, SameMoney
<1>4. DebtOk(c)
  BY DEF Calm
<1> QED
  BY <1>1, <1>2, <1>3, <1>4, DebtKept

(* What a submission must see to when it moves on. *)
LEMMA SubmitDebt ==
    ASSUME Calm, NEW b \in Batches, NEW l, Goto(<<"submit", b>>, l),
           l = "failed" => ~Held(b)' \/ Released(b)',
           \/ l \in SubmitOwes
           \/ Status(b)' \notin Ended
           \/ Released(b)'
           \/ ~Held(b)'
           \/ b \in inflight'
           \/ /\ pc[<<"submit", b>>] \notin SubmitOwes
              /\ Status(b)' = Status(b) /\ (Held(b)' <=> Held(b)) /\ (Released(b) => Released(b)')
              /\ b \in inflight => b \in inflight'
    PROVE  DebtOk(b)'
<1>1. pc'[<<"submit", b>>] = l /\ pc'[<<"cancel", b>>] = pc[<<"cancel", b>>] /\ pc'[<<"sweep", b>>] = pc[<<"sweep", b>>]
  <2>1. \A q \in Procs \ {<<"submit", b>>} : pc'[q] = pc[q]
    BY Moved, CalmFacts, CoreFacts, ClientIds
  <2>2. pc'[<<"submit", b>>] = l
    BY Moved, CalmFacts, CoreFacts, ClientIds
  <2> QED
    BY <2>1, <2>2, ClientIds
<1>2. DebtOk(b)
  BY DEF Calm
<1> QED
  BY <1>1, <1>2 DEF DebtOk, Owed, SubmitOwes

LEMMA RefunderDebt ==
    ASSUME Calm, NEW b \in Batches, NEW p \in {<<"cancel", b>>, <<"sweep", b>>}, NEW l, Goto(p, l),
           Held(b)' <=> Held(b), Released(b) => Released(b)',
           \/ l \in RefundOwes
           \/ Released(b)'
           \/ b \in inflight'
           \/ pc[p] \notin RefundOwes /\ Status(b)' = Status(b) /\ (b \in inflight => b \in inflight')
    PROVE  DebtOk(b)'
<1>1. pc'[p] = l /\ p \in Procs /\ \A q \in Procs \ {p} : pc'[q] = pc[q]
  BY ZenonT(40), Moved, CalmFacts, CoreFacts, ClientIds
<1>2. <<"submit", b>> \in Procs \ {p} /\ <<"cancel", b>> \in Procs /\ <<"sweep", b>> \in Procs
  BY ClientIds
<1>3. pc'[<<"submit", b>>] = pc[<<"submit", b>>]
  BY <1>1, <1>2
<1>4. DebtOk(b)
  BY DEF Calm
<1>5. CASE p = <<"cancel", b>>
  <2>1. pc'[<<"sweep", b>>] = pc[<<"sweep", b>>]
    BY <1>1, <1>2, <1>5
  <2> QED
    BY <1>1, <1>3, <1>4, <1>5, <2>1 DEF DebtOk, Owed, RefundOwes
<1>6. CASE p = <<"sweep", b>>
  <2>1. pc'[<<"cancel", b>>] = pc[<<"cancel", b>>]
    BY <1>1, <1>2, <1>6
  <2> QED
    BY <1>1, <1>3, <1>4, <1>6, <2>1 DEF DebtOk, Owed, RefundOwes
<1> QED
  BY <1>5, <1>6

(* A client's step of one job, and the queue. *)
LEMMA ClientQueue ==
    ASSUME Calm, NEW b \in Batches, NEW p, ClientFrame(b, p)
    PROVE  /\ \A c \in Batches : OnePlace(c)' /\ (c \in inflight => c \in inflight')
           /\ UNCHANGED faults
<1>1. UNCHANGED on /\ Counted /\ (UNCHANGED queue \/ Enqueue(b))
  BY DEF ClientFrame
<1>2. CASE UNCHANGED queue
  <2>1. UNCHANGED Places
    BY <1>1, <1>2 DEF queue, Places
  <2> QED
    BY <1>1, <2>1, PlaceKept, CalmFacts DEF Places
<1>3. CASE Enqueue(b)
  BY <1>1, <1>3, PlaceEnqueue, CalmFacts DEF Enqueue
<1> QED
  BY <1>1, <1>2, <1>3

Debts == \A c \in Batches : OnePlace(c) /\ DebtOk(c)

(* The client's steps leave the others' debts alone. *)
LEMMA ClientDebts ==
    ASSUME Calm, NEW b \in Batches, NEW p \in {<<"submit", b>>, <<"cancel", b>>, <<"sweep", b>>}, ClientFrame(b, p),
           OthersSame(b), DebtOk(b)'
    PROVE  Debts'
<1>1. PICK l : Goto(p, l)
  BY DEF ClientFrame
<1>2. p \in Procs /\ p \in Workers \union {<<"submit", b>>, <<"cancel", b>>, <<"sweep", b>>}
  BY ClientIds
<1>3. \A c \in Batches : OnePlace(c)' /\ (c \in inflight => c \in inflight')
  BY ClientQueue
<1>4. \A c \in Batches \ {b} : DebtOk(c)'
  BY <1>1, <1>2, <1>3, DebtOfOthers
<1> QED
  BY <1>3, <1>4 DEF Debts

LEMMA SubmitStartsDebts ==
    ASSUME Calm, NEW b \in Batches, SubmitCreate(b) \/ SubmitReserve(b)
    PROVE  Debts'
<1>0. ClientFrame(b, <<"submit", b>>)
  BY SubmitFrame DEF Submit
<1>1. UNCHANGED faults /\ Core
  BY <1>0, ClientQueue, CalmFacts
<1>2. CASE SubmitCreate(b)
  <2>1. Goto(<<"submit", b>>, "reserve") /\ CreateJob(b) /\ UNCHANGED ledger
    BY <1>2, CalmFacts DEF SubmitCreate, JobCall, Answered, Refused
  <2>2. Wrote(b, "created")
    BY <1>1, <2>1, StatusWritten, CoreFacts DEF CreateJob, Statuses, Unsubmitted
  <2>3. OthersSame(b) /\ Status(b)' \notin Ended
    BY <1>1, <2>1, <2>2, WroteEffect, CoreFacts DEF Ended
  <2>4. DebtOk(b)'
    BY <2>1, <2>3, SubmitDebt
  <2> QED
    BY <1>0, <2>3, <2>4, ClientDebts
<1>3. CASE SubmitReserve(b)
  <2>1. /\ UNCHANGED job
        /\ \/ Goto(<<"submit", b>>, "items") /\ Reserve(b)
           \/ Goto(<<"submit", b>>, "failed") /\ ~ReserveOK(b) /\ UNCHANGED ledger
    BY <1>3, CalmFacts DEF SubmitReserve, LedgerCall, Answered, Refused, state, ledger
  <2>2. CASE Goto(<<"submit", b>>, "items") /\ Reserve(b)
    <3>1. OthersSame(b)
      BY <1>1, <2>1, <2>2, ReserveEffect, CoreFacts
    <3>2. DebtOk(b)'
      BY <2>2, SubmitDebt DEF SubmitOwes
    <3> QED
      BY <1>0, <3>1, <3>2, ClientDebts
  <2>3. CASE Goto(<<"submit", b>>, "failed") /\ ~ReserveOK(b) /\ UNCHANGED ledger
    <3>1. ~Held(b)
      <4>1. <<"hold", b>> \in Requests /\ ~Claimed(<<"hold", b>>) /\ LedgerInv
        BY <1>1, <2>3, HolderRequests, CoreFacts DEF ReserveOK
      <4>2. moved[<<"hold", b>>] = 0
        BY <4>1 DEF LedgerInv
      <4> QED
        BY <4>2 DEF Held
    <3>2. OthersSame(b) /\ ~Held(b)'
      BY <1>1, <2>1, <2>3, <3>1, JobKept DEF SameMoney
    <3>3. DebtOk(b)'
      BY <2>3, <3>2, SubmitDebt
    <3> QED
      BY <1>0, <3>2, <3>3, ClientDebts
  <2> QED
    BY <2>1, <2>2, <2>3
<1> QED
  BY <1>2, <1>3

LEMMA SubmitReadsDebts ==
    ASSUME Calm, NEW b \in Batches, SubmitItems(b) \/ SubmitProvider(b) \/ SubmitAbort(b) \/ SubmitEnqueue(b)
    PROVE  Debts'
<1>0. ClientFrame(b, <<"submit", b>>)
  BY SubmitFrame DEF Submit
<1>1. UNCHANGED faults /\ Core /\ \A c \in Batches : c \in inflight => c \in inflight'
  BY <1>0, ClientQueue, CalmFacts
<1>2. PICK l \in {"upload", "unfreeze", "name", "over"} :
        /\ Goto(<<"submit", b>>, l) /\ UNCHANGED job /\ UNCHANGED ledger
        /\ l \in {"upload", "unfreeze"} \/ pc[<<"submit", b>>] \in {"submit", "abort"} \/ b \in inflight'
  BY CalmFacts DEF SubmitItems, SubmitProvider, SubmitAbort, SubmitEnqueue, At, Decide, Refused, EnqueueCall, Enqueue,
                   Env, state, ledger
<1>3. OthersSame(b) /\ Status(b)' = Status(b) /\ SameMoney(b)
  BY <1>1, <1>2, JobKept
<1>4. DebtOk(b)'
  <2>1. (Held(b)' <=> Held(b)) /\ (Released(b) => Released(b)') /\ (b \in inflight => b \in inflight') /\ l # "failed"
    BY <1>1, <1>2, <1>3 DEF SameMoney
  <2>2. l \in SubmitOwes \/ pc[<<"submit", b>>] \notin SubmitOwes \/ b \in inflight'
    BY <1>2 DEF SubmitOwes
  <2> QED
    BY <1>2, <1>3, <2>1, <2>2, SubmitDebt
<1> QED
  BY <1>0, <1>3, <1>4, ClientDebts

LEMMA SubmitCallsDebts ==
    ASSUME Calm, NEW b \in Batches, SubmitUpload(b) \/ SubmitName(b)
    PROVE  Debts'
<1>0. ClientFrame(b, <<"submit", b>>)
  BY SubmitFrame DEF Submit
<1>1. UNCHANGED faults /\ Core /\ \A c \in Batches : c \in inflight => c \in inflight'
  BY <1>0, ClientQueue, CalmFacts
<1>2. PICK l \in {"submit", "unfreezeQuiet", "enqueue", "abort"} :
        /\ Goto(<<"submit", b>>, l) /\ UNCHANGED ledger
        /\ \/ Transition(b, "uploading") \/ ProviderSubmit(b)
           \/ UNCHANGED job /\ (l = "unfreezeQuiet" \/ pc[<<"submit", b>>] = "name")
  BY CalmFacts DEF SubmitUpload, SubmitName, TransitionCall, JobCall, Answered, Refused, At, Decide, state, ledger
<1>3. CASE Transition(b, "uploading") \/ ProviderSubmit(b)
  <2>1. PICK st \in {"uploading", "submitted"} : Wrote(b, st)
    <3>1. CASE Transition(b, "uploading")
      BY <1>1, <3>1, StatusWritten, CoreFacts DEF Transition, Statuses, Unsubmitted
    <3>2. CASE ProviderSubmit(b)
      BY <1>1, <3>2, StatusWritten, CoreFacts DEF ProviderSubmit, Statuses
    <3> QED
      BY <1>3, <3>1, <3>2
  <2>2. OthersSame(b) /\ Status(b)' \notin Ended
    BY <1>1, <1>2, <2>1, WroteEffect, CoreFacts DEF Ended
  <2>3. DebtOk(b)'
    BY <1>2, <2>2, SubmitDebt
  <2> QED
    BY <1>0, <2>2, <2>3, ClientDebts
<1>4. CASE UNCHANGED job /\ (l = "unfreezeQuiet" \/ pc[<<"submit", b>>] = "name")
  <2>1. OthersSame(b) /\ Status(b)' = Status(b) /\ SameMoney(b)
    BY <1>1, <1>2, <1>4, JobKept
  <2>2. (Held(b)' <=> Held(b)) /\ (Released(b) => Released(b)') /\ (b \in inflight => b \in inflight') /\ l # "failed"
    BY <1>1, <1>2, <2>1 DEF SameMoney
  <2>3. l \in SubmitOwes \/ pc[<<"submit", b>>] \notin SubmitOwes
    BY <1>4 DEF SubmitOwes
  <2>4. DebtOk(b)'
    BY <1>2, <2>1, <2>2, <2>3, SubmitDebt
  <2> QED
    BY <1>0, <2>1, <2>4, ClientDebts
<1> QED
  BY <1>2, <1>3, <1>4

LEMMA SubmitGivesUpDebts ==
    ASSUME Calm, NEW b \in Batches, SubmitUnfreeze(b) \/ SubmitFail(b)
    PROVE  Debts'
<1>0. ClientFrame(b, <<"submit", b>>)
  BY SubmitFrame DEF Submit
<1>1. UNCHANGED faults /\ Core
  BY <1>0, ClientQueue, CalmFacts
<1>2. CASE SubmitUnfreeze(b)
  <2>1. PICK l \in {"failed", "over", "failedShown"} :
          /\ Goto(<<"submit", b>>, l) /\ UNCHANGED job
          /\ (ReleaseOK(b) /\ Release(b)) \/ (UNCHANGED ledger /\ l = "failedShown")
    BY <1>2, CalmFacts DEF SubmitUnfreeze, ReleaseCall, LedgerCall, Answered, Refused, state, ledger
  <2>2. CASE ReleaseOK(b) /\ Release(b)
    <3>1. OthersSame(b) /\ Released(b)'
      BY <1>1, <2>1, <2>2, ReleaseEffect, CoreFacts
    <3>2. DebtOk(b)'
      BY <2>1, <3>1, SubmitDebt
    <3> QED
      BY <1>0, <3>1, <3>2, ClientDebts
  <2>3. CASE UNCHANGED ledger /\ l = "failedShown"
    <3>1. OthersSame(b)
      BY <1>1, <2>1, <2>3, JobKept
    <3>2. DebtOk(b)'
      BY <2>1, <2>3, SubmitDebt DEF SubmitOwes
    <3> QED
      BY <1>0, <3>1, <3>2, ClientDebts
  <2> QED
    BY <2>1, <2>2, <2>3
<1>3. CASE SubmitFail(b)
  <2>1. PICK l \in {"over", "enqueue"} :
          /\ Goto(<<"submit", b>>, l) /\ UNCHANGED ledger /\ \E hide \in BOOLEAN : SubmitFailure(b, hide)
          /\ l = "over" => pc[<<"submit", b>>] = "failed"
    BY <1>3, CalmFacts DEF SubmitFail, JobCall, Answered, Refused, At
  <2>2. Wrote(b, "failed")
    BY <1>1, <2>1, StatusWritten, CoreFacts DEF SubmitFailure, Statuses, Terminal
  <2>3. OthersSame(b) /\ (Held(b)' <=> Held(b)) /\ (Released(b)' <=> Released(b))
    BY <1>1, <2>1, <2>2, WroteEffect, CoreFacts DEF SameMoney
  <2>4. l = "over" => ~Held(b)' \/ Released(b)'
    BY <2>1, <2>3 DEF Calm, DebtOk
  <2>5. DebtOk(b)'
    BY <2>1, <2>4, SubmitDebt DEF SubmitOwes
  <2> QED
    BY <1>0, <2>3, <2>5, ClientDebts
<1> QED
  BY <1>2, <1>3

LEMMA CancelDebts ==
    ASSUME Calm, NEW b \in Batches,
           Cancel(b) \/ CancelTransition(b) \/ CancelRefund(b) \/ CancelProvider(b) \/ CancelEnqueue(b)
    PROVE  Debts'
<1> DEFINE p == <<"cancel", b>>
<1>0. ClientFrame(b, p)
  BY CancelFrame
<1>1. UNCHANGED faults /\ Core /\ \A c \in Batches : c \in inflight => c \in inflight'
  BY <1>0, ClientQueue, CalmFacts
<1>2. PICK l : /\ Goto(p, l)
               /\ \/ Transition(b, "cancelled") /\ UNCHANGED ledger
                  \/ ReleaseOK(b) /\ Release(b) /\ UNCHANGED job
                  \/ UNCHANGED job /\ UNCHANGED ledger
               /\ \/ l \in RefundOwes
                  \/ ReleaseOK(b) /\ Release(b)
                  \/ b \in inflight'
                  \/ pc[p] \notin RefundOwes /\ UNCHANGED job
  <2> USE DEF RefundOwes, At
  <2>1. CASE Cancel(b) \/ CancelProvider(b)
    BY <2>1 DEF Cancel, CancelProvider, Decide, state, ledger
  <2>2. CASE CancelTransition(b)
    BY <2>2, CalmFacts DEF CancelTransition, TransitionCall, JobCall, Answered, Refused, state, ledger
  <2>3. CASE CancelRefund(b)
    BY <2>3, CalmFacts DEF CancelRefund, ReleaseCall, LedgerCall, Answered, Refused, state, ledger
  <2>4. CASE CancelEnqueue(b)
    BY <2>4, CalmFacts DEF CancelEnqueue, EnqueueCall, Enqueue, Refused, state, ledger
  <2> QED
    BY <2>1, <2>2, <2>3, <2>4
<1>3. Effect(b)
  <2>1. job \in [Batches -> JobType]
    BY <1>1, CoreFacts, JobFacts
  <2> QED
    BY <1>2, <2>1 DEF Effect, Transition
<1>4. OthersSame(b) /\ (Held(b)' <=> Held(b)) /\ (Released(b) => Released(b)') /\ (UNCHANGED job => Status(b)' = Status(b))
  BY <1>1, <1>3, EffectFacts
<1>5. ReleaseOK(b) /\ Release(b) => Released(b)'
  BY <1>1, ReleaseFacts, CoreFacts
<1>6. DebtOk(b)'
  BY <1>1, <1>2, <1>4, <1>5, RefunderDebt
<1> QED
  BY <1>0, <1>4, <1>6, ClientDebts

LEMMA SweepDebts ==
    ASSUME Calm, NEW b \in Batches, Sweep(b)
    PROVE  Debts'
<1> DEFINE p == <<"sweep", b>>
<1>0. ClientFrame(b, p)
  BY SweepFrame
<1>1. UNCHANGED faults /\ Core /\ \A c \in Batches : c \in inflight => c \in inflight'
  BY <1>0, ClientQueue, CalmFacts
<1>2. PICK l : /\ Goto(p, l)
               /\ \/ FailStale(b) /\ UNCHANGED ledger
                  \/ ReleaseOK(b) /\ Release(b) /\ UNCHANGED job
                  \/ UNCHANGED job /\ UNCHANGED ledger
               /\ l \in RefundOwes \/ (ReleaseOK(b) /\ Release(b)) \/ b \in inflight'
  <2> USE DEF RefundOwes, At
  <2>1. CASE SweepFail(b)
    BY <2>1, CalmFacts DEF SweepFail, JobCall, Answered, Refused, state, ledger
  <2>2. CASE SweepRefund(b)
    BY <2>2, CalmFacts DEF SweepRefund, ReleaseCall, LedgerCall, Answered, Refused, state, ledger
  <2>3. CASE SweepEnqueue(b)
    BY <2>3, CalmFacts DEF SweepEnqueue, EnqueueCall, Enqueue, Refused, state, ledger
  <2> QED
    BY <2>1, <2>2, <2>3 DEF Sweep
<1>3. Effect(b)
  <2>1. job \in [Batches -> JobType]
    BY <1>1, CoreFacts, JobFacts
  <2> QED
    BY <1>2, <2>1 DEF Effect, FailStale
<1>4. OthersSame(b) /\ (Held(b)' <=> Held(b)) /\ (Released(b) => Released(b)')
  BY <1>1, <1>3, EffectFacts
<1>5. ReleaseOK(b) /\ Release(b) => Released(b)'
  BY <1>1, ReleaseFacts, CoreFacts
<1>6. DebtOk(b)'
  BY <1>1, <1>2, <1>4, <1>5, RefunderDebt
<1> QED
  BY <1>0, <1>4, <1>6, ClientDebts

(* A worker's job is in flight, so its debt is safe until it is            *)
(* acknowledged.                                                           *)
LEMMA WorkerDebts ==
    ASSUME Calm, NEW w \in Workers, NEW b \in Batches, b = on[w], NEW l, Goto(w, l), Effect(b),
           \A c \in Batches : OnePlace(c)', \A c \in Batches \ {b} : c \in inflight => c \in inflight',
           b \in inflight' \/ ((Released(b) \/ Status(b) = "completed") /\ UNCHANGED job)
    PROVE  Debts'
<1>1. Core /\ w \in Procs /\ \A c \in Batches : DebtOk(c)
  BY CalmFacts, WorkerIds
<1>2. OthersSame(b) /\ (Held(b)' <=> Held(b)) /\ (Released(b) => Released(b)') /\ (UNCHANGED job => Status(b)' = Status(b))
  BY <1>1, EffectFacts
<1>3. \A c \in Batches \ {b} : DebtOk(c)'
  BY <1>1, <1>2, DebtOfOthers
<1>4. pc'[<<"submit", b>>] = pc[<<"submit", b>>]
  BY <1>1, Moved, CoreFacts, ClientIds
<1>5. DebtOk(b)'
  BY <1>1, <1>2, <1>4 DEF DebtOk, Owed, Ended
<1> QED
  BY <1>3, <1>5 DEF Debts

LEMMA WorkFrameDebts ==
    ASSUME Calm, NEW w \in Workers, WorkFrame(w), NEW b \in Batches, b = on[w], Effect(b)
    PROVE  Debts'
<1>1. PICK l : Goto(w, l)
  BY DEF WorkFrame
<1>2. Core /\ pc[w] # "idle" /\ UNCHANGED queue /\ UNCHANGED Places
  BY CalmFacts DEF WorkFrame, queue, Places
<1>3. b \in inflight /\ inflight' = inflight
  BY <1>2 DEF Calm, OnePlace, queue
<1>4. \A c \in Batches : OnePlace(c)'
  BY <1>2, PlaceKept
<1>5. b \in inflight' /\ \A c \in Batches \ {b} : c \in inflight => c \in inflight'
  BY <1>3
<1> QED
  BY <1>1, <1>4, <1>5, WorkerDebts

LEMMA WorkDebts ==
    ASSUME Calm, NEW w \in Workers,
           \/ WorkPipeline(w) \/ WorkProcess(w) \/ WorkTransition(w) \/ WorkIndex(w) \/ WorkRefund(w) \/ WorkSettle(w)
           \/ WorkCapture(w) \/ WorkMark(w) \/ WorkRecord(w) \/ WorkExhaust(w) \/ WorkReread(w)
    PROVE  Debts'
<1>1. Core /\ WorkFrame(w)
  BY CalmFacts, WorkerFrame
<1>2. PICK b \in Batches : b = on[w]
  BY <1>1, AtWork DEF WorkFrame
<1>3. /\ job \in [Batches -> JobType] /\ job[b].cost \in Nat
  BY <1>1, CoreFacts, JobFacts
<1>4. Effect(b)
  <2>1. CASE WorkPipeline(w) \/ WorkProcess(w) \/ WorkSettle(w) \/ WorkReread(w)
    <3>1. UNCHANGED job /\ UNCHANGED ledger
      BY <2>1 DEF WorkPipeline, WorkProcess, WorkSettle, WorkReread, Refused, Decide, state, ledger
    <3> QED
      BY <3>1 DEF Effect
  <2>2. CASE WorkTransition(w)
    <3>1. UNCHANGED ledger /\ (UNCHANGED job \/ \E st \in Statuses : Transition(b, st))
      BY <1>2, <2>2 DEF WorkTransition, TransitionCall, JobCall, Refused, state, ledger, Statuses, Terminal
    <3> QED
      BY <1>3, <3>1 DEF Effect, Transition
  <2>3. CASE WorkIndex(w)
    <3>1. UNCHANGED ledger /\ (UNCHANGED job \/ ReplaceItems(b, output[b]))
      BY <1>2, <2>3 DEF WorkIndex, Refused, Decide, state, ledger
    <3> QED
      BY <1>3, <3>1 DEF Effect, ReplaceItems
  <2>4. CASE WorkRefund(w)
    <3>1. UNCHANGED job /\ ((ReleaseOK(b) /\ Release(b)) \/ UNCHANGED ledger)
      BY <1>2, <2>4 DEF WorkRefund, ReleaseCall, LedgerCall, Refused, state, ledger
    <3> QED
      BY <3>1 DEF Effect
  <2>5. CASE WorkCapture(w)
    <3>1. UNCHANGED job /\ ((CaptureOK(b, job[b].cost) /\ Capture(b, job[b].cost)) \/ UNCHANGED ledger)
      BY <1>2, <2>5 DEF WorkCapture, LedgerCall, Refused, state, ledger
    <3> QED
      BY <1>3, <3>1 DEF Effect
  <2>6. CASE WorkMark(w) \/ WorkRecord(w)
    <3>1. UNCHANGED ledger /\ (UNCHANGED job \/ MarkSettled(b) \/ SettlementFailed(b))
      BY <1>2, <2>6 DEF WorkMark, WorkRecord, JobCall, Refused, state, ledger
    <3> QED
      BY <1>3, <3>1 DEF Effect, MarkSettled, SettlementFailed
  <2>7. CASE WorkExhaust(w)
    <3>1. \/ UNCHANGED job /\ ((ReleaseOK(b) /\ Release(b)) \/ UNCHANGED ledger)
          \/ UNCHANGED ledger /\ Transition(b, "failed")
      BY <1>2, <2>7 DEF WorkExhaust, ReleaseCall, LedgerCall, TransitionCall, JobCall, Refused, state, ledger
    <3> QED
      BY <1>3, <3>1 DEF Effect, Transition
  <2> QED
    BY <2>1, <2>2, <2>3, <2>4, <2>5, <2>6, <2>7
<1> QED
  BY <1>1, <1>2, <1>4, WorkFrameDebts

LEMMA WorkTurnDebts ==
    ASSUME Calm, NEW w \in Workers, WorkLock(w) \/ WorkEnd(w)
    PROVE  Debts'
<1>1. Core /\ pc[w] \in {"lock", "requeue", "ack"}
  BY CalmFacts DEF WorkLock, WorkEnd, At
<1>2. PICK b \in Batches : b = on[w] /\ WorkOk(pc[w], b)
  BY <1>1, AtWork
<1>3. PICK l : Goto(w, l) /\ UNCHANGED job /\ UNCHANGED ledger
  BY DEF WorkLock, WorkEnd, Refused, state, ledger
<1>4. Effect(b) /\ b \in inflight
  BY <1>2, <1>3 DEF Effect, Calm, OnePlace
<1>5. CASE WorkLock(w)
  <2>1. UNCHANGED Places
    BY <1>5 DEF WorkLock, TryAcquireJobLock, Refused, Env, state, Places
  <2>2. (\A c \in Batches : OnePlace(c)') /\ inflight' = inflight
    BY <2>1, PlaceKept DEF Places
  <2> QED
    BY <1>2, <1>3, <1>4, <2>2, WorkerDebts
<1>6. CASE WorkEnd(w)
  <2>1. /\ on' = [on EXCEPT ![w] = Nil]
        /\ RequeueAfter(w, b) \/ (Ack(w, b) /\ pc[w] = "ack")
    BY <1>2, <1>6, CalmFacts DEF WorkEnd, At
  <2>2. \A c \in Batches : OnePlace(c)'
    BY <1>2, <2>1, PlaceEnd
  <2>3. /\ \A c \in Batches \ {b} : c \in inflight => c \in inflight'
        /\ b \in inflight' \/ pc[w] = "ack"
    BY <1>4, <2>1 DEF RequeueAfter, Ack
  <2>4. pc[w] = "ack" => Released(b) \/ Status(b) = "completed"
    BY <1>2, CalmFacts DEF WorkOk, AloneOk
  <2> QED
    BY <1>2, <1>3, <1>4, <2>2, <2>3, <2>4, WorkerDebts
<1> QED
  BY <1>5, <1>6

LEMMA ReserveDebts ==
    ASSUME Calm, NEW w \in Workers, NEW b \in Batches, WorkReserve(w, b)
    PROVE  Debts'
<1>1. Goto(w, "lock") /\ UNCHANGED job /\ UNCHANGED ledger /\ inflight' = inflight
  BY CalmFacts DEF WorkReserve, ReserveNext, ledger
<1>2. Core /\ w \in Procs
  BY CalmFacts, WorkerIds
<1>3. \A c \in Batches : OnePlace(c)'
  BY PlaceReserve
<1>4. ASSUME NEW c \in Batches
      PROVE  DebtOk(c)'
  <2>1. /\ pc'[<<"submit", c>>] = pc[<<"submit", c>>] /\ pc'[<<"cancel", c>>] = pc[<<"cancel", c>>]
        /\ pc'[<<"sweep", c>>] = pc[<<"sweep", c>>]
    BY <1>1, <1>2, Moved, CoreFacts, ClientIds
  <2>2. Status(c)' = Status(c) /\ (Held(c)' <=> Held(c)) /\ (Released(c)' <=> Released(c)) /\ DebtOk(c)
    BY <1>1, <1>2, NothingWritten DEF Alike, SameMoney, Calm
  <2> QED
    BY <1>1, <2>1, <2>2, DebtKept
<1> QED
  BY <1>3, <1>4 DEF Debts

LEMMA OthersDebts ==
    ASSUME Calm,
           \/ \E b \in Batches : \/ Resubmit(b) \/ MoveDue(b) \/ RecoverActive(b) \/ LockLapses(b) \/ ProviderEnds(b)
                                 \/ DeleteRecord(b)
           \/ ArchiveDedup \/ UNCHANGED vars
    PROVE  Debts'
<1>1. Core /\ \A c \in Batches : ~RecoverActive(c)
  BY CalmFacts, NotRecovered
<1>2. /\ UNCHANGED <<pc, on>>
      /\ UNCHANGED Places \/ \E b \in Batches : Enqueue(b) \/ MoveDueDelayedToReady(b)
  BY <1>1 DEF Resubmit, MoveDue, LockLapses, LockExpires, ProviderEnds, DeleteRecord, ArchiveDedup, Env, state, queue,
         vars, Places
<1>3. (\A c \in Batches : OnePlace(c)') /\ \A c \in Batches : c \in inflight => c \in inflight'
  BY <1>2, PlaceKept, PlaceEnqueue, PlaceMoveDue DEF Places, Enqueue, MoveDueDelayedToReady
<1>4. ASSUME NEW c \in Batches
      PROVE  Status(c)' = Status(c) /\ (Held(c)' <=> Held(c)) /\ (Released(c)' <=> Released(c))
  <2>1. CASE UNCHANGED job /\ UNCHANGED ledger
    BY <1>1, <2>1, NothingWritten DEF Alike, SameMoney
  <2>2. CASE \E b \in Batches : DeleteRecord(b)
    <3>1. PICK b \in Batches : UserDelete(b) /\ UNCHANGED ledger
      BY <2>2 DEF DeleteRecord
    <3>2. Wrote(b, Status(b))
      BY <1>1, <3>1, ColumnWritten, CoreFacts DEF UserDelete
    <3>3. OthersSame(b) /\ Status(b)' = Status(b) /\ SameMoney(b)
      BY <1>1, <3>1, <3>2, WroteEffect, CoreFacts
    <3> QED
      BY <3>3, SameFacts DEF SameMoney, OthersSame
  <2>3. CASE ArchiveDedup
    <3>1. job' = job /\ moved' = moved /\ \A q : Claimed(q)' <=> Claimed(q)
      BY <1>1, <2>3, ArchiveFacts, CoreFacts DEF ArchiveDedup
    <3>2. Same(c)
      BY <3>1 DEF Same
    <3> QED
      BY <3>2, SameFacts DEF SameMoney
  <2>4. \/ UNCHANGED job /\ UNCHANGED ledger
        \/ \E b \in Batches : DeleteRecord(b)
        \/ ArchiveDedup
    BY DEF Resubmit, MoveDue, RecoverActive, LockLapses, ProviderEnds, state, ledger, vars
  <2> QED
    BY <2>1, <2>2, <2>3, <2>4
<1>5. ASSUME NEW c \in Batches
      PROVE  DebtOk(c)'
  BY <1>2, <1>3, <1>4, DebtKept DEF Calm
<1> QED
  BY <1>3, <1>5 DEF Debts

(* Every step is a fault or leaves their number alone, and without one     *)
(* nobody falls silent.                                                    *)
LEMMA NextCounted ==
    ASSUME Core, [Next]_vars
    PROVE  Counted
<1>1. ASSUME NEW b \in Batches, JobNext(b)
      PROVE  Counted
  BY <1>1, SubmitFrame, CancelFrame, SweepFrame
     DEF JobNext, ClientFrame, Resubmit, DeleteRecord, MoveDue, RecoverActive, LockLapses, ProviderEnds, Counted
<1>2. ASSUME NEW w \in Workers, Work(w)
      PROVE  Counted
  BY <1>2, WorkerFrame DEF Work, WorkFrame, WorkReserve, WorkLock, Refused, WorkEnd, Counted
<1> QED
  BY <1>1, <1>2 DEF Next, HeartbeatsFail, Crash, ArchiveDedup, vars, Counted

LEMMA NextUndisturbed ==
    ASSUME Core, Undisturbed, [Next]_vars
    PROVE  Undisturbed'
<1> SUFFICES ASSUME faults' = 0
             PROVE  silent' = {} /\ lapsed' = {}
  BY DEF Undisturbed
<1>1. ~Fault /\ ~Faults(HeartbeatCost) /\ silent = {} /\ lapsed = {}
  <2>1. faults \in Nat
    BY CoreFacts, TypeSplit, Constants DEF Control
  <2> QED
    BY <2>1, NextCounted, Constants DEF Undisturbed, Counted, Fault, Faults
<1>2. ASSUME NEW b \in Batches, JobNext(b)
      PROVE  silent' = {} /\ lapsed' = {}
  BY <1>1, <1>2, SubmitFrame, CancelFrame, SweepFrame
     DEF JobNext, ClientFrame, Resubmit, DeleteRecord, MoveDue, RecoverActive, LockLapses, ProviderEnds, Env, hearts
<1>3. ASSUME NEW w \in Workers, Work(w)
      PROVE  silent' = {} /\ lapsed' = {}
  BY <1>1, <1>3, WorkerFrame DEF Work, WorkFrame, WorkReserve, WorkLock, Refused, WorkEnd, Env, hearts
<1> QED
  BY <1>1, <1>2, <1>3 DEF Next, HeartbeatsFail, Crash, ArchiveDedup, Env, vars

LEMMA NextDebt ==
    ASSUME Core, Undisturbed, DebtInv, Control', [Next]_vars
    PROVE  DebtInv'
<1> SUFFICES ASSUME faults' = 0
             PROVE  Debts'
  BY DEF DebtInv, Debts
<1>1. faults \in Nat /\ Counted
  BY NextCounted, CoreFacts, TypeSplit, Constants DEF Control
<1>2. Calm
  BY <1>1, Constants DEF Calm, DebtInv, Counted, Fault, Faults
<1>3. ASSUME NEW b \in Batches, JobNext(b)
      PROVE  Debts'
  <2>1. CASE Submit(b)
    BY <1>2, <2>1, SubmitStartsDebts, SubmitReadsDebts, SubmitCallsDebts, SubmitGivesUpDebts DEF Submit
  <2>2. CASE Cancel(b) \/ CancelTransition(b) \/ CancelRefund(b) \/ CancelProvider(b) \/ CancelEnqueue(b)
    BY <1>2, <2>2, CancelDebts
  <2>3. CASE Sweep(b)
    BY <1>2, <2>3, SweepDebts
  <2> QED
    BY <1>2, <1>3, <2>1, <2>2, <2>3, OthersDebts DEF JobNext
<1>4. ASSUME NEW w \in Workers, Work(w)
      PROVE  Debts'
  BY <1>2, <1>4, ReserveDebts, WorkTurnDebts, WorkDebts DEF Work
<1>5. ~(\E p \in Procs : Crash(p)) /\ ~(\E w \in Workers : HeartbeatsFail(w))
  BY <1>2, CalmFacts DEF Crash, HeartbeatsFail
<1> QED
  BY <1>2, <1>3, <1>4, <1>5, OthersDebts DEF Next

-----------------------------------------------------------------------------
(* The invariant. *)

LEMMA InitInv == Init => BatchInv
<1> SUFFICES ASSUME Init
             PROVE  BatchInv
  OBVIOUS
<1> USE DEF Init
<1>1. JobsTypeOK /\ \A b \in Batches : Status(b) = "none"
  <2>1. job = [b \in Batches |-> NoJob] /\ MaxRetries \in Nat
    BY Constants DEF JobsInit
  <2>2. NoJob.status = "none" /\ NoJob \in JobType
    BY <2>1 DEF NoJob, JobType, Statuses
  <2> QED
    BY <2>1, <2>2 DEF JobsTypeOK, JobType, Status
<1>2. LedgerTypeOK /\ LedgerInv /\ \A r \in Requests : moved[r] = 0 /\ ~Claimed(r)
  <2>1. moved = [r \in Requests |-> 0] /\ Rows = {} /\ dedup = {} /\ archive = {} /\ balance = StartBalance /\ frozen = OtherHolds
    BY DEF LedgerInit, Rows
  <2>2. \A r : ~Claimed(r)
    BY <2>1 DEF Claimed
  <2>3. LedgerTypeOK
    BY <2>1, Constants DEF LedgerTypeOK
  <2> QED
    BY <2>1, <2>2, <2>3, HolderRequests DEF LedgerInv, Held, Captured, Returned
<1>3. QueueTypeOK /\ NeverLost
  BY DEF QueueInit, QueueTypeOK, NeverLost
<1>4. /\ \A b \in Batches : /\ pc[<<"submit", b>>] = "new" /\ pc[<<"cancel", b>>] = "idle"
                            /\ pc[<<"sweep", b>>] = "idle"
      /\ \A w \in Workers : pc[w] = "idle" /\ on[w] = Nil
  <2>1. \A p \in Procs : pc[p] = IF p \in Submitters THEN "new" ELSE "idle"
    OBVIOUS
  <2>2. \A b \in Batches : <<"submit", b>> \in Submitters /\ <<"cancel", b>> \notin Submitters /\ <<"sweep", b>> \notin Submitters
    BY DEF Submitters
  <2>3. \A w \in Workers : w \notin Submitters
    BY ProcessAssumption DEF Submitters
  <2> QED
    BY <2>1, <2>2, <2>3, ClientIds, WorkerIds
<1>5. Control
  <2>1. pc \in [Procs -> Pcs]
    BY DEF Pcs, SubmitPcs, WorkPcs
  <2> QED
    BY <2>1, Constants DEF Control
<1>6. LockInv /\ Undisturbed
  BY <1>4 DEF LockInv, Undisturbed
<1>7. ASSUME NEW b \in Batches
      PROVE  ~Held(b) /\ ~Captured(b) /\ ~Returned(b)
  <2>1. /\ moved[<<"hold", b>>] = 0 /\ moved[<<"capture", b>>] = 0 /\ moved[<<"release", b>>] = 0
    BY <1>2, HolderRequests
  <2> QED
    BY <2>1 DEF Held, Captured, Returned
<1>8. JobInv
  BY <1>1, <1>4, <1>7 DEF JobInv, BatchOk, SubmissionOk, MoneyOk, Later
<1>9. WorkInv
  BY <1>4 DEF WorkInv, WorkOk, KnowsOk, AloneOk
<1>10. DebtInv
  <2>1. \A b \in Batches : ready[b] = 0 /\ b \notin delayed /\ b \notin active /\ b \notin inflight
    BY DEF QueueInit
  <2>2. \A b \in Batches, w \in Workers : on[w] # b
    BY <1>4, Constants
  <2>3. \A b \in Batches : OnePlace(b)
    BY <2>1, <2>2 DEF OnePlace
  <2>4. \A b \in Batches : DebtOk(b)
    BY <1>7 DEF DebtOk
  <2> QED
    BY <2>3, <2>4 DEF DebtInv
<1> QED
  BY <1>1, <1>2, <1>3, <1>5, <1>6, <1>8, <1>9, <1>10, TypeSplit DEF BatchInv

LEMMA NextInv ==
    ASSUME BatchInv, [Next]_vars
    PROVE  BatchInv'
<1>1. Core /\ Undisturbed /\ NeverLost /\ DebtInv
  BY DEF BatchInv, Core
<1>2. Data' /\ JobInv' /\ WorkInv'
  BY <1>1, NextData
<1>3. Control' /\ LockInv' /\ QueueTypeOK' /\ NeverLost'
  BY <1>1, NextControl
<1>4. DebtInv' /\ Undisturbed'
  BY <1>1, <1>3, NextDebt, NextUndisturbed
<1>5. TypeOK' /\ LedgerInv'
  BY <1>2, <1>3, TypeSplitNext DEF Data
<1> QED
  BY <1>2, <1>3, <1>4, <1>5 DEF BatchInv

(* In every reachable state: the job table, the billing rows, the queue    *)
(* and the steps of all processes fit together as BatchInv says            *)
(* (batch_image_public.go, batch_image_worker.go, batch_image_queue.go).   *)
THEOREM Inductive == Spec => []BatchInv
<1>1. BatchInv /\ [Next]_vars => BatchInv'
  BY NextInv
<1> QED
  BY InitInv, <1>1, PTL DEF Spec

(* Every variable keeps its type, whatever the jobs, workers and costs.    *)
THEOREM TypeCorrect == Spec => []TypeOK
<1>1. BatchInv => TypeOK
  BY DEF BatchInv
<1> QED
  BY Inductive, <1>1, PTL

(* A hold, a capture and a release each move money at most once per job,   *)
(* whoever repeats them and whether their rows are archived                *)
(* (claimUsageBillingRequest, CleanupUsageBillingDedup).                   *)
THEOREM MovedAtMostOnce == Spec => []MovedOnce
<1>1. BatchInv => MovedOnce
  BY DEF BatchInv, LedgerInv, MovedOnce
<1> QED
  BY Inductive, <1>1, PTL

(* What is captured or returned for a job was frozen for that job, and a   *)
(* completed job has paid, although captureUsageBillingBatchImageBalance   *)
(* looks only at the pool of frozen money.                                 *)
THEOREM PaidFromOwnHold == Spec => []OwnMoneyOnly
<1>1. BatchInv => OwnMoneyOnly
  BY DEF BatchInv, LedgerInv, JobInv, BatchOk, MoneyOk, OwnMoneyOnly
<1> QED
  BY Inductive, <1>1, PTL

(* A hold is captured or returned, not both, however Cancel, the workers,  *)
(* the sweep and their retries overlap, unless the settlement ran out of   *)
(* retries (failExhaustedSettlement) or the job's lock once lapsed under a *)
(* live worker (runJobHeartbeat).                                          *)
THEOREM OneWay == Spec => []SettledOneWay
<1>1. BatchInv => SettledOneWay
  BY DEF BatchInv, JobInv, BatchOk, MoneyOk, SettledOneWay, Ended
<1> QED
  BY Inductive, <1>1, PTL

(* A job whose in-flight key blocks Enqueue has a place in the queue,      *)
(* whatever crashes and lost calls to Redis (RunOnce, RecoverStaleActive). *)
THEOREM NeverLostInQueue == Spec => []NeverLost
<1>1. BatchInv => NeverLost
  BY DEF BatchInv
<1> QED
  BY Inductive, <1>1, PTL

(* Two workers whose heartbeats arrive are never past the lock of the same *)
(* job, whatever others of the job lost or left (TryAcquireJobLock,        *)
(* runJobHeartbeat).                                                       *)
THEOREM OneWorker == Spec => []OneWorkerPerJob
<1>1. BatchInv => OneWorkerPerJob
  <2> SUFFICES ASSUME BatchInv, NEW w \in Workers \ silent, NEW v \in Workers \ silent, w # v, on[w] # Nil, on[w] = on[v]
               PROVE  pc[w] \in {"lock", "requeue"} \/ pc[v] \in {"lock", "requeue"}
    BY DEF OneWorkerPerJob
  <2> QED
    BY DEF BatchInv, LockInv
<1> QED
  BY Inductive, <1>1, PTL

(* As long as nothing fails, a job that ended without completing has its   *)
(* hold back once its submission, its cancellation, the sweep and the      *)
(* queue are through with it (releaseFailedSubmitHold, Cancel,             *)
(* releaseTerminalHold).                                                   *)
THEOREM EndedIsReturned == Spec => []EndedJobIsReturned
<1>1. BatchInv => EndedJobIsReturned
  <2> SUFFICES ASSUME BatchInv, NEW b \in Batches, faults = 0, Quiet(b), Status(b) \in {"failed", "cancelled"}, Open(b)
               PROVE  Released(b)
    BY DEF EndedJobIsReturned, Released
  <2>1. DebtOk(b)
    BY DEF BatchInv, DebtInv
  <2>2. ~Owed(b)
    BY DEF Owed, Quiet, At
  <2>3. Status(b) \in Ended /\ Held(b)
    BY DEF Ended, Open
  <2> QED
    BY <2>1, <2>2, <2>3 DEF DebtOk
<1> QED
  BY Inductive, <1>1, PTL

=============================================================================
