---------------------------- MODULE PaymentRefund ----------------------------
(***************************************************************************)
(* The refund of one COMPLETED balance order: the user's RequestRefund,    *)
(* the admins' PrepareRefund + ExecuteRefund and QueryAndFinalizeRefund,   *)
(* run concurrently, against a provider that may accept a refund, leave it *)
(* pending, refuse it, or accept it and lose the answer.                   *)
(*                                                                         *)
(* Every database statement and every provider call is a step of its own;  *)
(* finalizePendingRefundSuccess is one transaction and one step.  The      *)
(* audit table is unique per order and action, and writeAuditLog drops the *)
(* error, so the second REFUND_PENDING row of an order is never written.   *)
(* A row may be lost, and a failed lookup of a row answers that there is   *)
(* none (hasAuditLog, latestRefundPendingDetail).  A statement that fails  *)
(* has no effect.                                                          *)
(***************************************************************************)
EXTENDS Integers

CONSTANTS
    Admins,       \* concurrent admin requests
    Amount,       \* the order's amount, in units
    MinBalance,   \* usage billing may overdraw the balance down to this bound
    MaxBalance,   \* bound on the initial balance
    MaxLost       \* bound on the audit rows that are lost or not found

ASSUME AmountAssumption  == Amount \in Nat \ {0}
ASSUME LostAssumption    == MaxLost \in Nat
ASSUME BalanceAssumption == MinBalance \in Int /\ MaxBalance \in Nat /\ MinBalance <= MaxBalance

VARIABLES
    status,        \* the order's status
    refundAmount,  \* the order's refund_amount
    balance,       \* the user's balance
    audits,        \* the audit actions the code reads back or must not repeat
    pending,       \* deductionRollbackOK of the REFUND_PENDING audit row, if any
    gw,            \* the provider: refunded, pending, and whether it dropped one
    proc,          \* each admin request: its step and its RefundPlan
    taken,         \* history: what refunds took from the balance, net
    seen           \* history: audit rows lost or not found; whether a query's
                   \* late failure was written over another status, a
                   \* pending refund was finalized

vars == <<status, refundAmount, balance, audits, pending, gw, proc, taken, seen>>

Min2(a, b) == IF a <= b THEN a ELSE b
Max2(a, b) == IF a >= b THEN a ELSE b

Refundable == {"COMPLETED", "REFUND_REQUESTED", "REFUND_PENDING", "REFUND_FAILED"}
Refunded   == {"REFUNDED", "PARTIALLY_REFUNDED"}
Statuses   == Refundable \union Refunded \union {"REFUNDING"}
ExecPcs    == {"deduct", "gateway", "markOk", "rollback", "markPending", "auditPending", "restore", "markFailed"}
QueryPcs   == {"detail", "ask", "finalize", "queryFailed"}

Plan == [pc: {"idle", "lock"} \union ExecPcs \union QueryPcs,
         amt: 0..Amount, take: 0..Amount,
         back: {"COMPLETED", "REFUND_REQUESTED"}, answer: {"none", "pending", "failed"}, ok: BOOLEAN]
Idle == [pc |-> "idle", amt |-> 0, take |-> 0,
         back |-> "COMPLETED", answer |-> "none", ok |-> TRUE]

TypeOK ==
    /\ status \in Statuses
    /\ refundAmount \in 0..Amount
    /\ balance \in Int
    /\ audits \subseteq {"REFUND_ROLLBACK_FAILED", "REFUND_SUCCESS"}
    /\ pending \in {"none", "rolledBack", "notRolledBack"}
    /\ gw \in [out: 0..Amount, hold: 0..Amount, dropped: BOOLEAN]
    /\ proc \in [Admins -> Plan]
    /\ taken \in Int
    /\ seen \in [lost: 0..MaxLost, late: BOOLEAN, finalized: BOOLEAN]

Init ==
    /\ status = "COMPLETED"
    /\ refundAmount = 0
    /\ balance \in 0..MaxBalance
    /\ audits = {}
    /\ pending = "none"
    /\ gw = [out |-> 0, hold |-> 0, dropped |-> FALSE]
    /\ proc = [a \in Admins |-> Idle]
    /\ taken = 0
    /\ seen = [lost |-> 0, late |-> FALSE, finalized |-> FALSE]

At(a, l)        == proc[a].pc = l
Goto(a, l)      == proc' = [proc EXCEPT ![a].pc = l]
Leave(a)        == proc' = [proc EXCEPT ![a] = Idle]
Move(d)         == balance' = balance - d /\ taken' = taken + d
SameOrder       == UNCHANGED <<status, refundAmount>>
SameMoney       == UNCHANGED <<balance, taken>>
SameAudit       == UNCHANGED <<audits, pending>>

Lost            == seen.lost < MaxLost /\ seen' = [seen EXCEPT !.lost = @ + 1]
WriteAudit(x)   == \/ audits' = audits \union {x} /\ UNCHANGED seen
                   \/ Lost /\ UNCHANGED audits

(* hasAuditLog says whether a row was found. *)
HasAuditLog(found, says) ==
    \/ says = found /\ UNCHANGED seen
    \/ found /\ ~says /\ Lost

-----------------------------------------------------------------------------
RequestRefund ==
    /\ status = "COMPLETED"
    /\ balance >= Amount
    /\ status' = "REFUND_REQUESTED"
    /\ refundAmount' = Amount
    /\ SameMoney /\ SameAudit /\ UNCHANGED <<gw, proc, seen>>

(* PrepareRefund and prepDeduct: without force a deduction needs the whole *)
(* amount on the balance; BalanceToDeduct is computed from this read, and  *)
(* is zero when a forced refund could not read the balance.                *)
PrepareRefund(a) ==
    /\ At(a, "idle")
    /\ status \in Refundable
    /\ \E amt \in 1..Amount, deduct \in BOOLEAN, force \in BOOLEAN, read \in BOOLEAN :
         /\ deduct /\ (balance < amt \/ ~read) => force
         /\ proc' = [proc EXCEPT ![a] =
              [Idle EXCEPT !.pc = "lock", !.amt = amt,
                           !.take = IF deduct /\ read THEN Max2(0, Min2(amt, balance)) ELSE 0,
                           !.back = IF status = "REFUND_REQUESTED" THEN status ELSE "COMPLETED"]]
    /\ SameOrder /\ SameMoney /\ SameAudit /\ UNCHANGED <<gw, seen>>

(* Mutant of LockRefund: the UPDATE without its WHERE. *)
LockRefundAnyStatus(a) ==
    /\ At(a, "lock")
    /\ status' = "REFUNDING"
    /\ Goto(a, IF proc[a].take > 0 THEN "deduct" ELSE "gateway")
    /\ SameMoney /\ SameAudit /\ UNCHANGED <<refundAmount, gw, seen>>

(* ExecuteRefund's first UPDATE, the lock of the attempt. *)
LockRefund(a) ==
    /\ At(a, "lock")
    /\ IF status \in Refundable
       THEN /\ status' = "REFUNDING"
            /\ Goto(a, IF proc[a].take > 0 THEN "deduct" ELSE "gateway")
       ELSE UNCHANGED status /\ Leave(a)
    /\ SameMoney /\ SameAudit /\ UNCHANGED <<refundAmount, gw, seen>>

(* Mutant of Available: the amount is taken unconditionally. *)
AvailableAll(amt) == amt

(* DeductAvailableBalance takes what is there now, never more; a previous  *)
(* attempt that could not give the deduction back is not repeated.         *)
Available(amt) == Min2(amt, Max2(balance, 0))

(* Mutant of DeductBalance: the failed rollback is not looked up. *)
DeductBalanceAgain(a) ==
    /\ At(a, "deduct")
    /\ LET d == Available(proc[a].take)
       IN  Move(d) /\ proc' = [proc EXCEPT ![a].pc = "gateway", ![a].take = d]
    /\ SameOrder /\ SameAudit /\ UNCHANGED <<gw, seen>>

DeductBalance(a) ==
    /\ At(a, "deduct")
    /\ \E skip \in BOOLEAN :
         LET d == IF skip THEN 0 ELSE Available(proc[a].take)
         IN  /\ HasAuditLog("REFUND_ROLLBACK_FAILED" \in audits, skip)
             /\ Move(d) /\ proc' = [proc EXCEPT ![a].pc = "gateway", ![a].take = d]
    /\ SameOrder /\ SameAudit /\ UNCHANGED gw

DeductError(a) ==
    /\ At(a, "deduct")
    /\ proc' = [proc EXCEPT ![a] = [Idle EXCEPT !.pc = "restore", !.back = proc[a].back]]
    /\ SameOrder /\ SameMoney /\ SameAudit /\ UNCHANGED <<gw, seen>>

(* gwRefund: refunded, pending, refused - or accepted and the answer lost, *)
(* which the code cannot tell from refused.                                *)
Accepts(amt) == gw.out + gw.hold + amt <= Amount

GatewayRefund(a) ==
    /\ At(a, "gateway")
    /\ LET amt == proc[a].amt
           Answer(x) == proc' = [proc EXCEPT ![a].pc = "rollback", ![a].answer = x]
       IN  \/ /\ Accepts(amt) /\ gw' = [gw EXCEPT !.out = @ + amt]
              /\ \/ proc' = [proc EXCEPT ![a] = [Idle EXCEPT !.pc = "markOk", !.amt = amt]]
                 \/ Answer("failed")
           \/ /\ Accepts(amt) /\ gw' = [gw EXCEPT !.hold = @ + amt]
              /\ Answer("pending") \/ Answer("failed")
           \/ UNCHANGED gw /\ Answer("failed")
    /\ SameOrder /\ SameMoney /\ SameAudit /\ UNCHANGED seen

(* Mutant of MarkRefundOk: the refund is added to the amount on record. *)
MarkRefundOkAdds(a) ==
    /\ At(a, "markOk")
    /\ status' = IF proc[a].amt < Amount THEN "PARTIALLY_REFUNDED" ELSE "REFUNDED"
    /\ refundAmount' = refundAmount + proc[a].amt
    /\ WriteAudit("REFUND_SUCCESS")
    /\ Leave(a)
    /\ SameMoney /\ UNCHANGED <<pending, gw>>

MarkRefundOk(a) ==
    /\ At(a, "markOk")
    /\ status' = IF proc[a].amt < Amount THEN "PARTIALLY_REFUNDED" ELSE "REFUNDED"
    /\ refundAmount' = proc[a].amt
    /\ WriteAudit("REFUND_SUCCESS")
    /\ Leave(a)
    /\ SameMoney /\ UNCHANGED <<pending, gw>>

(* What RollbackRefund leaves to be done, for a pending and for a refused  *)
(* refund.                                                                 *)
AfterRollback(a, ok) ==
    LET r == proc[a] IN
    proc' = [proc EXCEPT ![a] =
        IF r.answer = "pending" THEN [Idle EXCEPT !.pc = "markPending", !.amt = r.amt, !.ok = ok]
        ELSE IF ok THEN [Idle EXCEPT !.pc = "restore", !.back = r.back]
        ELSE [Idle EXCEPT !.pc = "markFailed"]]

(* Mutant of RollbackRefund: a failed rollback leaves no audit row. *)
RollbackRefundSilent(a) ==
    /\ At(a, "rollback")
    /\ \/ Move(-proc[a].take) /\ AfterRollback(a, TRUE)
       \/ proc[a].take > 0 /\ AfterRollback(a, FALSE) /\ SameMoney
    /\ SameOrder /\ SameAudit /\ UNCHANGED <<gw, seen>>

RollbackRefund(a) ==
    /\ At(a, "rollback")
    /\ \/ /\ Move(-proc[a].take)
          /\ AfterRollback(a, TRUE)
          /\ UNCHANGED <<audits, seen>>
       \/ /\ proc[a].take > 0
          /\ WriteAudit("REFUND_ROLLBACK_FAILED")
          /\ AfterRollback(a, FALSE)
          /\ SameMoney
    /\ SameOrder /\ UNCHANGED <<pending, gw>>

MarkRefundPending(a) ==
    /\ At(a, "markPending")
    /\ status' = "REFUND_PENDING"
    /\ refundAmount' = proc[a].amt
    /\ proc' = [proc EXCEPT ![a] = [Idle EXCEPT !.pc = "auditPending", !.ok = proc[a].ok]]
    /\ SameMoney /\ SameAudit /\ UNCHANGED <<gw, seen>>

AuditRefundPending(a) ==
    /\ At(a, "auditPending")
    /\ \/ /\ pending = "none" /\ pending' = IF proc[a].ok THEN "rolledBack" ELSE "notRolledBack"
          /\ UNCHANGED seen
       \/ pending # "none" /\ UNCHANGED <<pending, seen>>
       \/ pending = "none" /\ Lost /\ UNCHANGED pending
    /\ Leave(a)
    /\ SameOrder /\ SameMoney /\ UNCHANGED <<audits, gw>>

(* restoreStatus and the failure branch of handleGwFail write the status   *)
(* whatever it is now.                                                     *)
RestoreStatus(a) ==
    /\ At(a, "restore")
    /\ status' = proc[a].back
    /\ Leave(a)
    /\ SameMoney /\ SameAudit /\ UNCHANGED <<refundAmount, gw, seen>>

HandleGwFail(a) ==
    /\ At(a, "markFailed")
    /\ status' = "REFUND_FAILED"
    /\ Leave(a)
    /\ SameMoney /\ SameAudit /\ UNCHANGED <<refundAmount, gw, seen>>

-----------------------------------------------------------------------------
(* QueryAndFinalizeRefund: the order, the pending detail, the provider.    *)

QueryRefund(a) ==
    /\ At(a, "idle")
    /\ status = "REFUND_PENDING"
    /\ proc' = [proc EXCEPT ![a] = [Idle EXCEPT !.pc = "detail", !.amt = refundAmount]]
    /\ SameOrder /\ SameMoney /\ SameAudit /\ UNCHANGED <<gw, seen>>

LatestPendingDetail(a) ==
    /\ At(a, "detail")
    /\ \E standing \in BOOLEAN :
         /\ HasAuditLog(pending = "notRolledBack", standing)
         /\ proc' = [proc EXCEPT ![a].pc = "ask", ![a].ok = ~standing]
    /\ SameOrder /\ SameMoney /\ SameAudit /\ UNCHANGED gw

AskProvider(a) ==
    /\ At(a, "ask")
    /\ \/ gw.out > 0 /\ Goto(a, "finalize")
       \/ gw.dropped /\ proc' = [proc EXCEPT ![a] = [Idle EXCEPT !.pc = "queryFailed"]]
       \/ gw.hold > 0 /\ Leave(a)
    /\ SameOrder /\ SameMoney /\ SameAudit /\ UNCHANGED <<gw, seen>>

(* The plan of a finalization always deducts the order's refund amount,    *)
(* unless the pending detail says that the first deduction still stands.   *)
FinalizeTake(a) == IF proc[a].ok THEN Available(proc[a].amt) ELSE 0

FinalizePendingRefundSuccess(a) ==
    /\ At(a, "finalize")
    /\ Leave(a)
    /\ IF status = "REFUND_PENDING" /\ "REFUND_SUCCESS" \notin audits
       THEN /\ Move(FinalizeTake(a))
            /\ status' = IF proc[a].amt < Amount THEN "PARTIALLY_REFUNDED" ELSE "REFUNDED"
            /\ refundAmount' = proc[a].amt
            /\ audits' = audits \union {"REFUND_SUCCESS"}
            /\ seen' = [seen EXCEPT !.finalized = TRUE]
       ELSE SameOrder /\ SameMoney /\ UNCHANGED <<audits, seen>>
    /\ UNCHANGED <<pending, gw>>

FinalizeRefundFailed(a) ==
    /\ At(a, "queryFailed")
    /\ status' = "REFUND_FAILED"
    /\ seen' = [seen EXCEPT !.late = @ \/ status # "REFUND_PENDING"]
    /\ Leave(a)
    /\ SameMoney /\ SameAudit /\ UNCHANGED <<refundAmount, gw>>

-----------------------------------------------------------------------------
(* The request dies or its context is cancelled between two statements. *)
Crash(a) ==
    /\ ~At(a, "idle")
    /\ Leave(a)
    /\ SameOrder /\ SameMoney /\ SameAudit /\ UNCHANGED <<gw, seen>>

ProviderSettles ==
    /\ gw.hold > 0
    /\ \/ gw' = [gw EXCEPT !.hold = 0, !.out = @ + gw.hold]
       \/ gw' = [gw EXCEPT !.hold = 0, !.dropped = TRUE]
    /\ SameOrder /\ SameMoney /\ SameAudit /\ UNCHANGED <<proc, seen>>

(* Usage billing spends the balance at any time, into debt if need be. *)
Spend ==
    /\ balance > MinBalance
    /\ balance' = balance - 1
    /\ SameOrder /\ SameAudit /\ UNCHANGED <<taken, gw, proc, seen>>

Step(a) ==
    \/ PrepareRefund(a) \/ LockRefund(a) \/ DeductBalance(a) \/ DeductError(a)
    \/ GatewayRefund(a) \/ MarkRefundOk(a) \/ RollbackRefund(a)
    \/ MarkRefundPending(a) \/ AuditRefundPending(a) \/ RestoreStatus(a) \/ HandleGwFail(a)
    \/ QueryRefund(a) \/ LatestPendingDetail(a) \/ AskProvider(a)
    \/ FinalizePendingRefundSuccess(a) \/ FinalizeRefundFailed(a)

Next == (\E a \in Admins : Step(a) \/ Crash(a)) \/ RequestRefund \/ ProviderSettles \/ Spend

Spec == Init /\ [][Next]_vars

-----------------------------------------------------------------------------
InFlight(a) == proc[a].pc \in ExecPcs \ {"auditPending"}

(* The conditional UPDATE to REFUNDING is the only lock there is: at most  *)
(* one attempt runs at a time, until a query that was answered "failed"    *)
(* writes that over what an attempt has made of the order by then          *)
(* (ExecuteRefund, finalizeRefundFailed).                                  *)
SingleFlight ==
    ~seen.late =>
        \A a \in Admins : InFlight(a) =>
            /\ status = "REFUNDING"
            /\ \A b \in Admins \ {a} : ~InFlight(b)

(* The audit table has worked, and attempts alone have moved money. *)
Audited == seen.lost = 0 /\ ~seen.late /\ ~seen.finalized

(* However often a refund is retried, refused, left pending and rolled     *)
(* back, and whenever admins query it, its attempts never take more from   *)
(* the user than the order's amount ("Skip balance deduction on retry if   *)
(* previous attempt already deducted but failed to roll back",             *)
(* ExecuteRefund).                                                         *)
AttemptsTakeOnce == Audited => taken <= Amount

(* While the audit table works, a refund takes no more than the order's    *)
(* amount, the finalization of a pending refund included.  It does: the    *)
(* finalization looks for another row (finalizePendingRefundSuccess).      *)
NeverTakenTwice == seen.lost = 0 => taken <= Amount

(* Money that was taken and not refunded is accounted for: once no attempt *)
(* is running or died half-way, either nothing is missing from the balance *)
(* or the failed rollback is in the audit log (RollbackRefund).            *)
MissingMoneyIsAudited ==
    Audited /\ status \notin Refunded \union {"REFUNDING"} =>
        taken = 0 \/ "REFUND_ROLLBACK_FAILED" \in audits

(* A refund never drives the balance into debt, however stale the balance  *)
(* its plan was computed from (DeductAvailableBalance).                    *)
RefundNeverOverdraws ==
    [][taken' > taken => balance' >= 0]_vars

=============================================================================
