---------------------------- MODULE PaymentOrder ----------------------------
(***************************************************************************)
(* One payment order of Sub2API, from CreateOrder to COMPLETED, driven by  *)
(* concurrent executions of the service's entry points: the provider's     *)
(* webhook, the user's verify and cancel requests, the expiry service's    *)
(* reconcile and expire sweeps, and the admin's retry.                     *)
(*                                                                         *)
(* Every database statement is a step of its own; a database transaction   *)
(* is one step.  Two abstractions of time replace timestamps:              *)
(*  - order.fresh: updated_at is less than five minutes old (the lease     *)
(*    duration and the expiry grace are both five minutes);                *)
(*  - holders: the executions whose lease.version equals updated_at.  The  *)
(*    ent schema sets updated_at on every update of the row (UpdateDefault *)
(*    time.Now), so every update empties holders.                          *)
(***************************************************************************)
EXTENDS Naturals

CONSTANTS
    Procs,   \* concurrent executions (request handlers and sweeper runs)
    Kinds,   \* the entry points that may be called
    FaultsCease  \* whether faults may cease for good (for liveness)

AllKinds == {"create", "webhook", "verify", "reconcile", "expire", "cancel", "retry"}

ASSUME KindsAssumption == Kinds \subseteq AllKinds
ASSUME FaultsCeaseAssumption == FaultsCease \in BOOLEAN

VARIABLES
    order,    \* the payment_orders row
    due,      \* expires_at has passed
    gw,       \* the payment provider: can be paid, is paid, webhook acknowledged
    code,     \* status of the redeem code PAY-<order> of a balance order
    audits,   \* the audit actions that the code reads back (UNIQUE per order)
    granted,  \* how often the balance was credited or the subscription assigned
    rebates,  \* how often an affiliate rebate was accrued
    proc,     \* each execution: its next step, the entry point it serves, and
              \* whether its copy of the order knows the upstream trade number
    holders,  \* the executions whose lease.version equals updated_at
    faulty,   \* database errors, crashes and slow workers may still occur
    blocked,  \* an administrator has removed or disabled the order's provider
              \* instance, or the group of its subscription
    excuse    \* why an acknowledged notification first left the order unsettled
              \* (history, read by the properties only)

vars == <<order, due, gw, code, audits, granted, rebates, proc, holders, faulty, blocked, excuse>>
db   == <<code, audits, granted, rebates>>

Statuses == {"NONE", "PENDING", "PAID", "RECHARGING", "COMPLETED", "EXPIRED", "CANCELLED", "FAILED"}
Types    == {"balance", "subscription"}
Audits   == {"SUBSCRIPTION_ASSIGNED", "SUCCESS", "REBATE_APPLIED", "REBATE_SKIPPED"}

(* Why an order may be unsettled although its notification was answered    *)
(* with 2xx: it had expired beyond the grace period, or an error was       *)
(* swallowed, of a read or of the search for the provider that verifies.   *)
Excuses  == {"none", "late", "swallowed"}

(* The steps of an entry point before fulfilment, the steps of doBalance   *)
(* and doSub that run under the lease, and all of them.                    *)
EntryPcs  == {"invoke", "details", "createFailed", "query", "persist", "cancelWrite"}
PaidPcs   == {"confirm", "toPaid", "already"}
LeasePcs  == {"fulfil", "acquire", "acquireConflict", "reload"}
WorkPcs   == {"lookup", "create", "redeem", "use", "subCheck", "subTx", "rebate", "complete", "completeConflict"}
Pcs       == {"idle", "fail"} \union EntryPcs \union PaidPcs \union LeasePcs \union WorkPcs

TypeOK ==
    /\ order \in [type: Types, status: Statuses, fresh: BOOLEAN, paidAt: BOOLEAN, tradeNo: BOOLEAN]
    /\ due \in BOOLEAN
    /\ gw \in [open: BOOLEAN, paid: BOOLEAN, valid: BOOLEAN, acked: BOOLEAN]
    /\ code \in {"absent", "unused", "used"}
    /\ audits \subseteq Audits
    /\ granted \in Nat
    /\ rebates \in Nat
    /\ proc \in [Procs -> [pc: Pcs, kind: AllKinds \union {"none"}, seen: BOOLEAN]]
    /\ holders \subseteq Procs
    /\ faulty \in BOOLEAN /\ blocked \in BOOLEAN
    /\ excuse \in Excuses

-----------------------------------------------------------------------------
Idle == [pc |-> "idle", kind |-> "none", seen |-> FALSE]

Init ==
    /\ order \in [type: Types, status: {"NONE"}, fresh: {TRUE}, paidAt: {FALSE}, tradeNo: {FALSE}]
    /\ due = FALSE
    /\ gw \in [open: {FALSE}, paid: {FALSE}, valid: BOOLEAN, acked: {FALSE}]
    /\ code = "absent"
    /\ audits = {}
    /\ granted = 0
    /\ rebates = 0
    /\ proc = [p \in Procs |-> Idle]
    /\ holders = {}
    /\ faulty = TRUE /\ blocked = FALSE
    /\ excuse = "none"

(* Control flow of an execution. *)
At(p, l)   == proc[p].pc = l
Goto(p, l) == proc' = [proc EXCEPT ![p].pc = l]
Leave(p)   == proc' = [proc EXCEPT ![p] = Idle]

Start(p, k, l) ==
    /\ At(p, "idle")
    /\ k \in Kinds
    /\ proc' = [proc EXCEPT ![p] = [pc |-> l, kind |-> k, seen |-> order.tradeNo]]

(* The entry point returns; of a notification that could be verified,      *)
(* handleNotify answers 2xx, which stops the provider's retries, exactly   *)
(* when HandlePaymentNotification returned nil (ok).                       *)
Return(p, ok) ==
    /\ Leave(p)
    /\ gw' = [gw EXCEPT !.acked = @ \/ (ok /\ proc[p].kind = "webhook")]

Excuse(p, why, when) ==
    excuse' = IF excuse = "none" /\ proc[p].kind = "webhook" /\ when THEN why ELSE excuse

(* Any UPDATE of the order row: updated_at becomes now, so no lease read   *)
(* before it matches any more.                                             *)
Save(o) ==
    /\ order' = [o EXCEPT !.fresh = TRUE]
    /\ holders' = {}

SameRow == UNCHANGED <<order, holders>>
SameEnv == UNCHANGED <<due, faulty, blocked>>

-----------------------------------------------------------------------------
(* CreateOrder: the PENDING row, the provider call, the provider's details. *)

CreateOrder(p) ==
    /\ order.status = "NONE"
    /\ Start(p, "create", "invoke")
    /\ Save([order EXCEPT !.status = "PENDING"])
    /\ SameEnv /\ UNCHANGED <<gw, db, excuse>>

InvokeProvider(p) ==
    /\ At(p, "invoke")
    /\ \/ Goto(p, "details")
       \/ Goto(p, "createFailed")
    /\ SameRow /\ SameEnv /\ UNCHANGED <<gw, db, excuse>>

(* The payer gets the payment URL only once the details are saved. *)
SaveDetails(p) ==
    /\ At(p, "details")
    /\ \/ /\ \E t \in BOOLEAN : Save([order EXCEPT !.tradeNo = t])
          /\ gw' = [gw EXCEPT !.open = TRUE]
          /\ Leave(p)
       \/ /\ faulty
          /\ Goto(p, "createFailed")
          /\ SameRow /\ UNCHANGED gw
    /\ SameEnv /\ UNCHANGED <<db, excuse>>

CreateFailed(p) ==
    /\ At(p, "createFailed")
    /\ Save([order EXCEPT !.status = "FAILED"])
    /\ Leave(p)
    /\ SameEnv /\ UNCHANGED <<gw, db, excuse>>

-----------------------------------------------------------------------------
(* The other entry points: what each reads before its first write. *)

Webhook(p) ==
    /\ gw.paid
    /\ Start(p, "webhook", "confirm")
    /\ SameRow /\ SameEnv /\ UNCHANGED <<gw, db, excuse>>

(* GetWebhookProviders fails: every provider but WeChat Pay is answered    *)
(* 2xx although nothing was done.  WeChat Pay gets an error, which changes *)
(* nothing here and lets it repeat the notification.                       *)
AckUnverified ==
    /\ "webhook" \in Kinds
    /\ gw.paid
    /\ faulty \/ blocked
    /\ gw' = [gw EXCEPT !.acked = TRUE]
    /\ excuse' = IF excuse = "none" /\ order.status # "COMPLETED" THEN "swallowed" ELSE excuse
    /\ SameRow /\ SameEnv /\ UNCHANGED <<db, proc>>

VerifyOrder(p) ==
    /\ order.status \in {"PENDING", "EXPIRED"}
    /\ Start(p, "verify", "query")
    /\ SameRow /\ SameEnv /\ UNCHANGED <<gw, db, excuse>>

ReconcilePending(p) ==
    /\ order.status = "PENDING" /\ ~due
    /\ Start(p, "reconcile", "query")
    /\ SameRow /\ SameEnv /\ UNCHANGED <<gw, db, excuse>>

ExpireTimedOut(p) ==
    /\ order.status = "PENDING" /\ due
    /\ Start(p, "expire", "query")
    /\ SameRow /\ SameEnv /\ UNCHANGED <<gw, db, excuse>>

CancelOrder(p) ==
    /\ order.status = "PENDING"
    /\ Start(p, "cancel", "query")
    /\ SameRow /\ SameEnv /\ UNCHANGED <<gw, db, excuse>>

RetryFulfillment(p) ==
    /\ order.paidAt
    /\ order.status \in {"FAILED", "PAID", "RECHARGING"}
    /\ Start(p, "retry", "fulfil")
    /\ SameRow /\ SameEnv /\ UNCHANGED <<gw, db, excuse>>

-----------------------------------------------------------------------------
(* checkPaidWithOptions and cancelCore. *)

Cancels(p) == proc[p].kind \in {"cancel", "expire"}

(* QueryOrder: paid; unpaid, then CancelPayment whose failure is ignored;  *)
(* or an error, which a cancel treats like unpaid.                         *)
QueryOrder(p) ==
    /\ At(p, "query")
    /\ \/ /\ gw.paid
          /\ Goto(p, IF proc[p].seen THEN "confirm" ELSE "persist")
          /\ UNCHANGED gw
       \/ /\ ~gw.paid
          /\ (IF Cancels(p) THEN Goto(p, "cancelWrite") ELSE Leave(p))
          /\ \E open \in {gw.open, gw.open /\ ~Cancels(p)} : gw' = [gw EXCEPT !.open = open]
       \/ /\ faulty \/ blocked
          /\ (IF Cancels(p) THEN Goto(p, "cancelWrite") ELSE Leave(p))
          /\ UNCHANGED gw
    /\ SameRow /\ SameEnv /\ UNCHANGED <<db, excuse>>

(* The upstream trade number is saved whatever the order's status is now; *)
(* a failure is logged and the notification handled all the same.         *)
PersistTradeNo(p) ==
    /\ At(p, "persist")
    /\ Goto(p, "confirm")
    /\ \/ Save([order EXCEPT !.tradeNo = TRUE])
       \/ faulty /\ SameRow
    /\ SameEnv /\ UNCHANGED <<gw, db, excuse>>

(* Mutants of CancelWrite: a status the schema does not have; the UPDATE   *)
(* without its WHERE status = PENDING.                                     *)
CancelWriteClosed(p) ==
    /\ At(p, "cancelWrite")
    /\ Leave(p)
    /\ IF order.status = "PENDING" THEN Save([order EXCEPT !.status = "CLOSED"]) ELSE SameRow
    /\ SameEnv /\ UNCHANGED <<gw, db, excuse>>

CancelWriteAnyStatus(p) ==
    /\ At(p, "cancelWrite")
    /\ Leave(p)
    /\ Save([order EXCEPT !.status = IF proc[p].kind = "expire" THEN "EXPIRED" ELSE "CANCELLED"])
    /\ SameEnv /\ UNCHANGED <<gw, db, excuse>>

CancelWrite(p) ==
    /\ At(p, "cancelWrite")
    /\ Leave(p)
    /\ IF order.status = "PENDING"
       THEN Save([order EXCEPT !.status = IF proc[p].kind = "expire" THEN "EXPIRED" ELSE "CANCELLED"])
       ELSE SameRow
    /\ SameEnv /\ UNCHANGED <<gw, db, excuse>>

-----------------------------------------------------------------------------
(* HandlePaymentNotification: confirmPayment, toPaid, alreadyProcessed. *)

(* Mutant of ConfirmPayment: the amount and provider checks are dropped. *)
ConfirmPaymentUnchecked(p) ==
    /\ At(p, "confirm")
    /\ Goto(p, "toPaid")
    /\ SameRow /\ SameEnv /\ UNCHANGED <<gw, db, excuse>>

ConfirmPayment(p) ==
    /\ At(p, "confirm")
    /\ IF gw.valid THEN Goto(p, "toPaid") /\ UNCHANGED gw ELSE Return(p, FALSE)
    /\ SameRow /\ SameEnv /\ UNCHANGED <<db, excuse>>

Payable(o) ==
    \/ o.status \in {"PENDING", "CANCELLED"}
    \/ o.status = "EXPIRED" /\ o.fresh

ToPaid(p) ==
    /\ At(p, "toPaid")
    /\ IF Payable(order)
       THEN /\ Save([order EXCEPT !.status = "PAID", !.paidAt = TRUE, !.tradeNo = TRUE])
            /\ Goto(p, "fulfil")
       ELSE /\ SameRow
            /\ Goto(p, "already")
    /\ SameEnv /\ UNCHANGED <<gw, db, excuse>>

AlreadyProcessed(p) ==
    /\ At(p, "already")
    /\ IF order.status \in {"FAILED", "PAID", "RECHARGING"}
       THEN Goto(p, "fulfil") /\ UNCHANGED <<gw, excuse>>
       ELSE /\ Return(p, TRUE)
            /\ Excuse(p, "late", order.status = "EXPIRED")
    /\ SameRow /\ SameEnv /\ UNCHANGED <<db>>

(* A failed read of the order in confirmPayment and in alreadyProcessed    *)
(* returns nil: the notification is acknowledged and nothing is done.      *)
SwallowedRead(p) ==
    /\ faulty
    /\ proc[p].pc \in {"confirm", "already"}
    /\ Return(p, TRUE)
    /\ Excuse(p, "swallowed", TRUE)
    /\ SameRow /\ SameEnv /\ UNCHANGED <<db>>

-----------------------------------------------------------------------------
(* ExecuteBalanceFulfillment, ExecuteSubscriptionFulfillment and the lease. *)

ExecuteFulfillment(p) ==
    /\ At(p, "fulfil")
    /\ IF order.status \in {"PAID", "FAILED", "RECHARGING"}
       THEN Goto(p, "acquire") /\ UNCHANGED gw
       ELSE Return(p, order.status = "COMPLETED")
    /\ SameRow /\ SameEnv /\ UNCHANGED <<db, excuse>>

(* Mutant of Claimable: a stale RECHARGING order is never reclaimed. *)
ClaimableNoReclaim(o) == o.status \in {"PAID", "FAILED"}

Claimable(o) ==
    \/ o.status \in {"PAID", "FAILED"}
    \/ o.status = "RECHARGING" /\ ~o.fresh

AcquireLease(p) ==
    /\ At(p, "acquire")
    /\ IF Claimable(order)
       THEN /\ Save([order EXCEPT !.status = "RECHARGING"])
            /\ Goto(p, "reload")
       ELSE /\ SameRow
            /\ Goto(p, "acquireConflict")
    /\ SameEnv /\ UNCHANGED <<gw, db, excuse>>

(* Mutant of AcquireConflict: a conflict counts as handled. *)
AcquireConflictIsOk(p) ==
    /\ At(p, "acquireConflict")
    /\ Return(p, TRUE)
    /\ SameRow /\ SameEnv /\ UNCHANGED <<db, excuse>>

AcquireConflict(p) ==
    /\ At(p, "acquireConflict")
    /\ Return(p, order.status = "COMPLETED")
    /\ SameRow /\ SameEnv /\ UNCHANGED <<db, excuse>>

(* The lease version is read back with a statement of its own: whatever    *)
(* updated_at holds by then becomes this execution's version.              *)
ReloadLease(p) ==
    /\ At(p, "reload")
    /\ IF order.status = "RECHARGING"
       THEN /\ holders' = holders \union {p}
            /\ Goto(p, IF order.type = "balance" THEN "lookup" ELSE "subCheck")
            /\ UNCHANGED <<order, gw>>
       ELSE Return(p, FALSE) /\ SameRow
    /\ SameEnv /\ UNCHANGED <<db, excuse>>

-----------------------------------------------------------------------------
(* doBalance: the redeem code is the idempotency record of the credit. *)

(* Mutant of LookupCode: an existing code counts as redeemed. *)
LookupCodeExists(p) ==
    /\ At(p, "lookup")
    /\ Goto(p, IF code = "absent" THEN "create" ELSE "rebate")
    /\ SameRow /\ SameEnv /\ UNCHANGED <<gw, db, excuse>>

LookupCode(p) ==
    /\ At(p, "lookup")
    /\ Goto(p, CASE code = "absent" -> "create"
                 [] code = "unused" -> "redeem"
                 [] code = "used"   -> "rebate")
    /\ SameRow /\ SameEnv /\ UNCHANGED <<gw, db, excuse>>

(* The code column is unique: a second creation fails. *)
CreateCode(p) ==
    /\ At(p, "create")
    /\ IF code = "absent"
       THEN code' = "unused" /\ Goto(p, "redeem")
       ELSE UNCHANGED code /\ Goto(p, "fail")
    /\ SameRow /\ SameEnv /\ UNCHANGED <<gw, audits, granted, rebates, excuse>>

(* redeem up to its transaction: the Redis lock may refuse while another   *)
(* execution is redeeming, or be skipped when Redis fails; CanUse.         *)
Redeem(p) ==
    /\ At(p, "redeem")
    /\ \/ code = "unused" /\ Goto(p, "use")
       \/ code # "unused" /\ Goto(p, "fail")
       \/ (\E q \in Procs \ {p} : At(q, "use")) /\ Goto(p, "fail")
    /\ SameRow /\ SameEnv /\ UNCHANGED <<gw, db, excuse>>

(* Mutant of UseCode: Use without WHERE status = 'unused'. *)
UseCodeAnyStatus(p) ==
    /\ At(p, "use")
    /\ code' = "used" /\ granted' = granted + 1 /\ Goto(p, "rebate")
    /\ SameRow /\ SameEnv /\ UNCHANGED <<gw, audits, rebates, excuse>>

(* The transaction: Use WHERE status = 'unused', then UpdateBalance. *)
UseCode(p) ==
    /\ At(p, "use")
    /\ IF code = "unused"
       THEN code' = "used" /\ granted' = granted + 1 /\ Goto(p, "rebate")
       ELSE UNCHANGED <<code, granted>> /\ Goto(p, "fail")
    /\ SameRow /\ SameEnv /\ UNCHANGED <<gw, audits, rebates, excuse>>

-----------------------------------------------------------------------------
(* doSub: the SUBSCRIPTION_ASSIGNED audit row is the idempotency record. *)

Assigned == audits \intersect {"SUBSCRIPTION_ASSIGNED", "SUCCESS"} # {}

(* An inactive group fails the order even when it was assigned before. *)
CheckAssigned(p) ==
    /\ At(p, "subCheck")
    /\ \/ Goto(p, IF Assigned THEN "rebate" ELSE "subTx")
       \/ blocked /\ Goto(p, "fail")
    /\ SameRow /\ SameEnv /\ UNCHANGED <<gw, db, excuse>>

(* assignOrExtendSubscription and the audit row commit together, or the    *)
(* unique index refuses the row and both are rolled back.                  *)
AssignSubscription(p) ==
    /\ At(p, "subTx")
    /\ Goto(p, "rebate")
    /\ IF "SUBSCRIPTION_ASSIGNED" \in audits
       THEN UNCHANGED <<audits, granted>>
       ELSE /\ granted' = granted + 1
            /\ audits' = audits \union {"SUBSCRIPTION_ASSIGNED"}
    /\ SameRow /\ SameEnv /\ UNCHANGED <<gw, code, rebates, excuse>>

-----------------------------------------------------------------------------
(* applyAffiliateRebateForOrder, markCompleted, markFailed. *)

RebateClaimed == audits \intersect {"REBATE_APPLIED", "REBATE_SKIPPED"} # {}

ApplyRebate(p) ==
    /\ At(p, "rebate")
    /\ Goto(p, "complete")
    /\ \/ RebateClaimed /\ UNCHANGED <<audits, rebates>>
       \/ /\ ~RebateClaimed
          /\ rebates' = rebates + 1
          /\ audits' = audits \union {"REBATE_APPLIED"}
       \/ /\ ~RebateClaimed
          /\ UNCHANGED rebates
          /\ audits' = audits \union {"REBATE_SKIPPED"}
    /\ SameRow /\ SameEnv /\ UNCHANGED <<gw, code, granted, excuse>>

(* The guard of markCompleted and of markFailed. *)
HoldsLease(p) == order.status = "RECHARGING" /\ p \in holders

MarkCompleted(p) ==
    /\ At(p, "complete")
    /\ IF HoldsLease(p)
       THEN /\ Save([order EXCEPT !.status = "COMPLETED"])
            /\ audits' = audits \union {"SUCCESS"}
            /\ Return(p, TRUE)
       ELSE /\ Goto(p, "completeConflict")
            /\ SameRow /\ UNCHANGED <<gw, audits>>
    /\ SameEnv /\ UNCHANGED <<code, granted, rebates, excuse>>

CompleteConflict(p) ==
    /\ At(p, "completeConflict")
    /\ IF order.status = "COMPLETED" THEN Return(p, TRUE) ELSE Goto(p, "fail") /\ UNCHANGED gw
    /\ SameRow /\ SameEnv /\ UNCHANGED <<db, excuse>>

(* Mutant of MarkFailed: the UPDATE without the lease in its WHERE. *)
MarkFailedNoLease(p) ==
    /\ At(p, "fail")
    /\ Return(p, FALSE)
    /\ Save([order EXCEPT !.status = "FAILED"])
    /\ SameEnv /\ UNCHANGED <<db, excuse>>

MarkFailed(p) ==
    /\ At(p, "fail")
    /\ Return(p, FALSE)
    /\ IF HoldsLease(p) THEN Save([order EXCEPT !.status = "FAILED"]) ELSE SameRow
    /\ SameEnv /\ UNCHANGED <<db, excuse>>

-----------------------------------------------------------------------------
(* Faults, time and the payer. *)

(* A statement of doBalance or doSub fails: markFailed follows.  An error  *)
(* after a commit (GetByID in redeem, the cache invalidation of a          *)
(* subscription) is a fault at the step after the transaction.             *)
StepError(p) ==
    /\ faulty
    /\ proc[p].pc \in WorkPcs
    /\ Goto(p, "fail")
    /\ SameRow /\ SameEnv /\ UNCHANGED <<gw, db, excuse>>

(* The process dies, its context is cancelled (every later statement then  *)
(* fails, markFailed's too), or a statement outside doBalance and doSub    *)
(* fails and its error is returned.                                        *)
Crash(p) ==
    /\ faulty
    /\ ~At(p, "idle")
    /\ Leave(p)
    /\ holders' = holders \ {p}
    /\ SameEnv /\ UNCHANGED <<order, gw, db, excuse>>

Pay ==
    /\ gw.open /\ ~gw.paid
    /\ gw' = [gw EXCEPT !.paid = TRUE, !.open = FALSE]
    /\ SameRow /\ SameEnv /\ UNCHANGED <<db, proc, excuse>>

(* Five minutes pass since the last update.  Once faults have ceased a     *)
(* worker finishes within its lease.                                       *)
Age ==
    /\ order.fresh
    /\ faulty \/ \A p \in Procs : proc[p].pc \notin WorkPcs \union {"reload", "fail"}
    /\ order' = [order EXCEPT !.fresh = FALSE]
    /\ SameEnv /\ UNCHANGED <<gw, db, proc, holders, excuse>>

TimeOut ==
    /\ ~due /\ order.status # "NONE"
    /\ due' = TRUE
    /\ SameRow /\ UNCHANGED <<gw, db, proc, faulty, blocked, excuse>>

Stabilise ==
    /\ faulty /\ FaultsCease
    /\ faulty' = FALSE
    /\ SameRow /\ UNCHANGED <<due, gw, db, proc, blocked, excuse>>

(* An administrator disables what the order needs, and enables it again.   *)
(* As long as faults occur this makes no difference.                       *)
Configure ==
    /\ ~faulty
    /\ blocked' = ~blocked
    /\ SameRow /\ UNCHANGED <<due, gw, db, proc, faulty, excuse>>

-----------------------------------------------------------------------------
Call(p) ==
    \/ CreateOrder(p) \/ Webhook(p) \/ VerifyOrder(p) \/ ReconcilePending(p)
    \/ ExpireTimedOut(p) \/ CancelOrder(p) \/ RetryFulfillment(p)

Step(p) ==
    \/ InvokeProvider(p) \/ SaveDetails(p) \/ CreateFailed(p)
    \/ QueryOrder(p) \/ PersistTradeNo(p) \/ CancelWrite(p)
    \/ ConfirmPayment(p) \/ ToPaid(p) \/ AlreadyProcessed(p) \/ SwallowedRead(p)
    \/ ExecuteFulfillment(p) \/ AcquireLease(p) \/ AcquireConflict(p) \/ ReloadLease(p)
    \/ LookupCode(p) \/ CreateCode(p) \/ Redeem(p) \/ UseCode(p)
    \/ CheckAssigned(p) \/ AssignSubscription(p)
    \/ ApplyRebate(p) \/ MarkCompleted(p) \/ CompleteConflict(p) \/ MarkFailed(p)
    \/ StepError(p)

Env == AckUnverified \/ Pay \/ Age \/ TimeOut \/ Stabilise \/ Configure

Next == (\E p \in Procs : Call(p) \/ Step(p) \/ Crash(p)) \/ Env

Spec == Init /\ [][Next]_vars

(***************************************************************************)
(* Fairness: an execution that has started goes on; the provider repeats   *)
(* its notification until it is acknowledged and finds a free handler      *)
(* again and again; time passes; faults eventually cease.  Nothing is      *)
(* assumed of users, admins or the sweeper, nor of what is blocked.        *)
(***************************************************************************)
Redeliver == ~gw.acked /\ \E p \in Procs : Webhook(p)

Fairness ==
    /\ \A p \in Procs : WF_vars(Step(p))
    /\ SF_vars(Redeliver)
    /\ WF_vars(Age)
    /\ WF_vars(Stabilise)

FairSpec == Spec /\ Fairness

-----------------------------------------------------------------------------
(* The credit is backed by its idempotency record: however many webhooks,  *)
(* verifications, retries and stale workers fulfil the order, and wherever *)
(* they crash, the balance is credited (or the subscription assigned) at   *)
(* most once and exactly when the record says so, and one rebate at most   *)
(* is accrued (doBalance, ensurePaymentSubscriptionAssigned,               *)
(* applyAffiliateRebateForOrder).                                          *)
ExactlyOnce ==
    /\ granted = IF code = "used" \/ "SUBSCRIPTION_ASSIGNED" \in audits THEN 1 ELSE 0
    /\ rebates = IF "REBATE_APPLIED" \in audits THEN 1 ELSE 0

(* Nothing is credited, and no order becomes PAID, RECHARGING or           *)
(* COMPLETED, unless the provider holds a payment that passed              *)
(* confirmPayment's checks - also for an order whose creation FAILED, for  *)
(* which alreadyProcessed would fulfil.                                    *)
NoCreditWithoutPayment ==
    granted > 0 \/ order.paidAt \/ order.status \in {"PAID", "RECHARGING", "COMPLETED"}
        => gw.paid /\ gw.valid

(* COMPLETED is only reached through the whole of doBalance or doSub: the  *)
(* credit is there and the rebate was decided, whichever execution wrote   *)
(* the status (markCompleted).                                             *)
CompletedMeansCredited ==
    order.status = "COMPLETED" => granted = 1 /\ RebateClaimed

(* A 2xx to the provider, which stops its retries, means that the order is *)
(* COMPLETED, unless the order had expired beyond the grace period or an   *)
(* error was swallowed: of a read of the order, or because no provider was *)
(* found to verify the notification (handleNotify, alreadyProcessed).      *)
AckMeansSettled ==
    gw.acked => order.status = "COMPLETED" \/ excuse # "none"

(* Neither a cancel nor an expiry that looked at the order before it was   *)
(* paid can undo the payment, a payment never reopens a COMPLETED order,   *)
(* and only a valid payment takes an order out of CANCELLED or EXPIRED,    *)
(* but for the FAILED of a creation that was overtaken (cancelCore,        *)
(* toPaid, CreateOrder).                                                   *)
Closed == {"CANCELLED", "EXPIRED"}

Reopened ==
    \/ order'.status = "PAID" /\ gw.paid /\ gw.valid
    \/ order'.status = "FAILED" /\ \E p \in Procs : At(p, "createFailed")

PaidIsNeverUndone ==
    [][/\ order.paidAt => order'.paidAt /\ order'.status \notin Closed \union {"PENDING"}
       /\ order.status = "COMPLETED" => order'.status = "COMPLETED"
       /\ order.status \in Closed /\ order'.status \notin Closed => Reopened]_vars

(* A payment is never lost: once the provider holds a valid payment the    *)
(* order is COMPLETED, or one of the excuses shows why not, provided that  *)
(* what it needs is not disabled for good.  Webhook redelivery is what     *)
(* drives an order whose worker died or lost its lease                     *)
(* (acquirePaymentFulfillmentLease's stale reclaim).                       *)
PaidOrderCompletes ==
    <>[]~blocked => (gw.paid /\ gw.valid) ~> (order.status = "COMPLETED" \/ excuse # "none")

-----------------------------------------------------------------------------
(* What the component promises: PaymentLedger. *)
Ledger == INSTANCE PaymentLedger WITH
            paid    <- gw.paid,
            grants  <- granted,
            rebated <- IF RebateClaimed THEN "yes" ELSE "no",
            settled <- order.status = "COMPLETED"

(* The order implements the ledger: pay, credit once, decide the rebate    *)
(* once, settle, in this order and never backwards.                        *)
ImplementsLedger == Ledger!Spec

=============================================================================
