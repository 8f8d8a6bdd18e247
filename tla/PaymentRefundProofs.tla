------------------------ MODULE PaymentRefundProofs ------------------------
(***************************************************************************)
(* Proofs about PaymentRefund, for any number of admins, any amount and    *)
(* any balance.                                                            *)
(*                                                                         *)
(* Types and the bound on overdrawing hold whatever the admins do and      *)
(* whatever the audit table loses.  That one attempt runs at a time holds  *)
(* until the late failure of a query is written over it, and what attempts *)
(* take is bounded while, besides, the audit table works and no pending    *)
(* refund has been finalized.                                              *)
(***************************************************************************)
EXTENDS PaymentRefund, TLAPS

(* The provider never refunds more than was paid. *)
GwInv == gw.out + gw.hold <= Amount

TypeInv == TypeOK /\ GwInv

LEMMA AmountNat == Amount \in Nat /\ Amount > 0 /\ 0 \in 0..Amount
BY AmountAssumption

(* What has been seen, and that none of it is ever forgotten. *)
Seen == [lost: 0..MaxLost, late: BOOLEAN, finalized: BOOLEAN]

LEMMA SeenKept ==
    ASSUME TypeOK,
           \/ UNCHANGED seen \/ Lost \/ seen' = [seen EXCEPT !.finalized = TRUE]
           \/ seen' = [seen EXCEPT !.late = @ \/ status # "REFUND_PENDING"]
    PROVE  seen' \in Seen /\ (seen.late => seen'.late) /\ (Audited' => Audited)
<1>1. seen \in Seen /\ MaxLost \in Nat
  BY LostAssumption DEF TypeOK, Seen
<1>2. CASE UNCHANGED seen \/ seen' = [seen EXCEPT !.finalized = TRUE]
  BY <1>1, <1>2 DEF Seen, Audited
<1>3. CASE Lost
  <2>1. PICK n \in 0..MaxLost : n = seen.lost + 1
    BY <1>1, <1>3 DEF Lost, Seen
  <2>2. seen' = [seen EXCEPT !.lost = n]
    BY <1>3, <2>1 DEF Lost
  <2> QED
    BY <1>1, <2>1, <2>2 DEF Seen, Audited
<1>4. CASE seen' = [seen EXCEPT !.late = @ \/ status # "REFUND_PENDING"]
  <2>1. PICK b \in BOOLEAN : b = (seen.late \/ status # "REFUND_PENDING")
    BY Zenon
  <2>2. seen' = [seen EXCEPT !.late = b] /\ (seen.late => b)
    BY <1>4, <2>1
  <2> QED
    BY <1>1, <2>2 DEF Seen, Audited
<1> QED
  BY <1>2, <1>3, <1>4

LEMMA SeenNext ==
    ASSUME TypeOK, [Next]_vars
    PROVE  seen' \in Seen /\ (seen.late => seen'.late) /\ (Audited' => Audited)
<1>1. ASSUME NEW a \in Admins, Step(a) \/ Crash(a)
      PROVE  \/ UNCHANGED seen \/ Lost \/ seen' = [seen EXCEPT !.finalized = TRUE]
             \/ seen' = [seen EXCEPT !.late = @ \/ status # "REFUND_PENDING"]
  BY <1>1 DEF Step, PrepareRefund, LockRefund, DeductBalance, DeductError, GatewayRefund, MarkRefundOk, RollbackRefund,
     MarkRefundPending, AuditRefundPending, RestoreStatus, HandleGwFail, QueryRefund, LatestPendingDetail,
     AskProvider, FinalizePendingRefundSuccess, FinalizeRefundFailed, Crash, WriteAudit, HasAuditLog
<1>2. CASE RequestRefund \/ ProviderSettles \/ Spend \/ UNCHANGED vars
  BY <1>2, SeenKept DEF RequestRefund, ProviderSettles, Spend, vars
<1> QED
  BY <1>1, <1>2, SeenKept DEF Next

(* The audit table forgets nothing and has an answer for every question,   *)
(* or a row was lost.                                                      *)
LEMMA LostNoted ==
    ASSUME TypeOK, Audited'
    PROVE  ~Lost
BY LostAssumption DEF TypeOK, Audited, Lost

(* What is available is between nothing and what is asked for. *)
LEMMA AvailableRange ==
    ASSUME balance \in Int, NEW amt \in 0..Amount
    PROVE  /\ Available(amt) \in 0..amt
           /\ Available(amt) > 0 => Available(amt) <= balance
BY AmountNat DEF Available, Min2, Max2

LEMMA IdlePlan == Idle \in Plan
BY AmountNat DEF Idle, Plan, ExecPcs, QueryPcs

(* A request that ends changes only itself. *)
LEMMA LeaveType ==
    ASSUME TypeOK, NEW a \in Admins, Leave(a)
    PROVE  proc' \in [Admins -> Plan]
BY IdlePlan DEF TypeOK, Leave

(* A request that goes on at a known step keeps its plan's type. *)
LEMMA GotoType ==
    ASSUME TypeOK, NEW a \in Admins, NEW l \in {"idle", "lock"} \union ExecPcs \union QueryPcs, Goto(a, l)
    PROVE  proc' \in [Admins -> Plan]
BY DEF TypeOK, Goto, Plan

(* A plan whose step and outcome of the rollback are set. *)
LEMMA PlanUpdate ==
    ASSUME NEW r \in Plan, NEW l \in {"idle", "lock"} \union ExecPcs \union QueryPcs, NEW ok \in BOOLEAN
    PROVE  [r EXCEPT !.pc = l, !.ok = ok] \in Plan
BY DEF Plan

LEMMA PlanFields ==
    ASSUME TypeOK, NEW a \in Admins
    PROVE  /\ proc[a] \in Plan
           /\ proc[a].amt \in 0..Amount /\ proc[a].take \in 0..Amount
           /\ proc[a].back \in {"COMPLETED", "REFUND_REQUESTED"}
           /\ proc[a].ok \in BOOLEAN
BY DEF TypeOK, Plan

-----------------------------------------------------------------------------
LEMMA PrepareType ==
    ASSUME TypeInv, seen' \in Seen, NEW a \in Admins, PrepareRefund(a) \/ QueryRefund(a)
    PROVE  TypeInv'
<1>1. proc' \in [Admins -> Plan]
  <2>1. CASE PrepareRefund(a)
    <3>1. PICK amt \in 1..Amount, deduct \in BOOLEAN, force \in BOOLEAN, read \in BOOLEAN :
            proc' = [proc EXCEPT ![a] =
              [Idle EXCEPT !.pc = "lock", !.amt = amt,
                           !.take = IF deduct /\ read THEN Max2(0, Min2(amt, balance)) ELSE 0,
                           !.back = IF status = "REFUND_REQUESTED" THEN status ELSE "COMPLETED"]]
      BY <2>1 DEF PrepareRefund
    <3> DEFINE t == IF deduct /\ read THEN Max2(0, Min2(amt, balance)) ELSE 0
               s == IF status = "REFUND_REQUESTED" THEN status ELSE "COMPLETED"
    <3>2. t \in 0..Amount /\ amt \in 0..Amount
      BY AmountNat DEF Max2, Min2, TypeInv, TypeOK
    <3>3. s \in {"COMPLETED", "REFUND_REQUESTED"}
      OBVIOUS
    <3> HIDE DEF t, s
    <3>4. [Idle EXCEPT !.pc = "lock", !.amt = amt, !.take = t, !.back = s] \in Plan
      BY <3>2, <3>3 DEF Idle, Plan, ExecPcs, QueryPcs
    <3> QED
      BY <3>1, <3>4 DEF TypeInv, TypeOK, t, s
  <2>2. CASE QueryRefund(a)
    <3>0. refundAmount \in 0..Amount
      BY DEF TypeInv, TypeOK
    <3>1. [Idle EXCEPT !.pc = "detail", !.amt = refundAmount] \in Plan
      BY <3>0, AmountNat DEF Idle, Plan, ExecPcs, QueryPcs
    <3> QED
      BY <2>2, <3>1 DEF QueryRefund, TypeInv, TypeOK
  <2> QED
    BY <2>1, <2>2
<1>2. UNCHANGED <<status, refundAmount, balance, taken, audits, pending, gw>>
  BY DEF PrepareRefund, QueryRefund, SameOrder, SameMoney, SameAudit
<1> QED
  BY <1>1, <1>2 DEF TypeInv, TypeOK, GwInv, Seen

(* The steps of an attempt that move no money. *)
LEMMA ControlType ==
    ASSUME TypeInv, seen' \in Seen, NEW a \in Admins,
           \/ LockRefund(a) \/ DeductError(a) \/ MarkRefundOk(a) \/ MarkRefundPending(a) \/ AuditRefundPending(a)
           \/ RestoreStatus(a) \/ HandleGwFail(a) \/ LatestPendingDetail(a) \/ AskProvider(a)
           \/ FinalizeRefundFailed(a) \/ Crash(a)
    PROVE  TypeInv'
<1> USE DEF SameOrder, SameMoney, SameAudit
<1>0. /\ TypeOK /\ proc[a].amt \in 0..Amount /\ proc[a].back \in Statuses
  BY PlanFields DEF TypeInv, Statuses, Refundable
<1>1. UNCHANGED <<balance, taken, gw>>
  BY DEF LockRefund, DeductError, MarkRefundOk, MarkRefundPending, AuditRefundPending, RestoreStatus,
         HandleGwFail, LatestPendingDetail, AskProvider, FinalizeRefundFailed, Crash
<1>2. proc' \in [Admins -> Plan]
  <2>1. CASE Leave(a)
    BY <1>0, <2>1, LeaveType
  <2>2. CASE \E l \in ExecPcs \union QueryPcs : Goto(a, l)
    BY <1>0, <2>2, GotoType
  <2>3. CASE LatestPendingDetail(a)
    <3>1. PICK ok \in BOOLEAN : proc' = [proc EXCEPT ![a].pc = "ask", ![a].ok = ok]
      BY <2>3 DEF LatestPendingDetail
    <3> QED
      <4>1. [proc[a] EXCEPT !.pc = "ask", !.ok = ok] \in Plan
        BY <1>0, PlanFields, PlanUpdate DEF QueryPcs
      <4> QED
        BY <1>0, <3>1, <4>1 DEF TypeOK
  <2>4. /\ [Idle EXCEPT !.pc = "restore", !.back = proc[a].back] \in Plan
        /\ [Idle EXCEPT !.pc = "auditPending", !.ok = proc[a].ok] \in Plan
        /\ [Idle EXCEPT !.pc = "queryFailed"] \in Plan
    BY <1>0, PlanFields, IdlePlan DEF Plan, ExecPcs, QueryPcs
  <2>5. CASE DeductError(a) \/ MarkRefundPending(a) \/ (AskProvider(a) /\ ~Leave(a) /\ ~Goto(a, "finalize"))
    <3>1. PICK r \in Plan : proc' = [proc EXCEPT ![a] = r]
      BY <2>4, <2>5 DEF DeductError, MarkRefundPending, AskProvider
    <3> QED
      BY <1>0, <3>1 DEF TypeOK
  <2>6. CASE AskProvider(a) /\ (Leave(a) \/ Goto(a, "finalize"))
    BY <2>1, <2>2, <2>6 DEF QueryPcs
  <2> QED
    BY <2>1, <2>2, <2>3, <2>5, <2>6
    DEF LockRefund, DeductError, MarkRefundOk, MarkRefundPending, AuditRefundPending, RestoreStatus,
        HandleGwFail, AskProvider, FinalizeRefundFailed, Crash, ExecPcs, QueryPcs
<1>3. status' \in Statuses /\ refundAmount' \in 0..Amount
  BY <1>0 DEF TypeOK, Statuses, Refundable, Refunded, LockRefund, DeductError, MarkRefundOk, MarkRefundPending,
     AuditRefundPending, RestoreStatus, HandleGwFail, LatestPendingDetail, AskProvider, FinalizeRefundFailed, Crash
<1>4. audits' \subseteq {"REFUND_ROLLBACK_FAILED", "REFUND_SUCCESS"}
  BY <1>0 DEF TypeOK, WriteAudit, LockRefund, DeductError, MarkRefundOk, MarkRefundPending,
     AuditRefundPending, RestoreStatus, HandleGwFail, LatestPendingDetail, AskProvider, FinalizeRefundFailed, Crash
<1>5. pending' \in {"none", "rolledBack", "notRolledBack"}
  BY <1>0 DEF TypeOK, LockRefund, DeductError, MarkRefundOk, MarkRefundPending,
     AuditRefundPending, RestoreStatus, HandleGwFail, LatestPendingDetail, AskProvider, FinalizeRefundFailed, Crash
<1> QED
  BY <1>0, <1>1, <1>2, <1>3, <1>4, <1>5 DEF TypeInv, TypeOK, GwInv, Seen

(* The steps that take money from the user or give it back. *)
LEMMA MoneyType ==
    ASSUME TypeInv, seen' \in Seen, NEW a \in Admins,
           DeductBalance(a) \/ RollbackRefund(a) \/ FinalizePendingRefundSuccess(a)
    PROVE  TypeInv'
<1>0. /\ TypeOK /\ proc[a] \in Plan /\ balance \in Int /\ taken \in Int
      /\ proc[a].amt \in 0..Amount /\ proc[a].take \in 0..Amount
  BY PlanFields DEF TypeInv, TypeOK
<1>1. CASE DeductBalance(a)
  <2>1. PICK d \in 0..Amount : Move(d) /\ proc' = [proc EXCEPT ![a].pc = "gateway", ![a].take = d]
    <3>1. Available(proc[a].take) \in 0..Amount
      BY <1>0, AvailableRange, AmountNat
    <3>2. PICK skip \in BOOLEAN :
            LET d == IF skip THEN 0 ELSE Available(proc[a].take)
            IN  Move(d) /\ proc' = [proc EXCEPT ![a].pc = "gateway", ![a].take = d]
      BY <1>1 DEF DeductBalance
    <3>3. (IF skip THEN 0 ELSE Available(proc[a].take)) \in 0..Amount
      BY <3>1, AmountNat
    <3> QED
      BY <3>2, <3>3
  <2>2. proc' \in [Admins -> Plan]
    BY <1>0, <2>1 DEF TypeOK, Plan, ExecPcs
  <2>3. balance' \in Int /\ taken' \in Int
    BY <1>0, <2>1 DEF Move
  <2> QED
    BY <1>0, <1>1, <2>2, <2>3 DEF DeductBalance, TypeInv, TypeOK, GwInv, Seen, SameOrder, SameAudit
<1>2. CASE RollbackRefund(a)
  <2>1. PICK ok \in BOOLEAN : AfterRollback(a, ok)
    BY <1>2 DEF RollbackRefund
  <2>2. proc' \in [Admins -> Plan]
    <3>1. PICK r \in Plan : proc' = [proc EXCEPT ![a] = r]
      <4>1. /\ [Idle EXCEPT !.pc = "markPending", !.amt = proc[a].amt, !.ok = ok] \in Plan
            /\ [Idle EXCEPT !.pc = "restore", !.back = proc[a].back] \in Plan
            /\ [Idle EXCEPT !.pc = "markFailed"] \in Plan
        BY <1>0, PlanFields, IdlePlan DEF Plan, ExecPcs
      <4> QED
        BY <2>1, <4>1 DEF AfterRollback
    <3> QED
      BY <1>0, <3>1 DEF TypeOK
  <2>3. balance' \in Int /\ taken' \in Int
    <3>1. CASE Move(-proc[a].take)
      <4>1. balance' = balance - (-proc[a].take) /\ taken' = taken + (-proc[a].take)
        BY <3>1 DEF Move
      <4> QED
        BY <1>0, <4>1, AmountNat
    <3>2. CASE SameMoney
      BY <1>0, <3>2 DEF SameMoney
    <3> QED
      BY <1>2, <3>1, <3>2 DEF RollbackRefund
  <2>4. audits' \subseteq {"REFUND_ROLLBACK_FAILED", "REFUND_SUCCESS"}
    BY <1>0, <1>2 DEF RollbackRefund, WriteAudit, TypeOK
  <2> QED
    BY <1>0, <1>2, <2>2, <2>3, <2>4 DEF RollbackRefund, TypeInv, TypeOK, GwInv, Seen, SameOrder
<1>3. CASE FinalizePendingRefundSuccess(a)
  <2>1. FinalizeTake(a) \in 0..Amount
    BY <1>0, AvailableRange, AmountNat DEF FinalizeTake
  <2>2. proc' \in [Admins -> Plan]
    BY <1>0, <1>3, LeaveType DEF FinalizePendingRefundSuccess
  <2>3. balance' \in Int /\ taken' \in Int
    BY <1>0, <1>3, <2>1, AmountNat DEF FinalizePendingRefundSuccess, Move, SameMoney
  <2>4. /\ status' \in Statuses /\ refundAmount' \in 0..Amount
        /\ audits' \subseteq {"REFUND_ROLLBACK_FAILED", "REFUND_SUCCESS"}
    BY <1>0, <1>3 DEF FinalizePendingRefundSuccess, SameOrder, TypeOK, Statuses, Refunded
  <2> QED
    BY <1>0, <1>3, <2>2, <2>3, <2>4 DEF FinalizePendingRefundSuccess, TypeInv, TypeOK, GwInv
<1> QED
  BY <1>1, <1>2, <1>3

(* The provider's side. *)
LEMMA ProviderType ==
    ASSUME TypeInv, seen' \in Seen, (\E a \in Admins : GatewayRefund(a)) \/ ProviderSettles
    PROVE  TypeInv'
<1>0. /\ TypeOK /\ gw.out \in 0..Amount /\ gw.hold \in 0..Amount /\ gw.out + gw.hold <= Amount
      /\ gw \in [out: 0..Amount, hold: 0..Amount, dropped: BOOLEAN]
  BY DEF TypeInv, TypeOK, GwInv, Seen
<1>1. ASSUME NEW a \in Admins, GatewayRefund(a)
      PROVE  TypeInv'
  <2>1. proc[a].amt \in 0..Amount /\ proc[a] \in Plan
    BY <1>0, PlanFields
  <2>2. gw' \in [out: 0..Amount, hold: 0..Amount, dropped: BOOLEAN] /\ gw'.out + gw'.hold <= Amount
    <3>1. CASE Accepts(proc[a].amt) /\ gw' = [gw EXCEPT !.out = @ + proc[a].amt]
      <4>1. gw.out + proc[a].amt \in 0..Amount /\ gw.out + proc[a].amt + gw.hold <= Amount
        BY <1>0, <2>1, <3>1, AmountNat DEF Accepts
      <4>2. PICK n \in 0..Amount : n = gw.out + proc[a].amt
        BY <4>1
      <4>3. gw' = [gw EXCEPT !.out = n]
        BY <3>1, <4>2
      <4> QED
        BY <1>0, <4>1, <4>2, <4>3
    <3>2. CASE Accepts(proc[a].amt) /\ gw' = [gw EXCEPT !.hold = @ + proc[a].amt]
      <4>1. gw.hold + proc[a].amt \in 0..Amount /\ gw.out + (gw.hold + proc[a].amt) <= Amount
        BY <1>0, <2>1, <3>2, AmountNat DEF Accepts
      <4>2. PICK n \in 0..Amount : n = gw.hold + proc[a].amt
        BY <4>1
      <4>3. gw' = [gw EXCEPT !.hold = n]
        BY <3>2, <4>2
      <4> QED
        BY <1>0, <4>1, <4>2, <4>3
    <3>3. CASE UNCHANGED gw
      BY <1>0, <3>3
    <3> QED
      BY <1>1, <3>1, <3>2, <3>3 DEF GatewayRefund
  <2>3. proc' \in [Admins -> Plan]
    <3>1. CASE proc' = [proc EXCEPT ![a] = [Idle EXCEPT !.pc = "markOk", !.amt = proc[a].amt]]
      <4>1. [Idle EXCEPT !.pc = "markOk", !.amt = proc[a].amt] \in Plan
        BY <2>1, IdlePlan DEF Plan, ExecPcs
      <4> QED
        BY <1>0, <3>1, <4>1 DEF TypeOK
    <3>2. CASE \E x \in {"pending", "failed"} : proc' = [proc EXCEPT ![a].pc = "rollback", ![a].answer = x]
      <4>1. PICK x \in {"pending", "failed"} : proc' = [proc EXCEPT ![a].pc = "rollback", ![a].answer = x]
        BY <3>2
      <4>2. [proc[a] EXCEPT !.pc = "rollback", !.answer = x] \in Plan
        BY <2>1 DEF Plan, ExecPcs
      <4>3. proc' = [proc EXCEPT ![a] = [proc[a] EXCEPT !.pc = "rollback", !.answer = x]]
        BY <4>1
      <4> QED
        BY <1>0, <4>2, <4>3 DEF TypeOK
    <3> QED
      BY <1>1, <3>1, <3>2 DEF GatewayRefund
  <2> QED
    BY <1>0, <1>1, <2>2, <2>3 DEF GatewayRefund, TypeInv, TypeOK, GwInv, Seen, SameOrder, SameMoney, SameAudit
<1>2. CASE ProviderSettles
  <2>1. gw' \in [out: 0..Amount, hold: 0..Amount, dropped: BOOLEAN] /\ gw'.out + gw'.hold <= Amount
    <3>1. CASE gw' = [gw EXCEPT !.hold = 0, !.out = @ + gw.hold]
      <4>1. gw.out + gw.hold \in 0..Amount
        BY <1>0, AmountNat
      <4>2. gw'.out = gw.out + gw.hold /\ gw'.hold = 0
        BY <1>0, <3>1
      <4>3. gw' \in [out: 0..Amount, hold: 0..Amount, dropped: BOOLEAN]
        BY <1>0, <3>1, <4>1, AmountNat
      <4> QED
        BY <1>0, <4>1, <4>2, <4>3, AmountNat
    <3>2. CASE gw' = [gw EXCEPT !.hold = 0, !.dropped = TRUE]
      <4>1. gw'.out = gw.out /\ gw'.hold = 0
        BY <1>0, <3>2
      <4>2. gw' \in [out: 0..Amount, hold: 0..Amount, dropped: BOOLEAN]
        BY <1>0, <3>2, AmountNat
      <4> QED
        BY <1>0, <4>1, <4>2, AmountNat
    <3> QED
      BY <1>2, <3>1, <3>2 DEF ProviderSettles
  <2> QED
    BY <1>0, <1>2, <2>1 DEF ProviderSettles, TypeInv, TypeOK, GwInv, Seen, SameOrder, SameMoney, SameAudit
<1> QED
  BY <1>1, <1>2

LEMMA UserType ==
    ASSUME TypeInv, seen' \in Seen, RequestRefund \/ Spend
    PROVE  TypeInv'
<1>1. /\ UNCHANGED <<audits, pending, gw, proc, taken>>
      /\ \/ status' = "REFUND_REQUESTED" /\ refundAmount' = Amount /\ UNCHANGED balance
         \/ UNCHANGED <<status, refundAmount>> /\ balance' = balance - 1
  BY DEF RequestRefund, Spend, SameOrder, SameMoney, SameAudit
<1>2. status' \in Statuses /\ refundAmount' \in 0..Amount /\ balance' \in Int
  BY <1>1, AmountNat DEF TypeInv, TypeOK, Statuses, Refundable
<1> QED
  BY <1>1, <1>2 DEF TypeInv, TypeOK, GwInv, Seen

LEMMA InitType == Init => TypeInv
<1> SUFFICES ASSUME Init
             PROVE  TypeInv
  OBVIOUS
<1>1. proc \in [Admins -> Plan]
  BY IdlePlan DEF Init
<1>2. gw \in [out: 0..Amount, hold: 0..Amount, dropped: BOOLEAN] /\ gw.out + gw.hold <= Amount
  BY AmountNat DEF Init
<1> QED
  BY <1>1, <1>2, AmountNat, BalanceAssumption, LostAssumption DEF Init, TypeInv, TypeOK, GwInv, Statuses, Refundable

LEMMA NextType == TypeInv /\ [Next]_vars => TypeInv'
<1>1. CASE UNCHANGED vars
  BY <1>1 DEF vars, TypeInv, TypeOK, GwInv
<1> QED
  BY <1>1, SeenNext, PrepareType, ControlType, MoneyType, ProviderType, UserType DEF Next, Step, TypeInv

(* The types hold, and the provider never refunds more than was paid.      *)
THEOREM TypeInvariant == Spec => []TypeInv
BY InitType, NextType, PTL DEF Spec

(* The order, the provider and every admin's plan keep their types.        *)
THEOREM TypeCorrect == Spec => []TypeOK
<1>1. TypeInv => TypeOK
  BY DEF TypeInv
<1> QED
  BY <1>1, TypeInvariant, PTL

-----------------------------------------------------------------------------
(* The steps at which a refund takes money: d is what it takes. *)
LEMMA TakesAvailable ==
    ASSUME TypeInv, [Next]_vars, taken' > taken
    PROVE  \E d \in Nat : d <= balance /\ Move(d)
<1>0. /\ TypeOK /\ balance \in Int /\ taken \in Int /\ taken' # taken
  BY DEF TypeInv, TypeOK
<1>1. PICK a \in Admins : DeductBalance(a) \/ RollbackRefund(a) \/ FinalizePendingRefundSuccess(a)
  BY <1>0 DEF Next, Step, vars, SameMoney, PrepareRefund, LockRefund, DeductError, GatewayRefund, MarkRefundOk,
     MarkRefundPending, AuditRefundPending, RestoreStatus, HandleGwFail, QueryRefund, LatestPendingDetail,
     AskProvider, FinalizeRefundFailed, Crash, RequestRefund, ProviderSettles, Spend
<1>2. proc[a].amt \in 0..Amount /\ proc[a].take \in 0..Amount
  BY <1>0, PlanFields
<1>3. \E n \in 0..Amount : Move(Available(n))
  <2>1. ASSUME NEW d \in Int, Move(d)
        PROVE  d > 0
    BY <1>0, <2>1 DEF Move
  <2>2. CASE DeductBalance(a)
    <3>1. PICK skip \in BOOLEAN :
            Move(IF skip THEN 0 ELSE Available(proc[a].take))
      BY <2>2 DEF DeductBalance
    <3>2. ~skip
      BY <2>1, <3>1
    <3> QED
      BY <1>2, <3>1, <3>2
  <2>3. ~RollbackRefund(a)
    <3>1. -proc[a].take \in Int /\ ~(-proc[a].take > 0)
      BY <1>2, AmountNat
    <3> QED
      BY <1>0, <2>1, <3>1 DEF RollbackRefund, SameMoney
  <2>4. CASE FinalizePendingRefundSuccess(a)
    <3>1. Move(FinalizeTake(a))
      BY <1>0, <2>4 DEF FinalizePendingRefundSuccess, SameMoney
    <3>2. proc[a].ok
      BY <2>1, <3>1 DEF FinalizeTake
    <3> QED
      BY <1>2, <3>1, <3>2 DEF FinalizeTake
  <2> QED
    BY <1>1, <2>2, <2>3, <2>4
<1>4. PICK n \in 0..Amount : Move(Available(n))
  BY <1>3
<1>5. /\ Available(n) \in Nat
      /\ Available(n) > 0 => Available(n) <= balance
  BY <1>0, AvailableRange, AmountNat
<1>6. Available(n) > 0
  BY <1>0, <1>4, <1>5 DEF Move
<1> QED
  BY <1>4, <1>5, <1>6

(* A refund never drives the balance into debt, for any number of admins,  *)
(* both ways to finalize and any fault of the audit table                  *)
(* (DeductAvailableBalance).                                               *)
THEOREM RefundLeavesNoDebt == Spec => RefundNeverOverdraws
<1>1. TypeInv /\ [Next]_vars => [taken' > taken => balance' >= 0]_vars
  <2> SUFFICES ASSUME TypeInv, [Next]_vars, taken' > taken
               PROVE  balance' >= 0
    OBVIOUS
  <2>1. PICK d \in Nat : d <= balance /\ Move(d)
    BY TakesAvailable
  <2> QED
    BY <2>1 DEF Move, TypeInv, TypeOK
<1> QED
  BY <1>1, TypeInvariant, PTL DEF Spec, RefundNeverOverdraws

-----------------------------------------------------------------------------
(* One attempt at a time, while no late failure is written over it.        *)

RollbackFailed == "REFUND_ROLLBACK_FAILED" \in audits

(* What the attempt with plan r has taken: nothing yet, or nothing any     *)
(* more, unless a rollback failed; in between exactly what it deducted.    *)
Owes(r, rolledBackNot, t) ==
    /\ r.pc \in {"deduct", "markPending", "restore", "markFailed"} => t = 0 \/ rolledBackNot
    /\ r.pc \in {"gateway", "rollback"} => t = r.take \/ (rolledBackNot /\ r.take = 0)

MoneyOk ==
    /\ taken \in 0..Amount
    /\ \A a \in Admins : Owes(proc[a], RollbackFailed, taken)
    /\ status \notin Refunded \union {"REFUNDING"} => taken = 0 \/ RollbackFailed

MoneyInv == Audited => MoneyOk

RefundInv == TypeInv /\ SingleFlight /\ MoneyInv

(* What a rollback and the steps of a query leave to be done. *)
LEMMA RollbackPlan ==
    ASSUME proc \in [Admins -> Plan], NEW a \in Admins, RollbackRefund(a)
    PROVE  /\ proc'[a].pc \in {"markPending", "restore", "markFailed"}
           /\ \A b \in Admins \ {a} : proc'[b] = proc[b]
<1>1. PICK ok \in BOOLEAN : AfterRollback(a, ok)
  BY DEF RollbackRefund
<1>2. /\ [Idle EXCEPT !.pc = "markPending", !.amt = proc[a].amt, !.ok = ok].pc = "markPending"
      /\ [Idle EXCEPT !.pc = "restore", !.back = proc[a].back].pc = "restore"
      /\ [Idle EXCEPT !.pc = "markFailed"].pc = "markFailed"
  BY DEF Idle
<1>3. PICK r : proc' = [proc EXCEPT ![a] = r] /\ r.pc \in {"markPending", "restore", "markFailed"}
  <2> DEFINE p == [Idle EXCEPT !.pc = "markPending", !.amt = proc[a].amt, !.ok = ok]
             q == [Idle EXCEPT !.pc = "restore", !.back = proc[a].back]
             f == [Idle EXCEPT !.pc = "markFailed"]
  <2>1. proc' = [proc EXCEPT ![a] = IF proc[a].answer = "pending" THEN p ELSE IF ok THEN q ELSE f]
    BY <1>1 DEF AfterRollback
  <2>2. p.pc = "markPending" /\ q.pc = "restore" /\ f.pc = "markFailed"
    BY <1>2
  <2> HIDE DEF p, q, f
  <2> QED
    BY <2>1, <2>2
<1> QED
  BY <1>3

LEMMA QueryPlan ==
    ASSUME proc \in [Admins -> Plan], NEW a \in Admins, QueryRefund(a) \/ LatestPendingDetail(a) \/ AskProvider(a)
    PROVE  /\ proc'[a].pc \in {"idle", "detail", "ask", "finalize", "queryFailed"}
           /\ \A b \in Admins \ {a} : proc'[b] = proc[b]
<1>1. CASE QueryRefund(a)
  BY <1>1 DEF QueryRefund, Idle
<1>2. CASE LatestPendingDetail(a)
  <2>1. PICK ok \in BOOLEAN : proc' = [proc EXCEPT ![a].pc = "ask", ![a].ok = ok]
    BY <1>2 DEF LatestPendingDetail
  <2> QED
    BY <2>1 DEF Plan
<1>3. CASE AskProvider(a)
  <2>1. CASE Goto(a, "finalize")
    BY <2>1 DEF Goto, Plan
  <2>2. CASE Leave(a) \/ proc' = [proc EXCEPT ![a] = [Idle EXCEPT !.pc = "queryFailed"]]
    BY <2>2 DEF Leave, Idle
  <2> QED
    BY <1>3, <2>1, <2>2 DEF AskProvider
<1> QED
  BY <1>1, <1>2, <1>3

(* The steps of one admin: an attempt begins, goes on, or is not (or no    *)
(* longer) under way, and none changes the status of another's attempt.    *)
LEMMA FlightStep ==
    ASSUME TypeInv, ~seen'.late, NEW a \in Admins, Step(a) \/ Crash(a)
    PROVE  /\ \A b \in Admins \ {a} : proc'[b] = proc[b]
           /\ \/ InFlight(a)' /\ status' = "REFUNDING" /\ status # "REFUNDING"
              \/ InFlight(a)' /\ UNCHANGED status /\ InFlight(a)
              \/ ~InFlight(a)' /\ (UNCHANGED status \/ InFlight(a) \/ status # "REFUNDING")
<1>0. proc \in [Admins -> Plan] /\ seen \in Seen
  BY DEF TypeInv, TypeOK, Seen
<1> USE DEF InFlight, ExecPcs, QueryPcs
<1>1. CASE Leave(a) /\ (UNCHANGED status \/ InFlight(a) \/ status # "REFUNDING")
  <2>1. proc'[a].pc = "idle" /\ \A b \in Admins \ {a} : proc'[b] = proc[b]
    BY <1>0, <1>1 DEF Leave, Idle
  <2> QED
    BY <1>1, <2>1
<1>2. CASE PrepareRefund(a)
  <2>1. PICK n, t, s : proc' = [proc EXCEPT ![a] = [Idle EXCEPT !.pc = "lock", !.amt = n, !.take = t, !.back = s]]
    BY <1>2 DEF PrepareRefund
  <2>2. proc'[a].pc = "lock" /\ \A b \in Admins \ {a} : proc'[b] = proc[b]
    BY <1>0, <2>1 DEF Idle
  <2> QED
    BY <1>2, <2>2 DEF PrepareRefund, SameOrder
<1>3. CASE LockRefund(a) /\ status \in Refundable
  <2>1. PICK l \in {"deduct", "gateway"} : proc' = [proc EXCEPT ![a].pc = l]
    BY <1>3 DEF LockRefund, Goto
  <2>2. proc'[a].pc = l /\ \A b \in Admins \ {a} : proc'[b] = proc[b]
    BY <1>0, <2>1 DEF Plan
  <2>3. status' = "REFUNDING" /\ status # "REFUNDING"
    BY <1>3 DEF LockRefund, Refundable
  <2> QED
    BY <2>2, <2>3
<1>4. CASE DeductBalance(a) \/ DeductError(a) \/ GatewayRefund(a) \/ RollbackRefund(a)
  <2>1. InFlight(a) /\ UNCHANGED status
    BY <1>4 DEF DeductBalance, DeductError, GatewayRefund, RollbackRefund, At, SameOrder
  <2>2. /\ proc'[a].pc \in {"gateway", "restore", "markOk", "rollback", "markPending", "markFailed"}
        /\ \A b \in Admins \ {a} : proc'[b] = proc[b]
    <3>1. CASE DeductBalance(a)
      BY <1>0, <3>1 DEF DeductBalance, Plan
    <3>2. CASE DeductError(a)
      BY <1>0, <3>2 DEF DeductError, Idle
    <3>3. CASE GatewayRefund(a)
      <4>1. CASE proc' = [proc EXCEPT ![a] = [Idle EXCEPT !.pc = "markOk", !.amt = proc[a].amt]]
        BY <1>0, <4>1 DEF Idle
      <4>2. CASE \E x : proc' = [proc EXCEPT ![a].pc = "rollback", ![a].answer = x]
        BY <1>0, <4>2 DEF Plan
      <4> QED
        BY <3>3, <4>1, <4>2 DEF GatewayRefund
    <3>4. CASE RollbackRefund(a)
      BY <1>0, <3>4, RollbackPlan
    <3> QED
      BY <1>4, <3>1, <3>2, <3>3, <3>4
  <2> QED
    BY <2>1, <2>2
<1>5. CASE MarkRefundPending(a)
  <2>1. InFlight(a) /\ proc' = [proc EXCEPT ![a] = [Idle EXCEPT !.pc = "auditPending", !.ok = proc[a].ok]]
    BY <1>5 DEF MarkRefundPending, At
  <2>2. proc'[a].pc = "auditPending" /\ \A b \in Admins \ {a} : proc'[b] = proc[b]
    BY <1>0, <2>1 DEF Idle
  <2> QED
    BY <2>1, <2>2
<1>6. CASE QueryRefund(a) \/ LatestPendingDetail(a) \/ AskProvider(a)
  <2>1. UNCHANGED status
    BY <1>6 DEF QueryRefund, LatestPendingDetail, AskProvider, SameOrder
  <2>2. ~InFlight(a)' /\ \A b \in Admins \ {a} : proc'[b] = proc[b]
    BY <1>0, <1>6, QueryPlan
  <2> QED
    BY <2>1, <2>2
<1>7. CASE \/ LockRefund(a) /\ status \notin Refundable
           \/ MarkRefundOk(a) \/ AuditRefundPending(a) \/ RestoreStatus(a) \/ HandleGwFail(a) \/ Crash(a)
           \/ FinalizePendingRefundSuccess(a)
  <2>1. Leave(a) /\ (UNCHANGED status \/ InFlight(a) \/ status # "REFUNDING")
    BY <1>7 DEF LockRefund, MarkRefundOk, AuditRefundPending, RestoreStatus, HandleGwFail, Crash, SameOrder, At,
       FinalizePendingRefundSuccess
  <2> QED
    BY <1>1, <2>1
<1>8. CASE FinalizeRefundFailed(a)
  <2>1. seen'.late = (seen.late \/ status # "REFUND_PENDING") /\ Leave(a)
    BY <1>0, <1>8 DEF FinalizeRefundFailed, Seen
  <2> QED
    BY <1>1, <2>1
<1>9. CASE LockRefund(a)
  BY <1>3, <1>7, <1>9
<1> QED
  BY <1>2, <1>4, <1>5, <1>6, <1>7, <1>8, <1>9 DEF Step

(* At most one attempt is in flight, and then the order says REFUNDING.    *)
LEMMA FlightNext ==
    ASSUME TypeInv, SingleFlight, [Next]_vars
    PROVE  SingleFlight'
<1> SUFFICES ASSUME ~seen'.late, NEW b \in Admins, InFlight(b)'
             PROVE  status' = "REFUNDING" /\ \A c \in Admins \ {b} : ~InFlight(c)'
  BY DEF SingleFlight
<1>0. ~seen.late
  BY SeenNext DEF TypeInv
<1>1. CASE UNCHANGED <<proc, status>>
  BY <1>0, <1>1 DEF SingleFlight, InFlight
<1>2. CASE RequestRefund \/ ProviderSettles \/ Spend
  <2>1. UNCHANGED proc /\ (UNCHANGED status \/ status # "REFUNDING")
    BY <1>2 DEF RequestRefund, ProviderSettles, Spend, SameOrder
  <2> QED
    BY <1>0, <2>1 DEF SingleFlight, InFlight
<1>3. ASSUME NEW a \in Admins, Step(a) \/ Crash(a)
      PROVE  status' = "REFUNDING" /\ \A c \in Admins \ {b} : ~InFlight(c)'
  <2>1. /\ \A c \in Admins \ {a} : proc'[c] = proc[c]
        /\ \/ InFlight(a)' /\ status' = "REFUNDING" /\ status # "REFUNDING"
           \/ InFlight(a)' /\ UNCHANGED status /\ InFlight(a)
           \/ ~InFlight(a)' /\ (UNCHANGED status \/ InFlight(a) \/ status # "REFUNDING")
    BY <1>3, FlightStep
  <2>2. ASSUME NEW c \in Admins \ {a}, InFlight(c)'
        PROVE  InFlight(c) /\ ~InFlight(a) /\ ~InFlight(a)' /\ status' = "REFUNDING"
    BY <1>0, <2>1, <2>2 DEF SingleFlight, InFlight
  <2>3. CASE b = a
    BY <1>0, <2>1, <2>2, <2>3 DEF SingleFlight
  <2>4. CASE b # a
    <3>1. ASSUME NEW c \in Admins \ {b}
          PROVE  ~InFlight(c)'
      BY <1>0, <2>2, <2>4 DEF SingleFlight
    <3> QED
      BY <2>2, <2>4, <3>1
  <2> QED
    BY <2>3, <2>4
<1> QED
  BY <1>1, <1>2, <1>3 DEF Next, vars

LEMMA InitFlight == Init => SingleFlight
<1> SUFFICES ASSUME Init
             PROVE  SingleFlight
  OBVIOUS
<1>1. \A a \in Admins : proc[a].pc = "idle"
  BY DEF Init, Idle
<1> QED
  BY <1>1 DEF SingleFlight, InFlight, ExecPcs

(* At most one attempt runs at a time, and the order says so, however many *)
(* admins try and query, wherever requests die and whatever the audit      *)
(* table loses, until the late failure of a query is written over it       *)
(* (ExecuteRefund's first UPDATE, finalizeRefundFailed).                   *)
THEOREM OneAttemptAtATime == Spec => []SingleFlight
<1>1. TypeInv /\ SingleFlight /\ [Next]_vars => TypeInv' /\ SingleFlight'
  BY NextType, FlightNext
<1> QED
  BY <1>1, InitType, InitFlight, PTL DEF Spec

-----------------------------------------------------------------------------
(* What the attempts take, while the audit table works.                    *)

(* MoneyOk after a step of a, from what the step does to a, to the money   *)
(* and to the audit log.                                                   *)
LEMMA Assemble ==
    ASSUME RefundInv, Audited, NEW a \in Admins,
           \A b \in Admins \ {a} : proc'[b] = proc[b],
           taken' \in 0..Amount,
           Owes(proc'[a], RollbackFailed', taken'),
           InFlight(a) \/ UNCHANGED <<taken, audits>>,
           status' \notin Refunded \union {"REFUNDING"} => taken' = 0 \/ RollbackFailed'
    PROVE  MoneyOk'
<1>1. ASSUME NEW b \in Admins \ {a}
      PROVE  Owes(proc'[b], RollbackFailed', taken')
  <2>1. CASE InFlight(b)
    <3>1. UNCHANGED <<taken, audits>>
      BY <2>1 DEF RefundInv, SingleFlight, Audited
    <3> QED
      BY <3>1 DEF RefundInv, MoneyInv, MoneyOk, RollbackFailed
  <2>2. CASE ~InFlight(b)
    BY <2>2 DEF InFlight, ExecPcs, Owes
  <2> QED
    BY <2>1, <2>2
<1> QED
  BY <1>1 DEF MoneyOk

(* What the invariant says of admin a. *)
LEMMA PlanFacts ==
    ASSUME RefundInv, Audited, NEW a \in Admins
    PROVE  /\ TypeOK /\ proc \in [Admins -> Plan] /\ Amount \in Nat /\ balance \in Int
           /\ proc[a].amt \in 0..Amount /\ proc[a].take \in 0..Amount /\ taken \in 0..Amount
           /\ Owes(proc[a], RollbackFailed, taken)
           /\ InFlight(a) => status = "REFUNDING"
           /\ status \notin Refunded \union {"REFUNDING"} => taken = 0 \/ RollbackFailed
<1>1. TypeOK /\ MoneyOk /\ SingleFlight /\ ~seen.late
  BY DEF RefundInv, TypeInv, MoneyInv, Audited
<1> QED
  BY <1>1, PlanFields, AmountNat DEF SingleFlight, MoneyOk, TypeOK

(* A step that leaves the attempt of a, or does not begin one. *)
LEMMA OutsideInd ==
    ASSUME RefundInv, Audited, NEW a \in Admins,
           \/ PrepareRefund(a) \/ AuditRefundPending(a) \/ Crash(a)
           \/ QueryRefund(a) \/ LatestPendingDetail(a) \/ AskProvider(a)
    PROVE  MoneyOk'
<1>0. proc \in [Admins -> Plan]
  BY PlanFacts
<1>1. UNCHANGED <<status, taken, audits>>
  BY DEF PrepareRefund, AuditRefundPending, Crash, QueryRefund, LatestPendingDetail, AskProvider, SameOrder, SameMoney,
         SameAudit
<1>2. proc'[a].pc \in {"idle", "lock"} \union QueryPcs /\ \A b \in Admins \ {a} : proc'[b] = proc[b]
  <2>1. CASE PrepareRefund(a)
    <3>1. PICK n, t, s : proc' = [proc EXCEPT ![a] = [Idle EXCEPT !.pc = "lock", !.amt = n, !.take = t, !.back = s]]
      BY <2>1 DEF PrepareRefund
    <3> QED
      BY <1>0, <3>1 DEF Idle
  <2>2. CASE Leave(a)
    BY <1>0, <2>2 DEF Leave, Idle
  <2>3. CASE QueryRefund(a) \/ LatestPendingDetail(a) \/ AskProvider(a)
    BY <1>0, <2>3, QueryPlan DEF QueryPcs
  <2> QED
    BY <2>1, <2>2, <2>3 DEF AuditRefundPending, Crash
<1>3. Owes(proc'[a], RollbackFailed', taken')
  BY <1>2 DEF Owes, QueryPcs
<1>4. taken' \in 0..Amount /\ (status' \notin Refunded \union {"REFUNDING"} => taken' = 0 \/ RollbackFailed')
  BY <1>1, PlanFacts DEF RollbackFailed
<1> QED
  BY <1>1, <1>2, <1>3, <1>4, Assemble

(* The lock of the attempt: the order was refundable, so no one was in     *)
(* flight and no money was missing.                                        *)
LEMMA LockInd ==
    ASSUME RefundInv, Audited, NEW a \in Admins, LockRefund(a)
    PROVE  MoneyOk'
<1>0. /\ proc \in [Admins -> Plan] /\ proc[a].take \in 0..Amount /\ Amount \in Nat /\ taken \in 0..Amount
      /\ status \notin Refunded \union {"REFUNDING"} => taken = 0 \/ RollbackFailed
  BY PlanFacts
<1>1. UNCHANGED <<taken, audits>> /\ proc[a].pc = "lock"
  BY DEF LockRefund, SameMoney, SameAudit, At
<1>2. CASE status \in Refundable
  <2>1. status' = "REFUNDING" /\ status # "REFUNDING" /\ (taken = 0 \/ RollbackFailed)
    BY <1>0, <1>2 DEF LockRefund, Refundable, Refunded
  <2>2. PICK l \in {"deduct", "gateway"} :
             proc' = [proc EXCEPT ![a].pc = l] /\ (l = "gateway" => ~(proc[a].take > 0))
    BY <1>2 DEF LockRefund, Goto
  <2>3. /\ proc'[a].take = proc[a].take
        /\ proc'[a].pc = l
        /\ \A b \in Admins \ {a} : proc'[b] = proc[b]
    BY <1>0, <2>2 DEF Plan
  <2>4. Owes(proc'[a], RollbackFailed', taken')
    <3>1. taken = 0 \/ RollbackFailed'
      BY <1>1, <2>1 DEF RollbackFailed
    <3>2. l = "gateway" => proc[a].take = 0
      BY <1>0, <2>2
    <3> QED
      BY <1>1, <2>2, <2>3, <3>1, <3>2 DEF Owes
  <2> QED
    BY <1>0, <1>1, <2>1, <2>3, <2>4, Assemble
<1>3. CASE status \notin Refundable
  <2>1. UNCHANGED status /\ proc' = [proc EXCEPT ![a] = Idle]
    BY <1>3 DEF LockRefund, Leave
  <2>2. proc'[a].pc = "idle" /\ \A b \in Admins \ {a} : proc'[b] = proc[b]
    BY <1>0, <2>1 DEF Idle
  <2>3. Owes(proc'[a], RollbackFailed', taken')
    BY <2>2 DEF Owes
  <2>4. status' \notin Refunded \union {"REFUNDING"} => taken' = 0 \/ RollbackFailed'
    BY <1>0, <1>1, <2>1 DEF RollbackFailed
  <2> QED
    BY <1>0, <1>1, <2>2, <2>3, <2>4, Assemble
<1> QED
  BY <1>2, <1>3

(* DeductBalance, the only step of an attempt that takes money. *)
LEMMA DeductInd ==
    ASSUME RefundInv, Audited, Audited', NEW a \in Admins, DeductBalance(a)
    PROVE  MoneyOk'
<1>0. /\ TypeOK /\ proc \in [Admins -> Plan] /\ proc[a].take \in 0..Amount /\ Amount \in Nat
      /\ balance \in Int /\ taken \in 0..Amount /\ (taken = 0 \/ RollbackFailed)
      /\ InFlight(a) /\ status = "REFUNDING"
  BY PlanFacts DEF DeductBalance, At, Owes, InFlight, ExecPcs
<1>1. UNCHANGED <<status, audits>>
  BY DEF DeductBalance, SameOrder, SameAudit
<1>2. PICK skip \in {RollbackFailed} :
        LET d == IF skip THEN 0 ELSE Available(proc[a].take)
        IN  Move(d) /\ proc' = [proc EXCEPT ![a].pc = "gateway", ![a].take = d]
  <2>1. ~Lost
    BY <1>0, LostNoted
  <2>2. PICK skip \in BOOLEAN :
          LET d == IF skip THEN 0 ELSE Available(proc[a].take)
          IN  /\ HasAuditLog(RollbackFailed, skip)
              /\ Move(d) /\ proc' = [proc EXCEPT ![a].pc = "gateway", ![a].take = d]
    BY DEF DeductBalance, RollbackFailed
  <2>3. skip = RollbackFailed
    BY <2>1, <2>2, Zenon DEF HasAuditLog
  <2> QED
    BY <2>2, <2>3, Zenon
<1> DEFINE d == IF skip THEN 0 ELSE Available(proc[a].take)
<1>3. d \in 0..Amount /\ (RollbackFailed => d = 0)
  BY <1>0, <1>2, AvailableRange
<1>4. Move(d) /\ proc' = [proc EXCEPT ![a].pc = "gateway", ![a].take = d]
  BY <1>2
<1> HIDE DEF d
<1>5. /\ proc'[a].pc = "gateway" /\ proc'[a].take = d
      /\ \A b \in Admins \ {a} : proc'[b] = proc[b]
  BY <1>0, <1>4 DEF Plan
<1>6. taken' = d \/ (RollbackFailed /\ d = 0 /\ taken' = taken)
  BY <1>0, <1>3, <1>4 DEF Move
<1>7. taken' \in 0..Amount /\ Owes(proc'[a], RollbackFailed', taken')
  BY <1>0, <1>1, <1>3, <1>5, <1>6 DEF Owes, RollbackFailed
<1> QED
  BY <1>0, <1>1, <1>5, <1>7, Assemble

(* A failed deduction and the provider's answer move no money. *)
LEMMA AnswerInd ==
    ASSUME RefundInv, Audited, NEW a \in Admins, DeductError(a) \/ GatewayRefund(a)
    PROVE  MoneyOk'
<1>0. /\ proc \in [Admins -> Plan] /\ taken \in 0..Amount
      /\ proc[a].pc = "deduct" \/ proc[a].pc = "gateway"
      /\ InFlight(a) /\ status = "REFUNDING" /\ Owes(proc[a], RollbackFailed, taken)
  BY PlanFacts DEF DeductError, GatewayRefund, At, InFlight, ExecPcs
<1>1. UNCHANGED <<status, audits, taken>>
  BY DEF DeductError, GatewayRefund, SameOrder, SameMoney, SameAudit
<1>2. /\ \/ proc[a].pc = "deduct" /\ proc'[a].pc = "restore"
         \/ proc[a].pc = "gateway" /\ proc'[a].pc = "markOk"
         \/ proc[a].pc = "gateway" /\ proc'[a].pc = "rollback" /\ proc'[a].take = proc[a].take
      /\ \A b \in Admins \ {a} : proc'[b] = proc[b]
  <2>1. CASE DeductError(a)
    BY <1>0, <2>1 DEF DeductError, At, Idle
  <2>2. CASE GatewayRefund(a)
    <3>1. CASE proc' = [proc EXCEPT ![a] = [Idle EXCEPT !.pc = "markOk", !.amt = proc[a].amt]]
      BY <1>0, <2>2, <3>1 DEF GatewayRefund, At, Idle
    <3>2. CASE \E x : proc' = [proc EXCEPT ![a].pc = "rollback", ![a].answer = x]
      BY <1>0, <2>2, <3>2 DEF GatewayRefund, At, Plan
    <3> QED
      BY <2>2, <3>1, <3>2 DEF GatewayRefund
  <2> QED
    BY <2>1, <2>2
<1>3. Owes(proc'[a], RollbackFailed', taken')
  BY <1>0, <1>1, <1>2 DEF Owes, RollbackFailed
<1> QED
  BY <1>0, <1>1, <1>2, <1>3, Assemble

(* RollbackRefund gives back what was taken, or says that it could not. *)
LEMMA RollbackInd ==
    ASSUME RefundInv, Audited, Audited', NEW a \in Admins, RollbackRefund(a)
    PROVE  MoneyOk'
<1>0. /\ TypeOK /\ proc \in [Admins -> Plan] /\ taken \in 0..Amount /\ proc[a].take \in 0..Amount /\ Amount \in Nat
      /\ InFlight(a) /\ status = "REFUNDING"
      /\ taken = proc[a].take \/ (RollbackFailed /\ proc[a].take = 0)
  BY PlanFacts DEF RollbackRefund, At, InFlight, ExecPcs, Owes
<1>1. UNCHANGED status
  BY DEF RollbackRefund, SameOrder
<1>2. /\ proc'[a].pc \in {"markPending", "restore", "markFailed"}
      /\ \A b \in Admins \ {a} : proc'[b] = proc[b]
  BY <1>0, RollbackPlan
<1>3. taken' \in 0..Amount /\ (taken' = 0 \/ RollbackFailed')
  <2>1. CASE Move(-proc[a].take) /\ UNCHANGED audits
    <3>1. taken' = taken + (-proc[a].take)
      BY <2>1 DEF Move
    <3> QED
      BY <1>0, <2>1, <3>1 DEF RollbackFailed
  <2>2. CASE SameMoney /\ WriteAudit("REFUND_ROLLBACK_FAILED")
    BY <1>0, <2>2, LostNoted DEF SameMoney, WriteAudit, RollbackFailed
  <2> QED
    BY <2>1, <2>2 DEF RollbackRefund
<1>4. Owes(proc'[a], RollbackFailed', taken')
  BY <1>2, <1>3 DEF Owes
<1> QED
  BY <1>0, <1>2, <1>3, <1>4, Assemble

(* The steps that end an attempt with a status of the order. *)
LEMMA EndInd ==
    ASSUME RefundInv, Audited, NEW a \in Admins,
           MarkRefundOk(a) \/ MarkRefundPending(a) \/ RestoreStatus(a) \/ HandleGwFail(a)
    PROVE  MoneyOk'
<1>0. /\ proc \in [Admins -> Plan] /\ taken \in 0..Amount /\ InFlight(a)
      /\ Owes(proc[a], RollbackFailed, taken)
  BY PlanFacts DEF MarkRefundOk, MarkRefundPending, RestoreStatus, HandleGwFail, At, InFlight, ExecPcs
<1>1. taken' = taken /\ (RollbackFailed => RollbackFailed')
  BY DEF MarkRefundOk, MarkRefundPending, RestoreStatus, HandleGwFail, SameMoney, SameAudit, WriteAudit, RollbackFailed
<1>2. /\ proc'[a].pc \in {"idle", "auditPending"}
      /\ \A b \in Admins \ {a} : proc'[b] = proc[b]
  <2>1. CASE MarkRefundPending(a)
    <3>1. PICK r : r = [Idle EXCEPT !.pc = "auditPending", !.ok = proc[a].ok]
      OBVIOUS
    <3>2. r.pc = "auditPending"
      BY <3>1 DEF Idle
    <3>3. proc' = [proc EXCEPT ![a] = r]
      BY <2>1, <3>1 DEF MarkRefundPending
    <3> QED
      BY <1>0, <3>2, <3>3
  <2>2. CASE Leave(a)
    BY <1>0, <2>2 DEF Leave, Idle
  <2> QED
    BY <2>1, <2>2 DEF MarkRefundOk, RestoreStatus, HandleGwFail
<1>3. status' \in Refunded \/ taken = 0 \/ RollbackFailed
  BY <1>0 DEF MarkRefundOk, MarkRefundPending, RestoreStatus, HandleGwFail, Refunded, At, Owes
<1>4. Owes(proc'[a], RollbackFailed', taken')
  BY <1>2 DEF Owes
<1> QED
  BY <1>0, <1>1, <1>2, <1>3, <1>4, Assemble

(* A query's answer is final for a pending refund only: a success counts   *)
(* as seen, and a failure that is not late finds no attempt under way.     *)
LEMMA FinalizeInd ==
    ASSUME RefundInv, Audited, Audited', NEW a \in Admins,
           FinalizePendingRefundSuccess(a) \/ FinalizeRefundFailed(a)
    PROVE  MoneyOk'
<1>0. /\ TypeOK /\ proc \in [Admins -> Plan] /\ taken \in 0..Amount /\ seen \in Seen
      /\ status \notin Refunded \union {"REFUNDING"} => taken = 0 \/ RollbackFailed
  BY PlanFacts DEF TypeOK, Seen
<1>1. UNCHANGED <<taken, audits>> /\ Leave(a)
  <2>1. CASE FinalizePendingRefundSuccess(a)
    <3>1. seen' # [seen EXCEPT !.finalized = TRUE]
      BY <1>0 DEF Audited, Seen
    <3> QED
      BY <2>1, <3>1 DEF FinalizePendingRefundSuccess, SameMoney
  <2>2. CASE FinalizeRefundFailed(a)
    BY <2>2 DEF FinalizeRefundFailed, SameMoney, SameAudit
  <2> QED
    BY <2>1, <2>2
<1>2. status' = status \/ status = "REFUND_PENDING"
  <2>1. CASE FinalizePendingRefundSuccess(a)
    BY <2>1 DEF FinalizePendingRefundSuccess, SameOrder
  <2>2. CASE FinalizeRefundFailed(a)
    <3>1. PICK b \in BOOLEAN : b = (seen.late \/ status # "REFUND_PENDING")
      BY Zenon
    <3>2. seen' = [seen EXCEPT !.late = b]
      BY <2>2, <3>1 DEF FinalizeRefundFailed
    <3>3. ~b
      BY <1>0, <3>2 DEF Audited, Seen
    <3> QED
      BY <3>1, <3>3
  <2> QED
    BY <2>1, <2>2
<1>3. proc'[a].pc = "idle" /\ \A b \in Admins \ {a} : proc'[b] = proc[b]
  BY <1>0, <1>1 DEF Leave, Idle
<1>4. Owes(proc'[a], RollbackFailed', taken')
  BY <1>3 DEF Owes
<1>5. status' \notin Refunded \union {"REFUNDING"} => taken' = 0 \/ RollbackFailed'
  BY <1>0, <1>1, <1>2 DEF Refunded, RollbackFailed
<1> QED
  BY <1>0, <1>1, <1>3, <1>4, <1>5, Assemble

(* The steps that are no attempt's: the user asks, the provider settles,   *)
(* billing spends.                                                         *)
LEMMA OthersInd ==
    ASSUME RefundInv, Audited, RequestRefund \/ ProviderSettles \/ Spend \/ UNCHANGED vars
    PROVE  MoneyOk'
<1>1. /\ UNCHANGED <<proc, taken, audits>>
      /\ UNCHANGED status \/ (status = "COMPLETED" /\ status' = "REFUND_REQUESTED")
  BY DEF RequestRefund, ProviderSettles, Spend, SameOrder, SameMoney, SameAudit, vars
<1> QED
  BY <1>1 DEF RefundInv, MoneyInv, MoneyOk, RollbackFailed, Refunded

LEMMA InitInd == Init => RefundInv
<1> SUFFICES ASSUME Init
             PROVE  RefundInv
  OBVIOUS
<1>1. TypeInv /\ SingleFlight
  BY InitType, InitFlight
<1>2. \A a \in Admins : proc[a].pc = "idle"
  BY DEF Init, Idle
<1>3. MoneyOk
  BY <1>2, AmountNat DEF Init, MoneyOk, Owes
<1> QED
  BY <1>1, <1>3 DEF RefundInv, MoneyInv

LEMMA NextInd == RefundInv /\ [Next]_vars => RefundInv'
<1> SUFFICES ASSUME RefundInv, [Next]_vars
             PROVE  RefundInv'
  OBVIOUS
<1>1. TypeInv' /\ SingleFlight'
  BY NextType, FlightNext DEF RefundInv
<1>2. ASSUME Audited'
      PROVE  MoneyOk'
  <2>1. Audited
    BY <1>2, SeenNext DEF RefundInv, TypeInv
  <2>2. ASSUME NEW a \in Admins, Step(a) \/ Crash(a)
        PROVE  MoneyOk'
    BY <1>2, <2>1, <2>2, OutsideInd, LockInd, DeductInd, AnswerInd, RollbackInd, EndInd, FinalizeInd DEF Step
  <2> QED
    BY <2>1, <2>2, OthersInd DEF Next
<1> QED
  BY <1>1, <1>2 DEF RefundInv, MoneyInv

(* The inductive invariant of refunds: types, one attempt at a time, and   *)
(* what the attempts have taken.                                           *)
THEOREM Inductive == Spec => []RefundInv
BY InitInd, NextInd, PTL DEF Spec

(* However often the refund is tried and queried, its attempts take at     *)
(* most the order's amount from the user (ExecuteRefund, RollbackRefund).  *)
THEOREM TakenOnce == Spec => []AttemptsTakeOnce
<1>1. RefundInv => AttemptsTakeOnce
  BY AmountNat DEF RefundInv, MoneyInv, MoneyOk, AttemptsTakeOnce
<1> QED
  BY <1>1, Inductive, PTL

(* Money that was taken and not refunded is in the audit log               *)
(* (RollbackRefund).                                                       *)
THEOREM TakenIsAudited == Spec => []MissingMoneyIsAudited
<1>1. RefundInv => MissingMoneyIsAudited
  BY DEF RefundInv, MoneyInv, MoneyOk, MissingMoneyIsAudited, RollbackFailed
<1> QED
  BY <1>1, Inductive, PTL

=============================================================================
