------------------------- MODULE PaymentOrderProofs -------------------------
(***************************************************************************)
(* Proofs about PaymentOrder, for any set of concurrent executions and any *)
(* selection of entry points.                                              *)
(*                                                                         *)
(* The inductive invariant says what the order row, the provider and the   *)
(* idempotency records (the redeem code, the audit rows) say of each other *)
(* (RowInv), and what an execution may rely on at each of its steps        *)
(* (Needs), for instance that the credit is recorded once it is past the   *)
(* redeem transaction.                                                     *)
(***************************************************************************)
EXTENDS PaymentOrder, TLAPS

CreatePcs == {"invoke", "details", "createFailed"}

(* The idempotency record of the credit, and the decision on the rebate,   *)
(* in a redeem code c and the audit rows a.                                *)
Backed(c, a) == c = "used" \/ "SUBSCRIPTION_ASSIGNED" \in a
Rebated(a)   == "REBATE_APPLIED" \in a \/ "REBATE_SKIPPED" \in a

RowInv ==
    /\ order.paidAt => gw.paid /\ gw.valid /\ order.status \in {"PAID", "RECHARGING", "COMPLETED", "FAILED"}
    /\ order.status \in {"PAID", "RECHARGING", "COMPLETED"} => gw.paid /\ gw.valid
    /\ Backed(code, audits) => gw.paid /\ gw.valid
    /\ order.status = "COMPLETED" => Backed(code, audits) /\ Rebated(audits)
    /\ order.status = "NONE" => ~gw.open /\ ~gw.paid
    /\ "SUCCESS" \in audits => Backed(code, audits)
    /\ Rebated(audits) => Backed(code, audits)
    /\ order.type = "balance" => "SUBSCRIPTION_ASSIGNED" \notin audits
    /\ order.type = "subscription" => code = "absent"

(* What an execution at step l may rely on, for the row o, the provider g, *)
(* the redeem code c and the audit rows a.                                 *)
Needs(l, o, g, c, a) ==
    /\ l \in CreatePcs => ~g.open /\ ~g.paid /\ o.status # "NONE"
    /\ l \in {"persist", "confirm"} => g.paid
    /\ l \in {"toPaid", "already"} \union LeasePcs \union WorkPcs => g.paid /\ g.valid
    /\ l = "already" => o.status \notin {"NONE", "PENDING", "CANCELLED"}
    /\ l \in {"lookup", "create", "redeem", "use"} => o.type = "balance"
    /\ l \in {"subCheck", "subTx"} => o.type = "subscription"
    /\ l \in {"rebate", "complete", "completeConflict"} => Backed(c, a)
    /\ l \in {"complete", "completeConflict"} => Rebated(a)

StepsInv == \A p \in Procs : Needs(proc[p].pc, order, gw, code, audits)

OneCreator ==
    \A p, q \in Procs : proc[p].pc \in CreatePcs /\ proc[q].pc \in CreatePcs => p = q

IndInv ==
    /\ TypeOK
    /\ ExactlyOnce
    /\ AckMeansSettled
    /\ RowInv
    /\ StepsInv
    /\ OneCreator

-----------------------------------------------------------------------------
(* How a step moves the control of the executions. *)

ProcType == [pc: Pcs, kind: AllKinds \union {"none"}, seen: BOOLEAN]

Moved(p, l) ==
    /\ proc' \in [Procs -> ProcType]
    /\ \A q \in Procs : proc'[q].pc = IF q = p THEN l ELSE proc[q].pc

(* Goto leads execution p to step l and leaves the others where they are. *)
LEMMA GotoMoves ==
    ASSUME TypeOK, NEW p \in Procs, NEW l \in Pcs, Goto(p, l)
    PROVE  Moved(p, l)
BY DEF Goto, TypeOK, ProcType, Moved

(* So does Leave, to the idle step. *)
LEMMA LeaveMoves ==
    ASSUME TypeOK, NEW p \in Procs, Leave(p)
    PROVE  Moved(p, "idle")
BY DEF Leave, Idle, TypeOK, ProcType, Moved, Pcs

(* And the start of an entry point. *)
LEMMA StartMoves ==
    ASSUME TypeOK, NEW p \in Procs, NEW k, NEW l \in Pcs, Start(p, k, l)
    PROVE  Moved(p, l)
<1>1. k \in AllKinds
  BY KindsAssumption DEF Start
<1>2. order.tradeNo \in BOOLEAN
  BY DEF TypeOK
<1> QED
  BY <1>1, <1>2 DEF Start, TypeOK, ProcType, Moved

(* An idle or failing execution relies on nothing. *)
LEMMA IdleNeedsNothing ==
    ASSUME NEW o, NEW g, NEW c, NEW a
    PROVE  Needs("idle", o, g, c, a) /\ Needs("fail", o, g, c, a)
BY DEF Needs, CreatePcs, LeasePcs, WorkPcs

(* What no step takes away from the executions that do not take it; only   *)
(* an execution that is still creating the order minds the provider.       *)
Grows ==
    /\ order'.type = order.type
    /\ order.status # "NONE" => order'.status # "NONE"
    /\ order.status \notin {"NONE", "PENDING", "CANCELLED"}
         => order'.status \notin {"NONE", "PENDING", "CANCELLED"}
    /\ gw.paid => gw'.paid
    /\ gw.valid => gw'.valid
    /\ Backed(code, audits) => Backed(code', audits')
    /\ Rebated(audits) => Rebated(audits')

StaysClosed == (gw'.open \/ gw'.paid) => (gw.open \/ gw.paid)

(* An execution may still rely on all it relied on after such a step. *)
LEMMA NeedsKept ==
    ASSUME TypeOK, TypeOK', Grows, NEW l \in Pcs,
           Needs(l, order, gw, code, audits), StaysClosed \/ l \notin CreatePcs
    PROVE  Needs(l, order', gw', code', audits')
<1>1. /\ gw.open \in BOOLEAN /\ gw.paid \in BOOLEAN /\ gw.valid \in BOOLEAN
      /\ gw'.open \in BOOLEAN /\ gw'.paid \in BOOLEAN /\ gw'.valid \in BOOLEAN
  BY DEF TypeOK
<1> QED
  BY <1>1 DEF Needs, Grows, StaysClosed

(* The invariant after a step of p that leads to l, from its parts. *)
LEMMA Assemble ==
    ASSUME IndInv, NEW p \in Procs, NEW l \in Pcs, Moved(p, l), Grows,
           l \in CreatePcs => \/ proc[p].pc \in CreatePcs
                              \/ \A q \in Procs : proc[q].pc \notin CreatePcs,
           StaysClosed \/ \A q \in Procs \ {p} : proc[q].pc \notin CreatePcs,
           TypeOK', ExactlyOnce', AckMeansSettled', RowInv',
           Needs(l, order', gw', code', audits')
    PROVE  IndInv'
<1>1. ASSUME NEW q \in Procs PROVE Needs(proc'[q].pc, order', gw', code', audits')
  <2>1. CASE q = p
    <3>1. proc'[q].pc = l
      BY <2>1 DEF Moved
    <3> QED
      BY <3>1
  <2>2. CASE q # p
    <3>1. proc'[q].pc = proc[q].pc /\ q \in Procs \ {p}
      BY <2>2 DEF Moved
    <3>2. proc[q].pc \in Pcs
      BY DEF IndInv, TypeOK
    <3>3. Needs(proc[q].pc, order, gw, code, audits)
      BY DEF IndInv, StepsInv
    <3>4. StaysClosed \/ proc[q].pc \notin CreatePcs
      BY <3>1
    <3>5. TypeOK
      BY DEF IndInv
    <3> QED
      BY <3>1, <3>2, <3>3, <3>4, <3>5, NeedsKept
  <2> QED
    BY <2>1, <2>2
<1>2. OneCreator'
  BY DEF IndInv, OneCreator, Moved
<1>3. StepsInv'
  BY <1>1 DEF StepsInv
<1> QED
  BY <1>2, <1>3 DEF IndInv

(* A step that only moves p's control to l, and perhaps its lease. *)
LEMMA ControlStep ==
    ASSUME IndInv, NEW p \in Procs, NEW l \in Pcs, Moved(p, l), holders' \subseteq Procs,
           UNCHANGED <<order, due, gw, code, audits, granted, rebates, faulty, blocked, excuse>>,
           l \in CreatePcs => proc[p].pc \in CreatePcs,
           Needs(l, order, gw, code, audits)
    PROVE  IndInv'
<1>1. TypeOK'
  BY DEF IndInv, TypeOK, Moved, ProcType
<1>2. ExactlyOnce' /\ AckMeansSettled' /\ RowInv'
  BY DEF IndInv, ExactlyOnce, AckMeansSettled, RowInv
<1>3. Grows /\ StaysClosed
  BY DEF Grows, StaysClosed
<1>4. Needs(l, order', gw', code', audits')
  BY DEF Needs
<1> QED
  BY <1>1, <1>2, <1>3, <1>4, Assemble

OrderType == [type: Types, status: Statuses, fresh: BOOLEAN, paidAt: BOOLEAN, tradeNo: BOOLEAN]

(* A step of p that updates the row and leaves the provider and the        *)
(* idempotency records alone.                                              *)
LEMMA RowStep ==
    ASSUME IndInv, NEW p \in Procs, NEW l \in Pcs, Moved(p, l),
           order' \in OrderType, holders' \subseteq Procs,
           UNCHANGED <<due, gw, code, audits, granted, rebates, faulty, blocked, excuse>>,
           order'.type = order.type, order'.status # "NONE",
           order.status \notin {"NONE", "PENDING", "CANCELLED"}
             => order'.status \notin {"NONE", "PENDING", "CANCELLED"},
           order.status = "COMPLETED" => order'.status = "COMPLETED",
           l \in CreatePcs => \A q \in Procs : proc[q].pc \notin CreatePcs,
           RowInv', Needs(l, order', gw, code, audits)
    PROVE  IndInv'
<1>1. TypeOK'
  BY DEF IndInv, TypeOK, Moved, ProcType, OrderType
<1>2. ExactlyOnce' /\ AckMeansSettled'
  BY DEF IndInv, ExactlyOnce, AckMeansSettled
<1>3. Grows /\ StaysClosed
  BY DEF Grows, StaysClosed
<1>4. Needs(l, order', gw', code', audits')
  BY DEF Needs
<1> QED
  BY <1>1, <1>2, <1>3, <1>4, Assemble

(* A step of p that only extends the idempotency records. *)
LEMMA RecordStep ==
    ASSUME IndInv, NEW p \in Procs, NEW l \in Pcs, Moved(p, l),
           UNCHANGED <<order, due, gw, holders, faulty, blocked, excuse>>,
           code' \in {"absent", "unused", "used"}, audits' \subseteq Audits,
           granted' \in Nat, rebates' \in Nat, ExactlyOnce', RowInv',
           Backed(code, audits) => Backed(code', audits'),
           Rebated(audits) => Rebated(audits'),
           l \notin CreatePcs, Needs(l, order, gw, code', audits')
    PROVE  IndInv'
<1>1. TypeOK'
  BY DEF IndInv, TypeOK, Moved, ProcType
<1>2. AckMeansSettled'
  BY DEF IndInv, AckMeansSettled
<1>3. Grows /\ StaysClosed
  BY DEF Grows, StaysClosed
<1>4. Needs(l, order', gw', code', audits')
  BY DEF Needs
<1> QED
  BY <1>1, <1>2, <1>3, <1>4, Assemble

(* An entry point returns: only the provider's acknowledgement changes. *)
LEMMA ReturnStep ==
    ASSUME IndInv, NEW p \in Procs, NEW ok \in BOOLEAN, Return(p, ok),
           UNCHANGED <<order, due, code, audits, granted, rebates, holders, faulty, blocked>>,
           excuse' \in Excuses, excuse # "none" => excuse' # "none",
           (ok /\ proc[p].kind = "webhook") => order.status = "COMPLETED" \/ excuse' # "none"
    PROVE  IndInv'
<1>1. TypeOK
  BY DEF IndInv
<1>2. Moved(p, "idle")
  BY <1>1, LeaveMoves DEF Return
<1>3. /\ gw' \in [open: BOOLEAN, paid: BOOLEAN, valid: BOOLEAN, acked: BOOLEAN]
      /\ gw'.open = gw.open /\ gw'.paid = gw.paid /\ gw'.valid = gw.valid
      /\ gw'.acked => gw.acked \/ (ok /\ proc[p].kind = "webhook")
  BY <1>1 DEF Return, TypeOK
<1>4. TypeOK'
  BY <1>1, <1>2, <1>3 DEF TypeOK, Moved, ProcType
<1>5. ExactlyOnce' /\ AckMeansSettled' /\ RowInv'
  BY <1>3 DEF IndInv, ExactlyOnce, AckMeansSettled, RowInv
<1>6. Grows /\ StaysClosed
  BY <1>3 DEF Grows, StaysClosed
<1>7. Needs("idle", order', gw', code', audits') /\ "idle" \in Pcs /\ "idle" \notin CreatePcs
  BY IdleNeedsNothing DEF Pcs, CreatePcs
<1> QED
  BY <1>2, <1>4, <1>5, <1>6, <1>7, Assemble

-----------------------------------------------------------------------------
(* Initially no execution runs and nothing is recorded. *)
LEMMA InitInd == Init => IndInv
<1> SUFFICES ASSUME Init PROVE IndInv
  OBVIOUS
<1>1. proc \in [Procs -> ProcType] /\ \A p \in Procs : proc[p].pc = "idle"
  BY DEF Init, Idle, ProcType, Pcs
<1>2. order \in OrderType
  BY DEF Init, OrderType, Types, Statuses
<1>3. TypeOK
  BY <1>1, <1>2 DEF Init, TypeOK, Excuses, ProcType, OrderType
<1>4. ExactlyOnce /\ AckMeansSettled
  BY DEF Init, ExactlyOnce, AckMeansSettled
<1>5. RowInv
  BY DEF Init, RowInv, Backed, Rebated
<1>6. StepsInv
  BY <1>1, IdleNeedsNothing DEF StepsInv
<1>7. OneCreator
  BY <1>1 DEF OneCreator, CreatePcs
<1> QED
  BY <1>3, <1>4, <1>5, <1>6, <1>7 DEF IndInv

(* Starting an entry point preserves the invariant. *)
LEMMA CallInd ==
    ASSUME IndInv, NEW p \in Procs, Call(p)
    PROVE  IndInv'
<1>0. TypeOK
  BY DEF IndInv
<1>1. /\ {"invoke", "confirm", "query", "fulfil"} \subseteq Pcs
      /\ "query" \notin CreatePcs /\ "confirm" \notin CreatePcs /\ "fulfil" \notin CreatePcs
  BY DEF Pcs, EntryPcs, PaidPcs, LeasePcs, CreatePcs
<1>2. ASSUME NEW k, NEW l \in {"confirm", "query", "fulfil"}, Start(p, k, l),
             UNCHANGED <<order, due, gw, code, audits, granted, rebates, holders, faulty, blocked, excuse>>,
             Needs(l, order, gw, code, audits)
      PROVE  IndInv'
  <2>1. l \in Pcs /\ l \notin CreatePcs /\ holders' \subseteq Procs
    BY <1>0, <1>1, <1>2 DEF TypeOK
  <2>2. Moved(p, l)
    BY <1>0, <1>2, <2>1, StartMoves
  <2> QED
    BY <1>2, <2>1, <2>2, ControlStep
<1>3. Needs("query", order, gw, code, audits)
  BY DEF Needs, CreatePcs, LeasePcs, WorkPcs
<1>4. CASE CreateOrder(p)
  <2>1. /\ order.status = "NONE" /\ order' \in OrderType /\ holders' = {}
        /\ order'.type = order.type /\ order'.status = "PENDING" /\ order'.paidAt = order.paidAt
        /\ UNCHANGED <<due, gw, code, audits, granted, rebates, faulty, blocked, excuse>>
    BY <1>0, <1>4 DEF CreateOrder, Save, SameEnv, db, TypeOK, OrderType, Statuses
  <2>2. Moved(p, "invoke")
    BY <1>0, <1>1, <1>4, StartMoves DEF CreateOrder
  <2>3. \A q \in Procs : proc[q].pc \notin CreatePcs
    BY <2>1 DEF IndInv, StepsInv, Needs
  <2>4. RowInv'
    BY <2>1 DEF IndInv, RowInv
  <2>5. Needs("invoke", order', gw, code, audits)
    BY <2>1 DEF IndInv, RowInv, Needs, LeasePcs, WorkPcs
  <2> QED
    BY <1>1, <2>1, <2>2, <2>3, <2>4, <2>5, RowStep
<1>5. CASE Webhook(p)
  <2>1. Needs("confirm", order, gw, code, audits)
    BY <1>5 DEF Webhook, Needs, CreatePcs, LeasePcs, WorkPcs
  <2> QED
    BY <1>2, <1>5, <2>1 DEF Webhook, SameRow, SameEnv, db
<1>6. CASE VerifyOrder(p) \/ ReconcilePending(p) \/ ExpireTimedOut(p) \/ CancelOrder(p)
  BY <1>2, <1>3, <1>6
  DEF VerifyOrder, ReconcilePending, ExpireTimedOut, CancelOrder, SameRow, SameEnv, db
<1>7. CASE RetryFulfillment(p)
  <2>1. Needs("fulfil", order, gw, code, audits)
    BY <1>7 DEF RetryFulfillment, IndInv, RowInv, Needs, CreatePcs, LeasePcs, WorkPcs
  <2> QED
    BY <1>2, <1>7, <2>1 DEF RetryFulfillment, SameRow, SameEnv, db
<1> QED
  BY <1>4, <1>5, <1>6, <1>7 DEF Call

(* The steps of CreateOrder after the row was inserted. *)
LEMMA CreateInd ==
    ASSUME IndInv, NEW p \in Procs, InvokeProvider(p) \/ SaveDetails(p) \/ CreateFailed(p)
    PROVE  IndInv'
<1>0. TypeOK
  BY DEF IndInv
<1>1. {"invoke", "details", "createFailed", "idle"} \subseteq Pcs
  BY DEF Pcs, EntryPcs
<1>2. proc[p].pc \in CreatePcs /\ Needs(proc[p].pc, order, gw, code, audits)
  BY DEF InvokeProvider, SaveDetails, CreateFailed, At, CreatePcs, IndInv, StepsInv
<1>3. /\ Needs("details", order, gw, code, audits)
      /\ Needs("createFailed", order, gw, code, audits)
      /\ ~gw.open /\ ~gw.paid /\ order.status # "NONE"
  BY <1>2 DEF Needs, CreatePcs, LeasePcs, WorkPcs
<1>4. \A q \in Procs \ {p} : proc[q].pc \notin CreatePcs
  BY <1>2 DEF IndInv, OneCreator
<1>5. ASSUME NEW l \in {"details", "createFailed"}, Goto(p, l),
             UNCHANGED <<order, due, gw, code, audits, granted, rebates, holders, faulty, blocked, excuse>>
      PROVE  IndInv'
  <2>1. Moved(p, l) /\ l \in Pcs /\ holders' \subseteq Procs
    BY <1>0, <1>1, <1>5, GotoMoves DEF TypeOK
  <2> QED
    BY <1>2, <1>3, <1>5, <2>1, ControlStep
<1>6. CASE InvokeProvider(p)
  BY <1>5, <1>6 DEF InvokeProvider, SameRow, SameEnv, db
<1>7. CASE SaveDetails(p)
  <2>1. CASE Goto(p, "createFailed") /\ UNCHANGED <<order, holders, gw>>
    BY <1>5, <1>7, <2>1 DEF SaveDetails, SameEnv, db
  <2>2. CASE /\ \E t \in BOOLEAN : Save([order EXCEPT !.tradeNo = t])
             /\ gw' = [gw EXCEPT !.open = TRUE]
             /\ Leave(p)
    <3>1. /\ order' \in OrderType /\ holders' = {} /\ order'.type = order.type
          /\ order'.status = order.status /\ order'.paidAt = order.paidAt
          /\ UNCHANGED <<due, code, audits, granted, rebates, faulty, blocked, excuse>>
      BY <1>0, <1>7, <2>2 DEF SaveDetails, Save, SameEnv, db, TypeOK, OrderType
    <3>2. /\ gw' \in [open: BOOLEAN, paid: BOOLEAN, valid: BOOLEAN, acked: BOOLEAN]
          /\ gw'.paid = gw.paid /\ gw'.valid = gw.valid /\ gw'.acked = gw.acked
      BY <1>0, <2>2 DEF TypeOK
    <3>3. Moved(p, "idle")
      BY <1>0, <2>2, LeaveMoves
    <3>4. TypeOK'
      BY <1>0, <3>1, <3>2, <3>3 DEF TypeOK, OrderType, Moved, ProcType
    <3>5. ExactlyOnce' /\ AckMeansSettled'
      BY <3>1, <3>2 DEF IndInv, ExactlyOnce, AckMeansSettled
    <3>6. RowInv'
      BY <1>3, <3>1, <3>2 DEF IndInv, RowInv
    <3>7. Grows
      BY <3>1, <3>2 DEF Grows
    <3>8. Needs("idle", order', gw', code', audits') /\ "idle" \notin CreatePcs
      BY IdleNeedsNothing DEF CreatePcs
    <3> QED
      BY <1>1, <1>4, <3>3, <3>4, <3>5, <3>6, <3>7, <3>8, Assemble
  <2> QED
    BY <1>7, <2>1, <2>2 DEF SaveDetails, SameRow
<1>8. CASE CreateFailed(p)
  <2>1. /\ order' \in OrderType /\ holders' = {} /\ order'.type = order.type
        /\ order'.status = "FAILED" /\ order'.paidAt = order.paidAt
        /\ UNCHANGED <<due, gw, code, audits, granted, rebates, faulty, blocked, excuse>>
    BY <1>0, <1>8 DEF CreateFailed, Save, SameEnv, db, TypeOK, OrderType, Statuses
  <2>2. Moved(p, "idle")
    BY <1>0, <1>8, LeaveMoves DEF CreateFailed
  <2>3. RowInv' /\ order.status # "COMPLETED"
    BY <1>3, <2>1 DEF IndInv, RowInv
  <2>4. Needs("idle", order', gw, code, audits) /\ "idle" \notin CreatePcs
    BY IdleNeedsNothing DEF CreatePcs
  <2> QED
    BY <1>1, <2>1, <2>2, <2>3, <2>4, RowStep
<1> QED
  BY <1>6, <1>7, <1>8

(* checkPaidWithOptions and cancelCore. *)
LEMMA QueryInd ==
    ASSUME IndInv, NEW p \in Procs, QueryOrder(p) \/ PersistTradeNo(p) \/ CancelWrite(p)
    PROVE  IndInv'
<1>0. TypeOK
  BY DEF IndInv
<1>1. /\ {"confirm", "persist", "cancelWrite", "idle"} \subseteq Pcs
      /\ \A l \in {"confirm", "persist", "cancelWrite", "idle"} : l \notin CreatePcs
  BY DEF Pcs, EntryPcs, PaidPcs, CreatePcs
<1>2. ASSUME NEW o, NEW g, NEW c, NEW a
      PROVE  /\ Needs("cancelWrite", o, g, c, a) /\ Needs("idle", o, g, c, a)
             /\ g.paid => Needs("confirm", o, g, c, a) /\ Needs("persist", o, g, c, a)
  BY DEF Needs, CreatePcs, LeasePcs, WorkPcs
<1>3. CASE QueryOrder(p)
  <2>1. PICK l \in {"confirm", "persist", "cancelWrite", "idle"} :
           Moved(p, l) /\ (l \in {"confirm", "persist"} => gw.paid)
    <3>1. \/ gw.paid /\ (Goto(p, "confirm") \/ Goto(p, "persist"))
          \/ Goto(p, "cancelWrite") \/ Leave(p)
      BY <1>3 DEF QueryOrder
    <3> QED
      BY <1>0, <1>1, <3>1, GotoMoves, LeaveMoves
  <2>2. UNCHANGED <<order, due, code, audits, granted, rebates, holders, faulty, blocked, excuse>>
    BY <1>3 DEF QueryOrder, SameRow, SameEnv, db
  <2>3. /\ gw' \in [open: BOOLEAN, paid: BOOLEAN, valid: BOOLEAN, acked: BOOLEAN]
        /\ gw'.paid = gw.paid /\ gw'.valid = gw.valid /\ gw'.acked = gw.acked
        /\ gw'.open => gw.open
    BY <1>0, <1>3 DEF QueryOrder, TypeOK
  <2>4. TypeOK'
    BY <1>0, <2>1, <2>2, <2>3 DEF TypeOK, Moved, ProcType
  <2>5. ExactlyOnce' /\ AckMeansSettled' /\ RowInv'
    BY <2>2, <2>3 DEF IndInv, ExactlyOnce, AckMeansSettled, RowInv
  <2>6. Grows /\ StaysClosed
    BY <2>2, <2>3 DEF Grows, StaysClosed
  <2>7. Needs(l, order', gw', code', audits')
    BY <1>2, <2>1, <2>3
  <2> QED
    BY <1>1, <2>1, <2>4, <2>5, <2>6, <2>7, Assemble
<1>4. CASE PersistTradeNo(p)
  <2>1. gw.paid /\ order.status # "NONE" /\ Needs("confirm", order, gw, code, audits)
    BY <1>2, <1>4 DEF PersistTradeNo, At, IndInv, StepsInv, RowInv, Needs
  <2>2. /\ order' \in OrderType /\ holders' \subseteq Procs /\ order'.type = order.type
        /\ order'.status = order.status /\ order'.paidAt = order.paidAt
        /\ UNCHANGED <<due, gw, code, audits, granted, rebates, faulty, blocked, excuse>>
    BY <1>0, <1>4 DEF PersistTradeNo, Save, SameRow, SameEnv, db, TypeOK, OrderType
  <2>3. Moved(p, "confirm")
    BY <1>0, <1>1, <1>4, GotoMoves DEF PersistTradeNo
  <2>4. RowInv'
    BY <2>2 DEF IndInv, RowInv
  <2>5. Needs("confirm", order', gw, code, audits)
    BY <1>2, <2>1
  <2> QED
    BY <1>1, <2>1, <2>2, <2>3, <2>4, <2>5, RowStep
<1>5. CASE CancelWrite(p)
  <2>1. Moved(p, "idle")
    BY <1>0, <1>5, LeaveMoves DEF CancelWrite
  <2>2. Needs("idle", order, gw, code, audits) /\ Needs("idle", order', gw, code, audits)
    BY <1>2
  <2>3. CASE order.status = "PENDING"
    <3>1. /\ order' \in OrderType /\ holders' = {} /\ order'.type = order.type
          /\ order'.status \in {"EXPIRED", "CANCELLED"} /\ order'.paidAt = order.paidAt
          /\ UNCHANGED <<due, gw, code, audits, granted, rebates, faulty, blocked, excuse>>
      BY <1>0, <1>5, <2>3 DEF CancelWrite, Save, SameEnv, db, TypeOK, OrderType, Statuses
    <3>2. RowInv'
      BY <2>3, <3>1 DEF IndInv, RowInv
    <3> QED
      BY <1>1, <2>1, <2>2, <2>3, <3>1, <3>2, RowStep
  <2>4. CASE order.status # "PENDING"
    <3>1. /\ UNCHANGED <<order, due, gw, code, audits, granted, rebates, faulty, blocked, excuse>>
          /\ holders' \subseteq Procs
      BY <1>0, <1>5, <2>4 DEF CancelWrite, SameRow, SameEnv, db, TypeOK
    <3> QED
      BY <1>1, <2>1, <2>2, <3>1, ControlStep
  <2> QED
    BY <2>3, <2>4
<1> QED
  BY <1>3, <1>4, <1>5

(* A step of p, past creation, that only moves its control and perhaps its *)
(* lease; the row and the records are as they were.                        *)
LEMMA GotoStep ==
    ASSUME IndInv, NEW p \in Procs, NEW l \in Pcs, Goto(p, l), l \notin CreatePcs,
           holders' \subseteq Procs,
           UNCHANGED <<order, due, gw, code, audits, granted, rebates, faulty, blocked, excuse>>,
           Needs(l, order, gw, code, audits)
    PROVE  IndInv'
<1>1. Moved(p, l)
  BY GotoMoves DEF IndInv
<1> QED
  BY <1>1, ControlStep

(* HandlePaymentNotification up to the fulfilment. *)
LEMMA NotifyInd ==
    ASSUME IndInv, NEW p \in Procs,
           ConfirmPayment(p) \/ ToPaid(p) \/ AlreadyProcessed(p) \/ SwallowedRead(p)
    PROVE  IndInv'
<1>0. TypeOK /\ holders \subseteq Procs
  BY DEF IndInv, TypeOK
<1>1. /\ {"toPaid", "already", "fulfil"} \subseteq Pcs
      /\ \A l \in {"toPaid", "already", "fulfil"} : l \notin CreatePcs
  BY DEF Pcs, PaidPcs, LeasePcs, CreatePcs
<1>2. gw.paid
  <2>1. proc[p].pc \in {"confirm", "toPaid", "already"}
    BY DEF ConfirmPayment, ToPaid, AlreadyProcessed, SwallowedRead, At
  <2> QED
    BY <2>1 DEF IndInv, StepsInv, Needs
<1>3. gw.valid => /\ Needs("toPaid", order, gw, code, audits)
                  /\ \A o : Needs("fulfil", o, gw, code, audits)
  BY <1>2 DEF Needs, CreatePcs, LeasePcs, WorkPcs
<1>4. CASE ConfirmPayment(p)
  <2>1. CASE gw.valid
    BY <1>0, <1>1, <1>3, <1>4, <2>1, GotoStep DEF ConfirmPayment, SameRow, SameEnv, db
  <2>2. CASE ~gw.valid
    <3>1. Return(p, FALSE) /\ excuse \in Excuses
      BY <1>0, <1>4, <2>2 DEF ConfirmPayment, TypeOK
    <3> QED
      BY <1>4, <3>1, ReturnStep DEF ConfirmPayment, SameRow, SameEnv, db
  <2> QED
    BY <2>1, <2>2
<1>5. CASE ToPaid(p)
  <2>1. gw.valid /\ order.status # "NONE"
    BY <1>2, <1>5 DEF ToPaid, At, IndInv, StepsInv, Needs, RowInv
  <2>2. CASE Payable(order)
    <3>1. /\ order' \in OrderType /\ holders' = {} /\ order'.type = order.type
          /\ order'.status = "PAID" /\ order.status # "COMPLETED"
          /\ UNCHANGED <<due, gw, code, audits, granted, rebates, faulty, blocked, excuse>>
      BY <1>0, <1>5, <2>2 DEF ToPaid, Payable, Save, SameEnv, db, TypeOK, OrderType, Statuses
    <3>2. Moved(p, "fulfil")
      BY <1>0, <1>1, <1>5, <2>2, GotoMoves DEF ToPaid
    <3>3. RowInv'
      BY <1>2, <2>1, <3>1 DEF IndInv, RowInv
    <3>4. Needs("fulfil", order', gw, code, audits)
      BY <1>3, <2>1
    <3> QED
      BY <1>1, <3>1, <3>2, <3>3, <3>4, RowStep
  <2>3. CASE ~Payable(order)
    <3>1. Needs("already", order, gw, code, audits)
      BY <1>2, <2>1, <2>3 DEF Payable, Needs, CreatePcs, LeasePcs, WorkPcs
    <3> QED
      BY <1>0, <1>1, <1>5, <2>3, <3>1, GotoStep DEF ToPaid, SameRow, SameEnv, db
  <2> QED
    BY <2>2, <2>3
<1>6. CASE AlreadyProcessed(p)
  <2>1. gw.valid /\ order.status \notin {"NONE", "PENDING", "CANCELLED"}
    BY <1>6 DEF AlreadyProcessed, At, IndInv, StepsInv, Needs
  <2>2. CASE order.status \in {"FAILED", "PAID", "RECHARGING"}
    BY <1>0, <1>1, <1>3, <1>6, <2>1, <2>2, GotoStep DEF AlreadyProcessed, SameRow, SameEnv, db
  <2>3. CASE order.status \notin {"FAILED", "PAID", "RECHARGING"}
    <3>1. order.status \in {"COMPLETED", "EXPIRED"}
      BY <1>0, <2>1, <2>3 DEF TypeOK, Statuses
    <3>2. Return(p, TRUE) /\ Excuse(p, "late", order.status = "EXPIRED")
      BY <1>6, <2>3 DEF AlreadyProcessed
    <3>3. /\ excuse' \in Excuses /\ (excuse # "none" => excuse' # "none")
          /\ proc[p].kind = "webhook" => order.status = "COMPLETED" \/ excuse' # "none"
      BY <1>0, <3>1, <3>2 DEF Excuse, Excuses, TypeOK
    <3> QED
      BY <1>6, <3>2, <3>3, ReturnStep DEF AlreadyProcessed, SameRow, SameEnv, db
  <2> QED
    BY <2>2, <2>3
<1>7. CASE SwallowedRead(p)
  <2>1. Return(p, TRUE) /\ Excuse(p, "swallowed", TRUE)
    BY <1>7 DEF SwallowedRead
  <2>2. /\ excuse' \in Excuses /\ (excuse # "none" => excuse' # "none")
        /\ proc[p].kind = "webhook" => excuse' # "none"
    BY <1>0, <2>1 DEF Excuse, Excuses, TypeOK
  <2> QED
    BY <1>7, <2>1, <2>2, ReturnStep DEF SwallowedRead, SameRow, SameEnv, db
<1> QED
  BY <1>4, <1>5, <1>6, <1>7

(* The lease. *)
LEMMA LeaseInd ==
    ASSUME IndInv, NEW p \in Procs,
           ExecuteFulfillment(p) \/ AcquireLease(p) \/ AcquireConflict(p) \/ ReloadLease(p)
    PROVE  IndInv'
<1>0. TypeOK /\ holders \subseteq Procs /\ excuse \in Excuses
  BY DEF IndInv, TypeOK
<1>1. /\ {"acquire", "reload", "acquireConflict", "lookup", "subCheck"} \subseteq Pcs
      /\ \A l \in {"acquire", "reload", "acquireConflict", "lookup", "subCheck"} : l \notin CreatePcs
  BY DEF Pcs, WorkPcs, LeasePcs, CreatePcs
<1>2. gw.paid /\ gw.valid
  <2>1. proc[p].pc \in LeasePcs
    BY DEF ExecuteFulfillment, AcquireLease, AcquireConflict, ReloadLease, At, LeasePcs
  <2> QED
    BY <2>1 DEF IndInv, StepsInv, Needs
<1>3. \A o : \A l \in LeasePcs : Needs(l, o, gw, code, audits)
  BY <1>2 DEF Needs, CreatePcs, LeasePcs, WorkPcs
<1>4. CASE ExecuteFulfillment(p)
  <2>1. CASE order.status \in {"PAID", "FAILED", "RECHARGING"}
    <3>1. Needs("acquire", order, gw, code, audits)
      BY <1>3 DEF LeasePcs
    <3> QED
      BY <1>0, <1>1, <1>4, <2>1, <3>1, GotoStep DEF ExecuteFulfillment, SameRow, SameEnv, db
  <2>2. CASE order.status \notin {"PAID", "FAILED", "RECHARGING"}
    BY <1>0, <1>4, <2>2, ReturnStep DEF ExecuteFulfillment, SameRow, SameEnv, db
  <2> QED
    BY <2>1, <2>2
<1>5. CASE AcquireLease(p)
  <2>1. CASE Claimable(order)
    <3>1. /\ order' \in OrderType /\ holders' = {} /\ order'.type = order.type
          /\ order'.status = "RECHARGING" /\ order.status \notin {"COMPLETED", "NONE"}
          /\ order'.paidAt = order.paidAt
          /\ UNCHANGED <<due, gw, code, audits, granted, rebates, faulty, blocked, excuse>>
      BY <1>0, <1>5, <2>1 DEF AcquireLease, Claimable, Save, SameEnv, db, TypeOK, OrderType, Statuses
    <3>2. Moved(p, "reload")
      BY <1>0, <1>1, <1>5, <2>1, GotoMoves DEF AcquireLease
    <3>3. RowInv'
      BY <1>2, <3>1 DEF IndInv, RowInv
    <3>4. Needs("reload", order', gw, code, audits)
      BY <1>3 DEF LeasePcs
    <3> QED
      BY <1>1, <3>1, <3>2, <3>3, <3>4, RowStep
  <2>2. CASE ~Claimable(order)
    <3>1. Needs("acquireConflict", order, gw, code, audits)
      BY <1>3 DEF LeasePcs
    <3> QED
      BY <1>0, <1>1, <1>5, <2>2, <3>1, GotoStep DEF AcquireLease, SameRow, SameEnv, db
  <2> QED
    BY <2>1, <2>2
<1>6. CASE AcquireConflict(p)
  BY <1>0, <1>6, ReturnStep DEF AcquireConflict, SameRow, SameEnv, db
<1>7. CASE ReloadLease(p)
  <2>1. CASE order.status = "RECHARGING"
    <3>1. PICK l \in {"lookup", "subCheck"} :
             Goto(p, l) /\ order.type = (IF l = "lookup" THEN "balance" ELSE "subscription")
      <4>1. order.type \in {"balance", "subscription"}
        BY <1>0 DEF TypeOK, Types
      <4> QED
        BY <1>7, <2>1, <4>1 DEF ReloadLease
    <3>2. Needs(l, order, gw, code, audits)
      BY <1>2, <3>1 DEF Needs, CreatePcs
    <3>3. /\ UNCHANGED <<order, due, gw, code, audits, granted, rebates, faulty, blocked, excuse>>
          /\ holders' \subseteq Procs
      BY <1>0, <1>7, <2>1 DEF ReloadLease, SameEnv, db
    <3> QED
      BY <1>1, <3>1, <3>2, <3>3, GotoStep
  <2>2. CASE order.status # "RECHARGING"
    BY <1>0, <1>7, <2>2, ReturnStep DEF ReloadLease, SameRow, SameEnv, db
  <2> QED
    BY <2>1, <2>2
<1> QED
  BY <1>4, <1>5, <1>6, <1>7

(* doBalance: the redeem code and the credit. *)
LEMMA BalanceInd ==
    ASSUME IndInv, NEW p \in Procs, LookupCode(p) \/ CreateCode(p) \/ Redeem(p) \/ UseCode(p)
    PROVE  IndInv'
<1>0. TypeOK /\ holders \subseteq Procs
  BY DEF IndInv, TypeOK
<1>1. /\ {"create", "redeem", "use", "rebate", "fail"} \subseteq Pcs
      /\ \A l \in {"create", "redeem", "use", "rebate", "fail"} : l \notin CreatePcs
  BY DEF Pcs, WorkPcs, CreatePcs
<1>2. gw.paid /\ gw.valid /\ order.type = "balance"
  <2>1. proc[p].pc \in {"lookup", "create", "redeem", "use"} /\ proc[p].pc \in WorkPcs
    BY DEF LookupCode, CreateCode, Redeem, UseCode, At, WorkPcs
  <2> QED
    BY <2>1 DEF IndInv, StepsInv, Needs
<1>3. \A c, a : /\ \A l \in {"create", "redeem", "use", "fail"} : Needs(l, order, gw, c, a)
                /\ Backed(c, a) => Needs("rebate", order, gw, c, a)
  BY <1>2 DEF Needs, CreatePcs, LeasePcs, WorkPcs
<1>4. ASSUME NEW l \in {"create", "redeem", "use", "rebate", "fail"}, Goto(p, l),
             UNCHANGED <<order, due, gw, code, audits, granted, rebates, holders, faulty, blocked, excuse>>,
             l = "rebate" => Backed(code, audits)
      PROVE  IndInv'
  <2>1. Needs(l, order, gw, code, audits)
    BY <1>3, <1>4
  <2> QED
    BY <1>0, <1>1, <1>4, <2>1, GotoStep
<1>5. CASE LookupCode(p)
  <2>1. \/ Goto(p, "create") \/ Goto(p, "redeem")
        \/ Goto(p, "rebate") /\ Backed(code, audits)
    BY <1>0, <1>5 DEF LookupCode, Backed, TypeOK
  <2>2. UNCHANGED <<order, due, gw, code, audits, granted, rebates, holders, faulty, blocked, excuse>>
    BY <1>5 DEF LookupCode, SameRow, SameEnv, db
  <2> QED
    BY <1>4, <2>1, <2>2
<1>6. CASE CreateCode(p)
  <2>1. CASE code = "absent"
    <3>1. /\ UNCHANGED <<order, due, gw, holders, faulty, blocked, excuse, audits, granted, rebates>>
          /\ code' = "unused" /\ audits' \subseteq Audits /\ granted' \in Nat /\ rebates' \in Nat
      BY <1>0, <1>6, <2>1 DEF CreateCode, SameRow, SameEnv, TypeOK
    <3>2. Moved(p, "redeem")
      BY <1>0, <1>1, <1>6, <2>1, GotoMoves DEF CreateCode
    <3>3. Backed(code, audits) <=> Backed(code', audits')
      BY <2>1, <3>1 DEF Backed
    <3>4. ExactlyOnce' /\ RowInv'
      BY <1>2, <2>1, <3>1, <3>3 DEF IndInv, ExactlyOnce, RowInv, Backed
    <3> QED
      BY <1>1, <1>3, <3>1, <3>2, <3>3, <3>4, RecordStep
  <2>2. CASE code # "absent"
    BY <1>4, <1>6, <2>2 DEF CreateCode, SameRow, SameEnv
  <2> QED
    BY <2>1, <2>2
<1>7. CASE Redeem(p)
  <2>1. Goto(p, "use") \/ Goto(p, "fail")
    BY <1>7 DEF Redeem
  <2> QED
    BY <1>4, <1>7, <2>1 DEF Redeem, SameRow, SameEnv, db
<1>8. CASE UseCode(p)
  <2>1. CASE code = "unused"
    <3>1. /\ UNCHANGED <<order, due, gw, holders, faulty, blocked, excuse, audits, rebates>>
          /\ code' = "used" /\ audits' \subseteq Audits /\ rebates' \in Nat
          /\ granted' = granted + 1 /\ granted' \in Nat
      BY <1>0, <1>8, <2>1 DEF UseCode, SameRow, SameEnv, TypeOK
    <3>2. Moved(p, "rebate")
      BY <1>0, <1>1, <1>8, <2>1, GotoMoves DEF UseCode
    <3>3. "SUBSCRIPTION_ASSIGNED" \notin audits /\ Backed(code', audits')
      BY <1>2, <3>1 DEF IndInv, RowInv, Backed
    <3>4. ExactlyOnce'
      BY <2>1, <3>1, <3>3 DEF IndInv, ExactlyOnce
    <3>5. RowInv'
      BY <1>2, <3>1, <3>3 DEF IndInv, RowInv
    <3> QED
      BY <1>1, <1>3, <3>1, <3>2, <3>3, <3>4, <3>5, RecordStep
  <2>2. CASE code # "unused"
    BY <1>4, <1>8, <2>2 DEF UseCode, SameRow, SameEnv
  <2> QED
    BY <2>1, <2>2
<1> QED
  BY <1>5, <1>6, <1>7, <1>8

(* doSub and the affiliate rebate. *)
LEMMA AssignInd ==
    ASSUME IndInv, NEW p \in Procs, CheckAssigned(p) \/ AssignSubscription(p) \/ ApplyRebate(p)
    PROVE  IndInv'
<1>0. TypeOK /\ holders \subseteq Procs
  BY DEF IndInv, TypeOK
<1>1. /\ {"subTx", "rebate", "complete", "fail"} \subseteq Pcs
      /\ \A l \in {"subTx", "rebate", "complete", "fail"} : l \notin CreatePcs
  BY DEF Pcs, WorkPcs, CreatePcs
<1>2. gw.paid /\ gw.valid
  <2>1. proc[p].pc \in WorkPcs
    BY DEF CheckAssigned, AssignSubscription, ApplyRebate, At, WorkPcs
  <2> QED
    BY <2>1 DEF IndInv, StepsInv, Needs
<1>3. \A c, a : /\ order.type = "subscription" => Needs("subTx", order, gw, c, a)
                /\ Backed(c, a) => Needs("rebate", order, gw, c, a)
                /\ Backed(c, a) /\ Rebated(a) => Needs("complete", order, gw, c, a)
  BY <1>2 DEF Needs, CreatePcs, LeasePcs, WorkPcs
<1>4. CASE CheckAssigned(p)
  <2>1. order.type = "subscription"
    BY <1>4 DEF CheckAssigned, At, IndInv, StepsInv, Needs
  <2>2. PICK l \in {"subTx", "rebate", "fail"} : Goto(p, l) /\ (l = "rebate" => Backed(code, audits))
    <3>1. Assigned => Backed(code, audits)
      BY DEF Assigned, Backed, IndInv, RowInv
    <3> QED
      BY <1>4, <3>1 DEF CheckAssigned
  <2>3. Needs(l, order, gw, code, audits)
    BY <1>3, <2>1, <2>2, IdleNeedsNothing
  <2> QED
    BY <1>0, <1>1, <1>4, <2>2, <2>3, GotoStep DEF CheckAssigned, SameRow, SameEnv, db
<1>5. CASE AssignSubscription(p)
  <2>1. order.type = "subscription"
    BY <1>5 DEF AssignSubscription, At, IndInv, StepsInv, Needs
  <2>2. Moved(p, "rebate")
    BY <1>0, <1>1, <1>5, GotoMoves DEF AssignSubscription
  <2>3. /\ UNCHANGED <<order, due, gw, holders, faulty, blocked, excuse, code, rebates>>
        /\ code' \in {"absent", "unused", "used"} /\ rebates' \in Nat /\ granted' \in Nat
        /\ audits' = audits \union {"SUBSCRIPTION_ASSIGNED"} /\ audits' \subseteq Audits
        /\ granted' = IF "SUBSCRIPTION_ASSIGNED" \in audits THEN granted ELSE granted + 1
    <3>1. audits' = audits \union {"SUBSCRIPTION_ASSIGNED"}
      BY <1>5 DEF AssignSubscription
    <3>2. audits' \subseteq Audits
      BY <1>0, <3>1 DEF TypeOK, Audits
    <3>3. granted' = IF "SUBSCRIPTION_ASSIGNED" \in audits THEN granted ELSE granted + 1
      BY <1>5 DEF AssignSubscription
    <3>4. granted \in Nat /\ rebates \in Nat /\ code \in {"absent", "unused", "used"}
      BY <1>0 DEF TypeOK
    <3> QED
      BY <1>5, <3>1, <3>2, <3>3, <3>4 DEF AssignSubscription, SameRow, SameEnv
  <2>4. /\ Backed(code', audits') /\ (Rebated(audits) <=> Rebated(audits'))
        /\ "REBATE_APPLIED" \in audits' <=> "REBATE_APPLIED" \in audits
    BY <2>3 DEF Backed, Rebated
  <2>5. code = "absent"
    BY <2>1 DEF IndInv, RowInv
  <2>6. ExactlyOnce'
    BY <2>3, <2>4, <2>5 DEF IndInv, ExactlyOnce
  <2>7. RowInv'
    BY <1>2, <2>1, <2>3, <2>4, <2>5 DEF IndInv, RowInv
  <2> QED
    BY <1>1, <1>3, <2>2, <2>3, <2>4, <2>6, <2>7, RecordStep
<1>6. CASE ApplyRebate(p)
  <2>1. Backed(code, audits)
    BY <1>6 DEF ApplyRebate, At, IndInv, StepsInv, Needs
  <2>2. Moved(p, "complete")
    BY <1>0, <1>1, <1>6, GotoMoves DEF ApplyRebate
  <2>3. /\ UNCHANGED <<order, due, gw, holders, faulty, blocked, excuse, code, granted>>
        /\ code' \in {"absent", "unused", "used"} /\ rebates' \in Nat /\ granted' \in Nat
        /\ audits' \subseteq Audits
    <3>1. audits \subseteq audits' /\ audits' \subseteq audits \union {"REBATE_APPLIED", "REBATE_SKIPPED"}
      BY <1>6 DEF ApplyRebate
    <3>2. audits' \subseteq Audits
      BY <1>0, <3>1 DEF TypeOK, Audits
    <3>3. granted \in Nat /\ rebates \in Nat /\ code \in {"absent", "unused", "used"}
      BY <1>0 DEF TypeOK
    <3>4. rebates' \in Nat
      BY <1>6, <3>3 DEF ApplyRebate
    <3> QED
      BY <1>6, <3>2, <3>3, <3>4 DEF ApplyRebate, SameRow, SameEnv
  <2>4. /\ Rebated(audits')
        /\ "SUBSCRIPTION_ASSIGNED" \in audits' <=> "SUBSCRIPTION_ASSIGNED" \in audits
        /\ "SUCCESS" \in audits' <=> "SUCCESS" \in audits
        /\ rebates = (IF "REBATE_APPLIED" \in audits THEN 1 ELSE 0)
             => rebates' = (IF "REBATE_APPLIED" \in audits' THEN 1 ELSE 0)
    BY <1>0, <1>6 DEF ApplyRebate, RebateClaimed, Rebated, TypeOK
  <2>5. Backed(code', audits')
    BY <2>1, <2>3, <2>4 DEF Backed
  <2>6. ExactlyOnce'
    BY <2>3, <2>4 DEF IndInv, ExactlyOnce
  <2>7. RowInv'
    BY <1>2, <2>3, <2>4, <2>5 DEF IndInv, RowInv
  <2> QED
    BY <1>1, <1>3, <2>2, <2>3, <2>4, <2>5, <2>6, <2>7, RecordStep
<1> QED
  BY <1>4, <1>5, <1>6

(* markCompleted, markFailed and a statement that fails under the lease. *)
LEMMA FinishInd ==
    ASSUME IndInv, NEW p \in Procs,
           MarkCompleted(p) \/ CompleteConflict(p) \/ MarkFailed(p) \/ StepError(p)
    PROVE  IndInv'
<1>0. TypeOK /\ holders \subseteq Procs /\ excuse \in Excuses
  BY DEF IndInv, TypeOK
<1>1. /\ {"idle", "fail", "completeConflict"} \subseteq Pcs
      /\ \A l \in {"idle", "fail", "completeConflict"} : l \notin CreatePcs
  BY DEF Pcs, WorkPcs, CreatePcs
<1>2. CASE MarkCompleted(p)
  <2>1. gw.paid /\ gw.valid /\ Backed(code, audits) /\ Rebated(audits)
    BY <1>2 DEF MarkCompleted, At, IndInv, StepsInv, Needs, WorkPcs
  <2>2. CASE HoldsLease(p)
    <3>1. /\ order' \in OrderType /\ holders' = {} /\ order'.type = order.type
          /\ order'.status = "COMPLETED" /\ order.status = "RECHARGING"
          /\ order'.paidAt = order.paidAt
      BY <1>0, <1>2, <2>2 DEF MarkCompleted, HoldsLease, Save, TypeOK, OrderType, Statuses
    <3>2. /\ gw' \in [open: BOOLEAN, paid: BOOLEAN, valid: BOOLEAN, acked: BOOLEAN]
          /\ gw'.open = gw.open /\ gw'.paid = gw.paid /\ gw'.valid = gw.valid
      BY <1>0, <1>2, <2>2 DEF MarkCompleted, Return, TypeOK
    <3>3. audits' = audits \union {"SUCCESS"}
      BY <1>2, <2>2 DEF MarkCompleted
    <3>4. /\ "SUBSCRIPTION_ASSIGNED" \in audits' <=> "SUBSCRIPTION_ASSIGNED" \in audits
          /\ "REBATE_APPLIED" \in audits' <=> "REBATE_APPLIED" \in audits
          /\ "REBATE_SKIPPED" \in audits' <=> "REBATE_SKIPPED" \in audits
      BY <3>3
    <3>5. audits' \subseteq Audits
      BY <1>0, <3>3 DEF TypeOK, Audits
    <3>6. UNCHANGED <<due, code, granted, rebates, faulty, blocked, excuse>>
      BY <1>2 DEF MarkCompleted, SameEnv
    <3>7. Moved(p, "idle")
      BY <1>0, <1>2, <2>2, LeaveMoves DEF MarkCompleted, Return
    <3>8. TypeOK'
      BY <1>0, <3>1, <3>2, <3>5, <3>6, <3>7 DEF TypeOK, OrderType, Moved, ProcType
    <3>9. ExactlyOnce' /\ AckMeansSettled'
      BY <3>1, <3>4, <3>6 DEF IndInv, ExactlyOnce, AckMeansSettled
    <3>10. Backed(code', audits') /\ Rebated(audits')
      BY <2>1, <3>4, <3>6 DEF Backed, Rebated
    <3>11. RowInv'
      BY <2>1, <3>1, <3>2, <3>4, <3>6, <3>10 DEF IndInv, RowInv
    <3>12. Grows /\ StaysClosed
      BY <3>1, <3>2, <3>10 DEF Grows, StaysClosed
    <3> QED
      BY <1>1, <3>7, <3>8, <3>9, <3>11, <3>12, IdleNeedsNothing, Assemble
  <2>3. CASE ~HoldsLease(p)
    <3>1. Needs("completeConflict", order, gw, code, audits)
      BY <2>1 DEF Needs, CreatePcs
    <3> QED
      BY <1>0, <1>1, <1>2, <2>3, <3>1, GotoStep DEF MarkCompleted, SameRow, SameEnv
  <2> QED
    BY <2>2, <2>3
<1>3. CASE CompleteConflict(p)
  <2>1. CASE order.status = "COMPLETED"
    BY <1>0, <1>3, <2>1, ReturnStep DEF CompleteConflict, SameRow, SameEnv, db
  <2>2. CASE order.status # "COMPLETED"
    BY <1>0, <1>1, <1>3, <2>2, GotoStep, IdleNeedsNothing DEF CompleteConflict, SameRow, SameEnv, db
  <2> QED
    BY <2>1, <2>2
<1>4. CASE MarkFailed(p)
  <2>1. CASE HoldsLease(p)
    <3>1. /\ order' \in OrderType /\ holders' = {} /\ order'.type = order.type
          /\ order'.status = "FAILED" /\ order.status = "RECHARGING"
          /\ order'.paidAt = order.paidAt
      BY <1>0, <1>4, <2>1 DEF MarkFailed, HoldsLease, Save, TypeOK, OrderType, Statuses
    <3>2. gw' = gw
      BY <1>0, <1>4 DEF MarkFailed, Return, TypeOK
    <3>3. UNCHANGED <<due, code, audits, granted, rebates, faulty, blocked, excuse>>
      BY <1>4 DEF MarkFailed, SameEnv, db
    <3>4. Moved(p, "idle")
      BY <1>0, <1>4, LeaveMoves DEF MarkFailed, Return
    <3>5. RowInv'
      BY <3>1, <3>2, <3>3 DEF IndInv, RowInv
    <3> QED
      BY <1>1, <3>1, <3>2, <3>3, <3>4, <3>5, IdleNeedsNothing, RowStep
  <2>2. CASE ~HoldsLease(p)
    BY <1>0, <1>4, <2>2, ReturnStep DEF MarkFailed, SameRow, SameEnv, db
  <2> QED
    BY <2>1, <2>2
<1>5. CASE StepError(p)
  BY <1>0, <1>1, <1>5, GotoStep, IdleNeedsNothing DEF StepError, SameRow, SameEnv, db
<1> QED
  BY <1>2, <1>3, <1>4, <1>5

(* Crashes, the payer and time. *)
LEMMA FaultInd ==
    ASSUME IndInv, (\E p \in Procs : Crash(p)) \/ Env
    PROVE  IndInv'
<1>0. TypeOK
  BY DEF IndInv
<1>1. ASSUME NEW p \in Procs, Crash(p) PROVE IndInv'
  <2>1. Moved(p, "idle")
    BY <1>0, <1>1, LeaveMoves DEF Crash
  <2>2. /\ UNCHANGED <<order, due, gw, code, audits, granted, rebates, faulty, blocked, excuse>>
        /\ holders' \subseteq Procs
    BY <1>0, <1>1 DEF Crash, SameEnv, db, TypeOK
  <2>3. "idle" \in Pcs /\ "idle" \notin CreatePcs
    BY DEF Pcs, CreatePcs
  <2> QED
    BY <2>1, <2>2, <2>3, IdleNeedsNothing, ControlStep
<1>2. ASSUME UNCHANGED proc, Grows, TypeOK', ExactlyOnce', AckMeansSettled', RowInv',
             StaysClosed \/ \A q \in Procs : proc[q].pc \notin CreatePcs
      PROVE  IndInv'
  <2>1. ASSUME NEW q \in Procs PROVE Needs(proc'[q].pc, order', gw', code', audits')
    <3>1. proc'[q].pc = proc[q].pc /\ proc[q].pc \in Pcs
      BY <1>0, <1>2 DEF TypeOK
    <3>2. Needs(proc[q].pc, order, gw, code, audits)
      BY DEF IndInv, StepsInv
    <3> QED
      BY <1>0, <1>2, <3>1, <3>2, NeedsKept
  <2>2. StepsInv'
    BY <2>1 DEF StepsInv
  <2>3. OneCreator'
    BY <1>2 DEF IndInv, OneCreator
  <2> QED
    BY <1>2, <2>2, <2>3 DEF IndInv
<1>3. CASE Pay
  <2>1. /\ gw' \in [open: BOOLEAN, paid: BOOLEAN, valid: BOOLEAN, acked: BOOLEAN]
        /\ gw.open /\ gw'.paid /\ ~gw'.open /\ gw'.valid = gw.valid /\ gw'.acked = gw.acked
    BY <1>0, <1>3 DEF Pay, TypeOK
  <2>2. UNCHANGED <<order, due, code, audits, granted, rebates, proc, holders, faulty, blocked, excuse>>
    BY <1>3 DEF Pay, SameRow, SameEnv, db
  <2>3. TypeOK'
    BY <1>0, <2>1, <2>2 DEF TypeOK
  <2>4. ExactlyOnce' /\ AckMeansSettled' /\ RowInv' /\ Grows
    BY <2>1, <2>2 DEF IndInv, ExactlyOnce, AckMeansSettled, RowInv, Grows
  <2>5. \A q \in Procs : proc[q].pc \notin CreatePcs
    BY <2>1 DEF IndInv, StepsInv, Needs
  <2> QED
    BY <1>2, <2>2, <2>3, <2>4, <2>5
<1>4. CASE Age
  <2>1. /\ order' \in OrderType /\ order'.type = order.type
        /\ order'.status = order.status /\ order'.paidAt = order.paidAt
        /\ UNCHANGED <<due, gw, code, audits, granted, rebates, proc, holders, faulty, blocked, excuse>>
    BY <1>0, <1>4 DEF Age, SameEnv, db, TypeOK, OrderType
  <2>2. TypeOK'
    BY <1>0, <2>1 DEF TypeOK, OrderType
  <2>3. ExactlyOnce' /\ AckMeansSettled' /\ RowInv' /\ Grows /\ StaysClosed
    BY <2>1 DEF IndInv, ExactlyOnce, AckMeansSettled, RowInv, Grows, StaysClosed
  <2> QED
    BY <1>2, <2>1, <2>2, <2>3
<1>5. CASE TimeOut \/ Stabilise \/ Configure
  <2>1. /\ UNCHANGED <<order, gw, code, audits, granted, rebates, proc, holders, excuse>>
        /\ due' \in BOOLEAN /\ faulty' \in BOOLEAN /\ blocked' \in BOOLEAN
    BY <1>0, <1>5 DEF TimeOut, Stabilise, Configure, SameRow, db, TypeOK
  <2>2. TypeOK'
    BY <1>0, <2>1 DEF TypeOK
  <2>3. ExactlyOnce' /\ AckMeansSettled' /\ RowInv' /\ Grows /\ StaysClosed
    BY <2>1 DEF IndInv, ExactlyOnce, AckMeansSettled, RowInv, Grows, StaysClosed
  <2> QED
    BY <1>2, <2>1, <2>2, <2>3
<1>6. CASE AckUnverified
  <2>1. /\ gw' \in [open: BOOLEAN, paid: BOOLEAN, valid: BOOLEAN, acked: BOOLEAN]
        /\ gw'.open = gw.open /\ gw'.paid = gw.paid /\ gw'.valid = gw.valid
        /\ excuse' \in Excuses /\ (order.status = "COMPLETED" \/ excuse' # "none")
    BY <1>0, <1>6 DEF AckUnverified, TypeOK, Excuses
  <2>2. UNCHANGED <<order, due, code, audits, granted, rebates, proc, holders, faulty, blocked>>
    BY <1>6 DEF AckUnverified, SameRow, SameEnv, db
  <2>3. TypeOK'
    BY <1>0, <2>1, <2>2 DEF TypeOK
  <2>4. ExactlyOnce' /\ AckMeansSettled' /\ RowInv' /\ Grows /\ StaysClosed
    BY <2>1, <2>2 DEF IndInv, ExactlyOnce, AckMeansSettled, RowInv, Grows, StaysClosed
  <2> QED
    BY <1>2, <2>2, <2>3, <2>4
<1> QED
  BY <1>1, <1>3, <1>4, <1>5, <1>6 DEF Env

(* Every step preserves the invariant. *)
LEMMA NextInd == IndInv /\ [Next]_vars => IndInv'
<1> SUFFICES ASSUME IndInv, [Next]_vars PROVE IndInv'
  OBVIOUS
<1>1. CASE UNCHANGED vars
  BY <1>1 DEF vars, IndInv, TypeOK, ExactlyOnce, AckMeansSettled, RowInv, StepsInv, OneCreator
<1>2. ASSUME NEW p \in Procs, Step(p) PROVE IndInv'
  BY <1>2, CreateInd, QueryInd, NotifyInd, LeaseInd, BalanceInd, AssignInd, FinishInd DEF Step
<1> QED
  BY <1>1, <1>2, CallInd, FaultInd DEF Next

(* The inductive invariant holds of every execution of the service. *)
THEOREM Inductive == Spec => []IndInv
BY InitInd, NextInd, PTL DEF Spec

(* The state of the order, of its records and of every execution keeps its *)
(* type (PaymentOrder!TypeOK).                                             *)
THEOREM TypeCorrect == Spec => []TypeOK
<1>1. IndInv => TypeOK
  BY DEF IndInv
<1> QED
  BY <1>1, Inductive, PTL

(* Whatever the number of concurrent executions and wherever they crash or *)
(* overtake each other, doBalance and doSub credit the order at most once, *)
(* and at most one affiliate rebate is accrued.                            *)
THEOREM CreditedOnce == Spec => []ExactlyOnce
<1>1. IndInv => ExactlyOnce
  BY DEF IndInv
<1> QED
  BY <1>1, Inductive, PTL

(* confirmPayment's checks guard every credit and every status that says   *)
(* paid, on all the paths that lead to executeFulfillment.                 *)
THEOREM CreditNeedsPayment == Spec => []NoCreditWithoutPayment
<1>1. IndInv => NoCreditWithoutPayment
  BY DEF IndInv, ExactlyOnce, RowInv, Backed, NoCreditWithoutPayment
<1> QED
  BY <1>1, Inductive, PTL

(* markCompleted is only reached behind the credit and the rebate.         *)
THEOREM CompletionIsEarned == Spec => []CompletedMeansCredited
<1>1. IndInv => CompletedMeansCredited
  BY DEF IndInv, ExactlyOnce, RowInv, Backed, Rebated, RebateClaimed, CompletedMeansCredited
<1> QED
  BY <1>1, Inductive, PTL

(* A 2xx of handleNotify is given for a COMPLETED order, or for a late or  *)
(* swallowed notification.                                                 *)
THEOREM AckIsSettled == Spec => []AckMeansSettled
<1>1. IndInv => AckMeansSettled
  BY DEF IndInv
<1> QED
  BY <1>1, Inductive, PTL

-----------------------------------------------------------------------------
(* What a step does to what the user and the operator see. *)

Completed(o) == o.status = "COMPLETED"

Quiet ==
    /\ gw'.paid = gw.paid
    /\ granted' = granted
    /\ RebateClaimed' = RebateClaimed
    /\ Completed(order') = Completed(order)

LedgerStep ==
    \/ Quiet
    \/ /\ ~gw.paid /\ gw'.paid
       /\ granted' = granted /\ RebateClaimed' = RebateClaimed /\ Completed(order') = Completed(order)
    \/ /\ gw.paid /\ granted = 0 /\ granted' = 1
       /\ gw'.paid = gw.paid /\ RebateClaimed' = RebateClaimed /\ Completed(order') = Completed(order)
    \/ /\ granted = 1 /\ ~RebateClaimed /\ RebateClaimed'
       /\ gw'.paid = gw.paid /\ granted' = granted /\ Completed(order') = Completed(order)
    \/ /\ RebateClaimed /\ ~Completed(order) /\ Completed(order')
       /\ gw'.paid = gw.paid /\ granted' = granted /\ RebateClaimed' = RebateClaimed

(* Every step keeps the payment date and is a step of the ledger, or none. *)
LEMMA StepIsLedgerStep ==
    ASSUME IndInv, Next
    PROVE  LedgerStep /\ (order.paidAt => order'.paidAt)
<1>0. TypeOK /\ order \in OrderType
  BY DEF IndInv, TypeOK, OrderType
<1>1. ASSUME UNCHANGED <<order, code, audits, granted, rebates>>, gw'.paid = gw.paid
      PROVE  LedgerStep /\ (order.paidAt => order'.paidAt)
  BY <1>1 DEF LedgerStep, Quiet, RebateClaimed
<1>2. ASSUME NEW p \in Procs, NEW ok \in BOOLEAN, Return(p, ok) PROVE gw'.paid = gw.paid
  BY <1>0, <1>2 DEF Return, TypeOK
<1>3. ASSUME NEW p \in Procs, Call(p) PROVE LedgerStep /\ (order.paidAt => order'.paidAt)
  <2>1. CASE CreateOrder(p)
    BY <1>0, <2>1 DEF CreateOrder, Save, db, OrderType, LedgerStep, Quiet, RebateClaimed, Completed
  <2>2. CASE ~CreateOrder(p)
    BY <1>1, <1>3, <2>2
    DEF Call, Webhook, VerifyOrder, ReconcilePending, ExpireTimedOut, CancelOrder, RetryFulfillment, SameRow, db
  <2> QED
    BY <2>1, <2>2
<1>4. ASSUME NEW p \in Procs, InvokeProvider(p) \/ SaveDetails(p) \/ CreateFailed(p)
      PROVE  LedgerStep /\ (order.paidAt => order'.paidAt)
  <2>1. UNCHANGED <<code, audits, granted, rebates>> /\ gw'.paid = gw.paid
    BY <1>0, <1>4 DEF InvokeProvider, SaveDetails, CreateFailed, db, TypeOK
  <2>2. order.status # "COMPLETED"
    <3>1. proc[p].pc \in CreatePcs
      BY <1>4 DEF InvokeProvider, SaveDetails, CreateFailed, At, CreatePcs
    <3> QED
      BY <3>1 DEF IndInv, StepsInv, Needs, RowInv
  <2>3. order'.status # "COMPLETED" /\ order'.paidAt = order.paidAt
    BY <1>0, <1>4, <2>2 DEF InvokeProvider, SaveDetails, CreateFailed, Save, SameRow, OrderType
  <2> QED
    BY <2>1, <2>2, <2>3 DEF LedgerStep, Quiet, RebateClaimed, Completed
<1>5. ASSUME NEW p \in Procs, QueryOrder(p) \/ PersistTradeNo(p) \/ CancelWrite(p) \/ ToPaid(p) \/ AcquireLease(p)
      PROVE  LedgerStep /\ (order.paidAt => order'.paidAt)
  <2>1. UNCHANGED <<code, audits, granted, rebates>>
    BY <1>5 DEF QueryOrder, PersistTradeNo, CancelWrite, ToPaid, AcquireLease, db
  <2>2. gw'.paid = gw.paid
    BY <1>0, <1>5 DEF QueryOrder, PersistTradeNo, CancelWrite, ToPaid, AcquireLease, TypeOK
  <2>3. Completed(order') = Completed(order) /\ (order.paidAt => order'.paidAt)
    BY <1>0, <1>5
    DEF QueryOrder, PersistTradeNo, CancelWrite, ToPaid, AcquireLease, Save, SameRow, Payable, Claimable,
        OrderType, Completed
  <2> QED
    BY <2>1, <2>2, <2>3 DEF LedgerStep, Quiet, RebateClaimed
<1>6. ASSUME NEW p \in Procs,
             \/ ConfirmPayment(p) \/ AlreadyProcessed(p) \/ SwallowedRead(p)
             \/ ExecuteFulfillment(p) \/ AcquireConflict(p) \/ ReloadLease(p)
             \/ LookupCode(p) \/ Redeem(p) \/ CheckAssigned(p) \/ CompleteConflict(p)
             \/ StepError(p) \/ Crash(p)
      PROVE  LedgerStep /\ (order.paidAt => order'.paidAt)
  <2>1. UNCHANGED <<order, code, audits, granted, rebates>>
    BY <1>6
    DEF ConfirmPayment, AlreadyProcessed, SwallowedRead, ExecuteFulfillment, AcquireConflict, ReloadLease,
        LookupCode, Redeem, CheckAssigned, CompleteConflict, StepError, Crash, SameRow, db
  <2>2. gw'.paid = gw.paid
    BY <1>2, <1>6
    DEF ConfirmPayment, AlreadyProcessed, SwallowedRead, ExecuteFulfillment, AcquireConflict, ReloadLease,
        LookupCode, Redeem, CheckAssigned, CompleteConflict, StepError, Crash
  <2> QED
    BY <1>1, <2>1, <2>2
<1>7. ASSUME NEW p \in Procs, CreateCode(p) \/ UseCode(p)
      PROVE  LedgerStep /\ (order.paidAt => order'.paidAt)
  <2>1. UNCHANGED <<order, gw, audits>> /\ (granted' = granted \/ (UseCode(p) /\ code = "unused" /\ granted' = granted + 1))
    BY <1>7 DEF CreateCode, UseCode, SameRow
  <2>2. UseCode(p) /\ code = "unused" => gw.paid /\ granted = 0
    BY DEF UseCode, At, IndInv, StepsInv, Needs, WorkPcs, RowInv, ExactlyOnce
  <2> QED
    BY <2>1, <2>2 DEF LedgerStep, Quiet, RebateClaimed
<1>8. ASSUME NEW p \in Procs, AssignSubscription(p)
      PROVE  LedgerStep /\ (order.paidAt => order'.paidAt)
  <2>1. gw.paid /\ code = "absent"
    BY <1>8 DEF AssignSubscription, At, IndInv, StepsInv, Needs, WorkPcs, RowInv
  <2>2. UNCHANGED <<order, gw>> /\ RebateClaimed' = RebateClaimed
    BY <1>8 DEF AssignSubscription, SameRow, RebateClaimed
  <2>3. granted' = granted \/ (granted = 0 /\ granted' = 1)
    BY <1>8, <2>1 DEF AssignSubscription, IndInv, ExactlyOnce
  <2> QED
    BY <2>1, <2>2, <2>3 DEF LedgerStep, Quiet
<1>9. ASSUME NEW p \in Procs, ApplyRebate(p)
      PROVE  LedgerStep /\ (order.paidAt => order'.paidAt)
  <2>1. granted = 1
    BY <1>9 DEF ApplyRebate, At, IndInv, StepsInv, Needs, Backed, ExactlyOnce
  <2>2. UNCHANGED <<order, gw, granted>>
    BY <1>9 DEF ApplyRebate, SameRow
  <2>3. RebateClaimed' = RebateClaimed \/ (~RebateClaimed /\ RebateClaimed')
    BY <1>9 DEF ApplyRebate, RebateClaimed
  <2> QED
    BY <2>1, <2>2, <2>3 DEF LedgerStep, Quiet
<1>10. ASSUME NEW p \in Procs, MarkCompleted(p) \/ MarkFailed(p)
      PROVE  LedgerStep /\ (order.paidAt => order'.paidAt)
  <2>1. gw'.paid = gw.paid /\ granted' = granted
    BY <1>2, <1>10 DEF MarkCompleted, MarkFailed, db
  <2>2. RebateClaimed' = RebateClaimed
    BY <1>10 DEF MarkCompleted, MarkFailed, RebateClaimed, db
  <2>3. order'.paidAt = order.paidAt
    BY <1>0, <1>10 DEF MarkCompleted, MarkFailed, Save, SameRow, OrderType
  <2>4. CASE MarkFailed(p)
    <3>1. Completed(order') = Completed(order)
      BY <1>0, <2>4 DEF MarkFailed, HoldsLease, Save, SameRow, OrderType, Completed
    <3> QED
      BY <2>1, <2>2, <2>3, <3>1 DEF LedgerStep, Quiet
  <2>5. CASE MarkCompleted(p)
    <3>1. RebateClaimed
      BY <2>5 DEF MarkCompleted, At, IndInv, StepsInv, Needs, Rebated, RebateClaimed
    <3>2. Completed(order') = Completed(order) \/ (~Completed(order) /\ Completed(order'))
      BY <1>0, <2>5 DEF MarkCompleted, HoldsLease, Save, SameRow, OrderType, Completed
    <3> QED
      BY <2>1, <2>2, <2>3, <3>1, <3>2 DEF LedgerStep, Quiet
  <2> QED
    BY <1>10, <2>4, <2>5
<1>11. ASSUME Env PROVE LedgerStep /\ (order.paidAt => order'.paidAt)
  <2>1. UNCHANGED <<code, audits, granted>> /\ Completed(order') = Completed(order) /\ order'.paidAt = order.paidAt
    BY <1>0, <1>11 DEF Env, AckUnverified, Pay, Age, TimeOut, Stabilise, Configure, SameRow, db, OrderType, Completed
  <2>2. gw'.paid = gw.paid \/ (~gw.paid /\ gw'.paid)
    BY <1>0, <1>11 DEF Env, AckUnverified, Pay, Age, TimeOut, Stabilise, Configure, TypeOK
  <2> QED
    BY <2>1, <2>2 DEF LedgerStep, Quiet, RebateClaimed
<1> QED
  BY <1>3, <1>4, <1>5, <1>6, <1>7, <1>8, <1>9, <1>10, <1>11 DEF Next, Step

(* A CANCELLED or EXPIRED order is taken up by a payment only, but for the *)
(* FAILED of its own creation.                                             *)
LEMMA ReopenedByPayment ==
    ASSUME IndInv, IndInv', Next, order.status \in Closed, order'.status \notin Closed
    PROVE  Reopened
<1>0. order \in OrderType
  BY DEF IndInv, TypeOK, OrderType
<1>1. ASSUME UNCHANGED order PROVE FALSE
  BY <1>1
<1>2. ASSUME NEW p \in Procs, Call(p) PROVE FALSE
  BY <1>1, <1>2
  DEF Call, CreateOrder, Webhook, VerifyOrder, ReconcilePending, ExpireTimedOut, CancelOrder, RetryFulfillment,
      SameRow, Closed
<1>3. ASSUME NEW p \in Procs, InvokeProvider(p) \/ SaveDetails(p) \/ CreateFailed(p) PROVE Reopened
  <2>1. CASE CreateFailed(p)
    BY <1>0, <2>1 DEF CreateFailed, Save, Reopened, OrderType
  <2>2. CASE ~CreateFailed(p)
    BY <1>0, <1>1, <1>3, <2>2 DEF InvokeProvider, SaveDetails, SameRow, Save, OrderType
  <2> QED
    BY <2>1, <2>2
<1>4. ASSUME NEW p \in Procs, ToPaid(p) PROVE Reopened
  <2>1. gw.paid /\ gw.valid
    BY <1>4 DEF ToPaid, At, IndInv, StepsInv, Needs
  <2>2. order'.status = "PAID"
    BY <1>0, <1>1, <1>4 DEF ToPaid, Save, SameRow, OrderType
  <2> QED
    BY <2>1, <2>2 DEF Reopened
<1>5. ASSUME NEW p \in Procs,
             \/ QueryOrder(p) \/ PersistTradeNo(p) \/ CancelWrite(p) \/ AcquireLease(p)
             \/ MarkCompleted(p) \/ MarkFailed(p)
      PROVE  FALSE
  <2>1. order'.status = order.status
    BY <1>0, <1>1, <1>5
    DEF QueryOrder, PersistTradeNo, CancelWrite, AcquireLease, MarkCompleted, MarkFailed, Claimable, HoldsLease,
        Save, SameRow, OrderType, Closed
  <2> QED
    BY <2>1
<1>6. ASSUME NEW p \in Procs,
             \/ ConfirmPayment(p) \/ AlreadyProcessed(p) \/ SwallowedRead(p)
             \/ ExecuteFulfillment(p) \/ AcquireConflict(p) \/ ReloadLease(p)
             \/ LookupCode(p) \/ CreateCode(p) \/ Redeem(p) \/ UseCode(p)
             \/ CheckAssigned(p) \/ AssignSubscription(p) \/ ApplyRebate(p)
             \/ CompleteConflict(p) \/ StepError(p) \/ Crash(p)
      PROVE  FALSE
  <2>1. UNCHANGED order
    BY <1>6
    DEF ConfirmPayment, AlreadyProcessed, SwallowedRead, ExecuteFulfillment, AcquireConflict, ReloadLease,
        LookupCode, CreateCode, Redeem, UseCode, CheckAssigned, AssignSubscription, ApplyRebate,
        CompleteConflict, StepError, Crash, SameRow
  <2> QED
    BY <1>1, <2>1
<1>7. ASSUME Env PROVE FALSE
  <2>1. order'.status = order.status
    BY <1>0, <1>7 DEF Env, AckUnverified, Pay, Age, TimeOut, Stabilise, Configure, SameRow, OrderType
  <2> QED
    BY <2>1
<1> QED
  BY <1>2, <1>3, <1>4, <1>5, <1>6, <1>7 DEF Next, Step

(* No cancel, expiry, failure or repeated notification undoes a payment or *)
(* reopens a COMPLETED order, and only a valid payment reopens a CANCELLED *)
(* or EXPIRED one (cancelCore, toPaid, markFailed).                        *)
THEOREM PaymentStands == Spec => PaidIsNeverUndone
<1>1. IndInv /\ IndInv' /\ [Next]_vars =>
        [/\ order.paidAt => order'.paidAt /\ order'.status \notin Closed \union {"PENDING"}
         /\ order.status = "COMPLETED" => order'.status = "COMPLETED"
         /\ order.status \in Closed /\ order'.status \notin Closed => Reopened]_vars
  <2> SUFFICES ASSUME IndInv, IndInv', Next
      PROVE  /\ order.paidAt => order'.paidAt /\ order'.status \notin Closed \union {"PENDING"}
             /\ order.status = "COMPLETED" => order'.status = "COMPLETED"
             /\ order.status \in Closed /\ order'.status \notin Closed => Reopened
    BY DEF vars
  <2>1. LedgerStep /\ (order.paidAt => order'.paidAt)
    BY StepIsLedgerStep
  <2>2. order'.paidAt => order'.status \in {"PAID", "RECHARGING", "COMPLETED", "FAILED"}
    BY DEF IndInv, RowInv
  <2>3. order.status = "COMPLETED" => order'.status = "COMPLETED"
    BY <2>1 DEF LedgerStep, Quiet, Completed
  <2>4. order.status \in Closed /\ order'.status \notin Closed => Reopened
    BY ReopenedByPayment
  <2>5. order.paidAt => order'.status \notin Closed \union {"PENDING"}
    BY <2>1, <2>2 DEF Closed
  <2> QED
    BY <2>1, <2>3, <2>4, <2>5
<1> QED
  BY <1>1, Inductive, PTL DEF Spec, PaidIsNeverUndone

(* The order, with all its executions, leases and faults, implements the   *)
(* ledger: one payment, one credit, one rebate decision, then settled.     *)
THEOREM OrderImplementsLedger == Spec => ImplementsLedger
<1>1. Init => Ledger!Init
  BY DEF Init, Ledger!Init, RebateClaimed
<1>2. IndInv /\ [Next]_vars => [Ledger!Next]_Ledger!ledger
  <2> SUFFICES ASSUME IndInv, [Next]_vars PROVE [Ledger!Next]_Ledger!ledger
    OBVIOUS
  <2>1. CASE UNCHANGED vars
    BY <2>1 DEF vars, Ledger!ledger, RebateClaimed
  <2>2. CASE Next
    <3>1. LedgerStep
      BY <2>2, StepIsLedgerStep
    <3>2. gw.paid \in BOOLEAN /\ gw'.paid \in BOOLEAN
      BY NextInd DEF IndInv, TypeOK
    <3> QED
      BY <3>1, <3>2
      DEF LedgerStep, Quiet, Completed, Ledger!Next, Ledger!Pay, Ledger!Grant, Ledger!Rebate, Ledger!Settle, Ledger!ledger
  <2> QED
    BY <2>1, <2>2
<1> QED
  BY <1>1, <1>2, Inductive, PTL DEF Spec, ImplementsLedger, Ledger!Spec

=============================================================================
