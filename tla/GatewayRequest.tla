--------------------------- MODULE GatewayRequest ---------------------------
(***************************************************************************)
(* Requests of one user through the gateway                                *)
(* (handler/gateway_handler.go): a request takes a concurrency slot,       *)
(* checks the balance, reserves its estimated cost in flight, is           *)
(* forwarded, and hands its usage to a billing task that charges the user  *)
(* and corrects the cached balance.  Handler and task share the            *)
(* reservation by a reference count                                        *)
(* (service/billing_inflight_reservation.go).                              *)
(***************************************************************************)
EXTENDS BalanceCache, UserSlots, FiniteSetsExt

CONSTANTS
    Instances,      \* processes of the gateway
    Host,           \* the instance that serves each request
    Estimates,      \* what may be reserved for the requests, after the
                    \* cap; 0 for one that cannot be priced.  These are
                    \* guesses: a cost may be more
    MaxFaults       \* bound: failures

ASSUME GatewayAssumption ==
    /\ IsFiniteSet(Usages)
    /\ Host \in [Usages -> Instances]
    /\ Estimates \subseteq [Usages -> Nat]
    /\ MaxFaults \in Nat

VARIABLES
    estimate,       \* what is to be reserved for each request
    req,            \* per request: step, balance read, references to the
                    \* reservation, whether it holds a slot
    task,           \* per request: step of its billing task
    inflight,       \* Redis: requests with a reservation
    faults,
    swept           \* ghost: a slot was taken from a request that runs

vars == <<estimate, ledger, balances, redis, req, task, inflight, faults, swept>>

Handling == {"queue", "wait", "leave", "check", "read", "reserve", "forward", "finish", "unslot"}
TaskSteps == {"none", "bill", "sync", "invalidate", "end", "done"}

TypeOK ==
    /\ LedgerTypeOK /\ BalanceCacheTypeOK
    /\ limit \in Limits /\ slots \subseteq Usages /\ waiting \in 0..MaxWait
    /\ estimate \in Estimates
    /\ req \in [Usages -> [pc: Handling \union {"new", "over"}, seen: Int, refs: 0..2, slot: BOOLEAN]]
    /\ task \in [Usages -> TaskSteps]
    /\ inflight \subseteq Usages
    /\ faults \in 0..MaxFaults
    /\ swept \in BOOLEAN

Fresh == [pc |-> "new", seen |-> 0, refs |-> 0, slot |-> FALSE]

Init ==
    /\ LedgerInit /\ BalanceCacheInit /\ SlotsInit
    /\ estimate \in Estimates
    /\ req = [u \in Usages |-> Fresh]
    /\ task = [u \in Usages |-> "none"]
    /\ inflight = {} /\ faults = 0 /\ swept = FALSE

-----------------------------------------------------------------------------
At(u, l)   == req[u].pc = l
Goto(u, l) == req' = [req EXCEPT ![u].pc = l]
Fault      == faults < MaxFaults /\ faults' = faults + 1
Billing(u) == task[u] \in {"bill", "sync", "invalidate", "end"}

Costs(us) == MapThenSumSet(LAMBDA u : Cost[u], us)
Reserved  == MapThenSumSet(LAMBDA u : estimate[u], inflight)

(* What is charged and not yet taken off the cache. *)
Unsynced  == Costs({u \in Usages : task[u] \in {"sync", "invalidate"}})

-----------------------------------------------------------------------------
(* AcquireUserSlotWithWait.                                                *)

TryAcquireUserSlot(u) ==
    /\ At(u, "new")
    /\ \/ AcquireSlot(u) /\ req' = [req EXCEPT ![u].pc = "check", ![u].slot = TRUE] /\ UNCHANGED faults
       \/ ~SlotFree /\ Goto(u, "queue") /\ UNCHANGED <<slots, faults>>
       \/ AcquireSlot(u) /\ Goto(u, "over") /\ Fault
    /\ UNCHANGED <<estimate, ledger, balances, limit, waiting, task, inflight, swept>>

(* A failing increment lets the request wait uncounted. *)
JoinQueue(u) ==
    /\ At(u, "queue")
    /\ \/ IncrementWait /\ Goto(u, "wait") /\ UNCHANGED faults
       \/ waiting = MaxWait /\ Goto(u, "over") /\ UNCHANGED <<waiting, faults>>
       \/ Goto(u, "wait") /\ Fault /\ UNCHANGED waiting
    /\ UNCHANGED <<estimate, ledger, balances, limit, slots, task, inflight, swept>>

(* Until a slot is free, or the time is over, or the client is gone. *)
WaitForSlot(u) ==
    /\ At(u, "wait")
    /\ \/ AcquireSlot(u) /\ req' = [req EXCEPT ![u].pc = "leave", ![u].slot = TRUE] /\ UNCHANGED faults
       \/ Goto(u, "leave") /\ UNCHANGED <<slots, faults>>
       \/ AcquireSlot(u) /\ Goto(u, "leave") /\ Fault
    /\ UNCHANGED <<estimate, ledger, balances, limit, waiting, task, inflight, swept>>

LeaveQueue(u) ==
    /\ At(u, "leave")
    /\ \/ DecrementWait /\ UNCHANGED faults
       \/ Fault /\ UNCHANGED waiting
    /\ Goto(u, IF req[u].slot THEN "check" ELSE "over")
    /\ UNCHANGED <<estimate, ledger, balances, limit, slots, task, inflight, swept>>

-----------------------------------------------------------------------------
(* CheckBillingEligibility, then reserveInflight, which reads the balance  *)
(* again; a failure refuses the first and waives the second.               *)

CheckBalanceEligibility(u) ==
    /\ At(u, "check")
    /\ \/ Goto(u, IF GetUserBalance > 0 THEN "read" ELSE "unslot") /\ Fill(u) /\ UNCHANGED faults
       \/ Goto(u, "unslot") /\ Fault /\ UNCHANGED balances
    /\ UNCHANGED <<estimate, ledger, redis, task, inflight, swept>>

Priced(u) == estimate[u] > 0

(* A request that cannot be priced is forwarded without a reservation, or  *)
(* refused (FailClosedOnUnpriced).                                         *)
ReadBalance(u) ==
    /\ At(u, "read")
    /\ \/ /\ Priced(u) /\ req' = [req EXCEPT ![u].pc = "reserve", ![u].seen = GetUserBalance]
          /\ Fill(u) /\ UNCHANGED faults
       \/ Priced(u) /\ Goto(u, "forward") /\ Fault /\ UNCHANGED balances
       \/ ~Priced(u) /\ (Goto(u, "forward") \/ Goto(u, "unslot")) /\ UNCHANGED <<balances, faults>>
    /\ UNCHANGED <<estimate, ledger, redis, task, inflight, swept>>

(* reserveInflightBalanceScript: a request that is alone is let through.   *)
Covered(u) == inflight = {} \/ req[u].seen - Reserved >= estimate[u]

ReserveInflight(u) ==
    /\ At(u, "reserve")
    /\ \/ /\ Covered(u) /\ inflight' = inflight \union {u}
          /\ req' = [req EXCEPT ![u] = [@ EXCEPT !.pc = "forward", !.refs = 1, !.seen = 0]]
          /\ UNCHANGED faults
       \/ /\ ~Covered(u) /\ req' = [req EXCEPT ![u] = [@ EXCEPT !.pc = "unslot", !.seen = 0]]
          /\ UNCHANGED <<inflight, faults>>
       \/ /\ req' = [req EXCEPT ![u] = [@ EXCEPT !.pc = "forward", !.seen = 0]]
          /\ Fault /\ inflight' \in {inflight, inflight \union {u}}
    /\ UNCHANGED <<estimate, ledger, balances, redis, task, swept>>

-----------------------------------------------------------------------------
(* InflightReservation.                                                    *)

(* Acquire: one more reference, unless there is none. *)
Acquire(u) == req' = [req EXCEPT ![u].pc = "finish", ![u].refs = IF @ > 0 THEN @ + 1 ELSE 0]

(* decRef, and Release when it was the last; a release that fails leaves   *)
(* the reservation to its TTL.                                             *)
DecRef(u) ==
    \/ inflight' = (IF req[u].refs = 1 THEN inflight \ {u} ELSE inflight) /\ UNCHANGED faults
    \/ req[u].refs = 1 /\ UNCHANGED inflight /\ Fault

Dropped(n) == IF n > 0 THEN n - 1 ELSE 0

(* The request is forwarded, and submitUsageRecordTask takes its usage; a  *)
(* full pool may be set to drop the task.                                  *)
Forward(u) ==
    /\ At(u, "forward")
    /\ \/ Acquire(u) /\ task' = [task EXCEPT ![u] = "bill"] /\ UNCHANGED faults
       \/ Goto(u, "finish") /\ UNCHANGED <<task, faults>>
       \/ Goto(u, "finish") /\ Fault /\ UNCHANGED task
    /\ UNCHANGED <<estimate, ledger, balances, redis, inflight, swept>>

HandlerDone(u) ==
    /\ At(u, "finish")
    /\ DecRef(u)
    /\ req' = [req EXCEPT ![u].pc = "unslot", ![u].refs = Dropped(@)]
    /\ UNCHANGED <<estimate, ledger, balances, redis, task, swept>>

ReleaseUserSlot(u) ==
    /\ At(u, "unslot")
    /\ \/ slots' = (IF req[u].slot THEN slots \ {u} ELSE slots) /\ UNCHANGED faults
       \/ req[u].slot /\ Fault /\ UNCHANGED slots
    /\ req' = [req EXCEPT ![u] = [@ EXCEPT !.pc = "over", !.slot = FALSE]]
    /\ UNCHANGED <<estimate, ledger, balances, limit, waiting, task, inflight, swept>>

(* wrapReleaseOnDone: when the client goes away its slot is released while *)
(* the handler goes on.                                                    *)
ClientGone(u) ==
    /\ req[u].slot /\ req[u].pc \in Handling \ {"leave", "unslot"}
    /\ ReleaseSlot(u)
    /\ req' = [req EXCEPT ![u].slot = FALSE]
    /\ UNCHANGED <<estimate, ledger, balances, limit, waiting, task, inflight, faults, swept>>

Handler(u) ==
    \/ JoinQueue(u) \/ WaitForSlot(u) \/ LeaveQueue(u) \/ CheckBalanceEligibility(u) \/ ReadBalance(u)
    \/ ReserveInflight(u) \/ Forward(u) \/ HandlerDone(u) \/ ReleaseUserSlot(u)

-----------------------------------------------------------------------------
(* The billing task: applyUsageBilling and finalizePostUsageBilling.       *)

Step(u, l) == task' = [task EXCEPT ![u] = l]

(* Nothing follows a charge that was made before, or whose answer is lost. *)
ApplyUsageBilling(u) ==
    /\ task[u] = "bill"
    /\ \/ /\ Apply(u)
          /\ IF moved' = moved THEN Step(u, "end") ELSE Step(u, IF balance' <= 0 THEN "invalidate" ELSE "sync")
          /\ UNCHANGED faults
       \/ Step(u, "end") /\ Fault /\ (Apply(u) \/ UNCHANGED ledger)
    /\ UNCHANGED <<estimate, balances, redis, req, inflight, swept>>

(* Mutant of SyncBalanceCache: the deduction is queued, as it is without   *)
(* reservations.                                                           *)
QueueDeductBalance(u) ==
    /\ task[u] = "sync" /\ Step(u, "end")
    /\ writes' = writes \union {Task("deduct", u, Cost[u])}
    /\ UNCHANGED <<estimate, ledger, cache, raced, redis, req, inflight, faults, swept>>

(* syncBalanceCacheAfterDeduction; what fails is queued.                   *)
SyncBalanceCache(u) ==
    /\ task[u] = "sync" /\ Step(u, "end")
    /\ \/ cache' = Deducted(Cost[u]) /\ UNCHANGED <<writes, faults>>
       \/ writes' = writes \union {Task("deduct", u, Cost[u])} /\ Fault /\ UNCHANGED cache
    /\ UNCHANGED <<estimate, ledger, raced, redis, req, inflight, swept>>

InvalidateUserBalance(u) ==
    /\ task[u] = "invalidate" /\ Step(u, "end")
    /\ \/ cache' = Nil /\ UNCHANGED faults
       \/ Fault /\ UNCHANGED cache
    /\ UNCHANGED <<estimate, ledger, writes, raced, redis, req, inflight, swept>>

TaskEnd(u) ==
    /\ task[u] = "end" /\ Step(u, "done")
    /\ DecRef(u)
    /\ req' = [req EXCEPT ![u].refs = Dropped(@)]
    /\ UNCHANGED <<estimate, ledger, balances, redis, swept>>

(* The same usage is reported once more. *)
BillAgain(u) ==
    /\ task[u] = "done" /\ At(u, "over") /\ Step(u, "bill") /\ Fault
    /\ UNCHANGED <<estimate, ledger, balances, redis, req, inflight, swept>>

BillingTask(u) == ApplyUsageBilling(u) \/ SyncBalanceCache(u) \/ InvalidateUserBalance(u) \/ TaskEnd(u)

-----------------------------------------------------------------------------
(* The surroundings.                                                       *)

CacheWorker ==
    /\ \E w \in writes : CacheWrite(w, Unsynced)
    /\ UNCHANGED <<estimate, ledger, redis, req, task, inflight, faults, swept>>

CacheExpires ==
    /\ cache # Nil /\ cache' = Nil
    /\ UNCHANGED <<estimate, ledger, writes, raced, redis, req, task, inflight, faults, swept>>

(* Mutant of ReservationExpires: the renewal is not stopped. *)
ReservationRenewed(u) ==
    /\ u \in inflight /\ inflight' = inflight \ {u} /\ Fault
    /\ UNCHANGED <<estimate, ledger, balances, redis, req, task, swept>>

(* The handler renews its reservation and a task is faster than the TTL,   *)
(* unless something is wrong.                                              *)
ReservationExpires(u) ==
    /\ u \in inflight /\ inflight' = inflight \ {u}
    /\ IF req[u].pc \in {"unslot", "over"} /\ ~Billing(u) THEN UNCHANGED faults ELSE Fault
    /\ UNCHANGED <<estimate, ledger, balances, redis, req, task, swept>>

SlotExpires(u) ==
    /\ u \in slots /\ ReleaseSlot(u)
    /\ IF req[u].slot THEN Fault /\ swept' = TRUE ELSE UNCHANGED <<faults, swept>>
    /\ UNCHANGED <<estimate, ledger, balances, limit, waiting, req, task, inflight>>

WaitCountExpires ==
    /\ waiting > 0 /\ waiting' = 0
    /\ \A u \in Usages : req[u].pc \notin {"wait", "leave"}
    /\ UNCHANGED <<estimate, ledger, balances, limit, slots, req, task, inflight, faults, swept>>

(* An instance dies and another process starts in its place. *)
RestartInstance(i) ==
    LET lost == {u \in Usages : Host[u] = i /\ (req[u].pc \in Handling \/ Billing(u))} IN
    /\ lost # {} /\ Fault
    /\ req' = [u \in Usages |-> IF u \in lost THEN [Fresh EXCEPT !.pc = "over"] ELSE req[u]]
    /\ task' = [u \in Usages |-> IF u \in lost THEN "done" ELSE task[u]]
    /\ writes' = {w \in writes : Host[w.by] # i}
    /\ CleanupStaleProcessSlots \/ UNCHANGED <<slots, waiting>>
    /\ swept' = (swept \/ \E u \in Usages : req'[u].slot /\ u \notin slots')
    /\ UNCHANGED <<estimate, ledger, cache, raced, limit, inflight>>

(* CleanupUsageBillingDedup, long after the requests *)
CleanupDedup ==
    /\ \A u \in Usages : Claimed(<<"usage", u>>) => At(u, "over") /\ task[u] = "done"
    /\ Cleanup
    /\ UNCHANGED <<estimate, balances, redis, req, task, inflight, faults, swept>>

Next ==
    \/ \E u \in Usages : TryAcquireUserSlot(u) \/ Handler(u) \/ BillingTask(u)
    \/ \E u \in Usages : ClientGone(u) \/ BillAgain(u) \/ ReservationExpires(u) \/ SlotExpires(u)
    \/ \E i \in Instances : RestartInstance(i)
    \/ CacheWorker \/ CacheExpires \/ WaitCountExpires \/ CleanupDedup

(* Fairness: what a process has begun it ends, and keys with a TTL expire. *)
Fairness ==
    /\ \A u \in Usages : /\ WF_vars(Handler(u)) /\ WF_vars(BillingTask(u))
                         /\ WF_vars(ReservationExpires(u)) /\ WF_vars(SlotExpires(u))
    /\ WF_vars(WaitCountExpires)

Spec == Init /\ [][Next]_vars /\ Fairness

-----------------------------------------------------------------------------
(* A request is charged at most once, whatever is retried, reported again  *)
(* or archived, and the balance is what the charges left of it (Apply,     *)
(* claimUsageBillingRequest, the deduplication archive).                   *)
ChargedOnce ==
    /\ \A r \in Requests : moved[r] <= 1
    /\ balance = StartBalance - Costs({u \in Usages : Claimed(<<"usage", u>>)})

(* Charges not yet taken off the cache that were never reserved for. *)
Unpriced == {u \in Usages : ~Priced(u) /\ task[u] \in {"sync", "invalidate"}}

(* As long as nothing fails and no early read gets into the cache, the     *)
(* balance that admission reads exceeds the user's real balance only by    *)
(* charges whose reservation still counts, and by charges of requests that *)
(* never had one because they could not be priced: a charge is taken off   *)
(* the cache before its reservation goes (syncBalanceCacheAfterDeduction,  *)
(* InflightReservation).  What a reservation counts is a guess, which the  *)
(* charge may exceed.                                                      *)
ReservedUntilDeducted ==
    faults = 0 /\ ~raced /\ cache # Nil =>
      cache <= balance + Costs({u \in inflight \union Unpriced : Claimed(<<"usage", u>>)})

(* No more requests than the user's concurrency hold a slot, on all        *)
(* instances together, unless a slot was taken from a request that runs    *)
(* (acquireScript, CleanupStaleProcessSlots, the slots' TTL).              *)
SlotLimit == ~swept => Cardinality({u \in Usages : req[u].slot}) <= limit

(* In the end no slot, reservation or place in the queue is left behind,   *)
(* whatever dies or fails (ReleaseFunc, decRef, the TTLs).                 *)
NothingLeaks == <>[](slots = {} /\ inflight = {} /\ waiting = 0)

=============================================================================
