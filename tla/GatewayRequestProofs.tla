------------------------ MODULE GatewayRequestProofs ------------------------
(***************************************************************************)
(* Proofs about GatewayRequest, for any finite set of requests, any        *)
(* instances, costs, estimates and limits.                                 *)
(*                                                                         *)
(* The first part is about Costs, which the model defines with a fold over *)
(* a set: the fold takes its elements in an order nobody knows, so that    *)
(* Costs(us \union {u}) = Costs(us) + Cost[u] needs an induction over      *)
(* finite sets.  It is done on a least counterexample, which the           *)
(* well-foundedness of < on the naturals gives.                            *)
(***************************************************************************)
EXTENDS GatewayRequest, FiniteSetTheorems, WellFoundedInduction, TLAPS

(* One step of the fold. *)
Pick(s)        == CHOOSE x \in s : TRUE
FoldStep(f, s) == IF s = {} THEN 0 ELSE Cost[Pick(s)] + f[s \ {Pick(s)}]
IsFold(f, us)  == f = [s \in SUBSET us |-> FoldStep(f, s)]

(* What Costs is, for all sets of requests at once. *)
CostOf == CHOOSE f : IsFold(f, Usages)

LEMMA Constants ==
    /\ IsFiniteSet(Usages) /\ MaxFaults \in Nat /\ MaxWait \in Nat /\ StartBalance \in Int
    /\ \A u \in Usages : Cost[u] \in Nat /\ Cost[u] > 0 /\ Cost[u] \in Int
BY GatewayAssumption, LedgerAssumption, SlotAssumption

LEMMA CostsDef ==
    ASSUME NEW us
    PROVE  Costs(us) = (CHOOSE f : IsFold(f, us))[us]
BY DEF Costs, MapThenSumSet, MapThenFoldSet, IsFold, FoldStep, Pick

(* Induction over the naturals, for a set of them. *)
LEMMA AllNaturals ==
    ASSUME NEW G \in SUBSET Nat, 0 \in G, \A n \in G : n + 1 \in G
    PROVE  \A n \in Nat : n \in G
<1> DEFINE Bad == Nat \ G
<1> SUFFICES ASSUME Bad # {}
             PROVE  FALSE
  OBVIOUS
<1>1. PICK m \in Bad : \A k \in Bad : ~(<<k, m>> \in OpToRel(<, Nat))
  <2>1. Bad \subseteq Nat
    OBVIOUS
  <2> HIDE DEF Bad
  <2> QED
    BY <2>1, NatLessThanWellFounded, WFMin
<1>2. m \in Nat /\ m # 0 /\ m - 1 \in Nat /\ m - 1 < m /\ (m - 1) + 1 = m
  OBVIOUS
<1>3. m - 1 \in G
  BY <1>1, <1>2 DEF OpToRel
<1> QED
  BY <1>2, <1>3

(* A part of a finite set without the element that the fold takes. *)
LEMMA PickFacts ==
    ASSUME NEW S \in SUBSET Usages, NEW s \in SUBSET S
    PROVE  /\ IsFiniteSet(s) /\ Cardinality(s) \in Nat /\ (Cardinality(s) = 0 <=> s = {})
           /\ s # {} => /\ Pick(s) \in s /\ Pick(s) \in Usages /\ s \ {Pick(s)} \in SUBSET S
                        /\ Cardinality(s \ {Pick(s)}) = Cardinality(s) - 1
           /\ \A x \in s : Cardinality(s \ {x}) = Cardinality(s) - 1
<1>1. s \in SUBSET Usages /\ IsFiniteSet(s)
  BY Constants, FS_Subset
<1>2. Cardinality(s) \in Nat /\ (Cardinality(s) = 0 <=> s = {})
  BY <1>1, FS_CardinalityType, FS_EmptySet
<1>3. s # {} => Pick(s) \in s
  BY DEF Pick
<1>4. \A x \in s : Cardinality(s \ {x}) = Cardinality(s) - 1
  BY <1>1, FS_RemoveElement
<1> QED
  BY <1>1, <1>2, <1>3, <1>4

LEMMA Nothing ==
    ASSUME NEW S \in SUBSET Usages, NEW s \in SUBSET S, Cardinality(s) <= 0
    PROVE  s = {}
<1>1. Cardinality(s) \in Nat /\ (Cardinality(s) = 0 <=> s = {})
  BY PickFacts
<1> QED
  BY <1>1

(* A recursive definition over the parts of a finite set defines a         *)
(* function: there is one that obeys it on the parts of at most n          *)
(* elements, for every n.                                                  *)
LEMMA FoldExists ==
    ASSUME NEW S \in SUBSET Usages
    PROVE  \E f : IsFold(f, S)
<1> DEFINE Upto(f, n) == \A s \in SUBSET S : Cardinality(s) <= n => f[s] = FoldStep(f, s)
           G == {n \in Nat : \E f \in [SUBSET S -> Int] : Upto(f, n)}
<1>1. 0 \in G
  <2>1. PICK f \in [SUBSET S -> Int] : \A s \in SUBSET S : f[s] = 0
    <3>1. [s \in SUBSET S |-> 0] \in [SUBSET S -> Int]
      OBVIOUS
    <3> QED
      BY <3>1
  <2>2. ASSUME NEW s \in SUBSET S, Cardinality(s) <= 0
        PROVE  f[s] = FoldStep(f, s)
    <3>1. s = {}
      BY <2>2, Nothing
    <3> QED
      BY <2>1, <3>1 DEF FoldStep
  <2> QED
    BY <2>1, <2>2
<1>2. ASSUME NEW n \in G
      PROVE  n + 1 \in G
  <2>1. n \in Nat
    OBVIOUS
  <2>2. PICK f \in [SUBSET S -> Int] : Upto(f, n)
    OBVIOUS
  <2>3. \A s \in SUBSET S : FoldStep(f, s) \in Int
    <3> TAKE s \in SUBSET S
    <3>1. s # {} => Pick(s) \in Usages /\ s \ {Pick(s)} \in SUBSET S
      BY PickFacts
    <3>2. s # {} => Cost[Pick(s)] \in Int /\ f[s \ {Pick(s)}] \in Int
      BY <3>1, Constants
    <3> QED
      BY <3>2 DEF FoldStep
  <2>4. PICK g \in [SUBSET S -> Int] : \A s \in SUBSET S : g[s] = FoldStep(f, s)
    <3>1. [s \in SUBSET S |-> FoldStep(f, s)] \in [SUBSET S -> Int]
      BY <2>3
    <3> QED
      BY <3>1
  <2>5. ASSUME NEW s \in SUBSET S, Cardinality(s) <= n + 1
        PROVE  g[s] = FoldStep(g, s)
    <3>1. CASE s = {}
      BY <2>4, <3>1 DEF FoldStep
    <3>2. CASE s # {}
      <4> DEFINE t == s \ {Pick(s)}
      <4>1. t \in SUBSET S /\ Cardinality(t) <= n
        BY <2>1, <2>5, <3>2, PickFacts
      <4>2. f[t] = g[t]
        BY <2>2, <2>4, <4>1
      <4> QED
        BY <2>4, <3>2, <4>2 DEF FoldStep
    <3> QED
      BY <3>1, <3>2
  <2> QED
    BY <2>1, <2>5
<1>3. PICK f \in [SUBSET S -> Int] : \A s \in SUBSET S : f[s] = FoldStep(f, s)
  <2>1. S \in SUBSET S /\ Cardinality(S) \in Nat
    BY PickFacts
  <2>2. \A n \in Nat : n \in G
    <3> HIDE DEF G
    <3> QED
      BY <1>1, <1>2, AllNaturals DEF G
  <2>3. PICK f \in [SUBSET S -> Int] : Upto(f, Cardinality(S))
    BY <2>1, <2>2
  <2>4. ASSUME NEW s \in SUBSET S
        PROVE  Cardinality(s) <= Cardinality(S)
    BY FS_Subset, <2>4, Constants
  <2> QED
    BY <2>3, <2>4
<1> QED
  BY <1>3 DEF IsFold

(* Any two such functions agree where both are defined. *)
LEMMA FoldUnique ==
    ASSUME NEW S \in SUBSET Usages, NEW f, NEW h, IsFold(f, S), IsFold(h, Usages), NEW s \in SUBSET S
    PROVE  f[s] = h[s] /\ f[s] \in Int
<1> DEFINE G == {n \in Nat : \A t \in SUBSET S : Cardinality(t) <= n => f[t] = h[t] /\ f[t] \in Int}
<1>1. \A t \in SUBSET S : f[t] = FoldStep(f, t) /\ h[t] = FoldStep(h, t)
  BY DEF IsFold
<1>2. 0 \in G
  <2>1. ASSUME NEW t \in SUBSET S, Cardinality(t) <= 0
        PROVE  f[t] = h[t] /\ f[t] \in Int
    <3>1. t = {}
      BY <2>1, Nothing
    <3> QED
      BY <1>1, <3>1 DEF FoldStep
  <2> QED
    BY <2>1
<1>3. ASSUME NEW n \in G
      PROVE  n + 1 \in G
  <2>1. n \in Nat /\ \A t \in SUBSET S : Cardinality(t) <= n => f[t] = h[t] /\ f[t] \in Int
    OBVIOUS
  <2>2. ASSUME NEW t \in SUBSET S, Cardinality(t) <= n + 1
        PROVE  f[t] = h[t] /\ f[t] \in Int
    <3>1. CASE t = {}
      BY <1>1, <3>1 DEF FoldStep
    <3>2. CASE t # {}
      <4>1. /\ Pick(t) \in Usages /\ t \ {Pick(t)} \in SUBSET S
            /\ Cardinality(t \ {Pick(t)}) = Cardinality(t) - 1 /\ Cardinality(t) \in Nat
        BY <3>2, PickFacts
      <4>2. f[t \ {Pick(t)}] = h[t \ {Pick(t)}] /\ f[t \ {Pick(t)}] \in Int
        <5>1. Cardinality(t \ {Pick(t)}) <= n
          BY <2>1, <2>2, <4>1
        <5> QED
          BY <2>1, <4>1, <5>1
      <4>3. /\ f[t] = Cost[Pick(t)] + f[t \ {Pick(t)}]
            /\ h[t] = Cost[Pick(t)] + h[t \ {Pick(t)}]
        BY <1>1, <3>2 DEF FoldStep
      <4> QED
        BY <4>1, <4>2, <4>3, Constants
    <3> QED
      BY <3>1, <3>2
  <2> QED
    BY <2>1, <2>2
<1>4. Cardinality(s) \in G
  <2>1. Cardinality(s) \in Nat
    BY PickFacts
  <2> HIDE DEF G
  <2> QED
    BY <1>2, <1>3, <2>1, AllNaturals DEF G
<1> QED
  BY <1>4, PickFacts

(* Costs, without the CHOOSE. *)
LEMMA CostsFold ==
    ASSUME NEW us \in SUBSET Usages
    PROVE  /\ Costs(us) \in Int
           /\ us = {} => Costs(us) = 0
           /\ us # {} => Costs(us) = Cost[Pick(us)] + Costs(us \ {Pick(us)})
<1>1. IsFold(CostOf, Usages)
  BY FoldExists DEF CostOf
<1>2. \A s \in SUBSET Usages : Costs(s) = CostOf[s] /\ Costs(s) \in Int
  <2> TAKE s \in SUBSET Usages
  <2>1. IsFold(CHOOSE f : IsFold(f, s), s)
    BY FoldExists
  <2> QED
    BY <1>1, <2>1, CostsDef, FoldUnique
<1>3. CostOf[us] = FoldStep(CostOf, us)
  BY <1>1 DEF IsFold
<1> QED
  BY <1>2, <1>3 DEF FoldStep

(* The order in which the fold takes the elements does not matter. *)
LEMMA CostsRemove ==
    ASSUME NEW us \in SUBSET Usages, NEW u \in us
    PROVE  Costs(us) = Cost[u] + Costs(us \ {u})
<1> DEFINE G == {n \in Nat : \A s \in SUBSET Usages : Cardinality(s) <= n =>
                               \A x \in s : Costs(s) = Cost[x] + Costs(s \ {x})}
<1>1. 0 \in G
  <2>1. \A s \in SUBSET Usages : Cardinality(s) <= 0 => s = {}
    BY Nothing
  <2> QED
    BY <2>1
<1>2. ASSUME NEW n \in G
      PROVE  n + 1 \in G
  <2>1. n \in Nat
    OBVIOUS
  <2>2. ASSUME NEW s \in SUBSET Usages, Cardinality(s) <= n + 1, NEW x \in s
        PROVE  Costs(s) = Cost[x] + Costs(s \ {x})
    <3>1. s # {} /\ Pick(s) \in s /\ Cardinality(s) \in Nat
      BY PickFacts
    <3>2. Costs(s) = Cost[Pick(s)] + Costs(s \ {Pick(s)})
      BY <3>1, CostsFold
    <3>3. CASE x = Pick(s)
      BY <3>2, <3>3
    <3>4. CASE x # Pick(s)
      <4> DEFINE p == Pick(s)
      <4>1. /\ x \in s \ {p} /\ s \ {p} \in SUBSET Usages /\ Cardinality(s \ {p}) <= n
            /\ p \in s \ {x} /\ s \ {x} \in SUBSET Usages /\ Cardinality(s \ {x}) <= n
        <5>1. /\ Cardinality(s \ {p}) = Cardinality(s) - 1
              /\ Cardinality(s \ {x}) = Cardinality(s) - 1
          BY <2>2, <3>1, PickFacts
        <5> HIDE DEF p
        <5> QED
          BY <2>1, <2>2, <3>1, <3>4, <5>1 DEF p
      <4>2. Costs(s \ {p}) = Cost[x] + Costs((s \ {p}) \ {x})
        BY <4>1
      <4>3. Costs(s \ {x}) = Cost[p] + Costs((s \ {x}) \ {p})
        BY <4>1
      <4>4. (s \ {p}) \ {x} = (s \ {x}) \ {p}
        OBVIOUS
      <4>5. /\ Cost[x] \in Int /\ Cost[p] \in Int
            /\ Costs((s \ {x}) \ {p}) \in Int
        <5>1. (s \ {x}) \ {p} \in SUBSET Usages
          BY <4>1
        <5> QED
          BY <2>2, <3>1, <5>1, Constants, CostsFold
      <4> HIDE DEF p
      <4> QED
        <5>1. Costs(s) = Cost[p] + Costs(s \ {p})
          BY <3>2 DEF p
        <5>2. Costs(s) = Cost[p] + (Cost[x] + Costs((s \ {x}) \ {p}))
          BY <4>2, <4>4, <5>1
        <5> QED
          BY <4>3, <4>5, <5>2
    <3> QED
      BY <3>3, <3>4
  <2> QED
    BY <2>1, <2>2
<1>3. Cardinality(us) \in G
  <2>1. Cardinality(us) \in Nat
    BY PickFacts
  <2> HIDE DEF G
  <2> QED
    BY <1>1, <1>2, <2>1, AllNaturals DEF G
<1>4. Cardinality(us) \in Nat
  BY PickFacts
<1> QED
  BY <1>3, <1>4

LEMMA CostsAdd ==
    ASSUME NEW us \in SUBSET Usages, NEW u \in Usages \ us
    PROVE  Costs(us \union {u}) = Costs(us) + Cost[u]
<1>1. us \union {u} \in SUBSET Usages /\ (us \union {u}) \ {u} = us
  OBVIOUS
<1>2. Costs(us \union {u}) = Cost[u] + Costs(us)
  BY <1>1, CostsRemove
<1>3. Costs(us) \in Int /\ Cost[u] \in Int
  BY CostsFold, Constants
<1> QED
  BY <1>2, <1>3

(* More requests cost more. *)
LEMMA CostsGrow ==
    ASSUME NEW ws \in SUBSET Usages, NEW us \in SUBSET ws
    PROVE  Costs(us) <= Costs(ws)
<1> DEFINE G == {n \in Nat : \A s \in SUBSET Usages : Cardinality(s) <= n =>
                               \A t \in SUBSET s : Costs(t) <= Costs(s)}
<1>1. 0 \in G
  <2>1. ASSUME NEW s \in SUBSET Usages, Cardinality(s) <= 0, NEW t \in SUBSET s
        PROVE  Costs(t) <= Costs(s)
    <3>1. s = {} /\ t = {}
      BY <2>1, Nothing
    <3>2. Costs(s) = 0 /\ Costs(t) = 0
      BY <3>1, CostsFold
    <3> QED
      BY <3>2
  <2> QED
    BY <2>1
<1>2. ASSUME NEW n \in G
      PROVE  n + 1 \in G
  <2>1. n \in Nat
    OBVIOUS
  <2>2. ASSUME NEW s \in SUBSET Usages, Cardinality(s) <= n + 1, NEW t \in SUBSET s
        PROVE  Costs(t) <= Costs(s)
    <3>1. t \in SUBSET Usages /\ Costs(t) \in Int /\ Costs(s) \in Int
      BY <2>2, CostsFold
    <3>2. CASE t = s
      BY <3>1, <3>2
    <3>3. CASE t # s
      <4>1. PICK x \in s : x \notin t
        BY <3>3
      <4>2. s \ {x} \in SUBSET Usages /\ t \in SUBSET (s \ {x}) /\ Cardinality(s \ {x}) <= n
        <5>1. Cardinality(s \ {x}) = Cardinality(s) - 1 /\ Cardinality(s) \in Nat
          BY <4>1, PickFacts
        <5> QED
          BY <2>1, <2>2, <4>1, <5>1
      <4>3. Costs(t) <= Costs(s \ {x})
        BY <4>2
      <4>4. Costs(s) = Cost[x] + Costs(s \ {x})
        BY CostsRemove
      <4>5. Cost[x] \in Nat /\ Costs(s \ {x}) \in Int
        BY <4>2, Constants, CostsFold
      <4> QED
        BY <3>1, <4>3, <4>4, <4>5
    <3> QED
      BY <3>2, <3>3
  <2> QED
    BY <2>1, <2>2
<1>3. Cardinality(ws) \in G
  <2>1. Cardinality(ws) \in Nat
    BY PickFacts
  <2> HIDE DEF G
  <2> QED
    BY <1>1, <1>2, <2>1, AllNaturals DEF G
<1>4. Cardinality(ws) \in Nat
  BY PickFacts
<1> QED
  BY <1>3, <1>4

-----------------------------------------------------------------------------
(* The inductive invariant. *)

ReqType == [pc: Handling \union {"new", "over"}, seen: Int, refs: 0..2, slot: BOOLEAN]

Charged == {u \in Usages : Claimed(<<"usage", u>>)}
Before  == {"new"} \union (Handling \ {"forward", "finish", "unslot"})

(* Money moves with the row that claims it. *)
MoneyInv ==
    /\ \A r \in Requests : moved[r] = IF Claimed(r) THEN 1 ELSE 0
    /\ balance = StartBalance - Costs(Charged)

(* What the cache is ahead of the balance will be taken off it. *)
CacheInv ==
    /\ \A u \in Usages : task[u] \in {"sync", "invalidate"} => u \in Charged
    /\ \A w \in writes : w.kind = "deduct" => w.amount >= 0
    /\ faults = 0 /\ ~raced /\ cache # Nil => cache <= balance + Unsynced

(* As long as nothing fails, the reservation of a request that is priced   *)
(* has one reference per holder, handler or task.                          *)
ReferenceOk(u, r, t, reserved) ==
    /\ r.pc \in Before => r.refs = 0 /\ t = "none"
    /\ r.pc = "forward" => t = "none"
    /\ Priced(u) =>
         /\ r.pc = "forward" => r.refs = 1 /\ reserved
         /\ r.pc = "finish" => r.refs = (IF t \in {"none", "done"} THEN 1 ELSE 2) /\ reserved
         /\ r.pc \in {"unslot", "over"} /\ t \notin {"none", "done"} => r.refs = 1 /\ reserved

ReservationInv ==
    /\ \A u \in Usages : req[u].pc \notin {"finish", "unslot", "over"} => req[u].refs <= 1
    /\ faults = 0 => \A u \in Usages : ReferenceOk(u, req[u], task[u], u \in inflight)

(* A slot that a request thinks it has is in the set. *)
SlotInv ==
    ~swept => Cardinality(slots) <= limit /\ \A u \in Usages : req[u].slot => u \in slots

GatewayInv == TypeOK /\ MoneyInv /\ CacheInv /\ ReservationInv /\ SlotInv

-----------------------------------------------------------------------------
(* Types. *)

LEMMA TypeFacts ==
    ASSUME TypeOK, NEW u \in Usages
    PROVE  /\ req[u] \in ReqType /\ req[u].pc \in Handling \union {"new", "over"} /\ req[u].refs \in 0..2
           /\ req[u].slot \in BOOLEAN /\ req[u].seen \in Int /\ task[u] \in TaskSteps
           /\ req \in [Usages -> ReqType] /\ task \in [Usages -> TaskSteps]
           /\ balance \in Int /\ frozen \in Nat /\ Cost[u] \in Nat /\ faults \in 0..MaxFaults /\ MaxFaults \in Nat
           /\ cache \in Int \union {Nil} /\ waiting \in 0..MaxWait /\ MaxWait \in Nat /\ limit \in Nat
           /\ slots \subseteq Usages /\ inflight \subseteq Usages /\ IsFiniteSet(slots)
           /\ Host[u] \in Instances
<1>1. req \in [Usages -> ReqType]
  BY DEF TypeOK, ReqType
<1>2. req[u] \in ReqType
  BY <1>1
<1>3. IsFiniteSet(slots)
  BY Constants, FS_Subset DEF TypeOK
<1>4. Host[u] \in Instances
  BY GatewayAssumption
<1> QED
  BY <1>1, <1>2, <1>3, <1>4, Constants, SlotAssumption DEF TypeOK, LedgerTypeOK, BalanceCacheTypeOK, ReqType

(* The estimates are the clients'. *)
LEMMA EstimatesKept ==
    ASSUME [Next]_vars
    PROVE  UNCHANGED estimate
<1>1. ASSUME NEW u \in Usages, TryAcquireUserSlot(u) \/ Handler(u)
      PROVE  UNCHANGED estimate
  BY <1>1 DEF TryAcquireUserSlot, Handler, JoinQueue, WaitForSlot, LeaveQueue, CheckBalanceEligibility, ReadBalance,
         ReserveInflight, Forward, HandlerDone, ReleaseUserSlot
<1>2. ASSUME NEW u \in Usages, BillingTask(u)
      PROVE  UNCHANGED estimate
  BY <1>2 DEF BillingTask, ApplyUsageBilling, SyncBalanceCache, InvalidateUserBalance, TaskEnd
<1>3. ASSUME NEW u \in Usages, ClientGone(u) \/ BillAgain(u) \/ ReservationExpires(u) \/ SlotExpires(u)
      PROVE  UNCHANGED estimate
  BY <1>3 DEF ClientGone, BillAgain, ReservationExpires, SlotExpires
<1>4. CASE (\E i \in Instances : RestartInstance(i)) \/ UNCHANGED vars
  BY <1>4 DEF RestartInstance, vars
<1>5. CASE CacheWorker \/ CacheExpires \/ WaitCountExpires \/ CleanupDedup
  BY <1>5 DEF CacheWorker, CacheExpires, WaitCountExpires, CleanupDedup
<1> QED
  BY <1>1, <1>2, <1>3, <1>4, <1>5 DEF Next

(* The parts of the type, as the actions change them. *)
LEMMA TypeParts ==
    ASSUME TypeOK, UNCHANGED estimate, LedgerTypeOK', BalanceCacheTypeOK', limit' \in Limits, slots' \subseteq Usages, waiting' \in 0..MaxWait,
           req' \in [Usages -> ReqType], task' \in [Usages -> TaskSteps], inflight' \subseteq Usages,
           faults' \in 0..MaxFaults, swept' \in BOOLEAN
    PROVE  TypeOK'
BY DEF TypeOK, ReqType

LEMMA LedgerKept ==
    ASSUME LedgerTypeOK, UNCHANGED ledger
    PROVE  LedgerTypeOK'
BY DEF LedgerTypeOK, ledger

LEMMA CacheKept ==
    ASSUME BalanceCacheTypeOK, UNCHANGED balances
    PROVE  BalanceCacheTypeOK'
BY DEF BalanceCacheTypeOK, balances

LEMMA FaultType ==
    ASSUME TypeOK, Fault \/ UNCHANGED faults
    PROVE  faults' \in 0..MaxFaults
BY Constants DEF TypeOK, Fault

(* A charge, or a row that is there already. *)
LEMMA ApplyType ==
    ASSUME LedgerTypeOK, NEW u \in Usages, Apply(u)
    PROVE  LedgerTypeOK'
<1>1. <<"usage", u>> \in Requests /\ Cost[u] \in Nat
  BY Constants DEF Requests
<1>2. CASE UNCHANGED ledger
  BY <1>2, LedgerKept
<1>3. CASE /\ dedup' = dedup \union {<<<<"usage", u>>, 0>>} /\ UNCHANGED archive
           /\ moved' = [moved EXCEPT ![<<"usage", u>>] = @ + 1]
           /\ balance' = balance - Cost[u] /\ UNCHANGED frozen
  <2>1. balance' \in Int /\ frozen' \in Nat
    BY <1>1, <1>3 DEF LedgerTypeOK
  <2>2. dedup' \subseteq Requests \X Nat /\ archive' \subseteq Requests \X Nat
    BY <1>1, <1>3 DEF LedgerTypeOK
  <2>3. moved' \in [Requests -> Nat]
    BY <1>1, <1>3 DEF LedgerTypeOK
  <2> QED
    BY <2>1, <2>2, <2>3 DEF LedgerTypeOK
<1> QED
  BY <1>2, <1>3 DEF Apply, Already, Claim, Moves

(* A process of a request moves on. *)
LEMMA GotoType ==
    ASSUME TypeOK, NEW u \in Usages, NEW l \in Handling \union {"over"}, Goto(u, l)
    PROVE  req' \in [Usages -> ReqType]
BY TypeFacts DEF Goto, ReqType

LEMMA QueueType ==
    ASSUME TypeOK, UNCHANGED estimate, NEW u \in Usages, TryAcquireUserSlot(u) \/ JoinQueue(u) \/ WaitForSlot(u) \/ LeaveQueue(u)
    PROVE  TypeOK'
<1>1. UNCHANGED <<ledger, balances, limit, task, inflight, swept>> /\ (Fault \/ UNCHANGED faults)
  BY DEF TryAcquireUserSlot, JoinQueue, WaitForSlot, LeaveQueue
<1>2. LedgerTypeOK' /\ BalanceCacheTypeOK' /\ faults' \in 0..MaxFaults
  BY <1>1, LedgerKept, CacheKept, FaultType DEF TypeOK
<1>3. slots' \subseteq Usages
  BY TypeFacts DEF TryAcquireUserSlot, JoinQueue, WaitForSlot, LeaveQueue, AcquireSlot
<1>4. waiting' \in 0..MaxWait
  BY TypeFacts DEF TryAcquireUserSlot, JoinQueue, WaitForSlot, LeaveQueue, IncrementWait, DecrementWait
<1>5. req' \in [Usages -> ReqType]
  <2>1. \A l \in {"queue", "over", "wait", "leave", "check"} : l \in Handling \union {"over"}
    BY DEF Handling
  <2>2. ASSUME NEW l \in {"check", "leave"}, req' = [req EXCEPT ![u].pc = l, ![u].slot = TRUE]
        PROVE  req' \in [Usages -> ReqType]
    BY <2>1, <2>2, TypeFacts DEF ReqType
  <2> QED
    BY <2>1, <2>2, GotoType DEF TryAcquireUserSlot, JoinQueue, WaitForSlot, LeaveQueue
<1> QED
  BY <1>1, <1>2, <1>3, <1>4, <1>5, TypeParts DEF TypeOK

LEMMA FillType ==
    ASSUME TypeOK, NEW u \in Usages, Fill(u)
    PROVE  BalanceCacheTypeOK' /\ GetUserBalance \in Int
<1>1. balance \in Int /\ cache \in Int \union {Nil} /\ raced \in BOOLEAN
  BY TypeFacts DEF TypeOK, BalanceCacheTypeOK
<1>2. \A w \in writes' : w.kind \in {"set", "deduct"} /\ w.by \in Usages /\ w.amount \in Int
  <2>1. Task("set", u, balance).kind = "set" /\ Task("set", u, balance).by = u /\ Task("set", u, balance).amount = balance
    BY DEF Task
  <2> QED
    BY <1>1, <2>1 DEF Fill, TypeOK, BalanceCacheTypeOK
<1> QED
  BY <1>1, <1>2 DEF Fill, BalanceCacheTypeOK, GetUserBalance

LEMMA RefsChange ==
    ASSUME NEW r \in ReqType, NEW l \in Handling \union {"new", "over"}, NEW n \in 0..2
    PROVE  [r EXCEPT !.pc = l, !.refs = n] \in ReqType
BY DEF ReqType

LEMMA ReqChange ==
    ASSUME NEW r \in ReqType, NEW l \in Handling \union {"new", "over"}, NEW n \in 0..2, NEW v \in Int
    PROVE  /\ [r EXCEPT !.pc = l, !.seen = v] \in ReqType
           /\ [r EXCEPT !.pc = l, !.refs = n, !.seen = v] \in ReqType
<1>2. [r EXCEPT !.pc = l, !.seen = v] \in ReqType
  BY DEF ReqType
<1>3. [[r EXCEPT !.pc = l, !.seen = v] EXCEPT !.refs = n] \in ReqType
  BY <1>2 DEF ReqType
<1>4. [r EXCEPT !.pc = l, !.refs = n, !.seen = v] = [[r EXCEPT !.pc = l, !.seen = v] EXCEPT !.refs = n]
  BY DEF ReqType
<1> QED
  BY <1>2, <1>3, <1>4

LEMMA AdmitType ==
    ASSUME TypeOK, UNCHANGED estimate, NEW u \in Usages, CheckBalanceEligibility(u) \/ ReadBalance(u) \/ ReserveInflight(u)
    PROVE  TypeOK'
<1>1. UNCHANGED <<ledger, redis, task, swept>> /\ (Fault \/ UNCHANGED faults) /\ (Fill(u) \/ UNCHANGED balances)
  BY DEF CheckBalanceEligibility, ReadBalance, ReserveInflight
<1>2. LedgerTypeOK' /\ BalanceCacheTypeOK' /\ faults' \in 0..MaxFaults
  BY <1>1, LedgerKept, CacheKept, FaultType, FillType DEF TypeOK
<1>3. inflight' \subseteq Usages
  BY TypeFacts DEF CheckBalanceEligibility, ReadBalance, ReserveInflight
<1>4. req' \in [Usages -> ReqType]
  <2>1. \A l \in {"read", "unslot", "reserve", "forward"} : l \in Handling \union {"over"}
    BY DEF Handling
  <2>2. CASE CheckBalanceEligibility(u)
    BY <2>1, <2>2, GotoType DEF CheckBalanceEligibility
  <2>3. CASE ReadBalance(u)
    <3>1. CASE req' = [req EXCEPT ![u].pc = "reserve", ![u].seen = GetUserBalance] /\ Fill(u)
      BY <2>1, <3>1, TypeFacts, FillType DEF ReqType
    <3> QED
      BY <2>1, <2>3, <3>1, GotoType DEF ReadBalance
  <2>4. CASE ReserveInflight(u)
    <3>1. req[u] \in ReqType /\ 0 \in Int /\ 1 \in 0..2
      BY TypeFacts
    <3>2. /\ [req[u] EXCEPT !.pc = "unslot", !.seen = 0] \in ReqType
          /\ [req[u] EXCEPT !.pc = "forward", !.seen = 0] \in ReqType
          /\ [req[u] EXCEPT !.pc = "forward", !.refs = 1, !.seen = 0] \in ReqType
      BY <2>1, <3>1, ReqChange
    <3>3. \E r \in ReqType : req' = [req EXCEPT ![u] = r]
      BY <2>4, <3>2 DEF ReserveInflight
    <3> QED
      BY <3>3, TypeFacts
  <2> QED
    BY <2>2, <2>3, <2>4
<1> QED
  BY <1>1, <1>2, <1>3, <1>4, TypeParts DEF TypeOK, redis

(* What one less leaves of the references. *)
LEMMA DroppedType ==
    ASSUME TypeOK, NEW u \in Usages
    PROVE  Dropped(req[u].refs) \in 0..2
BY TypeFacts DEF Dropped

LEMMA ServeType ==
    ASSUME TypeOK, UNCHANGED estimate, ReservationInv, NEW u \in Usages, Forward(u) \/ HandlerDone(u) \/ ReleaseUserSlot(u) \/ ClientGone(u)
    PROVE  TypeOK'
<1>1. UNCHANGED <<ledger, balances, limit, waiting, swept>> /\ (Fault \/ UNCHANGED faults)
  BY DEF Forward, HandlerDone, ReleaseUserSlot, ClientGone, redis, DecRef
<1>2. LedgerTypeOK' /\ BalanceCacheTypeOK' /\ faults' \in 0..MaxFaults
  BY <1>1, LedgerKept, CacheKept, FaultType DEF TypeOK
<1>3. inflight' \subseteq Usages /\ slots' \subseteq Usages
  BY TypeFacts DEF Forward, HandlerDone, ReleaseUserSlot, ClientGone, redis, DecRef, ReleaseSlot
<1>4. task' \in [Usages -> TaskSteps]
  BY TypeFacts DEF Forward, HandlerDone, ReleaseUserSlot, ClientGone, TaskSteps
<1>5. req' \in [Usages -> ReqType]
  <2>1. \A l \in {"finish", "unslot", "over"} : l \in Handling \union {"over"}
    BY DEF Handling
  <2>2. ASSUME At(u, "forward"), Acquire(u)
        PROVE  req' \in [Usages -> ReqType]
    <3>1. req[u].refs <= 1 /\ req[u].refs \in 0..2
      BY <2>2, TypeFacts DEF ReservationInv, At
    <3>2. PICK n \in 0..2 : n = IF req[u].refs > 0 THEN req[u].refs + 1 ELSE 0
      BY <3>1
    <3>3. [req[u] EXCEPT !.pc = "finish", !.refs = n] \in ReqType
      <4>1. req[u] \in ReqType /\ "finish" \in Handling \union {"new", "over"}
        BY <2>1, TypeFacts
      <4> QED
        BY <4>1, RefsChange
    <3>4. req' = [req EXCEPT ![u] = [req[u] EXCEPT !.pc = "finish", !.refs = n]]
      BY <2>2, <3>2, TypeFacts DEF Acquire
    <3> QED
      BY <3>3, <3>4, TypeFacts
  <2>3. CASE Forward(u)
    BY <2>1, <2>2, <2>3, GotoType DEF Forward
  <2>4. CASE HandlerDone(u)
    <3>1. PICK n \in 0..2 : n = Dropped(req[u].refs)
      BY DroppedType
    <3>2. [req[u] EXCEPT !.pc = "unslot", !.refs = n] \in ReqType
      <4>1. req[u] \in ReqType /\ "unslot" \in Handling \union {"new", "over"}
        BY <2>1, TypeFacts
      <4> QED
        BY <4>1, RefsChange
    <3>3. req' = [req EXCEPT ![u] = [req[u] EXCEPT !.pc = "unslot", !.refs = n]]
      BY <2>4, <3>1, TypeFacts DEF HandlerDone
    <3> QED
      BY <3>2, <3>3, TypeFacts
  <2>5. CASE ReleaseUserSlot(u)
    <3>1. req' = [req EXCEPT ![u] = [@ EXCEPT !.pc = "over", !.slot = FALSE]]
      BY <2>5 DEF ReleaseUserSlot
    <3> QED
      BY <2>1, <3>1, TypeFacts DEF ReqType
  <2>6. CASE ClientGone(u)
    <3>1. req' = [req EXCEPT ![u].slot = FALSE]
      BY <2>6 DEF ClientGone
    <3> QED
      BY <3>1, TypeFacts DEF ReqType
  <2> QED
    BY <2>3, <2>4, <2>5, <2>6
<1> QED
  BY <1>1, <1>2, <1>3, <1>4, <1>5, TypeParts DEF TypeOK

LEMMA TaskType ==
    ASSUME TypeOK, UNCHANGED estimate, NEW u \in Usages, BillingTask(u) \/ BillAgain(u)
    PROVE  TypeOK'
<1>1. UNCHANGED <<redis, swept>> /\ (Fault \/ UNCHANGED faults) /\ (Apply(u) \/ UNCHANGED ledger)
  BY DEF BillingTask, ApplyUsageBilling, SyncBalanceCache, InvalidateUserBalance, TaskEnd, BillAgain, DecRef
<1>2. LedgerTypeOK' /\ faults' \in 0..MaxFaults
  BY <1>1, LedgerKept, FaultType, ApplyType DEF TypeOK
<1>3. BalanceCacheTypeOK'
  <2>1. CASE UNCHANGED balances
    BY <2>1, CacheKept DEF TypeOK
  <2>2. CASE UNCHANGED raced /\ cache' \in Int \union {Nil} /\ writes' \subseteq writes \union {Task("deduct", u, Cost[u])}
    <3>1. /\ Task("deduct", u, Cost[u]).kind = "deduct" /\ Task("deduct", u, Cost[u]).by = u
          /\ Task("deduct", u, Cost[u]).amount = Cost[u] /\ Cost[u] \in Int
      BY Constants DEF Task
    <3> QED
      BY <2>2, <3>1 DEF TypeOK, BalanceCacheTypeOK
  <2>3. Deducted(Cost[u]) \in Int \union {Nil}
    BY TypeFacts DEF Deducted
  <2> QED
    BY <2>1, <2>2, <2>3, TypeFacts
       DEF BillingTask, ApplyUsageBilling, SyncBalanceCache, InvalidateUserBalance, TaskEnd, BillAgain, balances
<1>4. inflight' \subseteq Usages
  BY TypeFacts DEF BillingTask, ApplyUsageBilling, SyncBalanceCache, InvalidateUserBalance, TaskEnd, BillAgain, DecRef
<1>5. task' \in [Usages -> TaskSteps]
  <2>1. \E l \in TaskSteps : Step(u, l)
    BY DEF BillingTask, ApplyUsageBilling, SyncBalanceCache, InvalidateUserBalance, TaskEnd, BillAgain, TaskSteps
  <2> QED
    BY <2>1, TypeFacts DEF Step
<1>6. req' \in [Usages -> ReqType]
  <2>1. CASE UNCHANGED req
    BY <2>1, TypeFacts
  <2>2. CASE TaskEnd(u)
    <3>1. PICK n \in 0..2 : n = Dropped(req[u].refs)
      BY DroppedType
    <3>2. req' = [req EXCEPT ![u].refs = n]
      BY <2>2, <3>1 DEF TaskEnd
    <3> QED
      BY <3>1, <3>2, TypeFacts DEF ReqType
  <2> QED
    BY <2>1, <2>2 DEF BillingTask, ApplyUsageBilling, SyncBalanceCache, InvalidateUserBalance, BillAgain
<1> QED
  BY <1>1, <1>2, <1>3, <1>4, <1>5, <1>6, TypeParts DEF TypeOK, redis

LEMMA SurroundType ==
    ASSUME TypeOK, UNCHANGED estimate, \/ \E u \in Usages : ReservationExpires(u) \/ SlotExpires(u)
                   \/ CacheWorker \/ CacheExpires \/ WaitCountExpires \/ CleanupDedup
    PROVE  TypeOK'
<1>1. UNCHANGED <<limit, req, task>> /\ (Fault \/ UNCHANGED faults)
  BY DEF ReservationExpires, SlotExpires, CacheWorker, CacheExpires, WaitCountExpires, CleanupDedup, redis
<1>2. faults' \in 0..MaxFaults /\ req' \in [Usages -> ReqType] /\ task' \in [Usages -> TaskSteps]
  <2>1. req \in [Usages -> ReqType] /\ task \in [Usages -> TaskSteps]
    BY DEF TypeOK, ReqType
  <2> QED
    BY <1>1, <2>1, FaultType
<1>3. LedgerTypeOK'
  <2>1. CASE UNCHANGED ledger
    BY <2>1, LedgerKept DEF TypeOK
  <2>2. CASE CleanupDedup
    BY <2>2 DEF CleanupDedup, Cleanup, TypeOK, LedgerTypeOK
  <2> QED
    BY <2>1, <2>2 DEF ReservationExpires, SlotExpires, CacheWorker, CacheExpires, WaitCountExpires
<1>4. BalanceCacheTypeOK'
  <2>1. CASE UNCHANGED balances
    BY <2>1, CacheKept DEF TypeOK
  <2>2. CASE CacheExpires
    BY <2>2 DEF CacheExpires, TypeOK, BalanceCacheTypeOK
  <2>3. ASSUME NEW w \in writes, CacheWrite(w, Unsynced)
        PROVE  BalanceCacheTypeOK'
    <3>1. w.amount \in Int /\ cache \in Int \union {Nil} /\ raced \in BOOLEAN
      BY DEF TypeOK, BalanceCacheTypeOK
    <3>2. cache' \in Int \union {Nil}
      BY <2>3, <3>1 DEF CacheWrite, Deducted
    <3>3. raced' \in BOOLEAN
      BY <2>3, <3>1, Zenon DEF CacheWrite
    <3>4. writes' \subseteq writes
      BY <2>3 DEF CacheWrite
    <3> QED
      BY <3>2, <3>3, <3>4 DEF TypeOK, BalanceCacheTypeOK
  <2> QED
    BY <2>1, <2>2, <2>3 DEF ReservationExpires, SlotExpires, CacheWorker, WaitCountExpires, CleanupDedup
<1>5. inflight' \subseteq Usages /\ slots' \subseteq Usages /\ waiting' \in 0..MaxWait /\ swept' \in BOOLEAN
  <2>1. inflight \subseteq Usages /\ slots \subseteq Usages /\ waiting \in 0..MaxWait /\ swept \in BOOLEAN /\ MaxWait \in Nat
    BY Constants DEF TypeOK
  <2>2. CASE \E u \in Usages : SlotExpires(u)
    <3>1. UNCHANGED <<inflight, waiting>> /\ slots' \subseteq slots /\ (swept' = TRUE \/ UNCHANGED swept)
      BY <2>2 DEF SlotExpires, ReleaseSlot
    <3> QED
      BY <2>1, <3>1
  <2>3. CASE ~\E u \in Usages : SlotExpires(u)
    <3>1. UNCHANGED <<slots, swept>> /\ inflight' \subseteq inflight /\ (waiting' = 0 \/ UNCHANGED waiting)
      BY <2>3 DEF ReservationExpires, CacheWorker, CacheExpires, WaitCountExpires, CleanupDedup, redis
    <3> QED
      BY <2>1, <3>1
  <2> QED
    BY <2>2, <2>3
<1> QED
  BY <1>1, <1>2, <1>3, <1>4, <1>5, TypeParts DEF TypeOK

LEMMA FreshType == Fresh \in ReqType /\ [Fresh EXCEPT !.pc = "over"] \in ReqType
<1>1. ASSUME NEW l \in Handling \union {"new", "over"}, NEW v \in Int, NEW n \in 0..2, NEW b \in BOOLEAN
      PROVE  [pc |-> l, seen |-> v, refs |-> n, slot |-> b] \in ReqType
  BY DEF ReqType
<1>2. ASSUME NEW r \in ReqType, NEW l \in Handling \union {"new", "over"}
      PROVE  [r EXCEPT !.pc = l] \in ReqType
  BY DEF ReqType
<1>3. Fresh \in ReqType
  <2>1. 0 \in Int /\ 0 \in 0..2 /\ FALSE \in BOOLEAN /\ "new" \in Handling \union {"new", "over"}
    OBVIOUS
  <2>2. [pc |-> "new", seen |-> 0, refs |-> 0, slot |-> FALSE] \in ReqType
    BY <1>1, <2>1, Zenon
  <2> QED
    BY <2>2 DEF Fresh
<1> QED
  BY <1>2, <1>3

LEMMA RestartType ==
    ASSUME TypeOK, UNCHANGED estimate, NEW i \in Instances, RestartInstance(i)
    PROVE  TypeOK'
<1>1. UNCHANGED <<ledger, cache, raced, limit, inflight>> /\ Fault
  BY DEF RestartInstance
<1>2. PICK lost \in SUBSET Usages :
        /\ lost = {u \in Usages : Host[u] = i /\ (req[u].pc \in Handling \/ Billing(u))}
        /\ req' = [u \in Usages |-> IF u \in lost THEN [Fresh EXCEPT !.pc = "over"] ELSE req[u]]
        /\ task' = [u \in Usages |-> IF u \in lost THEN "done" ELSE task[u]]
  BY DEF RestartInstance
<1>3. [Fresh EXCEPT !.pc = "over"] \in ReqType
  BY FreshType
<1>4. req' \in [Usages -> ReqType] /\ task' \in [Usages -> TaskSteps]
  <2>1. req \in [Usages -> ReqType] /\ task \in [Usages -> TaskSteps]
    BY DEF TypeOK, ReqType
  <2> QED
    BY <1>2, <1>3, <2>1 DEF TaskSteps
<1>5. LedgerTypeOK' /\ faults' \in 0..MaxFaults
  BY <1>1, LedgerKept, FaultType DEF TypeOK
<1>6. BalanceCacheTypeOK'
  BY <1>1 DEF RestartInstance, TypeOK, BalanceCacheTypeOK
<1>7. slots' \subseteq Usages /\ waiting' \in 0..MaxWait
  BY Constants DEF RestartInstance, CleanupStaleProcessSlots, TypeOK
<1>8. swept' \in BOOLEAN
  <2>1. swept' = (swept \/ \E u \in Usages : req'[u].slot /\ u \notin slots') /\ swept \in BOOLEAN
    BY DEF RestartInstance, TypeOK
  <2> QED
    <3> DEFINE X == \E u \in Usages : req'[u].slot /\ u \notin slots'
    <3>1. swept' = (swept \/ X)
      BY <2>1
    <3> HIDE DEF X
    <3> QED
      BY <2>1, <3>1, Zenon
<1> QED
  BY <1>1, <1>4, <1>5, <1>6, <1>7, <1>8, TypeParts DEF TypeOK

LEMMA TypeStep ==
    ASSUME TypeOK, ReservationInv, [Next]_vars
    PROVE  TypeOK'
<1>0. UNCHANGED estimate
  BY EstimatesKept
<1>1. CASE UNCHANGED vars
  BY <1>1, LedgerKept, CacheKept DEF vars, TypeOK, redis
<1>2. CASE Next
  BY <1>0, <1>2, QueueType, AdmitType, ServeType, TaskType, SurroundType, RestartType DEF Next, Handler
<1> QED
  BY <1>1, <1>2

-----------------------------------------------------------------------------
(* Money. *)

(* A charge claims its request, and nothing else. *)
LEMMA ApplyFacts ==
    ASSUME TypeOK, NEW u \in Usages, Apply(u)
    PROVE  \/ UNCHANGED ledger /\ u \in Charged
           \/ /\ u \notin Charged /\ Charged' = Charged \union {u} /\ balance' = balance - Cost[u]
              /\ moved' = [moved EXCEPT ![<<"usage", u>>] = @ + 1] /\ moved' # moved
              /\ \A r \in Requests : Claimed(r)' <=> (Claimed(r) \/ r = <<"usage", u>>)
<1>1. CASE Already(<<"usage", u>>)
  BY <1>1 DEF Already, Charged
<1>2. CASE /\ ~Claimed(<<"usage", u>>) /\ Claim(<<"usage", u>>, 0) /\ Moves(<<"usage", u>>)
           /\ balance' = balance - Cost[u] /\ UNCHANGED frozen
  <2>1. Rows' = Rows \union {<<<<"usage", u>>, 0>>}
    BY <1>2 DEF Claim, Rows
  <2>2. \A r : Claimed(r)' <=> (Claimed(r) \/ r = <<"usage", u>>)
    <3>1. PICK e : e = <<<<"usage", u>>, 0>> /\ e[1] = <<"usage", u>> /\ Rows' = Rows \union {e}
      BY <2>1
    <3> QED
      BY <3>1, Zenon DEF Claimed
  <2>3. u \notin Charged /\ Charged' = Charged \union {u}
    BY <1>2, <2>2 DEF Charged
  <2>4. /\ <<"usage", u>> \in Requests /\ moved \in [Requests -> Nat]
        /\ moved' = [moved EXCEPT ![<<"usage", u>>] = @ + 1]
    BY <1>2 DEF Moves, Requests, TypeOK, LedgerTypeOK
  <2>5. moved'[<<"usage", u>>] = moved[<<"usage", u>>] + 1 /\ moved[<<"usage", u>>] \in Nat
    BY <2>4
  <2>6. moved' # moved
    BY <2>5
  <2> QED
    BY <1>2, <2>2, <2>3, <2>4, <2>6
<1> QED
  BY <1>1, <1>2 DEF Apply

(* Old rows are archived: what is claimed stays claimed. *)
LEMMA CleanupFacts ==
    ASSUME Cleanup \/ UNCHANGED ledger
    PROVE  UNCHANGED <<balance, moved, Charged>> /\ \A r : Claimed(r)' <=> Claimed(r)
<1>1. UNCHANGED <<balance, moved>> /\ Rows' = Rows
  BY DEF Cleanup, Rows, ledger
<1>2. \A r : Claimed(r)' <=> Claimed(r)
  BY <1>1 DEF Claimed
<1> QED
  BY <1>1, <1>2 DEF Charged

LEMMA LedgerSteps ==
    ASSUME [Next]_vars
    PROVE  UNCHANGED ledger \/ Cleanup \/ \E u \in Usages : Apply(u) /\ ApplyUsageBilling(u)
<1>1. ASSUME NEW u \in Usages, TryAcquireUserSlot(u) \/ Handler(u) \/ BillingTask(u)
      PROVE  UNCHANGED ledger \/ (Apply(u) /\ ApplyUsageBilling(u))
  BY <1>1 DEF TryAcquireUserSlot, Handler, JoinQueue, WaitForSlot, LeaveQueue, CheckBalanceEligibility, ReadBalance,
              ReserveInflight, Forward, HandlerDone, ReleaseUserSlot, BillingTask, ApplyUsageBilling, SyncBalanceCache,
              InvalidateUserBalance, TaskEnd
<1>2. ASSUME NEW u \in Usages, ClientGone(u) \/ BillAgain(u) \/ ReservationExpires(u) \/ SlotExpires(u)
      PROVE  UNCHANGED ledger
  BY <1>2 DEF ClientGone, BillAgain, ReservationExpires, SlotExpires
<1>3. ASSUME NEW i \in Instances, RestartInstance(i)
      PROVE  UNCHANGED ledger
  BY <1>3 DEF RestartInstance
<1>4. CacheWorker \/ CacheExpires \/ WaitCountExpires \/ UNCHANGED vars => UNCHANGED ledger
  BY DEF CacheWorker, CacheExpires, WaitCountExpires, vars
<1> QED
  BY <1>1, <1>2, <1>3, <1>4 DEF Next, CleanupDedup

LEMMA MoneyStep ==
    ASSUME TypeOK, MoneyInv, [Next]_vars
    PROVE  MoneyInv'
<1>1. CASE Cleanup \/ UNCHANGED ledger
  <2>1. UNCHANGED <<balance, moved, Charged>> /\ \A r : Claimed(r)' <=> Claimed(r)
    BY <1>1, CleanupFacts
  <2>2. Costs(Charged)' = Costs(Charged)
    BY <2>1
  <2> QED
    BY <2>1, <2>2 DEF MoneyInv
<1>2. ASSUME NEW u \in Usages, Apply(u), ~UNCHANGED ledger
      PROVE  MoneyInv'
  <2>1. /\ u \notin Charged /\ Charged' = Charged \union {u} /\ balance' = balance - Cost[u]
        /\ moved' = [moved EXCEPT ![<<"usage", u>>] = @ + 1]
        /\ \A r \in Requests : Claimed(r)' <=> (Claimed(r) \/ r = <<"usage", u>>)
    BY <1>2, ApplyFacts
  <2>2. <<"usage", u>> \in Requests /\ moved \in [Requests -> Nat] /\ ~Claimed(<<"usage", u>>)
    BY <2>1 DEF Requests, TypeOK, LedgerTypeOK, Charged
  <2>3. \A r \in Requests : moved'[r] = IF Claimed(r)' THEN 1 ELSE 0
    <3> TAKE r \in Requests
    <3>1. moved[r] = IF Claimed(r) THEN 1 ELSE 0
      BY DEF MoneyInv
    <3>2. CASE r = <<"usage", u>>
      BY <2>1, <2>2, <3>1, <3>2
    <3>3. CASE r # <<"usage", u>>
      BY <2>1, <2>2, <3>1, <3>3
    <3> QED
      BY <3>2, <3>3
  <2>4. Charged \in SUBSET Usages
    BY DEF Charged
  <2>5. Costs(Charged \union {u}) = Costs(Charged) + Cost[u] /\ Costs(Charged) \in Int
    BY <2>1, <2>4, CostsAdd, CostsFold
  <2>6. balance' = StartBalance - Costs(Charged)'
    <3>1. Costs(Charged)' = Costs(Charged) + Cost[u]
      BY <2>1, <2>5
    <3>2. balance = StartBalance - Costs(Charged) /\ StartBalance \in Int /\ Cost[u] \in Int
      BY Constants DEF MoneyInv
    <3> QED
      BY <2>1, <2>5, <3>1, <3>2
  <2> QED
    BY <2>3, <2>6 DEF MoneyInv
<1> QED
  BY <1>1, <1>2, LedgerSteps

-----------------------------------------------------------------------------
(* Slots. *)

(* A slot is taken when there is room, or given back. *)
LEMMA SlotMoves ==
    ASSUME TypeOK, SlotInv, limit' = limit, swept => swept',
           \/ slots' = slots
           \/ \E u \in Usages : AcquireSlot(u) \/ (ReleaseSlot(u) /\ (~swept' => ~req'[u].slot))
           \/ slots' = {},
           ~swept' => \A v \in Usages : req'[v].slot => (req[v].slot /\ slots' # {}) \/ v \in slots'
    PROVE  SlotInv'
<1> SUFFICES ASSUME ~swept'
             PROVE  Cardinality(slots') <= limit' /\ \A v \in Usages : req'[v].slot => v \in slots'
  BY DEF SlotInv
<1>1. IsFiniteSet(slots) /\ Cardinality(slots) \in Nat /\ limit \in Nat /\ Cardinality(slots) <= limit
      /\ \A v \in Usages : req[v].slot => v \in slots
  <2>1. IsFiniteSet(slots) /\ limit \in Nat
    BY Constants, SlotAssumption, FS_Subset DEF TypeOK
  <2> QED
    BY <2>1, FS_CardinalityType DEF SlotInv
<1>2. CASE slots' = slots
  BY <1>1, <1>2
<1>3. ASSUME NEW u \in Usages, AcquireSlot(u)
      PROVE  Cardinality(slots') <= limit' /\ \A v \in Usages : req'[v].slot => v \in slots'
  <2>1. Cardinality(slots') <= Cardinality(slots) + 1 /\ Cardinality(slots) < limit
    <3>1. slots' = slots \union {u} /\ Cardinality(slots) < limit
      BY <1>3 DEF AcquireSlot, SlotFree
    <3>2. Cardinality(slots \union {u}) = IF u \in slots THEN Cardinality(slots) ELSE Cardinality(slots) + 1
      BY <1>1, FS_AddElement
    <3> QED
      BY <1>1, <3>1, <3>2
  <2>2. Cardinality(slots') \in Nat
    BY <1>1, <1>3, FS_AddElement, FS_CardinalityType DEF AcquireSlot
  <2> QED
    BY <1>1, <1>3, <2>1, <2>2 DEF AcquireSlot
<1>4. ASSUME NEW u \in Usages, ReleaseSlot(u), ~req'[u].slot
      PROVE  Cardinality(slots') <= limit' /\ \A v \in Usages : req'[v].slot => v \in slots'
  <2>1. slots' = slots \ {u} /\ slots' \in SUBSET slots
    BY <1>4 DEF ReleaseSlot
  <2>2. IsFiniteSet(slots') /\ Cardinality(slots') <= Cardinality(slots)
    BY <1>1, <2>1, FS_Subset
  <2>3. Cardinality(slots') \in Nat
    BY <2>2, FS_CardinalityType
  <2> QED
    BY <1>1, <1>4, <2>1, <2>2, <2>3
<1>5. CASE slots' = {}
  BY <1>1, <1>5, FS_EmptySet
<1> QED
  BY <1>2, <1>3, <1>4, <1>5

(* The record of a request after the steps that set several of its parts.  *)
LEMMA GotoReq ==
    ASSUME TypeOK, NEW u \in Usages, NEW l \in Handling \union {"over"}, Goto(u, l)
    PROVE  \E r \in ReqType : req' = [req EXCEPT ![u] = r] /\ r.pc = l /\ r.refs = req[u].refs /\ r.slot = req[u].slot
<1>1. req[u] \in ReqType /\ req \in [Usages -> ReqType]
  BY TypeFacts
<1>2. PICK r \in ReqType : r = [req[u] EXCEPT !.pc = l]
  BY <1>1 DEF ReqType
<1>3. r.pc = l /\ r.refs = req[u].refs /\ r.slot = req[u].slot
  BY <1>1, <1>2 DEF ReqType
<1>4. req' = [req EXCEPT ![u] = r]
  BY <1>2 DEF Goto
<1> QED
  BY <1>3, <1>4

LEMMA AdmitReq ==
    ASSUME TypeOK, NEW u \in Usages, CheckBalanceEligibility(u) \/ ReadBalance(u)
    PROVE  \E r \in ReqType :
             /\ req' = [req EXCEPT ![u] = r] /\ r.slot = req[u].slot /\ r.refs = req[u].refs
             /\ r.pc \in {"read", "reserve", "unslot"} \/ (r.pc = "forward" /\ (Fault \/ ~Priced(u)))
<1>1. req[u] \in ReqType /\ req \in [Usages -> ReqType]
  BY TypeFacts
<1>2. CASE req' = [req EXCEPT ![u].pc = "reserve", ![u].seen = GetUserBalance] /\ Fill(u)
  <2>1. GetUserBalance \in Int /\ "reserve" \in Handling \union {"new", "over"}
    BY <1>2, FillType DEF Handling
  <2>2. PICK v \in Int : v = GetUserBalance
    BY <2>1
  <2>3. PICK r \in ReqType : r = [req[u] EXCEPT !.pc = "reserve", !.seen = v]
    BY <1>1, <2>1 DEF ReqType
  <2>4. r.pc = "reserve" /\ r.refs = req[u].refs /\ r.slot = req[u].slot
    BY <1>1, <2>3 DEF ReqType
  <2>5. req' = [req EXCEPT ![u] = r]
    BY <1>1, <1>2, <2>2, <2>3
  <2> QED
    BY <2>4, <2>5
<1>3. \A l \in {"read", "unslot", "forward"} : l \in Handling \union {"over"}
  BY DEF Handling
<1>4. CASE Goto(u, "read") \/ Goto(u, "unslot")
  BY <1>3, <1>4, GotoReq
<1>5. CASE Goto(u, "forward") /\ (Fault \/ ~Priced(u))
  BY <1>3, <1>5, GotoReq
<1> QED
  BY <1>2, <1>4, <1>5 DEF CheckBalanceEligibility, ReadBalance

LEMMA ReserveReq ==
    ASSUME TypeOK, NEW u \in Usages, ReserveInflight(u)
    PROVE  \E r \in ReqType :
             /\ req' = [req EXCEPT ![u] = r] /\ r.slot = req[u].slot
             /\ \/ r.pc = "forward" /\ r.refs = 1 /\ inflight' = inflight \union {u} /\ UNCHANGED faults
                \/ r.pc = "unslot" /\ r.refs = req[u].refs /\ UNCHANGED <<inflight, faults>>
                \/ r.pc = "forward" /\ r.refs = req[u].refs /\ Fault
<1>1. req[u] \in ReqType /\ req \in [Usages -> ReqType] /\ 0 \in Int /\ 1 \in 0..2
  BY TypeFacts
<1>2. "forward" \in Handling \union {"new", "over"} /\ "unslot" \in Handling \union {"new", "over"}
  BY DEF Handling
<1>3. PICK r \in ReqType : r = [req[u] EXCEPT !.pc = "forward", !.refs = 1, !.seen = 0]
  BY <1>1, <1>2, ReqChange
<1>4. r.pc = "forward" /\ r.refs = 1 /\ r.slot = req[u].slot
  BY <1>1, <1>3 DEF ReqType
<1>5. PICK s \in ReqType : s = [req[u] EXCEPT !.pc = "unslot", !.seen = 0]
  BY <1>1, <1>2, ReqChange
<1>6. s.pc = "unslot" /\ s.refs = req[u].refs /\ s.slot = req[u].slot
  BY <1>1, <1>5 DEF ReqType
<1>7. PICK t \in ReqType : t = [req[u] EXCEPT !.pc = "forward", !.seen = 0]
  BY <1>1, <1>2, ReqChange
<1>8. t.pc = "forward" /\ t.refs = req[u].refs /\ t.slot = req[u].slot
  BY <1>1, <1>7 DEF ReqType
<1> QED
  BY <1>3, <1>4, <1>5, <1>6, <1>7, <1>8 DEF ReserveInflight

LEMMA EndReq ==
    ASSUME TypeOK, NEW u \in Usages, ReleaseUserSlot(u) \/ ClientGone(u)
    PROVE  \E r \in ReqType :
             /\ req' = [req EXCEPT ![u] = r] /\ ~r.slot /\ r.refs = req[u].refs
             /\ r.pc = req[u].pc \/ (r.pc = "over" /\ req[u].pc = "unslot")
<1>1. req[u] \in ReqType /\ req \in [Usages -> ReqType]
  BY TypeFacts
<1>2. PICK r \in ReqType : r = [req[u] EXCEPT !.pc = "over", !.slot = FALSE]
  BY <1>1 DEF ReqType
<1>3. r.pc = "over" /\ ~r.slot /\ r.refs = req[u].refs
  BY <1>1, <1>2 DEF ReqType
<1>4. PICK s \in ReqType : s = [req[u] EXCEPT !.slot = FALSE]
  BY <1>1 DEF ReqType
<1>5. s.pc = req[u].pc /\ ~s.slot /\ s.refs = req[u].refs
  BY <1>1, <1>4 DEF ReqType
<1>6. CASE ReleaseUserSlot(u)
  BY <1>2, <1>3, <1>6 DEF ReleaseUserSlot, At
<1>7. CASE ClientGone(u)
  <2>1. req' = [req EXCEPT ![u] = s]
    BY <1>1, <1>4, <1>7 DEF ClientGone
  <2> QED
    BY <1>5, <2>1
<1> QED
  BY <1>6, <1>7

(* What a handler's steps do to its slot. *)
LEMMA SlotSteps ==
    ASSUME TypeOK, NEW u \in Usages, TryAcquireUserSlot(u) \/ Handler(u) \/ BillingTask(u) \/ BillAgain(u)
                                     \/ ReservationExpires(u) \/ ClientGone(u)
    PROVE  /\ UNCHANGED <<limit, swept>>
           /\ \A v \in Usages \ {u} : req'[v].slot = req[v].slot
           /\ \/ slots' = slots /\ (req'[u].slot => req[u].slot)
              \/ AcquireSlot(u)
              \/ ReleaseSlot(u) /\ ~req'[u].slot
<1>1. req \in [Usages -> ReqType] /\ req[u] \in ReqType
  BY TypeFacts
<1>2. CASE TryAcquireUserSlot(u)
  BY <1>1, <1>2 DEF TryAcquireUserSlot, Goto, ReqType, balances
<1>3. CASE JoinQueue(u) \/ WaitForSlot(u) \/ LeaveQueue(u)
  BY <1>1, <1>3 DEF JoinQueue, WaitForSlot, LeaveQueue, Goto, ReqType
<1>4. CASE CheckBalanceEligibility(u) \/ ReadBalance(u) \/ ReserveInflight(u)
  <2>1. UNCHANGED <<limit, slots, swept>>
    BY <1>4 DEF CheckBalanceEligibility, ReadBalance, ReserveInflight, redis
  <2>2. \E r \in ReqType : req' = [req EXCEPT ![u] = r] /\ r.slot = req[u].slot
    BY <1>4, AdmitReq, ReserveReq
  <2> QED
    BY <1>1, <2>1, <2>2
<1>5. CASE Forward(u) \/ HandlerDone(u)
  BY <1>1, <1>5 DEF Forward, HandlerDone, Acquire, Goto, ReqType, redis
<1>6. CASE ReleaseUserSlot(u) \/ ClientGone(u)
  <2>1. UNCHANGED <<limit, swept>> /\ (ReleaseSlot(u) \/ slots' = slots)
    BY <1>6 DEF ReleaseUserSlot, ClientGone, ReleaseSlot
  <2>2. \E r \in ReqType : req' = [req EXCEPT ![u] = r] /\ ~r.slot
    BY <1>6, EndReq
  <2> QED
    BY <1>1, <2>1, <2>2
<1>7. CASE BillingTask(u) \/ BillAgain(u) \/ ReservationExpires(u)
  BY <1>1, <1>7 DEF BillingTask, ApplyUsageBilling, SyncBalanceCache, InvalidateUserBalance, TaskEnd, BillAgain,
                    ReservationExpires, ReqType, redis
<1> QED
  BY <1>2, <1>3, <1>4, <1>5, <1>6, <1>7 DEF Handler

LEMMA SlotStep ==
    ASSUME TypeOK, SlotInv, [Next]_vars
    PROVE  SlotInv'
<1>1. ASSUME NEW u \in Usages, TryAcquireUserSlot(u) \/ Handler(u) \/ BillingTask(u) \/ BillAgain(u)
                               \/ ReservationExpires(u) \/ ClientGone(u)
      PROVE  SlotInv'
  <2>1. /\ UNCHANGED <<limit, swept>>
        /\ \A v \in Usages \ {u} : req'[v].slot = req[v].slot
        /\ \/ slots' = slots /\ (req'[u].slot => req[u].slot)
           \/ AcquireSlot(u)
           \/ ReleaseSlot(u) /\ ~req'[u].slot
    BY <1>1, SlotSteps
  <2>2. ~swept' => \A v \in Usages : req'[v].slot => v \in slots'
    BY <2>1 DEF SlotInv, AcquireSlot, ReleaseSlot
  <2> QED
    BY <2>1, <2>2, SlotMoves
<1>2. ASSUME NEW u \in Usages, SlotExpires(u)
      PROVE  SlotInv'
  <2>1. ReleaseSlot(u) /\ UNCHANGED <<limit, req>> /\ swept' = (IF req[u].slot THEN TRUE ELSE swept)
    BY <1>2 DEF SlotExpires
  <2>2. (swept => swept') /\ (~swept' => ~req'[u].slot)
    BY <2>1
  <2>3. ~swept' => \A v \in Usages : req'[v].slot => v \in slots'
    BY <2>1, <2>2 DEF SlotInv, ReleaseSlot
  <2> QED
    BY <2>1, <2>2, <2>3, SlotMoves
<1>3. ASSUME NEW i \in Instances, RestartInstance(i)
      PROVE  SlotInv'
  <2>1. /\ limit' = limit /\ (slots' = slots \/ slots' = {})
        /\ swept' = (swept \/ \E u \in Usages : req'[u].slot /\ u \notin slots')
    BY <1>3 DEF RestartInstance, CleanupStaleProcessSlots
  <2>2. (swept => swept') /\ (~swept' => \A v \in Usages : req'[v].slot => v \in slots')
    BY <2>1
  <2> QED
    BY <2>1, <2>2, SlotMoves
<1>4. CASE CacheWorker \/ CacheExpires \/ WaitCountExpires \/ CleanupDedup \/ UNCHANGED vars
  <2>1. UNCHANGED <<limit, slots, req, swept>>
    BY <1>4 DEF CacheWorker, CacheExpires, WaitCountExpires, CleanupDedup, vars, redis
  <2> QED
    BY <2>1 DEF SlotInv
<1> QED
  BY <1>1, <1>2, <1>3, <1>4 DEF Next

-----------------------------------------------------------------------------
(* Reservations. *)

LEMMA FaultFacts ==
    ASSUME TypeOK
    PROVE  /\ Fault => faults' # 0
           /\ UNCHANGED faults => (faults' = 0 <=> faults = 0)
BY DEF Fault, TypeOK

(* A step of u, after which its record is r. *)
LEMMA ReservationAssemble ==
    ASSUME TypeOK, UNCHANGED estimate, ReservationInv, NEW u \in Usages, NEW r \in ReqType, req' = [req EXCEPT ![u] = r],
           \A v \in Usages \ {u} : task'[v] = task[v] /\ (v \in inflight' <=> v \in inflight),
           Fault \/ UNCHANGED faults,
           r.pc \notin {"finish", "unslot", "over"} => r.refs <= 1,
           faults' = 0 /\ faults = 0 => ReferenceOk(u, r, task'[u], u \in inflight')
    PROVE  ReservationInv'
<1>1. req'[u] = r /\ \A v \in Usages \ {u} : req'[v] = req[v]
  BY TypeFacts
<1>2. faults' = 0 => faults = 0
  BY FaultFacts
<1>3. \A v \in Usages : req'[v].pc \notin {"finish", "unslot", "over"} => req'[v].refs <= 1
  BY <1>1 DEF ReservationInv
<1>4. ASSUME faults' = 0, NEW v \in Usages
      PROVE  ReferenceOk(v, req'[v], task'[v], v \in inflight')
  BY <1>1, <1>2, <1>4 DEF ReservationInv, ReferenceOk
<1>5. (\A v \in Usages : ReferenceOk(v, req[v], task[v], v \in inflight))'
        <=> \A v \in Usages : ReferenceOk(v, req'[v], task'[v], v \in inflight')
  BY DEF ReferenceOk, Priced
<1> QED
  BY <1>3, <1>4, <1>5 DEF ReservationInv

LEMMA QueueReq ==
    ASSUME TypeOK, NEW u \in Usages, TryAcquireUserSlot(u) \/ JoinQueue(u) \/ WaitForSlot(u) \/ LeaveQueue(u)
    PROVE  \E r \in ReqType : req' = [req EXCEPT ![u] = r] /\ r.pc \in Before \union {"over"} /\ r.refs = req[u].refs
<1>1. req[u] \in ReqType /\ req \in [Usages -> ReqType]
  BY TypeFacts
<1>2. \A l \in {"queue", "over", "wait", "leave", "check"} : /\ l \in Handling \union {"over"}
                                                             /\ l \in Before \union {"over"}
  BY DEF Handling, Before
<1>3. ASSUME NEW l \in {"check", "leave"}, req' = [req EXCEPT ![u].pc = l, ![u].slot = TRUE]
      PROVE  \E r \in ReqType : req' = [req EXCEPT ![u] = r] /\ r.pc = l /\ r.refs = req[u].refs
  <2>1. PICK r \in ReqType : r = [req[u] EXCEPT !.pc = l, !.slot = TRUE]
    BY <1>1, <1>2 DEF ReqType
  <2>2. r.pc = l /\ r.refs = req[u].refs
    BY <1>1, <2>1 DEF ReqType
  <2>3. req' = [req EXCEPT ![u] = r]
    BY <1>1, <1>3, <2>1
  <2> QED
    BY <2>2, <2>3
<1>4. ASSUME NEW l \in {"queue", "over", "wait", "leave", "check"}, Goto(u, l)
      PROVE  \E r \in ReqType : req' = [req EXCEPT ![u] = r] /\ r.pc = l /\ r.refs = req[u].refs
  BY <1>2, <1>4, GotoReq
<1> QED
  BY <1>2, <1>3, <1>4 DEF TryAcquireUserSlot, JoinQueue, WaitForSlot, LeaveQueue

(* What the invariant says of request u. *)
LEMMA ReservationFacts ==
    ASSUME TypeOK, ReservationInv, NEW u \in Usages
    PROVE  /\ req[u].pc \notin {"finish", "unslot", "over"} => req[u].refs <= 1
           /\ faults = 0 => ReferenceOk(u, req[u], task[u], u \in inflight)
BY DEF ReservationInv

LEMMA EntryReservation ==
    ASSUME TypeOK, UNCHANGED estimate, ReservationInv, NEW u \in Usages,
           \/ TryAcquireUserSlot(u) \/ JoinQueue(u) \/ WaitForSlot(u) \/ LeaveQueue(u)
           \/ CheckBalanceEligibility(u) \/ ReadBalance(u) \/ ReserveInflight(u)
    PROVE  ReservationInv'
<1>1. UNCHANGED task /\ (Fault \/ UNCHANGED faults) /\ req[u].pc \in Before
  <2>1. UNCHANGED task /\ (Fault \/ UNCHANGED faults)
    BY DEF TryAcquireUserSlot, JoinQueue, WaitForSlot, LeaveQueue, CheckBalanceEligibility, ReadBalance, ReserveInflight
  <2>2. req[u].pc \in {"new", "queue", "wait", "leave", "check", "read", "reserve"}
    BY DEF TryAcquireUserSlot, JoinQueue, WaitForSlot, LeaveQueue, CheckBalanceEligibility, ReadBalance, ReserveInflight, At
  <2>3. {"new", "queue", "wait", "leave", "check", "read", "reserve"} \subseteq Before
    BY DEF Before, Handling
  <2> QED
    BY <2>1, <2>2, <2>3
<1>2. req[u].refs <= 1 /\ (faults = 0 => req[u].refs = 0 /\ task[u] = "none")
  <2>1. req[u].pc \notin {"finish", "unslot", "over"}
    BY <1>1 DEF Before, Handling
  <2> QED
    BY <1>1, <2>1, ReservationFacts DEF ReferenceOk
<1>3. PICK r \in ReqType :
        /\ req' = [req EXCEPT ![u] = r] /\ r.refs <= 1
        /\ \/ r.pc \in Before /\ r.refs = req[u].refs
           \/ r.pc \in {"over", "unslot"}
           \/ r.pc = "forward" /\ (Fault \/ ~Priced(u))
           \/ r.pc = "forward" /\ r.refs = 1 /\ u \in inflight'
        /\ \A v \in Usages \ {u} : v \in inflight' <=> v \in inflight
  <2>1. CASE TryAcquireUserSlot(u) \/ JoinQueue(u) \/ WaitForSlot(u) \/ LeaveQueue(u)
    <3>1. UNCHANGED inflight
      BY <2>1 DEF TryAcquireUserSlot, JoinQueue, WaitForSlot, LeaveQueue
    <3> QED
      BY <1>2, <2>1, <3>1, QueueReq
  <2>2. CASE CheckBalanceEligibility(u) \/ ReadBalance(u)
    <3>1. UNCHANGED inflight /\ "read" \in Before /\ "reserve" \in Before
      BY <2>2 DEF CheckBalanceEligibility, ReadBalance, Before, Handling
    <3> QED
      BY <1>2, <2>2, <3>1, AdmitReq
  <2>3. CASE ReserveInflight(u)
    <3>1. \A v \in Usages \ {u} : v \in inflight' <=> v \in inflight
      BY <2>3 DEF ReserveInflight
    <3> QED
      BY <1>2, <2>3, <3>1, ReserveReq
  <2> QED
    BY <2>1, <2>2, <2>3
<1>4. faults' = 0 /\ faults = 0 => ReferenceOk(u, r, task'[u], u \in inflight')
  <2>1. \A l \in Before : l \notin {"forward", "finish", "unslot", "over"}
    BY DEF Before, Handling
  <2> QED
    BY <1>1, <1>2, <1>3, <2>1, FaultFacts DEF ReferenceOk
<1> QED
  BY <1>1, <1>3, <1>4, ReservationAssemble

LEMMA HandlerReservation ==
    ASSUME TypeOK, UNCHANGED estimate, ReservationInv, NEW u \in Usages, Forward(u) \/ HandlerDone(u) \/ ReleaseUserSlot(u) \/ ClientGone(u)
    PROVE  ReservationInv'
<1>1. /\ Fault \/ UNCHANGED faults
      /\ \A v \in Usages \ {u} : task'[v] = task[v] /\ (v \in inflight' <=> v \in inflight)
  <2>1. Fault \/ UNCHANGED faults
    BY DEF Forward, HandlerDone, ReleaseUserSlot, ClientGone, DecRef
  <2>2. \A v \in Usages \ {u} : v \in inflight' <=> v \in inflight
    BY DEF Forward, HandlerDone, ReleaseUserSlot, ClientGone, DecRef
  <2>3. \A v \in Usages \ {u} : task'[v] = task[v]
    BY TypeFacts DEF Forward, HandlerDone, ReleaseUserSlot, ClientGone
  <2> QED
    BY <2>1, <2>2, <2>3
<1>2. /\ req[u] \in ReqType /\ req \in [Usages -> ReqType] /\ task \in [Usages -> TaskSteps] /\ req[u].refs \in 0..2
      /\ req[u].pc \notin {"finish", "unslot", "over"} => req[u].refs <= 1
      /\ faults = 0 => ReferenceOk(u, req[u], task[u], u \in inflight)
  BY TypeFacts, ReservationFacts
<1>3. \A l \in Before : l \notin {"forward", "finish", "unslot", "over"}
  BY DEF Before, Handling
<1>4. CASE Forward(u)
  <2>1. req[u].pc = "forward" /\ req[u].refs <= 1 /\ UNCHANGED inflight
    BY <1>2, <1>4 DEF Forward, At
  <2>2. CASE Acquire(u) /\ task' = [task EXCEPT ![u] = "bill"]
    <3>1. PICK n \in 0..2 : n = IF req[u].refs > 0 THEN req[u].refs + 1 ELSE 0
      BY <1>2, <2>1
    <3>2. "finish" \in Handling \union {"new", "over"}
      BY DEF Handling
    <3>3. PICK r \in ReqType : r = [req[u] EXCEPT !.pc = "finish", !.refs = n]
      BY <1>2, <3>2, RefsChange
    <3>4. r.pc = "finish" /\ r.refs = n
      BY <1>2, <3>3 DEF ReqType
    <3>5. req' = [req EXCEPT ![u] = r]
      BY <1>2, <2>2, <3>1, <3>3 DEF Acquire
    <3>6. task'[u] = "bill"
      BY <1>2, <2>2
    <3>7. faults' = 0 /\ faults = 0 => ReferenceOk(u, r, task'[u], u \in inflight')
      BY <1>2, <1>3, <2>1, <3>1, <3>4, <3>6 DEF ReferenceOk
    <3> QED
      BY <1>1, <3>4, <3>5, <3>7, ReservationAssemble
  <2>3. CASE Goto(u, "finish") /\ UNCHANGED task
    <3>1. "finish" \in Handling \union {"over"}
      BY DEF Handling
    <3>2. PICK r \in ReqType : req' = [req EXCEPT ![u] = r] /\ r.pc = "finish" /\ r.refs = req[u].refs /\ r.slot = req[u].slot
      BY <2>3, <3>1, GotoReq
    <3>3. faults' = 0 /\ faults = 0 => ReferenceOk(u, r, task'[u], u \in inflight')
      BY <1>2, <1>3, <2>1, <2>3, <3>2 DEF ReferenceOk
    <3> QED
      BY <1>1, <3>2, <3>3, ReservationAssemble
  <2> QED
    BY <1>4, <2>2, <2>3 DEF Forward
<1>5. CASE HandlerDone(u)
  <2>1. PICK n \in 0..2 : n = Dropped(req[u].refs)
    BY DroppedType
  <2>2. "unslot" \in Handling \union {"new", "over"}
    BY DEF Handling
  <2>3. PICK r \in ReqType : r = [req[u] EXCEPT !.pc = "unslot", !.refs = n]
    BY <1>2, <2>2, RefsChange
  <2>4. r.pc = "unslot" /\ r.refs = n
    BY <1>2, <2>3 DEF ReqType
  <2>5. req' = [req EXCEPT ![u] = r]
    BY <1>2, <1>5, <2>1, <2>3 DEF HandlerDone
  <2>6. UNCHANGED task /\ req[u].pc = "finish"
    BY <1>5 DEF HandlerDone, At
  <2>7. CASE Fault
    <3>1. faults' = 0 /\ faults = 0 => ReferenceOk(u, r, task'[u], u \in inflight')
      BY <2>7, FaultFacts
    <3> QED
      BY <1>1, <2>4, <2>5, <3>1, ReservationAssemble
  <2>8. CASE inflight' = IF req[u].refs = 1 THEN inflight \ {u} ELSE inflight
    <3>1. faults' = 0 /\ faults = 0 => ReferenceOk(u, r, task'[u], u \in inflight')
      BY <1>2, <1>3, <2>1, <2>4, <2>6, <2>8 DEF ReferenceOk, Dropped
    <3> QED
      BY <1>1, <2>4, <2>5, <3>1, ReservationAssemble
  <2> QED
    BY <1>5, <2>7, <2>8 DEF HandlerDone, DecRef
<1>6. CASE ReleaseUserSlot(u) \/ ClientGone(u)
  <2>1. PICK r \in ReqType :
          /\ req' = [req EXCEPT ![u] = r] /\ ~r.slot /\ r.refs = req[u].refs
          /\ r.pc = req[u].pc \/ (r.pc = "over" /\ req[u].pc = "unslot")
    BY <1>6, EndReq
  <2>2. UNCHANGED <<task, inflight>>
    BY <1>6 DEF ReleaseUserSlot, ClientGone
  <2>3. faults' = 0 /\ faults = 0 => ReferenceOk(u, r, task'[u], u \in inflight')
    BY <1>2, <1>3, <2>1, <2>2 DEF ReferenceOk
  <2>4. r.pc \notin {"finish", "unslot", "over"} => r.refs <= 1
    BY <1>2, <2>1
  <2> QED
    BY <1>1, <2>1, <2>3, <2>4, ReservationAssemble
<1> QED
  BY <1>4, <1>5, <1>6

LEMMA TaskReservation ==
    ASSUME TypeOK, UNCHANGED estimate, ReservationInv, NEW u \in Usages, BillingTask(u) \/ BillAgain(u) \/ ReservationExpires(u)
    PROVE  ReservationInv'
<1>1. /\ Fault \/ UNCHANGED faults
      /\ \A v \in Usages \ {u} : task'[v] = task[v] /\ (v \in inflight' <=> v \in inflight)
  <2>1. Fault \/ UNCHANGED faults
    BY DEF BillingTask, ApplyUsageBilling, SyncBalanceCache, InvalidateUserBalance, TaskEnd, DecRef, BillAgain,
           ReservationExpires
  <2>2. \A v \in Usages \ {u} : v \in inflight' <=> v \in inflight
    BY DEF BillingTask, ApplyUsageBilling, SyncBalanceCache, InvalidateUserBalance, TaskEnd, DecRef, BillAgain,
           ReservationExpires
  <2>3. UNCHANGED task \/ \E l : Step(u, l)
    BY DEF BillingTask, ApplyUsageBilling, SyncBalanceCache, InvalidateUserBalance, TaskEnd, BillAgain, ReservationExpires
  <2> QED
    BY <2>1, <2>2, <2>3, TypeFacts DEF Step
<1>2. /\ req[u] \in ReqType /\ req \in [Usages -> ReqType] /\ task \in [Usages -> TaskSteps] /\ req[u].refs \in 0..2
      /\ task[u] \in TaskSteps
      /\ req[u].pc \notin {"finish", "unslot", "over"} => req[u].refs <= 1
      /\ faults = 0 => ReferenceOk(u, req[u], task[u], u \in inflight)
  BY TypeFacts, ReservationFacts
<1>3. /\ \A l \in Before : l \notin {"forward", "finish", "unslot", "over"}
      /\ req[u].pc \in Before \union {"forward", "finish", "unslot", "over"}
  BY <1>2 DEF Before, Handling, ReqType
<1>4. CASE \/ ApplyUsageBilling(u) \/ SyncBalanceCache(u) \/ InvalidateUserBalance(u) \/ BillAgain(u)
           \/ ReservationExpires(u)
  <2>1. req' = [req EXCEPT ![u] = req[u]]
    <3>1. UNCHANGED req
      BY <1>4 DEF ApplyUsageBilling, SyncBalanceCache, InvalidateUserBalance, BillAgain, ReservationExpires
    <3> QED
      BY <1>2, <3>1
  <2>2. CASE Fault
    <3>1. faults' = 0 /\ faults = 0 => ReferenceOk(u, req[u], task'[u], u \in inflight')
      BY <2>2, FaultFacts
    <3> QED
      BY <1>1, <1>2, <2>1, <3>1, ReservationAssemble
  <2>3. CASE UNCHANGED inflight /\ task[u] \in {"bill", "sync", "invalidate"} /\ task'[u] \in {"sync", "invalidate", "end"}
    <3>1. faults' = 0 /\ faults = 0 => ReferenceOk(u, req[u], task'[u], u \in inflight')
      BY <1>2, <1>3, <2>3 DEF ReferenceOk
    <3> QED
      BY <1>1, <1>2, <2>1, <3>1, ReservationAssemble
  <2>4. CASE UNCHANGED task /\ req[u].pc \in {"unslot", "over"} /\ ~Billing(u)
    <3>1. faults' = 0 /\ faults = 0 => ReferenceOk(u, req[u], task'[u], u \in inflight')
      BY <1>2, <1>3, <2>4 DEF ReferenceOk, Billing, TaskSteps
    <3> QED
      BY <1>1, <1>2, <2>1, <3>1, ReservationAssemble
  <2>5. ASSUME NEW l \in {"sync", "invalidate", "end"}, Step(u, l)
        PROVE  task'[u] \in {"sync", "invalidate", "end"}
    BY <1>2, <2>5 DEF Step
  <2>6. CASE ApplyUsageBilling(u) \/ SyncBalanceCache(u) \/ InvalidateUserBalance(u)
    BY <2>3, <2>5, <2>6 DEF ApplyUsageBilling, SyncBalanceCache, InvalidateUserBalance
  <2>7. CASE BillAgain(u)
    BY <2>2, <2>7 DEF BillAgain
  <2>8. CASE ReservationExpires(u)
    BY <2>2, <2>4, <2>8 DEF ReservationExpires
  <2> QED
    BY <1>4, <2>6, <2>7, <2>8
<1>5. CASE TaskEnd(u)
  <2>1. PICK n \in 0..2 : n = Dropped(req[u].refs)
    BY DroppedType
  <2>2. PICK r \in ReqType : r = [req[u] EXCEPT !.refs = n]
    BY <1>2 DEF ReqType
  <2>3. r.pc = req[u].pc /\ r.refs = n
    BY <1>2, <2>2 DEF ReqType
  <2>4. req' = [req EXCEPT ![u] = r]
    BY <1>2, <1>5, <2>1, <2>2 DEF TaskEnd
  <2>5. task[u] = "end" /\ task'[u] = "done"
    BY <1>2, <1>5 DEF TaskEnd, Step
  <2>6. r.pc \notin {"finish", "unslot", "over"} => r.refs <= 1
    <3>1. n <= req[u].refs
      BY <1>2, <2>1 DEF Dropped
    <3> QED
      BY <1>2, <2>3, <3>1
  <2>7. CASE Fault
    <3>1. faults' = 0 /\ faults = 0 => ReferenceOk(u, r, task'[u], u \in inflight')
      BY <2>7, FaultFacts
    <3> QED
      BY <1>1, <2>4, <2>6, <3>1, ReservationAssemble
  <2>8. CASE inflight' = IF req[u].refs = 1 THEN inflight \ {u} ELSE inflight
    <3>1. faults' = 0 /\ faults = 0 => ReferenceOk(u, r, task'[u], u \in inflight')
      BY <1>2, <1>3, <2>1, <2>3, <2>5, <2>8 DEF ReferenceOk, Dropped
    <3> QED
      BY <1>1, <2>4, <2>6, <3>1, ReservationAssemble
  <2> QED
    BY <1>5, <2>7, <2>8 DEF TaskEnd, DecRef
<1> QED
  BY <1>4, <1>5 DEF BillingTask

(* An instance dies: its requests are over and hold nothing. *)
LEMMA RestartReservation ==
    ASSUME TypeOK, ReservationInv, NEW i \in Instances, RestartInstance(i)
    PROVE  ReservationInv'
<1>1. faults' # 0
  BY FaultFacts DEF RestartInstance
<1>2. PICK lost \in SUBSET Usages :
        req' = [u \in Usages |-> IF u \in lost THEN [Fresh EXCEPT !.pc = "over"] ELSE req[u]]
  BY DEF RestartInstance
<1>3. [Fresh EXCEPT !.pc = "over"].pc = "over"
  BY DEF Fresh
<1>4. ASSUME NEW u \in Usages, req'[u].pc \notin {"finish", "unslot", "over"}
      PROVE  req'[u].refs <= 1
  <2>1. req'[u] = req[u]
    BY <1>2, <1>3, <1>4
  <2> QED
    BY <1>4, <2>1 DEF ReservationInv
<1> QED
  BY <1>1, <1>4 DEF ReservationInv

LEMMA ReservationStep ==
    ASSUME TypeOK, ReservationInv, [Next]_vars
    PROVE  ReservationInv'
<1>0. UNCHANGED estimate
  BY EstimatesKept
<1>1. ASSUME NEW u \in Usages, SlotExpires(u)
      PROVE  ReservationInv'
  <2>1. UNCHANGED <<req, task, inflight>> /\ (Fault \/ UNCHANGED faults)
    BY <1>1 DEF SlotExpires
  <2>2. faults' = 0 => faults = 0
    BY <2>1, FaultFacts
  <2> QED
    BY <1>0, <2>1, <2>2 DEF ReservationInv, ReferenceOk, Priced
<1>2. CASE CacheWorker \/ CacheExpires \/ WaitCountExpires \/ CleanupDedup \/ UNCHANGED vars
  <2>1. UNCHANGED <<req, task, inflight, faults>>
    BY <1>2 DEF CacheWorker, CacheExpires, WaitCountExpires, CleanupDedup, vars
  <2> QED
    BY <1>0, <2>1 DEF ReservationInv, ReferenceOk, Priced
<1> QED
  BY <1>0, <1>1, <1>2, EntryReservation, HandlerReservation, TaskReservation, RestartReservation DEF Next, Handler

-----------------------------------------------------------------------------
(* The cached balance. *)

Pending == {u \in Usages : task[u] \in {"sync", "invalidate"}}

DeductsOk == \A w \in writes : w.kind = "deduct" => w.amount >= 0

LEMMA CacheFacts ==
    ASSUME TypeOK
    PROVE  /\ CacheInv <=> /\ Pending \subseteq Charged /\ DeductsOk
                           /\ faults = 0 /\ ~raced /\ cache # Nil => cache <= balance + Costs(Pending)
           /\ Unsynced = Costs(Pending) /\ Costs(Pending) \in Int /\ balance \in Int
           /\ Pending \in SUBSET Usages /\ (cache # Nil => cache \in Int)
<1>1. Pending \in SUBSET Usages /\ Unsynced = Costs(Pending)
  BY DEF Pending, Unsynced
<1>2. Costs(Pending) \in Int
  BY <1>1, CostsFold
<1>3. balance \in Int /\ (cache # Nil => cache \in Int)
  BY DEF TypeOK, LedgerTypeOK, BalanceCacheTypeOK
<1>4. Pending \subseteq Charged <=> \A u \in Usages : task[u] \in {"sync", "invalidate"} => u \in Charged
  BY DEF Pending
<1> QED
  BY <1>1, <1>2, <1>3, <1>4 DEF CacheInv, DeductsOk

LEMMA CacheAssemble ==
    ASSUME Pending' \subseteq Charged', DeductsOk',
           faults' = 0 /\ ~raced' /\ cache' # Nil => cache' <= balance' + Costs(Pending')
    PROVE  CacheInv'
<1>1. (\A u \in Usages : task[u] \in {"sync", "invalidate"} => u \in Charged)'
  BY DEF Pending
<1>2. (Unsynced = Costs(Pending))'
  BY DEF Unsynced, Pending
<1>3. Costs(Pending)' = Costs(Pending')
  OBVIOUS
<1>4. faults' = 0 /\ ~raced' /\ cache' # Nil => cache' <= balance' + Unsynced'
  BY <1>2, <1>3
<1> QED
  BY <1>1, <1>4 DEF CacheInv, DeductsOk

(* What the steps that are no charge and no deduction leave. *)
LEMMA CacheHolds ==
    ASSUME TypeOK, CacheInv, Charged \subseteq Charged', DeductsOk', Pending' \subseteq Pending,
           \/ faults' # 0
           \/ cache' = Nil
           \/ UNCHANGED <<balance, cache, raced, Pending>> /\ (faults' = 0 => faults = 0)
    PROVE  CacheInv'
<1>1. faults' = 0 /\ ~raced' /\ cache' # Nil => cache' <= balance' + Costs(Pending')
  BY CacheFacts
<1>2. Pending' \subseteq Charged'
  BY CacheFacts
<1> QED
  BY <1>1, <1>2, CacheAssemble

(* A read fills the cache later, and deducts nothing. *)
LEMMA FillDeducts ==
    ASSUME DeductsOk, NEW u \in Usages, Fill(u) \/ UNCHANGED balances
    PROVE  DeductsOk' /\ UNCHANGED <<cache, raced>>
<1>1. UNCHANGED <<cache, raced>>
  BY DEF Fill, balances
<1>2. PICK t : t = Task("set", u, balance) /\ t.kind = "set"
  <2>1. Task("set", u, balance).kind = "set"
    BY DEF Task
  <2> QED
    BY <2>1
<1>3. writes' \subseteq writes \union {t}
  BY <1>2 DEF Fill, balances
<1> QED
  BY <1>1, <1>2, <1>3 DEF DeductsOk

(* Of a handler and of the steps around it. *)
LEMMA HandlerCache ==
    ASSUME TypeOK, ReservationInv, CacheInv, NEW u \in Usages,
           TryAcquireUserSlot(u) \/ Handler(u) \/ ClientGone(u) \/ ReservationExpires(u) \/ SlotExpires(u)
    PROVE  CacheInv'
<1>1. UNCHANGED ledger /\ (Fill(u) \/ UNCHANGED balances) /\ (Fault \/ UNCHANGED faults)
  BY DEF TryAcquireUserSlot, Handler, JoinQueue, WaitForSlot, LeaveQueue, CheckBalanceEligibility, ReadBalance,
         ReserveInflight, Forward, HandlerDone, ReleaseUserSlot, ClientGone, ReservationExpires, SlotExpires, DecRef
<1>2. UNCHANGED task \/ (Forward(u) /\ task' = [task EXCEPT ![u] = "bill"])
  BY DEF TryAcquireUserSlot, Handler, JoinQueue, WaitForSlot, LeaveQueue, CheckBalanceEligibility, ReadBalance,
         ReserveInflight, Forward, HandlerDone, ReleaseUserSlot, ClientGone, ReservationExpires, SlotExpires
<1>3. faults' = 0 => faults = 0
  BY <1>1, FaultFacts
<1>4. Pending' \subseteq Pending /\ (faults' = 0 => Pending' = Pending)
  <2>1. CASE UNCHANGED task
    BY <2>1 DEF Pending
  <2>2. CASE Forward(u) /\ task' = [task EXCEPT ![u] = "bill"]
    <3>1. \A v \in Usages : task'[v] = (IF v = u THEN "bill" ELSE task[v])
      BY <2>2, TypeFacts
    <3>2. faults = 0 => task[u] = "none"
      BY <2>2, ReservationFacts DEF Forward, At, ReferenceOk
    <3> QED
      BY <1>3, <3>1, <3>2 DEF Pending
  <2> QED
    BY <1>2, <2>1, <2>2
<1>5. Charged' = Charged /\ balance' = balance
  BY <1>1, CleanupFacts
<1>6. DeductsOk' /\ UNCHANGED <<cache, raced>>
  BY <1>1, FillDeducts, CacheFacts
<1> QED
  BY <1>3, <1>4, <1>5, <1>6, CacheHolds

LEMMA PendingStep ==
    ASSUME TypeOK, NEW u \in Usages, NEW l, Step(u, l)
    PROVE  Pending' = IF l \in {"sync", "invalidate"} THEN Pending \union {u} ELSE Pending \ {u}
<1>1. \A v \in Usages : task'[v] = IF v = u THEN l ELSE task[v]
  BY TypeFacts DEF Step
<1> QED
  BY <1>1 DEF Pending

(* A charge: the balance falls at once, the cache in a later step. *)
LEMMA ChargeCache ==
    ASSUME TypeOK, CacheInv, NEW u \in Usages, ApplyUsageBilling(u)
    PROVE  CacheInv'
<1>1. UNCHANGED <<cache, writes, raced>> /\ u \notin Pending /\ (Fault \/ UNCHANGED faults)
  BY DEF ApplyUsageBilling, balances, Pending
<1>2. DeductsOk' /\ (faults' = 0 => faults = 0) /\ (Fault => faults' # 0)
  BY <1>1, CacheFacts, FaultFacts DEF DeductsOk
<1>3. CASE Step(u, "end") /\ (Apply(u) \/ UNCHANGED ledger) /\ (Fault \/ moved' = moved)
  <2>1. Pending' = Pending
    BY <1>1, <1>3, PendingStep
  <2>2. Charged \subseteq Charged' /\ (moved' = moved => balance' = balance)
    <3>1. CASE UNCHANGED ledger
      BY <3>1, CleanupFacts
    <3>2. CASE Apply(u) /\ ~UNCHANGED ledger
      <4>1. Charged' = Charged \union {u} /\ moved' # moved
        BY <3>2, ApplyFacts
      <4> QED
        BY <4>1
    <3> QED
      BY <1>3, <3>1, <3>2
  <2> QED
    BY <1>1, <1>2, <1>3, <2>1, <2>2, CacheHolds
<1>4. CASE Apply(u) /\ moved' # moved /\ UNCHANGED faults /\ \E l \in {"sync", "invalidate"} : Step(u, l)
  <2>1. Pending' = Pending \union {u} /\ Pending \in SUBSET Usages
    BY <1>4, PendingStep, CacheFacts
  <2>2. u \notin Charged /\ Charged' = Charged \union {u} /\ balance' = balance - Cost[u]
    BY <1>4, ApplyFacts DEF ledger
  <2>3. Costs(Pending') = Costs(Pending) + Cost[u]
    BY <1>1, <2>1, CostsAdd
  <2>4. faults' = 0 /\ ~raced' /\ cache' # Nil => cache' <= balance' + Costs(Pending')
    <3>1. Cost[u] \in Int /\ Costs(Pending) \in Int /\ balance \in Int
      BY Constants, CacheFacts
    <3>2. faults = 0 /\ ~raced /\ cache # Nil => cache \in Int /\ cache <= balance + Costs(Pending)
      BY CacheFacts
    <3> QED
      BY <1>1, <1>4, <2>2, <2>3, <3>1, <3>2
  <2>5. Pending' \subseteq Charged'
    BY <2>1, <2>2, CacheFacts
  <2> QED
    BY <1>2, <2>4, <2>5, CacheAssemble
<1> QED
  BY <1>3, <1>4 DEF ApplyUsageBilling

(* The deduction follows, or is queued, or the key is dropped. *)
LEMMA DeductCache ==
    ASSUME TypeOK, CacheInv, NEW u \in Usages, SyncBalanceCache(u) \/ InvalidateUserBalance(u)
    PROVE  CacheInv'
<1>1. /\ Step(u, "end") /\ UNCHANGED ledger /\ UNCHANGED raced /\ (Fault \/ UNCHANGED faults) /\ u \in Pending
      /\ Cost[u] \in Nat
  BY Constants DEF SyncBalanceCache, InvalidateUserBalance, Pending
<1>2. Pending' = Pending \ {u} /\ Charged' = Charged /\ balance' = balance
  BY <1>1, PendingStep, CleanupFacts
<1>3. Pending' \subseteq Charged' /\ (faults' = 0 => faults = 0) /\ (Fault => faults' # 0)
  BY <1>1, <1>2, CacheFacts, FaultFacts
<1>4. DeductsOk'
  <2>1. PICK t : t = Task("deduct", u, Cost[u]) /\ t.amount >= 0
    <3>1. Task("deduct", u, Cost[u]).amount >= 0
      BY <1>1 DEF Task
    <3> QED
      BY <3>1
  <2>2. writes' \subseteq writes \union {t}
    BY <2>1 DEF SyncBalanceCache, InvalidateUserBalance
  <2> QED
    BY <2>1, <2>2, CacheFacts DEF DeductsOk
<1>5. CASE Fault \/ cache' = Nil
  BY <1>3, <1>4, <1>5, CacheAssemble
<1>6. CASE cache' = Deducted(Cost[u])
  <2>1. Costs(Pending) = Cost[u] + Costs(Pending')
    BY <1>1, <1>2, CostsRemove, CacheFacts
  <2>2. Costs(Pending') \in Int
    BY <1>2, CacheFacts, CostsFold
  <2>3. faults' = 0 /\ ~raced' /\ cache' # Nil => cache' <= balance' + Costs(Pending')
    <3>1. faults = 0 /\ ~raced /\ cache # Nil => cache \in Int /\ cache <= balance + Costs(Pending) /\ balance \in Int
      BY CacheFacts
    <3> QED
      BY <1>1, <1>2, <1>3, <1>6, <2>1, <2>2, <3>1 DEF Deducted
  <2> QED
    BY <1>3, <1>4, <2>3, CacheAssemble
<1> QED
  BY <1>5, <1>6 DEF SyncBalanceCache, InvalidateUserBalance

(* A cache writer takes a task. *)
LEMMA WriterCache ==
    ASSUME TypeOK, CacheInv, CacheWorker
    PROVE  CacheInv'
<1>1. PICK w \in writes : CacheWrite(w, Unsynced)
  BY DEF CacheWorker
<1>2. UNCHANGED <<task, faults, Pending>> /\ UNCHANGED ledger
  BY DEF CacheWorker, Pending
<1>3. Charged' = Charged /\ balance' = balance
  BY <1>2, CleanupFacts
<1>4. DeductsOk' /\ Pending' \subseteq Charged'
  BY <1>1, <1>2, <1>3, CacheFacts DEF DeductsOk, CacheWrite
<1>5. w.amount \in Int
  BY DEF TypeOK, BalanceCacheTypeOK
<1>6. CASE w.kind = "set" /\ cache' = w.amount /\ raced' = (raced \/ w.amount > balance + Unsynced)
  <2>1. w.amount <= balance + Costs(Pending) \/ raced'
    <3>1. raced' \/ ~(w.amount > balance + Unsynced)
      BY <1>6, Zenon
    <3> QED
      BY <1>5, <3>1, CacheFacts
  <2> QED
    BY <1>2, <1>3, <1>4, <1>6, <2>1, CacheAssemble
<1>7. CASE w.kind = "deduct" /\ cache' = Deducted(w.amount) /\ UNCHANGED raced
  <2>1. faults = 0 /\ ~raced /\ cache # Nil => cache \in Int /\ cache <= balance + Costs(Pending)
    BY CacheFacts
  <2>2. w.amount >= 0 /\ balance \in Int /\ Costs(Pending) \in Int
    BY <1>7, CacheFacts DEF DeductsOk
  <2>3. faults' = 0 /\ ~raced' /\ cache' # Nil => cache' <= balance' + Costs(Pending')
    BY <1>2, <1>3, <1>5, <1>7, <2>1, <2>2 DEF Deducted
  <2> QED
    BY <1>4, <2>3, CacheAssemble
<1> QED
  BY <1>1, <1>6, <1>7 DEF CacheWrite

LEMMA CacheStep ==
    ASSUME TypeOK, ReservationInv, CacheInv, [Next]_vars
    PROVE  CacheInv'
<1>1. ASSUME NEW u \in Usages, TaskEnd(u) \/ BillAgain(u)
      PROVE  CacheInv'
  <2>1. /\ UNCHANGED ledger /\ UNCHANGED balances /\ u \notin Pending
        /\ (Step(u, "done") \/ Step(u, "bill")) /\ (Fault \/ UNCHANGED faults)
    BY <1>1 DEF TaskEnd, BillAgain, DecRef, Pending
  <2>2. Pending' = Pending
    BY <2>1, PendingStep
  <2>3. Charged' = Charged /\ balance' = balance
    BY <2>1, CleanupFacts
  <2>4. DeductsOk' /\ UNCHANGED <<cache, raced>> /\ (faults' = 0 => faults = 0)
    BY <2>1, FillDeducts, CacheFacts, FaultFacts
  <2> QED
    BY <2>2, <2>3, <2>4, CacheHolds
<1>2. ASSUME NEW i \in Instances, RestartInstance(i)
      PROVE  CacheInv'
  <2>1. UNCHANGED ledger /\ faults' # 0 /\ writes' \subseteq writes
    BY <1>2, FaultFacts DEF RestartInstance
  <2>2. \A u \in Usages : task'[u] \in {"done", task[u]}
    BY <1>2 DEF RestartInstance
  <2>3. Pending' \subseteq Pending /\ DeductsOk'
    BY <2>1, <2>2, CacheFacts DEF Pending, DeductsOk
  <2>4. Charged' = Charged
    BY <2>1, CleanupFacts
  <2> QED
    BY <2>1, <2>3, <2>4, CacheHolds
<1>3. CASE CacheExpires \/ WaitCountExpires \/ CleanupDedup \/ UNCHANGED vars
  <2>1. /\ Cleanup \/ UNCHANGED ledger
        /\ UNCHANGED <<writes, raced, task, faults>> /\ (cache' = Nil \/ cache' = cache)
    BY <1>3 DEF CacheExpires, WaitCountExpires, CleanupDedup, vars, balances
  <2>2. UNCHANGED <<Pending, DeductsOk>> /\ Charged' = Charged /\ balance' = balance
    BY <2>1, CleanupFacts DEF Pending, DeductsOk
  <2>3. DeductsOk'
    BY <2>2, CacheFacts
  <2> QED
    BY <2>1, <2>2, <2>3, CacheHolds
<1> QED
  BY <1>1, <1>2, <1>3, HandlerCache, ChargeCache, DeductCache, WriterCache DEF Next, BillingTask

-----------------------------------------------------------------------------
LEMMA InitInd ==
    ASSUME Init
    PROVE  GatewayInv
<1>1. /\ balance = StartBalance /\ frozen = OtherHolds /\ dedup = {} /\ archive = {}
      /\ moved = [r \in Requests |-> 0]
      /\ cache = Nil /\ writes = {} /\ raced = FALSE
      /\ limit \in Limits /\ slots = {} /\ waiting = 0
      /\ inflight = {} /\ faults = 0 /\ swept = FALSE /\ estimate \in Estimates
  BY DEF Init, LedgerInit, BalanceCacheInit, SlotsInit
<1>2. \A u \in Usages : req[u] = Fresh /\ task[u] = "none"
  BY DEF Init
<1>3. TypeOK
  <2>1. LedgerTypeOK
    BY <1>1, LedgerAssumption DEF LedgerTypeOK
  <2>2. BalanceCacheTypeOK
    BY <1>1 DEF BalanceCacheTypeOK
  <2>3. req \in [Usages -> ReqType] /\ task \in [Usages -> TaskSteps]
    BY FreshType DEF Init, TaskSteps
  <2>4. limit \in Limits /\ slots \subseteq Usages /\ waiting \in 0..MaxWait /\ inflight \subseteq Usages /\ faults \in 0..MaxFaults
    BY <1>1, Constants
  <2>5. swept \in BOOLEAN
    BY <1>1
  <2> QED
    BY <1>1, <2>1, <2>2, <2>3, <2>4, <2>5, Zenon DEF TypeOK, ReqType
<1>4. Charged = {} /\ \A r : ~Claimed(r)
  BY <1>1 DEF Charged, Claimed, Rows
<1>5. MoneyInv
  <2>1. Costs(Charged) = 0
    BY <1>4, CostsFold
  <2> QED
    BY <1>1, <1>4, <2>1, Constants DEF MoneyInv
<1>6. CacheInv
  BY <1>1, <1>2 DEF CacheInv
<1>7. ReservationInv
  BY <1>2 DEF ReservationInv, ReferenceOk, Fresh, Before
<1>8. SlotInv
  <2>1. Cardinality(slots) = 0 /\ limit \in Nat
    BY <1>1, FS_EmptySet, SlotAssumption
  <2>2. \A u \in Usages : ~req[u].slot
    BY <1>2 DEF Fresh
  <2> QED
    BY <2>1, <2>2 DEF SlotInv
<1> QED
  BY <1>3, <1>5, <1>6, <1>7, <1>8 DEF GatewayInv

LEMMA NextInd ==
    ASSUME GatewayInv, [Next]_vars
    PROVE  GatewayInv'
BY TypeStep, MoneyStep, CacheStep, ReservationStep, SlotStep DEF GatewayInv

(* The invariant, for every number of requests, instances and failures:    *)
(* the types, the ledger, the bound on the cached balance, the reference   *)
(* counts of the reservations, and the slot set.                           *)
THEOREM Inductive == Spec => []GatewayInv
BY InitInd, NextInd, PTL DEF Spec

(* The record of a request, its task and the keys in Redis keep their      *)
(* types: no count of references above two, no count of waiting requests   *)
(* outside its limit (InflightReservation, incrementWaitScript).           *)
THEOREM TypeCorrect == Spec => []TypeOK
<1>1. GatewayInv => TypeOK
  BY DEF GatewayInv
<1> QED
  BY <1>1, Inductive, PTL

(* Every request is charged at most once and the balance is what these     *)
(* charges left, whatever is retried, reported again, archived or lost     *)
(* with an instance (usage_billing_repo.go Apply).                         *)
THEOREM BilledOnce == Spec => []ChargedOnce
<1>1. GatewayInv => ChargedOnce
  BY DEF GatewayInv, MoneyInv, ChargedOnce, Charged
<1> QED
  BY <1>1, Inductive, PTL

(* As long as nothing fails and no early read gets into the cache, the     *)
(* cached balance exceeds the real one by no more than the charges whose   *)
(* reservation still counts and those of requests that could not be        *)
(* priced, whatever the estimates are: zero, capped or too low             *)
(* (syncBalanceCacheAfterDeduction, InflightReservation).                  *)
THEOREM DeductionBeforeRelease == Spec => []ReservedUntilDeducted
<1>1. GatewayInv => ReservedUntilDeducted
  <2> SUFFICES ASSUME GatewayInv, faults = 0, ~raced, cache # Nil
               PROVE  cache <= balance + Costs({u \in inflight \union Unpriced : Claimed(<<"usage", u>>)})
    BY DEF ReservedUntilDeducted
  <2>1. TypeOK /\ ReservationInv /\ CacheInv
    BY DEF GatewayInv
  <2>2. /\ cache <= balance + Costs(Pending) /\ Pending \subseteq Charged /\ Pending \in SUBSET Usages
        /\ cache \in Int /\ balance \in Int
    BY <2>1, CacheFacts
  <2>3. ASSUME NEW u \in Pending
        PROVE  u \in inflight \union Unpriced
    <3>1. u \in Usages /\ task[u] \in {"sync", "invalidate"}
      BY DEF Pending
    <3>2. ReferenceOk(u, req[u], task[u], u \in inflight)
      BY <2>1, <3>1, ReservationFacts
    <3>3. req[u].pc \in Before \union {"forward", "finish", "unslot", "over"}
      BY <2>1, <3>1, TypeFacts DEF Before, Handling
    <3> QED
      BY <3>1, <3>2, <3>3 DEF ReferenceOk, Unpriced
  <2>4. PICK counted \in SUBSET Usages : counted = {u \in inflight \union Unpriced : Claimed(<<"usage", u>>)}
    BY <2>1 DEF TypeOK, Unpriced
  <2>5. Pending \subseteq counted
    BY <2>2, <2>3, <2>4 DEF Charged
  <2>6. Costs(Pending) <= Costs(counted) /\ Costs(Pending) \in Int /\ Costs(counted) \in Int
    BY <2>2, <2>5, CostsGrow, CostsFold
  <2> QED
    BY <2>2, <2>4, <2>6
<1> QED
  BY <1>1, Inductive, PTL

(* No more requests than the user's concurrency hold a slot, on all        *)
(* instances together, until a slot is taken from a request that runs      *)
(* (acquireScript, CleanupStaleProcessSlots, the slots' TTL).              *)
THEOREM NoMoreThanTheLimit == Spec => []SlotLimit
<1>1. GatewayInv => SlotLimit
  <2> SUFFICES ASSUME GatewayInv, ~swept
               PROVE  Cardinality({u \in Usages : req[u].slot}) <= limit
    BY DEF SlotLimit
  <2>1. TypeOK /\ Cardinality(slots) <= limit /\ \A u \in Usages : req[u].slot => u \in slots
    BY DEF GatewayInv, SlotInv
  <2>2. PICK held \in SUBSET slots : held = {u \in Usages : req[u].slot}
    BY <2>1
  <2>3. IsFiniteSet(slots) /\ limit \in Nat
    BY <2>1, Constants, FS_Subset, SlotAssumption DEF TypeOK
  <2>4. Cardinality(held) <= Cardinality(slots) /\ Cardinality(held) \in Nat /\ Cardinality(slots) \in Nat
    BY <2>3, FS_Subset, FS_CardinalityType
  <2> QED
    BY <2>1, <2>2, <2>3, <2>4
<1> QED
  BY <1>1, Inductive, PTL

=============================================================================
