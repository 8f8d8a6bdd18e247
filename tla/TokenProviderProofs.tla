------------------------- MODULE TokenProviderProofs -------------------------
(***************************************************************************)
(* Proofs about TokenProvider, for any instances, refreshers, requests and *)
(* deployments, and any bounds on authorisations, refreshes and faults.    *)
(*                                                                         *)
(* A token that the provider refuses is refused for ever, because no token *)
(* in use is ahead of what its grant accepts (TokenOk).  While the lock    *)
(* works its holder is the only process between re-reading the row and     *)
(* writing it (Apart), so a token refused there is refused because of a    *)
(* write that was lost, and the process that is condemned to disable the   *)
(* account and the one that is about to write never hold the same token.   *)
(* A refresh by hand is bound by none of this: what it leaves true is what *)
(* the invariant says without Calm and Ordered, and its own token stays    *)
(* within what its grant accepts (HandOk).                                 *)
(***************************************************************************)
EXTENDS TokenProvider, TLAPS

ProcType == [pc: RefreshPcs \union ServicePcs \union RequestPcs, acc: Accounts, got: Tokens, holds: BOOLEAN,
             res: {"none", "current", "refreshed", "invalid", "error", "held"}]

Entered(r)   == r.pc \in Critical \union {"lock", "release"}
Condemned(r) == \/ r.pc \in {"recover", "setError"}
                \/ r.pc = "release" /\ r.res = "invalid"

(* Where DisabledMeansRefused speaks: the lock works, no token was used up *)
(* by hand, and an account that is written without compare-and-set has not *)
(* been authorised again.                                                  *)
Calm == ~lockLost /\ ~manual.spent /\ (platform = "claude" => admin.tok.g = 0)

(* Where NeverOlderThanGiven speaks. *)
Ordered == platform = "grok" /\ ~manual.undone

HandType == [pc: {"idle", "ask", "load", "write", "invalidate"}, acc: Accounts, got: Tokens, ok: BOOLEAN,
             spent: BOOLEAN, undone: BOOLEAN]

(* A token that is in use was once the one to be accepted, and is of a     *)
(* grant that was authorised before the one being applied.                 *)
TokenOk(t) ==
    /\ t.n <= last[t.g]
    /\ t.g <= admin.tok.g
    /\ admin.pc \in {"read", "write"} => t.g < admin.tok.g

(* The refresh by hand: the token it read, and the one it received. *)
HandOk ==
    /\ TokenOk(manual.acc.tok)
    /\ manual.pc = "ask" => manual.acc.tok.n < MaxUse
    /\ manual.pc \in {"load", "write"} => /\ manual.spent
                                         /\ manual.got.g = manual.acc.tok.g
                                         /\ manual.got.n <= last[manual.got.g]

SharedOk ==
    /\ TokenOk(row.tok)
    /\ HandOk
    /\ admin.tok.n = 0 /\ (admin.tok.g = 0 => admin.pc = "idle")
    /\ \A t \in due : t.n < MaxUse
    /\ Ordered => ~outdated

(* Per process, with record r. *)
ProcOk(r) ==
    /\ TokenOk(r.acc.tok)
    /\ r.pc = "refresh" => r.acc.tok \in due
    /\ r.pc = "persist" => /\ r.got.g = r.acc.tok.g /\ r.got.n = r.acc.tok.n + 1
                           /\ r.got.n <= last[r.got.g]
    /\ r.pc = "durable" => r.res = "refreshed"
    /\ Condemned(r) => ~Accepted(r.acc.tok)
    /\ ~lockLost => (r.pc \in Critical => r.holds) /\ (r.holds => lock)

(* A request has an account no older than the one it was given. *)
ServedOk(r, b) ==
    Ordered /\ r.pc # "idle" =>
      /\ ~Older(r.acc.tok, b) /\ ~Older(row.tok, b)
      /\ r.pc = "lookup" => r.acc.tok = b

(* A process that is about to write has refreshed the token of an active   *)
(* account; without compare-and-set, the token it read is the row's.       *)
CalmOk(r) ==
    /\ r.pc = "persist" /\ row.tok = r.acc.tok => row.ok
    /\ platform = "claude" /\ (Condemned(r) \/ r.pc \in {"refresh", "persist"}) => r.acc.tok = row.tok

(* Two processes. *)
Apart(r, s) ==
    /\ ~lockLost => ~(r.holds /\ s.holds)
    /\ Calm => ~(r.pc = "persist" /\ Condemned(s) /\ r.acc.tok = s.acc.tok)

(* An inactive account has a token that is refused, or is being applied    *)
(* and is not being refreshed.                                             *)
DisabledOk ==
    ~row.ok => \/ ~Accepted(row.tok)
               \/ admin.pc = "clear" /\ \A p \in Procs : At(p, "refresh") => proc[p].acc.tok # row.tok

RefreshInv ==
    /\ TypeOK
    /\ SharedOk
    /\ \A p \in Procs : ProcOk(proc[p])
    /\ \A q \in Requests : ServedOk(proc[q], begun[q])
    /\ Calm => DisabledOk /\ \A p \in Procs : CalmOk(proc[p])
    /\ \A p, q \in Procs : p # q => Apart(proc[p], proc[q])

-----------------------------------------------------------------------------
(* Tokens. *)

LEMMA TokenFacts ==
    ASSUME NEW t \in Tokens
    PROVE  /\ t.g \in 0..MaxGrant /\ t.n \in 0..MaxUse /\ t.g \in Nat /\ t.n \in Nat
           /\ MaxGrant \in Nat /\ MaxUse \in Nat /\ MaxFaults \in Nat
BY RefreshAssumption DEF Tokens

LEMMA SameToken ==
    ASSUME NEW s \in Tokens, NEW t \in Tokens, s.g = t.g, s.n = t.n
    PROVE  s = t
BY DEF Tokens

LEMMA FirstFacts == First \in Tokens /\ First.g = 0 /\ First.n = 0
BY RefreshAssumption DEF First, Tokens

(* No token is older than one that is no older than it. *)
LEMMA OlderChain ==
    ASSUME NEW s \in Tokens, NEW t \in Tokens, NEW u \in Tokens, ~Older(s, t), ~Older(t, u)
    PROVE  ~Older(s, u)
BY TokenFacts DEF Older

LEMMA NotOlderThanItself ==
    ASSUME NEW t \in Tokens
    PROVE  ~Older(t, t)
BY TokenFacts DEF Older

-----------------------------------------------------------------------------
(* What the invariant says of process p. *)
LEMMA Facts ==
    ASSUME RefreshInv, NEW p \in Procs
    PROVE  /\ proc[p] \in ProcType /\ proc \in [Procs -> ProcType]
           /\ proc[p].acc \in Accounts /\ proc[p].acc.tok \in Tokens /\ proc[p].got \in Tokens
           /\ row \in Accounts /\ row.tok \in Tokens /\ stamp \in Nat
           /\ last \in [0..MaxGrant -> 0..MaxUse] /\ lock \in BOOLEAN /\ host[p] \in Instances
           /\ TokenOk(row.tok) /\ ProcOk(proc[p])
           /\ p \in Requests => ServedOk(proc[p], begun[p]) /\ begun[p] \in Tokens
           /\ Calm => CalmOk(proc[p]) /\ DisabledOk
<1>1. proc \in [Procs -> ProcType]
  BY DEF RefreshInv, TypeOK, RefreshTypeOK, ProcType
<1>2. proc[p] \in ProcType
  BY <1>1
<1>3. proc[p].acc \in Accounts /\ proc[p].acc.tok \in Tokens /\ proc[p].got \in Tokens
  BY <1>2 DEF ProcType, Accounts
<1>4. /\ row \in Accounts /\ row.tok \in Tokens /\ stamp \in Nat /\ last \in [0..MaxGrant -> 0..MaxUse]
      /\ lock \in BOOLEAN
  BY DEF RefreshInv, TypeOK, RefreshTypeOK, Accounts
<1>5. host[p] \in Instances
  BY RefreshAssumption DEF RefreshInv, TypeOK, RefreshTypeOK
<1> QED
  BY <1>1, <1>2, <1>3, <1>4, <1>5 DEF RefreshInv, SharedOk, TypeOK

(* The provider's counters only go up. *)
LastGrows == \A g \in 0..MaxGrant : last[g] <= last'[g]

(* What is refused stays refused. *)
LEMMA RefusedStays ==
    ASSUME NEW t \in Tokens, TokenOk(t), ~Accepted(t),
           last \in [0..MaxGrant -> 0..MaxUse], last' \in [0..MaxGrant -> 0..MaxUse],
           LastGrows, revoked \subseteq revoked'
    PROVE  ~Accepted(t)'
BY TokenFacts DEF TokenOk, Accepted, LastGrows

(* What the refresh by hand holds stays true while others move. *)
LEMMA HandKept ==
    ASSUME RefreshInv, UNCHANGED <<admin, manual>>, last' \in [0..MaxGrant -> 0..MaxUse], LastGrows
    PROVE  HandOk'
<1>1. manual \in HandType /\ HandOk /\ last \in [0..MaxGrant -> 0..MaxUse]
  BY DEF RefreshInv, TypeOK, RefreshTypeOK, HandType, SharedOk
<1>2. manual.acc.tok \in Tokens /\ manual.got \in Tokens
  BY <1>1 DEF HandType, Accounts
<1>3. ASSUME NEW t \in Tokens
      PROVE  t.n \in Nat /\ last[t.g] \in Nat /\ last'[t.g] \in Nat /\ last[t.g] <= last'[t.g]
  <2>1. t.g \in 0..MaxGrant /\ t.n \in Nat /\ MaxUse \in Nat
    BY TokenFacts
  <2>2. last[t.g] \in 0..MaxUse /\ last'[t.g] \in 0..MaxUse
    BY <1>1, <2>1
  <2> QED
    BY <2>1, <2>2 DEF LastGrows
<1> QED
  BY <1>1, <1>2, <1>3 DEF HandOk, TokenOk

(* The types of what the steps of a process change. *)
StepTypes ==
    /\ row' \in Accounts /\ stamp' \in Nat /\ last' \in [0..MaxGrant -> 0..MaxUse]
    /\ lock' \in BOOLEAN /\ mutex' \in [Instances -> Procs \union {Nil}]
    /\ cached' \in Tokens \union {Nil} /\ faults' \in 0..MaxFaults /\ lockLost' \in BOOLEAN
    /\ begun' \in [Requests -> Tokens] /\ outdated' \in BOOLEAN

(* The invariant after a step of p that leads it to r, from what the step  *)
(* does to the row, the provider and the lock.                             *)
LEMMA Assemble ==
    ASSUME RefreshInv, NEW p \in Procs, NEW r \in ProcType, proc' = [proc EXCEPT ![p] = r],
           UNCHANGED <<world, revoked, due, admin, manual>>, StepTypes, LastGrows, lockLost => lockLost',
           TokenOk(row.tok)', ProcOk(r)',
           \A q \in Requests \ {p} : begun'[q] = begun[q],
           Ordered => ~outdated' /\ ~Older(row'.tok, row.tok),
           p \in Requests => ServedOk(r, begun[p])',
           ~lockLost' => /\ \A q \in Procs \ {p} : proc[q].holds => lock'
                         /\ r.holds => \A q \in Procs \ {p} : ~proc[q].holds,
           Calm' =>
             /\ CalmOk(r)'
             /\ \/ row' = row
                \/ \A q \in Procs \ {p} : proc[q].pc = "persist" => proc[q].acc.tok # row'.tok
             /\ platform = "claude" =>
                  \/ row'.tok = row.tok
                  \/ \A q \in Procs \ {p} : ~Condemned(proc[q]) /\ proc[q].pc \notin {"refresh", "persist"}
             /\ \A q \in Procs \ {p} : proc[q].acc.tok = r.acc.tok =>
                  /\ ~(r.pc = "persist" /\ Condemned(proc[q]))
                  /\ ~(proc[q].pc = "persist" /\ Condemned(r))
             /\ \/ row'.ok
                \/ ~Accepted(row.tok)'
                \/ row' = row /\ r.pc # "refresh"
    PROVE  RefreshInv'
<1>1. proc'[p] = r /\ \A q \in Procs \ {p} : proc'[q] = proc[q]
  BY Facts
<1>2. TypeOK'
  <2>1. proc' \in [Procs -> ProcType]
    BY Facts
  <2> QED
    BY <2>1 DEF RefreshInv, TypeOK, RefreshTypeOK, ProcType, StepTypes, world
<1>3. SharedOk'
  <2>1. HandOk'
    BY HandKept DEF StepTypes
  <2> QED
    BY <2>1 DEF RefreshInv, SharedOk, Ordered, world
<1>4. ASSUME NEW q \in Procs \ {p}, NEW s, s = proc[q]
      PROVE  /\ proc'[q] = s /\ s \in ProcType /\ s.acc.tok \in Tokens /\ TokenOk(s.acc.tok) /\ TokenOk(s.acc.tok)'
             /\ ProcOk(s)'
  <2>1. proc'[q] = s /\ s \in ProcType /\ s.acc.tok \in Tokens /\ s.got \in Tokens /\ ProcOk(s)
    BY <1>1, <1>4, Facts
  <2>2. \A t \in Tokens : last[t.g] \in Nat /\ last'[t.g] \in Nat /\ last[t.g] <= last'[t.g]
    BY TokenFacts, Facts DEF LastGrows, StepTypes
  <2>3. TokenOk(s.acc.tok) /\ TokenOk(s.acc.tok)'
    BY <2>1, <2>2, TokenFacts DEF ProcOk, TokenOk
  <2>4. Condemned(s) => ~Accepted(s.acc.tok)'
    BY <2>1, <2>3, RefusedStays, Facts DEF ProcOk, StepTypes
  <2>5. s.pc = "persist" => s.got.n <= last'[s.got.g]
    BY <2>1, <2>2, TokenFacts DEF ProcOk
  <2>6. ~lockLost' => (s.pc \in Critical => s.holds) /\ (s.holds => lock')
    BY <1>4, <2>1 DEF ProcOk
  <2> QED
    BY <2>1, <2>3, <2>4, <2>5, <2>6 DEF ProcOk
<1>5. \A q \in Procs : ProcOk(proc[q])'
  BY <1>1, <1>4
<1>6. ASSUME NEW q \in Requests
      PROVE  ServedOk(proc[q], begun[q])'
  <2>1. CASE q = p
    BY <1>1, <2>1
  <2>2. CASE q # p
    <3>1. q \in Procs /\ proc'[q] = proc[q] /\ begun'[q] = begun[q] /\ begun[q] \in Tokens
      BY <1>1, <2>2, Facts DEF Procs
    <3>2. ServedOk(proc[q], begun[q]) /\ row.tok \in Tokens /\ row'.tok \in Tokens
      BY <3>1, Facts DEF StepTypes, Accounts
    <3>3. Ordered /\ ~Older(row.tok, begun[q]) => ~Older(row'.tok, begun[q])
      BY <3>1, <3>2, OlderChain
    <3> QED
      BY <3>1, <3>2, <3>3 DEF ServedOk, Ordered, world
  <2> QED
    BY <2>1, <2>2
<1>7. Calm' => Calm
  BY DEF Calm, world
<1>8. ASSUME Calm', NEW q \in Procs
      PROVE  CalmOk(proc[q])'
  <2>1. CASE q = p
    BY <1>1, <1>8, <2>1
  <2>2. CASE q # p
    <3>1. proc'[q] = proc[q] /\ CalmOk(proc[q])
      BY <1>1, <1>7, <1>8, <2>2, Facts
    <3> QED
      BY <1>8, <2>2, <3>1 DEF CalmOk, Condemned, world
  <2> QED
    BY <2>1, <2>2
<1>9. Calm' => DisabledOk'
  <2> SUFFICES ASSUME Calm', ~row'.ok, Accepted(row.tok)'
               PROVE  admin'.pc = "clear" /\ \A q \in Procs : At(q, "refresh")' => proc'[q].acc.tok # row'.tok
    BY DEF DisabledOk
  <2>1. row' = row /\ r.pc # "refresh"
    OBVIOUS
  <2>2. Accepted(row.tok)
    BY <2>1, RefusedStays, Facts DEF StepTypes
  <2>3. admin.pc = "clear" /\ \A q \in Procs : At(q, "refresh") => proc[q].acc.tok # row.tok
    BY <1>7, <2>1, <2>2, Facts DEF DisabledOk
  <2> QED
    BY <1>1, <2>1, <2>3 DEF At
<1>10. ASSUME NEW q \in Procs, NEW s \in Procs, q # s
       PROVE  Apart(proc[q], proc[s])'
  <2>1. Apart(proc[q], proc[s]) /\ Apart(proc[s], proc[q])
    BY <1>10 DEF RefreshInv
  <2>2. CASE q # p /\ s # p
    BY <1>1, <1>7, <2>1, <2>2 DEF Apart, Condemned
  <2>3. CASE q = p
    BY <1>1, <1>10, <2>3 DEF Apart, Condemned
  <2>4. CASE s = p
    BY <1>1, <1>10, <2>4 DEF Apart, Condemned
  <2> QED
    BY <2>2, <2>3, <2>4
<1> QED
  BY <1>2, <1>3, <1>5, <1>6, <1>8, <1>9, <1>10 DEF RefreshInv

(* A step of p that leaves the row, the provider and the administrator     *)
(* alone and takes no lock.                                                *)
LEMMA Quiet ==
    ASSUME RefreshInv, NEW p \in Procs, NEW r \in ProcType, proc' = [proc EXCEPT ![p] = r],
           UNCHANGED <<world, account, remote, admin, manual, lockLost>>,
           mutex' \in [Instances -> Procs \union {Nil}], cached' \in Tokens \union {Nil},
           faults' \in 0..MaxFaults, begun' \in [Requests -> Tokens], outdated' \in BOOLEAN,
           lock' = lock \/ (~r.holds /\ lock' = (lock /\ ~proc[p].holds)),
           \A q \in Requests \ {p} : begun'[q] = begun[q],
           Ordered => ~outdated',
           p \in Requests => ServedOk(r, begun[p])',
           r.acc.tok \in {proc[p].acc.tok, row.tok, First},
           r.pc = "refresh" => r.acc.tok \in due /\ row.ok /\ r.acc.tok = row.tok,
           r.pc \notin {"persist", "durable"},
           Condemned(r) => /\ r.acc.tok = proc[p].acc.tok
                           /\ Condemned(proc[p]) \/ (At(p, "refresh") /\ ~Accepted(r.acc.tok)),
           r.pc \in Critical => proc[p].pc \in Critical /\ r.holds = proc[p].holds,
           r.holds => proc[p].holds
    PROVE  RefreshInv'
<1>1. /\ proc[p] \in ProcType /\ proc[p].acc.tok \in Tokens /\ proc[p].holds \in BOOLEAN /\ row.tok \in Tokens
      /\ lock \in BOOLEAN /\ TokenOk(row.tok) /\ ProcOk(proc[p])
      /\ last \in [0..MaxGrant -> 0..MaxUse] /\ row \in Accounts /\ stamp \in Nat
  BY Facts DEF ProcType
<1>2. /\ UNCHANGED <<row, stamp, last, revoked, due, admin, manual, lockLost, platform, host>>
  BY DEF world, account, remote
<1>3. StepTypes /\ LastGrows
  <2>1. \A g \in 0..MaxGrant : last[g] \in Nat
    BY <1>1, TokenFacts, RefreshAssumption
  <2>2. lock' \in BOOLEAN /\ lockLost' \in BOOLEAN
    BY <1>1, <1>2 DEF RefreshInv, TypeOK, RefreshTypeOK
  <2> QED
    BY <1>1, <1>2, <2>1, <2>2 DEF StepTypes, LastGrows
<1>4. TokenOk(r.acc.tok)
  <2>1. TokenOk(First)
    <3>1. last[0] \in Nat /\ row.tok.g \in Nat /\ admin.tok.g \in Nat
      BY <1>1, TokenFacts, RefreshAssumption DEF RefreshInv, TypeOK, Tokens
    <3> QED
      BY <1>1, <3>1, FirstFacts DEF TokenOk
  <2> QED
    BY <1>1, <2>1 DEF ProcOk
<1>5. TokenOk(r.acc.tok)' /\ TokenOk(row.tok)'
  BY <1>1, <1>2, <1>4 DEF TokenOk
<1>6. Condemned(r) => ~Accepted(r.acc.tok)
  BY <1>1 DEF ProcOk
<1>7. ~lockLost => (r.pc \in Critical => r.holds) /\ (r.holds => lock')
  BY <1>1 DEF ProcOk
<1>8. ProcOk(r)'
  BY <1>2, <1>5, <1>6, <1>7 DEF ProcOk, Accepted
<1>9. ASSUME ~lockLost
      PROVE  /\ \A q \in Procs \ {p} : proc[q].holds => lock'
             /\ r.holds => \A q \in Procs \ {p} : ~proc[q].holds
  <2>1. \A q \in Procs \ {p} : ~(proc[p].holds /\ proc[q].holds)
    BY <1>9 DEF RefreshInv, Apart
  <2>2. \A q \in Procs \ {p} : proc[q].holds => lock
    BY <1>9, Facts DEF ProcOk
  <2> QED
    BY <1>1, <2>1, <2>2
<1>10. Calm' => Calm
  BY <1>2 DEF Calm
<1>11. ASSUME Calm
       PROVE  /\ CalmOk(r)
              /\ \A q \in Procs \ {p} : proc[q].acc.tok = r.acc.tok => ~(proc[q].pc = "persist" /\ Condemned(r))
  <2>1. CalmOk(proc[p]) /\ ~lockLost
    BY <1>11, Facts DEF Calm
  <2>2. CalmOk(r)
    BY <2>1 DEF CalmOk, At
  <2>3. ASSUME NEW q \in Procs \ {p}, proc[q].acc.tok = r.acc.tok, proc[q].pc = "persist", Condemned(r)
        PROVE  FALSE
    <3>1. Apart(proc[q], proc[p]) /\ ProcOk(proc[q])
      BY <2>3, Facts DEF RefreshInv
    <3>2. ~Condemned(proc[p])
      BY <1>11, <2>3, <3>1 DEF Apart
    <3>3. proc[p].pc \in Critical /\ proc[q].pc \in Critical
      BY <2>3, <3>2 DEF At, Critical
    <3> QED
      BY <1>1, <2>1, <3>1, <3>3 DEF ProcOk, Apart
  <2> QED
    BY <2>2, <2>3
<1>12. CalmOk(r) => CalmOk(r)'
  BY <1>2 DEF CalmOk
<1>13. Ordered => ~Older(row'.tok, row.tok)
  BY <1>1, <1>2, NotOlderThanItself
<1>14. ASSUME Calm'
       PROVE  /\ CalmOk(r)'
              /\ \/ row' = row
                 \/ \A q \in Procs \ {p} : proc[q].pc = "persist" => proc[q].acc.tok # row'.tok
              /\ platform = "claude" =>
                   \/ row'.tok = row.tok
                   \/ \A q \in Procs \ {p} : ~Condemned(proc[q]) /\ proc[q].pc \notin {"refresh", "persist"}
              /\ \A q \in Procs \ {p} : proc[q].acc.tok = r.acc.tok =>
                   /\ ~(r.pc = "persist" /\ Condemned(proc[q]))
                   /\ ~(proc[q].pc = "persist" /\ Condemned(r))
              /\ \/ row'.ok
                 \/ ~Accepted(row.tok)'
                 \/ row' = row /\ r.pc # "refresh"
  BY <1>2, <1>10, <1>11, <1>12, <1>14
<1>15. ~lockLost' => /\ \A q \in Procs \ {p} : proc[q].holds => lock'
                     /\ r.holds => \A q \in Procs \ {p} : ~proc[q].holds
  BY <1>2, <1>9
<1>16. UNCHANGED <<world, revoked, due, admin, manual>> /\ (lockLost => lockLost')
  BY <1>2
<1> QED
  BY <1>3, <1>5, <1>8, <1>13, <1>14, <1>15, <1>16, Assemble

(* The same for a step of the refresh, which serves no request. *)
LEMMA QuietRefresh ==
    ASSUME RefreshInv, NEW p \in Procs, NEW r \in ProcType, proc' = [proc EXCEPT ![p] = r],
           UNCHANGED <<world, account, remote, admin, manual, lockLost, begun, outdated>>,
           mutex' \in [Instances -> Procs \union {Nil}], cached' \in Tokens \union {Nil},
           faults' \in 0..MaxFaults,
           lock' = lock \/ (~r.holds /\ lock' = (lock /\ ~proc[p].holds)),
           \/ r.pc = "idle" /\ r.acc.tok = First
           \/ r.acc.tok \in {proc[p].acc.tok, row.tok} /\ (proc[p].pc # "idle" \/ p \notin Requests),
           r.pc = "refresh" => r.acc.tok \in due /\ row.ok /\ r.acc.tok = row.tok,
           r.pc \notin {"persist", "durable", "lookup"},
           Condemned(r) => /\ r.acc.tok = proc[p].acc.tok
                           /\ Condemned(proc[p]) \/ (At(p, "refresh") /\ ~Accepted(r.acc.tok)),
           r.pc \in Critical => proc[p].pc \in Critical /\ r.holds = proc[p].holds,
           r.holds => proc[p].holds
    PROVE  RefreshInv'
<1>1. begun' \in [Requests -> Tokens] /\ outdated' \in BOOLEAN /\ (Ordered => ~outdated')
  BY DEF RefreshInv, TypeOK, SharedOk
<1>2. ASSUME p \in Requests
      PROVE  ServedOk(r, begun[p])'
  <2>1. ServedOk(proc[p], begun[p]) /\ UNCHANGED <<begun, row, platform>>
    BY <1>2, Facts DEF world, account
  <2> QED
    BY <1>2, <2>1 DEF ServedOk, Ordered
<1>3. r.acc.tok \in {proc[p].acc.tok, row.tok, First} /\ r.pc \notin {"persist", "durable"}
  OBVIOUS
<1>4. UNCHANGED <<world, account, remote, admin, manual, lockLost>> /\ \A q \in Requests \ {p} : begun'[q] = begun[q]
  OBVIOUS
<1> QED
  BY <1>1, <1>2, <1>3, <1>4, Quiet

-----------------------------------------------------------------------------
(* What the ways to move a process do to its record. *)
LEMMA GotoFacts ==
    ASSUME RefreshInv, NEW p \in Procs, NEW l \in RefreshPcs \union ServicePcs \union RequestPcs, Goto(p, l)
    PROVE  \E r \in ProcType :
             /\ proc' = [proc EXCEPT ![p] = r]
             /\ r.pc = l /\ r.acc = proc[p].acc /\ r.got = proc[p].got /\ r.holds = proc[p].holds /\ r.res = proc[p].res
<1> DEFINE r == [proc[p] EXCEPT !.pc = l]
<1>1. /\ r \in ProcType /\ proc' = [proc EXCEPT ![p] = r]
      /\ r.pc = l /\ r.acc = proc[p].acc /\ r.got = proc[p].got /\ r.holds = proc[p].holds /\ r.res = proc[p].res
  BY Facts DEF ProcType, Goto
<1> QED
  BY <1>1

LEMMA ReturnFacts ==
    ASSUME RefreshInv, NEW p \in Procs, NEW x \in {"current", "invalid", "error", "held"}, Return(p, x)
    PROVE  \E r \in ProcType :
             /\ proc' = [proc EXCEPT ![p] = r]
             /\ r.pc = "release" /\ r.acc = proc[p].acc /\ r.got = proc[p].got /\ r.holds = proc[p].holds /\ r.res = x
<1> DEFINE r == [proc[p] EXCEPT !.pc = "release", !.res = x]
<1>1. /\ r \in ProcType /\ proc' = [proc EXCEPT ![p] = r]
      /\ r.pc = "release" /\ r.acc = proc[p].acc /\ r.got = proc[p].got /\ r.holds = proc[p].holds /\ r.res = x
  BY Facts DEF ProcType, Return, RefreshPcs
<1> QED
  BY <1>1

LEMMA IdleFacts ==
    /\ Idle \in ProcType /\ Idle.pc = "idle" /\ Idle.acc.tok = First /\ ~Idle.holds
    /\ Idle.pc \notin Critical /\ ~Condemned(Idle) /\ ~Entered(Idle)
BY FirstFacts DEF Idle, ProcType, RefreshPcs, Accounts, Critical, Condemned, Entered

LEMMA FaultFacts ==
    ASSUME RefreshInv, Fault \/ UNCHANGED faults
    PROVE  faults' \in 0..MaxFaults
BY RefreshAssumption DEF RefreshInv, TypeOK, RefreshTypeOK, Fault

(* A process that ends without touching row, provider and lock. *)
LEMMA DoneStep ==
    ASSUME RefreshInv, NEW p \in Procs, Done(p),
           UNCHANGED <<world, account, remote, lock, mutex, admin, manual, lockLost, begun, outdated>>,
           cached' \in Tokens \union {Nil}, faults' \in 0..MaxFaults
    PROVE  RefreshInv'
<1>1. mutex' \in [Instances -> Procs \union {Nil}]
  BY DEF RefreshInv, TypeOK, RefreshTypeOK
<1> QED
  BY <1>1, IdleFacts, QuietRefresh DEF Done

(* A refresh that goes to its release. *)
LEMMA ReturnStep ==
    ASSUME RefreshInv, NEW p \in Procs, NEW x \in {"current", "invalid", "error", "held"}, Return(p, x),
           proc[p].pc # "idle", x = "invalid" => Condemned(proc[p]),
           UNCHANGED <<world, account, remote, lock, mutex, admin, manual, lockLost, begun, outdated>>,
           cached' \in Tokens \union {Nil}, faults' \in 0..MaxFaults
    PROVE  RefreshInv'
<1>1. mutex' \in [Instances -> Procs \union {Nil}]
  BY DEF RefreshInv, TypeOK, RefreshTypeOK
<1>2. PICK r \in ProcType :
        /\ proc' = [proc EXCEPT ![p] = r]
        /\ r.pc = "release" /\ r.acc = proc[p].acc /\ r.got = proc[p].got /\ r.holds = proc[p].holds /\ r.res = x
  BY ReturnFacts
<1>3. r.pc \notin Critical /\ (Condemned(r) => Condemned(proc[p]))
  BY <1>2 DEF Critical, Condemned
<1> QED
  BY <1>1, <1>2, <1>3, QuietRefresh

(* A process that goes on to a step outside the lock, or is refused.       *)
LEMMA GotoStep ==
    ASSUME RefreshInv, NEW p \in Procs, NEW l \in {"lock", "recover", "invalidate", "mutex", "check", "fill"}, Goto(p, l),
           proc[p].pc # "idle",
           l = "recover" => At(p, "refresh") /\ ~Accepted(proc[p].acc.tok),
           UNCHANGED <<world, account, remote, lock, admin, manual, lockLost, begun, outdated>>,
           mutex' \in [Instances -> Procs \union {Nil}], cached' \in Tokens \union {Nil},
           faults' \in 0..MaxFaults
    PROVE  RefreshInv'
<1>1. l \in RefreshPcs \union ServicePcs \union RequestPcs
  BY DEF RefreshPcs, ServicePcs, RequestPcs, Critical
<1>2. PICK r \in ProcType :
        /\ proc' = [proc EXCEPT ![p] = r]
        /\ r.pc = l /\ r.acc = proc[p].acc /\ r.got = proc[p].got /\ r.holds = proc[p].holds /\ r.res = proc[p].res
  BY <1>1, GotoFacts
<1>3. (r.pc \in Critical => l = "recover") /\ (Condemned(r) => l = "recover") /\ r.pc \notin {"persist", "durable", "lookup", "refresh"}
  BY <1>2 DEF Critical, Condemned
<1>4. l = "recover" => proc[p].pc \in Critical
  BY DEF At, Critical
<1>5. r.acc.tok = proc[p].acc.tok
  BY <1>2
<1> QED
  BY <1>2, <1>3, <1>4, <1>5, QuietRefresh

-----------------------------------------------------------------------------
(* RefreshIfNeeded. *)

LEMMA LocalLockInd ==
    ASSUME RefreshInv, NEW p \in Procs, LocalLock(p), UNCHANGED Rest
    PROVE  RefreshInv'
<1>1. /\ proc[p].pc # "idle" /\ Goto(p, "lock")
      /\ UNCHANGED <<world, account, remote, lock, admin, manual, lockLost, begun, outdated, cached, faults>>
  BY DEF LocalLock, At, Rest
<1>2. /\ mutex' \in [Instances -> Procs \union {Nil}] /\ cached' \in Tokens \union {Nil}
      /\ faults' \in 0..MaxFaults
  BY <1>1, Facts DEF LocalLock, RefreshInv, TypeOK, RefreshTypeOK
<1> QED
  BY <1>1, <1>2, GotoStep

(* The lock is set by nobody else, or is given up. *)
LEMMA AcquireInd ==
    ASSUME RefreshInv, NEW p \in Procs, AcquireRefreshLock(p), UNCHANGED Rest
    PROVE  RefreshInv'
<1>1. /\ proc[p].pc = "lock" /\ UNCHANGED <<row, stamp, last, revoked, due, mutex, admin, manual, begun, outdated, cached>>
      /\ UNCHANGED world
  BY DEF AcquireRefreshLock, At, Rest, account, remote
<1>2. /\ proc[p] \in ProcType /\ proc[p].acc.tok \in Tokens /\ row.tok \in Tokens /\ ProcOk(proc[p])
      /\ TokenOk(row.tok) /\ (Calm => CalmOk(proc[p]))
      /\ cached' \in Tokens \union {Nil} /\ mutex' \in [Instances -> Procs \union {Nil}]
      /\ faults \in 0..MaxFaults /\ faults' \in 0..MaxFaults /\ lock \in BOOLEAN /\ lockLost \in BOOLEAN
  BY <1>1, Facts, FaultFacts DEF AcquireRefreshLock, RefreshInv, TypeOK, RefreshTypeOK
<1>3. CASE lock /\ Return(p, "held") /\ UNCHANGED <<lock, faults, lockLost>>
  BY <1>1, <1>2, <1>3, ReturnStep DEF account, remote
<1>4. CASE \/ /\ ~lock /\ lock' = TRUE
              /\ proc' = [proc EXCEPT ![p].pc = "reread", ![p].holds = TRUE]
              /\ UNCHANGED <<faults, lockLost>>
           \/ Goto(p, "reread") /\ Fault /\ lockLost' = TRUE /\ UNCHANGED lock
  <2>1. \E r \in ProcType : /\ proc' = [proc EXCEPT ![p] = r]
                            /\ r.pc = "reread" /\ r.acc = proc[p].acc
                            /\ ~lockLost' => ~lock /\ lock' /\ r.holds
    <3>1. CASE Goto(p, "reread") /\ lockLost' = TRUE
      <4>1. "reread" \in RefreshPcs \union ServicePcs \union RequestPcs
        BY DEF RefreshPcs, Critical
      <4> QED
        BY <3>1, <4>1, GotoFacts
    <3>2. CASE ~lock /\ lock' = TRUE /\ proc' = [proc EXCEPT ![p].pc = "reread", ![p].holds = TRUE]
      <4> DEFINE r == [proc[p] EXCEPT !.pc = "reread", !.holds = TRUE]
      <4>1. r \in ProcType /\ r.pc = "reread" /\ r.acc = proc[p].acc /\ r.holds
        BY <1>2 DEF ProcType, RefreshPcs, Critical
      <4>2. proc' = [proc EXCEPT ![p] = r]
        BY <3>2
      <4> QED
        BY <3>2, <4>1, <4>2
    <3> QED
      BY <1>4, <3>1, <3>2
  <2>2. PICK r \in ProcType : /\ proc' = [proc EXCEPT ![p] = r]
                              /\ r.pc = "reread" /\ r.acc = proc[p].acc
                              /\ ~lockLost' => ~lock /\ lock' /\ r.holds
    BY <2>1
  <2>3. lock' \in BOOLEAN /\ lockLost' \in BOOLEAN /\ (lockLost => lockLost')
    BY <1>2, <1>4
  <2>4. StepTypes /\ LastGrows
    <3>1. \A g \in 0..MaxGrant : last[g] \in Nat
      BY RefreshAssumption DEF RefreshInv, TypeOK, RefreshTypeOK
    <3>2. /\ row \in Accounts /\ stamp \in Nat /\ last \in [0..MaxGrant -> 0..MaxUse]
          /\ begun \in [Requests -> Tokens] /\ outdated \in BOOLEAN
      BY Facts DEF RefreshInv, TypeOK
    <3> QED
      BY <1>1, <1>2, <2>3, <3>1, <3>2 DEF StepTypes, LastGrows
  <2>5. ~Condemned(r) /\ r.pc \in Critical /\ r.pc \notin {"refresh", "persist", "durable", "lookup", "idle"}
    BY <2>2 DEF Condemned, Critical
  <2>6. TokenOk(row.tok)' /\ TokenOk(r.acc.tok)'
    BY <1>1, <1>2, <2>2 DEF TokenOk, ProcOk
  <2>7. ProcOk(r)' /\ CalmOk(r)'
    BY <2>2, <2>5, <2>6 DEF ProcOk, CalmOk
  <2>8. ASSUME ~lockLost'
        PROVE  /\ \A q \in Procs \ {p} : proc[q].holds => lock'
               /\ r.holds => \A q \in Procs \ {p} : ~proc[q].holds
    <3>1. ~lock /\ lock' /\ ~lockLost
      BY <2>2, <2>3, <2>8
    <3> QED
      BY <3>1, Facts DEF ProcOk
  <2>9. p \in Requests => ServedOk(r, begun[p])'
    <3>1. p \in Requests => ServedOk(proc[p], begun[p])
      BY Facts
    <3> QED
      BY <1>1, <2>2, <3>1 DEF ServedOk, Ordered, world
  <2>10. Ordered => ~outdated' /\ ~Older(row'.tok, row.tok)
    BY <1>1, <1>2, NotOlderThanItself DEF RefreshInv, SharedOk
  <2> QED
    BY <1>1, <2>2, <2>3, <2>4, <2>5, <2>6, <2>7, <2>8, <2>9, <2>10, Assemble
<1> QED
  BY <1>3, <1>4 DEF AcquireRefreshLock

(* The row is read under the lock; it is refreshed only while it is        *)
(* active.                                                                 *)
LEMMA RereadInd ==
    ASSUME RefreshInv, NEW p \in Procs, Reread(p), UNCHANGED Rest
    PROVE  RefreshInv'
<1>1. /\ proc[p].pc = "reread" /\ UNCHANGED <<world, account, remote, lock, mutex, admin, manual, lockLost, begun, outdated, cached>>
  BY DEF Reread, At, Rest, locks
<1>2. /\ cached' \in Tokens \union {Nil} /\ mutex' \in [Instances -> Procs \union {Nil}]
      /\ faults' \in 0..MaxFaults /\ proc[p] \in ProcType /\ row \in Accounts
  BY <1>1, Facts, FaultFacts DEF Reread, RefreshInv, TypeOK, RefreshTypeOK
<1>3. CASE Return(p, "error") /\ Fault
  BY <1>1, <1>2, <1>3, ReturnStep
<1>4. CASE ~(Return(p, "error") /\ Fault)
  <2>1. PICK l \in {"refresh", "release"}, x \in {"error", "current"} :
          /\ proc' = [proc EXCEPT ![p].acc = row, ![p].pc = l, ![p].res = x]
          /\ l = "refresh" => row.ok /\ row.tok \in due
    BY <1>4 DEF Reread
  <2>2. PICK r \in ProcType : r = [proc[p] EXCEPT !.acc = row, !.pc = l, !.res = x]
    BY <1>2 DEF ProcType, RefreshPcs, Critical
  <2>3. r.pc = l /\ r.acc = row /\ r.res = x /\ r.holds = proc[p].holds
    BY <1>2, <2>2 DEF ProcType
  <2>4. proc' = [proc EXCEPT ![p] = r]
    BY <2>1, <2>2
  <2>5. ~Condemned(r) /\ r.pc \notin {"persist", "durable", "lookup"} /\ proc[p].pc \in Critical
    BY <1>1, <2>3 DEF Condemned, Critical
  <2>6. /\ r.acc.tok = row.tok /\ proc[p].pc # "idle"
        /\ r.pc = "refresh" => r.acc.tok \in due /\ row.ok /\ r.acc.tok = row.tok
    BY <1>1, <2>1, <2>3
  <2> QED
    BY <1>1, <1>2, <2>3, <2>4, <2>5, <2>6, QuietRefresh
<1> QED
  BY <1>3, <1>4

(* No other process refreshes, so the row has changed by an administrator  *)
(* or not at all.                                                          *)
LEMMA RecoverInd ==
    ASSUME RefreshInv, NEW p \in Procs, RecoverFromRace(p), UNCHANGED Rest
    PROVE  RefreshInv'
<1>1. /\ proc[p].pc = "recover" /\ Condemned(proc[p])
      /\ UNCHANGED <<world, account, remote, lock, mutex, admin, manual, lockLost, begun, outdated, cached>>
  BY DEF RecoverFromRace, At, Rest, locks, Condemned
<1>2. /\ cached' \in Tokens \union {Nil} /\ mutex' \in [Instances -> Procs \union {Nil}]
      /\ faults' \in 0..MaxFaults /\ proc[p] \in ProcType /\ row \in Accounts
  BY <1>1, Facts, FaultFacts DEF RecoverFromRace, RefreshInv, TypeOK, RefreshTypeOK
<1>3. CASE Return(p, "invalid")
  BY <1>1, <1>2, <1>3, ReturnStep
<1>4. CASE proc' = [proc EXCEPT ![p].pc = "release", ![p].res = "current", ![p].acc = row]
  <2>1. PICK r \in ProcType : r = [proc[p] EXCEPT !.pc = "release", !.res = "current", !.acc = row]
    BY <1>2 DEF ProcType, RefreshPcs
  <2>2. r.pc = "release" /\ r.acc = row /\ r.res = "current" /\ r.holds = proc[p].holds
    BY <1>2, <2>1 DEF ProcType
  <2>3. proc' = [proc EXCEPT ![p] = r]
    BY <1>4, <2>1
  <2>4. ~Condemned(r) /\ r.pc \notin Critical
    BY <2>2 DEF Condemned, Critical
  <2> QED
    BY <1>1, <1>2, <2>2, <2>3, <2>4, QuietRefresh
<1> QED
  BY <1>3, <1>4 DEF RecoverFromRace

(* The row after a write, and a context that ends. *)
LEMMA LoadInd ==
    ASSUME RefreshInv, NEW p \in Procs, LoadDurable(p) \/ TimeOut(p), UNCHANGED Rest
    PROVE  RefreshInv'
<1>1. /\ proc[p].pc # "idle"
      /\ UNCHANGED <<world, account, remote, lock, mutex, admin, manual, lockLost, begun, outdated>>
  BY DEF LoadDurable, TimeOut, At, Rest, locks
<1>2. /\ cached' \in Tokens \union {Nil} /\ mutex' \in [Instances -> Procs \union {Nil}]
      /\ faults' \in 0..MaxFaults /\ proc[p] \in ProcType /\ row \in Accounts
  BY <1>1, Facts, FaultFacts DEF LoadDurable, TimeOut, RefreshInv, TypeOK, RefreshTypeOK
<1>3. CASE Return(p, "error")
  BY <1>1, <1>2, <1>3, ReturnStep
<1>4. CASE LoadDurable(p) /\ proc' = [proc EXCEPT ![p].pc = "release", ![p].acc = row]
  <2>1. PICK r \in ProcType : r = [proc[p] EXCEPT !.pc = "release", !.acc = row]
    BY <1>2 DEF ProcType, RefreshPcs
  <2>2. r.pc = "release" /\ r.acc = row /\ r.res = proc[p].res /\ r.holds = proc[p].holds
    BY <1>2, <2>1 DEF ProcType
  <2>3. proc' = [proc EXCEPT ![p] = r]
    BY <1>4, <2>1
  <2>4. r.pc \notin Critical /\ (Condemned(r) => r.res = "invalid")
    BY <2>2 DEF Condemned, Critical
  <2>5. proc[p].res # "invalid"
    BY <1>4, Facts DEF ProcOk, LoadDurable, At
  <2> QED
    BY <1>1, <1>2, <2>2, <2>3, <2>4, <2>5, QuietRefresh
<1> QED
  BY <1>3, <1>4 DEF LoadDurable, TimeOut

(* The lock is deleted and the mutex unlocked; the caller goes on. *)
LEMMA ReleaseInd ==
    ASSUME RefreshInv, NEW p \in Procs, Release(p), UNCHANGED Rest
    PROVE  RefreshInv'
<1>1. /\ proc[p].pc = "release" /\ UNCHANGED <<world, account, remote, admin, manual, lockLost, begun, outdated, cached>>
      /\ lock' = lock \/ lock' = (lock /\ ~proc[p].holds)
  BY DEF Release, At, Rest
<1>2. /\ cached' \in Tokens \union {Nil} /\ mutex' \in [Instances -> Procs \union {Nil}]
      /\ faults' \in 0..MaxFaults /\ proc[p] \in ProcType
  BY <1>1, Facts, FaultFacts DEF Release, RefreshInv, TypeOK, RefreshTypeOK
<1>3. PICK l \in {"idle", "invalidate", "setError", "check", "wait"} :
        l = After(p) /\ (l = "setError" => proc[p].res = "invalid")
  <2>1. p \in Refreshers \/ p \in Requests
    BY DEF Procs
  <2>2. CASE p \in Refreshers
    BY <2>2 DEF After
  <2>3. CASE p \in Requests /\ p \notin Refreshers
    BY <2>3 DEF After
  <2> QED
    BY <2>1, <2>2, <2>3
<1>4. PICK r \in ProcType :
        r = [Idle EXCEPT !.pc = l, !.acc = IF l = "idle" THEN Idle.acc ELSE proc[p].acc]
  <2>1. l \in RefreshPcs \union ServicePcs \union RequestPcs
    BY DEF RefreshPcs, ServicePcs, RequestPcs
  <2> QED
    BY <1>2, <2>1, IdleFacts DEF ProcType
<1>5. /\ r.pc = l /\ r.res = "none" /\ ~r.holds /\ r.acc = IF l = "idle" THEN Idle.acc ELSE proc[p].acc
  BY <1>4 DEF Idle
<1>6. proc' = [proc EXCEPT ![p] = r]
  BY <1>3, <1>4 DEF Release
<1>7. /\ r.pc \notin Critical /\ r.pc \notin {"persist", "durable", "lookup", "refresh"}
      /\ Condemned(r) => r.acc = proc[p].acc /\ Condemned(proc[p])
  BY <1>1, <1>3, <1>5 DEF Critical, Condemned
<1>8. \/ r.pc = "idle" /\ r.acc.tok = First
      \/ r.acc.tok \in {proc[p].acc.tok, row.tok} /\ (proc[p].pc # "idle" \/ p \notin Requests)
  BY <1>1, <1>5, IdleFacts
<1> QED
  BY <1>1, <1>2, <1>5, <1>6, <1>7, <1>8, QuietRefresh

(* The provider rotates the token that p holds. *)
LEMMA RotateInd ==
    ASSUME RefreshInv, NEW p \in Procs, At(p, "refresh"), NEW r \in ProcType, proc' = [proc EXCEPT ![p] = r],
           Accepted(proc[p].acc.tok), last' = [last EXCEPT ![proc[p].acc.tok.g] = @ + 1],
           r.acc = proc[p].acc, r.holds = proc[p].holds,
           \/ r.pc = "persist" /\ r.got = [proc[p].acc.tok EXCEPT !.n = @ + 1]
           \/ r.pc = "release" /\ r.res = "error",
           faults' \in 0..MaxFaults, UNCHANGED <<world, account, revoked, due, locks, cached, lockLost, admin, manual, begun, outdated>>
    PROVE  RefreshInv'
<1>1. PICK t \in Tokens : t = proc[p].acc.tok
  BY Facts
<1>2. /\ proc[p] \in ProcType /\ row \in Accounts /\ row.tok \in Tokens /\ stamp \in Nat
      /\ last \in [0..MaxGrant -> 0..MaxUse] /\ lock \in BOOLEAN
      /\ TokenOk(row.tok) /\ ProcOk(proc[p]) /\ (Calm => CalmOk(proc[p]) /\ DisabledOk)
      /\ UNCHANGED <<row, stamp, lock, mutex, platform, host>>
  BY Facts DEF account, locks, world
<1>3. /\ t.g \in 0..MaxGrant /\ t.n \in Nat /\ t.n < MaxUse /\ last[t.g] = t.n /\ MaxUse \in Nat
      /\ last' = [last EXCEPT ![t.g] = @ + 1]
  BY <1>1, <1>2, TokenFacts DEF RefreshInv, SharedOk, ProcOk, At, Accepted
<1>4. last' \in [0..MaxGrant -> 0..MaxUse] /\ last'[t.g] = t.n + 1 /\ LastGrows
  <2>1. t.n + 1 \in 0..MaxUse
    BY <1>3
  <2>2. \A g \in 0..MaxGrant : last[g] \in Nat /\ last'[g] = IF g = t.g THEN t.n + 1 ELSE last[g]
    BY <1>2, <1>3, RefreshAssumption
  <2>3. last' \in [0..MaxGrant -> 0..MaxUse] /\ last'[t.g] = t.n + 1
    <3>1. last \in [0..MaxGrant -> 0..MaxUse] /\ t.g \in 0..MaxGrant
      BY <1>2, <1>3
    <3>2. last' = [last EXCEPT ![t.g] = t.n + 1]
      BY <1>3
    <3> QED
      BY <2>1, <3>1, <3>2
  <2>4. ASSUME NEW g \in 0..MaxGrant
        PROVE  last[g] <= last'[g]
    BY <1>3, <2>2
  <2> QED
    BY <2>3, <2>4 DEF LastGrows
<1>5. StepTypes
  BY <1>2, <1>4 DEF StepTypes, RefreshInv, TypeOK, RefreshTypeOK
<1>6. \A s \in Tokens : TokenOk(s) => TokenOk(s)'
  <2> SUFFICES ASSUME NEW s \in Tokens, TokenOk(s)
               PROVE  TokenOk(s)'
    OBVIOUS
  <2>1. last[s.g] \in Nat /\ last'[s.g] \in Nat /\ last[s.g] <= last'[s.g] /\ s.n \in Nat
    <3>1. s.g \in 0..MaxGrant /\ s.n \in Nat /\ MaxUse \in Nat
      BY TokenFacts
    <3>2. last[s.g] \in 0..MaxUse /\ last'[s.g] \in 0..MaxUse
      <4>1. last \in [0..MaxGrant -> 0..MaxUse] /\ last' \in [0..MaxGrant -> 0..MaxUse]
        BY <1>2, <1>4
      <4> QED
        BY <3>1, <4>1
    <3>3. LastGrows
      BY <1>4
    <3>4. last[s.g] <= last'[s.g]
      BY <3>1, <3>3 DEF LastGrows
    <3> QED
      BY <3>1, <3>2, <3>4
  <2> QED
    BY <2>1 DEF TokenOk
<1>7. TokenOk(row.tok)' /\ TokenOk(r.acc.tok)'
  BY <1>1, <1>2, <1>6 DEF ProcOk
<1>8. r.pc = "persist" => r.got.g = r.acc.tok.g /\ r.got.n = r.acc.tok.n + 1 /\ r.got.n <= last'[r.got.g]
  BY <1>1, <1>3, <1>4 DEF Tokens
<1>9. ~Condemned(r) /\ r.pc \notin {"refresh", "durable", "lookup"} /\ proc[p].pc \in Critical
  BY DEF Condemned, At, Critical
<1>10. ProcOk(r)'
  BY <1>2, <1>7, <1>8, <1>9 DEF ProcOk
<1>11. ASSUME Calm
       PROVE  /\ row.tok = t => row.ok
              /\ platform = "claude" => row.tok = t
  <2>1. platform = "claude" => row.tok = t
    BY <1>1, <1>2, <1>11 DEF CalmOk, At
  <2>2. row.tok = t => row.ok
    BY <1>1, <1>2, <1>11 DEF DisabledOk
  <2> QED
    BY <2>1, <2>2
<1>12. Calm' => Calm
  BY <1>2 DEF Calm
<1>13. Calm' => CalmOk(r)'
  BY <1>1, <1>2, <1>9, <1>11, <1>12 DEF CalmOk
<1>14. \A q \in Procs \ {p} : proc[q].acc.tok = r.acc.tok => ~Condemned(proc[q])
  BY Facts DEF ProcOk
<1>15. ~lockLost => /\ \A q \in Procs \ {p} : proc[q].holds => lock
                    /\ r.holds => \A q \in Procs \ {p} : ~proc[q].holds
  BY Facts DEF ProcOk, RefreshInv, Apart
<1>16. p \in Requests => ServedOk(r, begun[p])'
  <2>1. p \in Requests => ServedOk(proc[p], begun[p])
    BY Facts
  <2> QED
    BY <1>2, <1>9, <2>1 DEF ServedOk, Ordered, At
<1>17. Ordered => ~outdated' /\ ~Older(row'.tok, row.tok)
  BY <1>2, NotOlderThanItself DEF RefreshInv, SharedOk
<1>18. \A q \in Requests \ {p} : begun'[q] = begun[q]
  OBVIOUS
<1>19. row' = row /\ r.pc # "refresh" /\ row'.tok = row.tok /\ lock' = lock /\ lockLost' = lockLost
  BY <1>2, <1>9
<1>20. ASSUME Calm'
       PROVE  /\ CalmOk(r)'
              /\ \/ row' = row
                 \/ \A q \in Procs \ {p} : proc[q].pc = "persist" => proc[q].acc.tok # row'.tok
              /\ platform = "claude" =>
                   \/ row'.tok = row.tok
                   \/ \A q \in Procs \ {p} : ~Condemned(proc[q]) /\ proc[q].pc \notin {"refresh", "persist"}
              /\ \A q \in Procs \ {p} : proc[q].acc.tok = r.acc.tok =>
                   /\ ~(r.pc = "persist" /\ Condemned(proc[q]))
                   /\ ~(proc[q].pc = "persist" /\ Condemned(r))
              /\ \/ row'.ok
                 \/ ~Accepted(row.tok)'
                 \/ row' = row /\ r.pc # "refresh"
  BY <1>9, <1>13, <1>14, <1>19, <1>20
<1>21. ~lockLost' => /\ \A q \in Procs \ {p} : proc[q].holds => lock'
                     /\ r.holds => \A q \in Procs \ {p} : ~proc[q].holds
  BY <1>15, <1>19
<1>22. UNCHANGED <<world, revoked, due, admin, manual>> /\ (lockLost => lockLost')
  OBVIOUS
<1> QED
  BY <1>4, <1>5, <1>7, <1>10, <1>16, <1>17, <1>18, <1>20, <1>21, <1>22, Assemble

(* executor.Refresh *)
LEMMA RefreshInd ==
    ASSUME RefreshInv, NEW p \in Procs, Refresh(p), UNCHANGED Rest
    PROVE  RefreshInv'
<1>1. /\ At(p, "refresh") /\ proc[p].pc # "idle"
      /\ UNCHANGED <<world, account, revoked, due, locks, lock, mutex, cached, lockLost, admin, manual, begun, outdated>>
  BY DEF Refresh, At, Rest, locks
<1>2. /\ cached' \in Tokens \union {Nil} /\ mutex' \in [Instances -> Procs \union {Nil}]
      /\ faults' \in 0..MaxFaults /\ proc[p] \in ProcType /\ proc[p].acc.tok \in Tokens /\ ProcOk(proc[p])
  BY <1>1, Facts, FaultFacts DEF Refresh, RefreshInv, TypeOK, RefreshTypeOK
<1>3. CASE /\ Accepted(proc[p].acc.tok) /\ last' = [last EXCEPT ![proc[p].acc.tok.g] = @ + 1]
           /\ \/ Return(p, "error")
              \/ proc' = [proc EXCEPT ![p].pc = "persist", ![p].got = [proc[p].acc.tok EXCEPT !.n = @ + 1]]
  <2>1. CASE Return(p, "error")
    <3>1. PICK r \in ProcType :
            /\ proc' = [proc EXCEPT ![p] = r]
            /\ r.pc = "release" /\ r.acc = proc[p].acc /\ r.got = proc[p].got /\ r.holds = proc[p].holds /\ r.res = "error"
      BY <2>1, ReturnFacts
    <3> QED
      BY <1>1, <1>2, <1>3, <3>1, RotateInd
  <2>2. CASE proc' = [proc EXCEPT ![p].pc = "persist", ![p].got = [proc[p].acc.tok EXCEPT !.n = @ + 1]]
    <3>1. proc[p].acc.tok.n < MaxUse /\ proc[p].acc.tok.n \in Nat /\ MaxUse \in Nat
      BY <1>1, <1>2, TokenFacts DEF RefreshInv, SharedOk, ProcOk, At
    <3>2. [proc[p].acc.tok EXCEPT !.n = @ + 1] \in Tokens
      BY <1>2, <3>1 DEF Tokens
    <3>3. PICK r \in ProcType : r = [proc[p] EXCEPT !.pc = "persist", !.got = [proc[p].acc.tok EXCEPT !.n = @ + 1]]
      BY <1>2, <3>2 DEF ProcType, RefreshPcs, Critical
    <3>4. /\ r.pc = "persist" /\ r.acc = proc[p].acc /\ r.holds = proc[p].holds
          /\ r.got = [proc[p].acc.tok EXCEPT !.n = @ + 1]
      BY <1>2, <3>3 DEF ProcType
    <3>5. proc' = [proc EXCEPT ![p] = r]
      BY <2>2, <3>3
    <3> QED
      BY <1>1, <1>2, <1>3, <3>4, <3>5, RotateInd
  <2> QED
    BY <1>3, <2>1, <2>2
<1>4. CASE ~Accepted(proc[p].acc.tok) /\ Goto(p, "recover") /\ UNCHANGED <<last, faults>>
  BY <1>1, <1>2, <1>4, GotoStep DEF remote
<1>5. CASE Return(p, "error") /\ Fault /\ UNCHANGED last
  BY <1>1, <1>2, <1>5, ReturnStep DEF remote
<1> QED
  BY <1>3, <1>4, <1>5 DEF Refresh

(* The write of new credentials: the account is active, nobody else is     *)
(* about to write it, and nobody is about to disable it for the token that *)
(* was refreshed.                                                          *)
LEMMA WriteInd ==
    ASSUME RefreshInv, NEW p \in Procs, At(p, "persist"), NEW r \in ProcType, proc' = [proc EXCEPT ![p] = r],
           platform = "claude" \/ SameCredentials(row, proc[p].acc),
           row' = Renewed(p), stamp' = stamp + 1,
           r.holds = proc[p].holds,
           \/ r.pc \in {"durable", "release"} /\ r.res = "refreshed" /\ r.acc.tok = row'.tok
           \/ r.pc = "release" /\ r.res = "error" /\ r.acc = proc[p].acc,
           faults' \in 0..MaxFaults, UNCHANGED <<world, remote, locks, cached, lockLost, admin, manual, begun, outdated>>
    PROVE  RefreshInv'
<1>1. PICK t \in Tokens, u \in Tokens : t = proc[p].acc.tok /\ u = proc[p].got
  BY Facts
<1>2. /\ proc[p] \in ProcType /\ row \in Accounts /\ row.tok \in Tokens /\ stamp \in Nat
      /\ last \in [0..MaxGrant -> 0..MaxUse] /\ lock \in BOOLEAN
      /\ TokenOk(row.tok) /\ ProcOk(proc[p]) /\ (Calm => CalmOk(proc[p]) /\ DisabledOk)
      /\ UNCHANGED <<last, revoked, due, lock, mutex, platform, host>>
  BY Facts DEF remote, locks, world
<1>3. /\ u.g = t.g /\ u.n = t.n + 1 /\ TokenOk(t) /\ u.n <= last[u.g]
      /\ t.n \in Nat /\ t.g \in Nat /\ u.n \in Nat /\ u.g \in Nat
  BY <1>1, <1>2, TokenFacts DEF ProcOk, At
<1>4. row' \in Accounts /\ row'.tok = u /\ row'.ok = row.ok
  <2>1. row' = [row EXCEPT !.tok = u, !.ver = stamp + 1]
    BY <1>1 DEF Renewed
  <2>2. PICK v \in Nat : v = stamp + 1
    BY <1>2
  <2>3. row' = [row EXCEPT !.tok = u, !.ver = v]
    BY <2>1, <2>2
  <2>4. row' \in Accounts /\ row'.tok = u
    BY <1>2, <2>3 DEF Accounts
  <2>5. row'.ok = row.ok
    BY <1>2, <2>3 DEF Accounts
  <2> QED
    BY <2>4, <2>5
<1>5. StepTypes /\ LastGrows
  <2>1. \A g \in 0..MaxGrant : last[g] \in Nat /\ last'[g] = last[g]
    BY <1>2, RefreshAssumption
  <2> QED
    BY <1>2, <1>4, <2>1 DEF StepTypes, LastGrows, RefreshInv, TypeOK, RefreshTypeOK
<1>6. TokenOk(u)
  BY <1>3 DEF TokenOk
<1>7. TokenOk(row.tok)' /\ TokenOk(r.acc.tok)'
  BY <1>1, <1>2, <1>3, <1>4, <1>6 DEF TokenOk
<1>8. ~Condemned(r) /\ r.pc \notin {"refresh", "persist", "lookup", "idle"} /\ proc[p].pc \in Critical
  BY DEF Condemned, At, Critical
<1>9. ProcOk(r)'
  BY <1>2, <1>7, <1>8 DEF ProcOk
<1>10. CalmOk(r)'
  BY <1>8 DEF CalmOk
<1>11. Calm' => Calm
  BY <1>2 DEF Calm
<1>12. ~lockLost => proc[p].holds /\ \A q \in Procs \ {p} : ~proc[q].holds /\ proc[q].pc \notin Critical
  <2> SUFFICES ASSUME ~lockLost
               PROVE  proc[p].holds /\ \A q \in Procs \ {p} : ~proc[q].holds /\ proc[q].pc \notin Critical
    OBVIOUS
  <2>1. proc[p].holds
    BY <1>2, <1>8 DEF ProcOk
  <2>2. \A q \in Procs \ {p} : ~proc[q].holds
    BY <2>1 DEF RefreshInv, Apart
  <2>3. \A q \in Procs \ {p} : proc[q].pc \notin Critical
    BY <2>2, Facts DEF ProcOk
  <2> QED
    BY <2>1, <2>2, <2>3
<1>13. ASSUME Calm
       PROVE  row.ok /\ row.tok = t
  <2>1. CalmOk(proc[p])
    BY <1>2, <1>13
  <2>2. row.tok = t
    <3>1. CASE platform = "claude"
      BY <1>1, <2>1, <3>1 DEF CalmOk, At
    <3>2. CASE SameCredentials(row, proc[p].acc)
      BY <1>1, <3>2 DEF SameCredentials
    <3> QED
      BY <3>1, <3>2
  <2> QED
    BY <1>1, <2>1, <2>2 DEF CalmOk, At
<1>14. ASSUME Calm'
       PROVE  /\ CalmOk(r)'
              /\ \/ row' = row
                 \/ \A q \in Procs \ {p} : proc[q].pc = "persist" => proc[q].acc.tok # row'.tok
              /\ platform = "claude" =>
                   \/ row'.tok = row.tok
                   \/ \A q \in Procs \ {p} : ~Condemned(proc[q]) /\ proc[q].pc \notin {"refresh", "persist"}
              /\ \A q \in Procs \ {p} : proc[q].acc.tok = r.acc.tok =>
                   /\ ~(r.pc = "persist" /\ Condemned(proc[q]))
                   /\ ~(proc[q].pc = "persist" /\ Condemned(r))
              /\ \/ row'.ok
                 \/ ~Accepted(row.tok)'
                 \/ row' = row /\ r.pc # "refresh"
  <2>1. Calm /\ ~lockLost
    BY <1>11, <1>14 DEF Calm
  <2>2. \A q \in Procs \ {p} : proc[q].pc \notin {"refresh", "persist"}
    BY <1>12, <2>1 DEF Critical
  <2>3. ASSUME platform = "claude", NEW q \in Procs \ {p}, Condemned(proc[q])
        PROVE  FALSE
    <3>1. proc[q].acc.tok = row.tok
      BY <2>1, <2>3, Facts DEF CalmOk
    <3>2. Apart(proc[p], proc[q])
      BY DEF RefreshInv
    <3> QED
      BY <1>1, <1>13, <2>1, <2>3, <3>1, <3>2 DEF Apart, At
  <2> QED
    BY <1>4, <1>8, <1>10, <1>13, <2>1, <2>2, <2>3
<1>15. ~lockLost' => /\ \A q \in Procs \ {p} : proc[q].holds => lock'
                     /\ r.holds => \A q \in Procs \ {p} : ~proc[q].holds
  BY <1>12
<1>16. ASSUME Ordered
       PROVE  ~outdated' /\ ~Older(row'.tok, row.tok)
  <2>1. row.tok = t
    BY <1>1, <1>16 DEF SameCredentials, Ordered
  <2>2. ~Older(u, t)
    BY <1>3 DEF Older
  <2> QED
    BY <1>4, <1>16, <2>1, <2>2 DEF RefreshInv, SharedOk
<1>17. ASSUME p \in Requests
       PROVE  ServedOk(r, begun[p])'
  <2>1. ServedOk(proc[p], begun[p]) /\ begun[p] \in Tokens
    BY <1>17, Facts
  <2>2. ~Older(t, begun[p]) => ~Older(u, begun[p])
    <3>1. ~Older(u, t)
      BY <1>3 DEF Older
    <3> QED
      BY <2>1, <3>1, OlderChain
  <2> QED
    BY <1>1, <1>2, <1>4, <1>8, <2>1, <2>2 DEF ServedOk, Ordered, At
<1>18. UNCHANGED <<world, revoked, due, admin, manual>> /\ (lockLost => lockLost') /\ \A q \in Requests \ {p} : begun'[q] = begun[q]
  BY <1>2
<1> QED
  BY <1>5, <1>7, <1>9, <1>14, <1>15, <1>16, <1>17, <1>18, Assemble

(* UpdateGrokOAuthCredentialsIfUnchanged, or persistAccountCredentials *)
LEMMA PersistInd ==
    ASSUME RefreshInv, NEW p \in Procs, Persist(p), UNCHANGED Rest
    PROVE  RefreshInv'
<1>1. /\ At(p, "persist") /\ proc[p].pc = "persist"
      /\ UNCHANGED <<world, remote, locks, lock, mutex, cached, lockLost, admin, manual, begun, outdated>>
  BY DEF Persist, At, Rest, locks
<1>2. /\ cached' \in Tokens \union {Nil} /\ mutex' \in [Instances -> Procs \union {Nil}]
      /\ faults' \in 0..MaxFaults /\ proc[p] \in ProcType /\ proc[p].got \in Tokens /\ row \in Accounts /\ stamp \in Nat
  BY <1>1, Facts, FaultFacts DEF Persist, RefreshInv, TypeOK, RefreshTypeOK
<1>3. CASE /\ platform = "claude" \/ SameCredentials(row, proc[p].acc)
           /\ row' = Renewed(p) /\ stamp' = stamp + 1
           /\ proc' = [proc EXCEPT ![p].pc = IF platform = "grok" THEN "durable" ELSE "release",
                                   ![p].res = "refreshed", ![p].acc = [row' EXCEPT !.ok = proc[p].acc.ok]]
  <2>1. PICK a \in Accounts : a = [row' EXCEPT !.ok = proc[p].acc.ok] /\ a.tok = row'.tok
    <3>1. PICK v \in Nat, u \in Tokens, o \in BOOLEAN : v = stamp + 1 /\ u = proc[p].got /\ o = proc[p].acc.ok
      <4>1. stamp + 1 \in Nat /\ proc[p].got \in Tokens
        BY <1>2
      <4>2. proc[p].acc.ok \in BOOLEAN
        BY Facts DEF Accounts
      <4> QED
        BY <4>1, <4>2
    <3>2. row' = [row EXCEPT !.tok = u, !.ver = v]
      BY <1>3, <3>1 DEF Renewed
    <3>3. row' \in Accounts
      BY <1>2, <3>2 DEF Accounts
    <3>4. [row' EXCEPT !.ok = o] \in Accounts /\ [row' EXCEPT !.ok = o].tok = row'.tok
      BY <3>3 DEF Accounts
    <3> QED
      BY <3>1, <3>4
  <2>2. PICK l \in {"durable", "release"} : l = IF platform = "grok" THEN "durable" ELSE "release"
    OBVIOUS
  <2>3. PICK r \in ProcType : r = [proc[p] EXCEPT !.pc = l, !.res = "refreshed", !.acc = a]
    BY <1>2 DEF ProcType, RefreshPcs, Critical
  <2>4. r.pc = l /\ r.res = "refreshed" /\ r.acc = a /\ r.holds = proc[p].holds
    BY <1>2, <2>3 DEF ProcType
  <2>5. proc' = [proc EXCEPT ![p] = r]
    BY <1>3, <2>1, <2>2, <2>3
  <2> QED
    BY <1>1, <1>2, <1>3, <2>1, <2>4, <2>5, WriteInd
<1>4. CASE /\ platform = "claude" \/ SameCredentials(row, proc[p].acc)
           /\ row' = Renewed(p) /\ stamp' = stamp + 1
           /\ Return(p, "error")
  <2>1. PICK r \in ProcType :
          /\ proc' = [proc EXCEPT ![p] = r]
          /\ r.pc = "release" /\ r.acc = proc[p].acc /\ r.got = proc[p].got /\ r.holds = proc[p].holds /\ r.res = "error"
    BY <1>4, ReturnFacts
  <2> QED
    BY <1>1, <1>2, <1>4, <2>1, WriteInd
<1>5. CASE /\ proc' = [proc EXCEPT ![p].pc = "release", ![p].res = "current", ![p].acc = row]
           /\ UNCHANGED account
  <2>1. PICK r \in ProcType : r = [proc[p] EXCEPT !.pc = "release", !.res = "current", !.acc = row]
    BY <1>2 DEF ProcType, RefreshPcs
  <2>2. r.pc = "release" /\ r.acc = row /\ r.res = "current" /\ r.holds = proc[p].holds
    BY <1>2, <2>1 DEF ProcType
  <2>3. proc' = [proc EXCEPT ![p] = r]
    BY <1>5, <2>1
  <2>4. ~Condemned(r) /\ r.pc \notin Critical
    BY <2>2 DEF Condemned, Critical
  <2> QED
    BY ZenonT(40), <1>1, <1>2, <1>5, <2>2, <2>3, <2>4, QuietRefresh
<1>6. CASE Return(p, "error") /\ UNCHANGED account
  BY <1>1, <1>2, <1>6, ReturnStep
<1> QED
  BY <1>3, <1>4, <1>5, <1>6 DEF Persist

-----------------------------------------------------------------------------
(* The background service. *)

(* An account is disabled for a token that is refused: the row's, because  *)
(* it is compared or because nothing else could have written.              *)
LEMMA SetErrorInd ==
    ASSUME RefreshInv, NEW f \in Refreshers, SetError(f), UNCHANGED Rest
    PROVE  RefreshInv'
<1>1. /\ f \in Procs /\ At(f, "setError") /\ proc[f].pc = "setError"
      /\ UNCHANGED <<platform, host, stamp, last, revoked, due, lock, mutex, cached, lockLost, admin, manual, begun, outdated>>
  BY DEF SetError, At, Rest, locks, Procs, world, remote
<1>2. /\ cached' \in Tokens \union {Nil} /\ mutex' \in [Instances -> Procs \union {Nil}]
      /\ faults' \in 0..MaxFaults /\ proc[f] \in ProcType /\ row \in Accounts /\ row.tok \in Tokens
      /\ proc[f].acc.tok \in Tokens /\ TokenOk(row.tok) /\ ProcOk(proc[f]) /\ (Calm => CalmOk(proc[f]))
      /\ stamp \in Nat /\ last \in [0..MaxGrant -> 0..MaxUse] /\ lock \in BOOLEAN
  BY <1>1, Facts, FaultFacts DEF SetError, RefreshInv, TypeOK, RefreshTypeOK
<1>3. CASE /\ platform = "grok" => row.ok /\ SameCredentials(row, proc[f].acc)
           /\ row' = [row EXCEPT !.ok = FALSE] /\ Goto(f, "invalidate")
           /\ UNCHANGED faults
  <2>1. PICK r \in ProcType :
          /\ proc' = [proc EXCEPT ![f] = r]
          /\ r.pc = "invalidate" /\ r.acc = proc[f].acc /\ r.got = proc[f].got /\ r.holds = proc[f].holds /\ r.res = proc[f].res
    <3>1. "invalidate" \in RefreshPcs \union ServicePcs \union RequestPcs
      BY DEF ServicePcs
    <3> QED
      BY <1>1, <1>3, <3>1, GotoFacts
  <2>2. row' \in Accounts /\ row'.tok = row.tok
    BY <1>2, <1>3 DEF Accounts
  <2>3. StepTypes /\ LastGrows
    <3>1. \A g \in 0..MaxGrant : last[g] \in Nat /\ last'[g] = last[g]
      BY <1>1, <1>2, RefreshAssumption
    <3> QED
      BY <1>1, <1>2, <2>2, <3>1 DEF StepTypes, LastGrows, RefreshInv, TypeOK, RefreshTypeOK
  <2>4. ~Condemned(r) /\ r.pc \notin Critical /\ r.pc \notin {"refresh", "persist", "durable", "lookup"}
    BY <2>1 DEF Condemned, Critical
  <2>5. TokenOk(row.tok)' /\ TokenOk(r.acc.tok)'
    BY <1>1, <1>2, <2>1, <2>2 DEF TokenOk, ProcOk
  <2>6. ProcOk(r)' /\ CalmOk(r)'
    BY <1>1, <1>2, <2>1, <2>4, <2>5 DEF ProcOk, CalmOk
  <2>7. Calm' => Calm
    BY <1>1 DEF Calm
  <2>8. ASSUME Calm
        PROVE  proc[f].acc.tok = row.tok /\ ~Accepted(row.tok)
    <3>1. Condemned(proc[f]) /\ CalmOk(proc[f])
      BY <1>1, <1>2, <2>8 DEF Condemned
    <3>2. platform \in {"claude", "grok"}
      BY DEF RefreshInv, TypeOK, RefreshTypeOK
    <3>3. proc[f].acc.tok = row.tok
      BY <1>3, <3>1, <3>2 DEF CalmOk, SameCredentials
    <3> QED
      BY <1>2, <3>1, <3>3 DEF ProcOk
  <2>9. ASSUME Calm, NEW q \in Procs \ {f}, proc[q].pc = "persist"
        PROVE  proc[q].acc.tok # row.tok
    <3>1. Apart(proc[q], proc[f]) /\ Condemned(proc[f])
      BY <1>1 DEF RefreshInv, Condemned
    <3> QED
      BY <2>8, <2>9, <3>1 DEF Apart
  <2>10. ~Accepted(row.tok) => ~Accepted(row.tok)'
    BY <1>1, <2>2 DEF Accepted
  <2>11. ASSUME Calm'
         PROVE  /\ CalmOk(r)'
                /\ \/ row' = row
                   \/ \A q \in Procs \ {f} : proc[q].pc = "persist" => proc[q].acc.tok # row'.tok
                /\ platform = "claude" =>
                     \/ row'.tok = row.tok
                     \/ \A q \in Procs \ {f} : ~Condemned(proc[q]) /\ proc[q].pc \notin {"refresh", "persist"}
                /\ \A q \in Procs \ {f} : proc[q].acc.tok = r.acc.tok =>
                     /\ ~(r.pc = "persist" /\ Condemned(proc[q]))
                     /\ ~(proc[q].pc = "persist" /\ Condemned(r))
                /\ \/ row'.ok
                   \/ ~Accepted(row.tok)'
                   \/ row' = row /\ r.pc # "refresh"
    BY <2>2, <2>4, <2>6, <2>7, <2>8, <2>9, <2>10, <2>11
  <2>12. ~lockLost' => /\ \A q \in Procs \ {f} : proc[q].holds => lock'
                       /\ r.holds => \A q \in Procs \ {f} : ~proc[q].holds
    BY <1>1, <2>1, Facts DEF ProcOk, RefreshInv, Apart
  <2>13. f \in Requests => ServedOk(r, begun[f])'
    BY RefreshAssumption
  <2>14. Ordered => ~outdated' /\ ~Older(row'.tok, row.tok)
    BY <1>1, <1>2, <2>2, NotOlderThanItself DEF RefreshInv, SharedOk
  <2>15. UNCHANGED <<world, revoked, due, admin, manual>> /\ (lockLost => lockLost') /\ \A q \in Requests \ {f} : begun'[q] = begun[q]
    BY <1>1 DEF world
  <2> QED
    BY <1>1, <2>1, <2>3, <2>5, <2>6, <2>11, <2>12, <2>13, <2>14, <2>15, Assemble
<1>4. CASE UNCHANGED row /\ Done(f)
  BY <1>1, <1>2, <1>4, DoneStep DEF world, account, remote
<1>5. CASE UNCHANGED row /\ Goto(f, "invalidate")
  BY <1>1, <1>2, <1>5, GotoStep DEF world, account, remote
<1> QED
  BY <1>3, <1>4, <1>5 DEF SetError

(* A cycle starts, and ends with the cached token dropped. *)
LEMMA CycleInd ==
    ASSUME RefreshInv, NEW f \in Refreshers, StartCycle(f) \/ Invalidate(f), UNCHANGED Rest
    PROVE  RefreshInv'
<1>1. /\ f \in Procs /\ f \notin Requests
      /\ UNCHANGED <<world, account, remote, lock, mutex, lockLost, admin, manual, begun, outdated>>
  BY RefreshAssumption DEF StartCycle, Invalidate, Rest, locks, Procs
<1>2. /\ cached' \in Tokens \union {Nil} /\ mutex' \in [Instances -> Procs \union {Nil}] /\ faults' \in 0..MaxFaults
  <2>1. /\ cached \in Tokens \union {Nil} /\ mutex \in [Instances -> Procs \union {Nil}] /\ faults \in 0..MaxFaults
        /\ MaxFaults \in Nat
    BY RefreshAssumption DEF RefreshInv, TypeOK, RefreshTypeOK
  <2> QED
    BY <1>1, <2>1 DEF StartCycle, Invalidate
<1>3. CASE StartCycle(f)
  <2>1. PICK r \in ProcType : r = [Idle EXCEPT !.pc = "mutex"]
    BY IdleFacts DEF ProcType, RefreshPcs
  <2>2. r.pc = "mutex" /\ r.acc.tok = First /\ ~r.holds /\ r.res = "none"
    BY <2>1, IdleFacts DEF Idle
  <2>3. proc' = [proc EXCEPT ![f] = r] /\ proc[f].pc = "idle"
    BY <1>3, <2>1 DEF StartCycle, At
  <2>4. ~Condemned(r) /\ r.pc \notin Critical
    BY <2>2 DEF Condemned, Critical
  <2>5. begun' \in [Requests -> Tokens] /\ outdated' \in BOOLEAN /\ (Ordered => ~outdated')
    BY <1>1 DEF RefreshInv, TypeOK, SharedOk
  <2>6. /\ f \in Requests => ServedOk(r, begun[f])'
        /\ \A q \in Requests \ {f} : begun'[q] = begun[q]
    BY <1>1
  <2> QED
    BY <1>1, <1>2, <2>2, <2>3, <2>4, <2>5, <2>6, Quiet
<1>4. CASE Invalidate(f)
  BY <1>1, <1>2, <1>4, DoneStep DEF Invalidate
<1> QED
  BY <1>3, <1>4

-----------------------------------------------------------------------------
(* Requests. *)

(* A request ends: for Grok with no token older than the account's. *)
LEMMA EndStep ==
    ASSUME RefreshInv, NEW q \in Requests, End(q),
           UNCHANGED <<world, account, remote, lock, mutex, admin, manual, lockLost>>,
           cached' \in Tokens \union {Nil}, faults' \in 0..MaxFaults,
           outdated' \in BOOLEAN, Ordered => ~outdated'
    PROVE  RefreshInv'
<1>1. q \in Procs /\ begun \in [Requests -> Tokens]
  BY DEF Procs, RefreshInv, TypeOK
<1>2. /\ begun' \in [Requests -> Tokens] /\ \A s \in Requests \ {q} : begun'[s] = begun[s]
  BY <1>1, FirstFacts DEF End
<1>3. proc' = [proc EXCEPT ![q] = Idle]
  BY DEF End, Done
<1>4. mutex' \in [Instances -> Procs \union {Nil}]
  BY DEF RefreshInv, TypeOK, RefreshTypeOK
<1>5. PICK r \in ProcType : r = Idle
  BY IdleFacts
<1>6. ServedOk(r, begun[q])' /\ r.pc \notin {"persist", "durable", "refresh"}
  BY <1>5, IdleFacts DEF ServedOk
<1>7. r.acc.tok = First /\ ~Condemned(r) /\ r.pc \notin Critical /\ ~r.holds
  BY <1>5, IdleFacts
<1> QED
  BY <1>1, <1>2, <1>3, <1>4, <1>5, <1>6, <1>7, Quiet

LEMMA ServeStep ==
    ASSUME RefreshInv, NEW q \in Requests, NEW t \in Tokens, Serve(q, t), Ordered => ~Older(t, begun[q]),
           UNCHANGED <<world, account, remote, lock, mutex, admin, manual, lockLost>>,
           cached' \in Tokens \union {Nil}, faults' \in 0..MaxFaults
    PROVE  RefreshInv'
<1>1. outdated \in BOOLEAN /\ (Ordered => ~outdated)
  BY DEF RefreshInv, TypeOK, SharedOk
<1>2. outdated' = (outdated \/ (platform = "grok" /\ Older(t, begun[q]))) /\ End(q)
  BY DEF Serve
<1>3. outdated' \in BOOLEAN
  BY <1>2, Zenon
<1>4. outdated' => outdated \/ (platform = "grok" /\ Older(t, begun[q]))
  BY <1>2, Zenon
<1>5. Ordered => ~outdated'
  BY <1>1, <1>4
<1> QED
  BY <1>2, <1>3, <1>5, EndStep

(* A request ends without a token. *)
LEMMA RefuseStep ==
    ASSUME RefreshInv, NEW q \in Requests, End(q),
           UNCHANGED <<world, account, remote, lock, mutex, admin, manual, lockLost, outdated>>,
           cached' \in Tokens \union {Nil}, faults' \in 0..MaxFaults
    PROVE  RefreshInv'
<1>1. outdated' \in BOOLEAN /\ (Ordered => ~outdated')
  BY DEF RefreshInv, TypeOK, SharedOk
<1> QED
  BY <1>1, EndStep

(* A request is given its account. *)
LEMMA RequestInd ==
    ASSUME RefreshInv, NEW q \in Requests, Request(q)
    PROVE  RefreshInv'
<1>1. /\ q \in Procs /\ UNCHANGED <<world, account, remote, lock, mutex, cached, faults, lockLost, admin, manual, outdated>>
      /\ proc' = [proc EXCEPT ![q] = [Idle EXCEPT !.pc = "lookup", !.acc = row]]
      /\ begun' = [begun EXCEPT ![q] = IF platform = "grok" THEN row.tok ELSE @]
  BY DEF Request, Procs, locks
<1>2. /\ begun \in [Requests -> Tokens] /\ outdated' \in BOOLEAN /\ (Ordered => ~outdated')
      /\ cached' \in Tokens \union {Nil} /\ faults' \in 0..MaxFaults /\ mutex' \in [Instances -> Procs \union {Nil}]
      /\ row \in Accounts /\ row.tok \in Tokens
  BY <1>1, Facts DEF RefreshInv, TypeOK, RefreshTypeOK, SharedOk
<1>3. /\ begun' \in [Requests -> Tokens] /\ \A s \in Requests \ {q} : begun'[s] = begun[s]
      /\ Ordered => begun'[q] = row.tok
  BY <1>1, <1>2 DEF Ordered
<1>4. PICK r \in ProcType : r = [Idle EXCEPT !.pc = "lookup", !.acc = row]
  BY <1>2, IdleFacts DEF ProcType, RequestPcs
<1>5. r.pc = "lookup" /\ r.acc = row /\ ~r.holds /\ r.res = "none"
  BY <1>4 DEF Idle
<1>6. ~Condemned(r) /\ r.pc \notin Critical /\ r.pc \notin {"persist", "durable", "refresh"}
  BY <1>5 DEF Condemned, Critical
<1>7. ServedOk(r, begun[q])'
  <2>1. row' = row /\ ~Older(row.tok, row.tok) /\ (Ordered' => Ordered)
    BY <1>1, <1>2, NotOlderThanItself DEF account, Ordered, world
  <2> QED
    BY <1>3, <1>5, <2>1 DEF ServedOk
<1> QED
  BY <1>1, <1>2, <1>3, <1>4, <1>5, <1>6, <1>7, Quiet

(* What a request that is under way serves. *)
LEMMA RequestFacts ==
    ASSUME RefreshInv, NEW q \in Requests, proc[q].pc # "idle"
    PROVE  /\ Ordered => /\ ~Older(proc[q].acc.tok, begun[q]) /\ ~Older(row.tok, begun[q])
                         /\ proc[q].pc = "lookup" => proc[q].acc.tok = begun[q]
           /\ q \in Procs /\ row.tok \in Tokens /\ proc[q].acc.tok \in Tokens /\ begun[q] \in Tokens
           /\ cached \in Tokens \union {Nil} /\ faults \in 0..MaxFaults
           /\ platform \in {"claude", "grok"} /\ mutex \in [Instances -> Procs \union {Nil}]
<1>1. q \in Procs
  BY DEF Procs
<1>2. ServedOk(proc[q], begun[q]) /\ begun[q] \in Tokens /\ proc[q].acc.tok \in Tokens /\ row.tok \in Tokens
  BY <1>1, Facts
<1>3. /\ cached \in Tokens \union {Nil} /\ faults \in 0..MaxFaults
      /\ platform \in {"claude", "grok"} /\ mutex \in [Instances -> Procs \union {Nil}]
  BY DEF RefreshInv, TypeOK, RefreshTypeOK
<1> QED
  BY <1>1, <1>2, <1>3 DEF ServedOk

(* The cache, before the refresh and while another process refreshes. *)
LEMMA LookupInd ==
    ASSUME RefreshInv, NEW q \in Requests, Lookup(q) \/ Wait(q)
    PROVE  RefreshInv'
<1>1. /\ proc[q].pc \in {"lookup", "wait"} /\ proc[q].pc # "idle"
      /\ UNCHANGED <<world, account, remote, lock, mutex, faults, lockLost, admin, manual>>
  BY DEF Lookup, Wait, At, locks
<1>2. /\ Ordered => /\ ~Older(proc[q].acc.tok, begun[q]) /\ ~Older(row.tok, begun[q])
                    /\ proc[q].pc = "lookup" => proc[q].acc.tok = begun[q]
      /\ q \in Procs /\ row.tok \in Tokens /\ proc[q].acc.tok \in Tokens /\ begun[q] \in Tokens
      /\ cached \in Tokens \union {Nil} /\ faults \in 0..MaxFaults
      /\ platform \in {"claude", "grok"} /\ mutex \in [Instances -> Procs \union {Nil}]
  BY <1>1, RequestFacts
<1>3. cached' \in Tokens \union {Nil} /\ faults' \in 0..MaxFaults /\ mutex' \in [Instances -> Procs \union {Nil}]
  BY <1>1, <1>2 DEF Lookup, Wait
<1>4. CASE cached # Nil /\ Serve(q, cached) /\ (platform = "grok" => At(q, "lookup") /\ cached = proc[q].acc.tok)
  <2>1. Ordered => ~Older(cached, begun[q])
    BY <1>2, <1>4, NotOlderThanItself DEF At, Ordered
  <2> QED
    BY <1>1, <1>2, <1>3, <1>4, <2>1, ServeStep
<1>5. CASE UNCHANGED <<begun, outdated>> /\ \E l \in {"mutex", "check"} : Goto(q, l)
  BY <1>1, <1>2, <1>3, <1>5, GotoStep
<1>6. CASE platform = "grok" /\ Serve(q, row.tok)
  BY <1>1, <1>2, <1>3, <1>6, ServeStep
<1>7. CASE End(q) /\ UNCHANGED outdated
  BY <1>1, <1>3, <1>7, RefuseStep
<1> QED
  BY <1>4, <1>5, <1>6, <1>7 DEF Lookup, Wait, Hit

(* The version check, and the fill. *)
LEMMA CheckInd ==
    ASSUME RefreshInv, NEW q \in Requests, CheckTokenVersion(q) \/ SetAccessToken(q)
    PROVE  RefreshInv'
<1>1. /\ proc[q].pc # "idle" /\ UNCHANGED <<world, account, remote, lock, mutex, lockLost, admin, manual>>
  BY DEF CheckTokenVersion, SetAccessToken, At, locks
<1>2. /\ Ordered => /\ ~Older(proc[q].acc.tok, begun[q]) /\ ~Older(row.tok, begun[q])
                    /\ proc[q].pc = "lookup" => proc[q].acc.tok = begun[q]
      /\ q \in Procs /\ row.tok \in Tokens /\ proc[q].acc.tok \in Tokens /\ begun[q] \in Tokens
      /\ cached \in Tokens \union {Nil} /\ faults \in 0..MaxFaults
      /\ platform \in {"claude", "grok"} /\ mutex \in [Instances -> Procs \union {Nil}]
  BY <1>1, RequestFacts
<1>3. cached' \in Tokens \union {Nil} /\ faults' \in 0..MaxFaults /\ mutex' \in [Instances -> Procs \union {Nil}]
  BY <1>1, <1>2, FaultFacts DEF CheckTokenVersion, SetAccessToken
<1>4. CASE Serve(q, row.tok) \/ Serve(q, proc[q].acc.tok)
  BY <1>1, <1>2, <1>3, <1>4, ServeStep
<1>5. CASE UNCHANGED <<begun, outdated>> /\ Goto(q, "fill")
  BY <1>1, <1>2, <1>3, <1>5, GotoStep
<1>6. CASE End(q) /\ UNCHANGED outdated
  BY <1>1, <1>3, <1>6, RefuseStep
<1> QED
  BY <1>4, <1>5, <1>6 DEF CheckTokenVersion, SetAccessToken

-----------------------------------------------------------------------------
(* The administrator, the clock, and crashes. *)

(* The invariant after a step that moves no process. *)
LEMMA WorldStep ==
    ASSUME RefreshInv, UNCHANGED <<platform, host, proc, mutex, begun, outdated>>,
           last' \in [0..MaxGrant -> 0..MaxUse], LastGrows, manual' \in HandType, HandOk', manual.undone => manual'.undone,
           row' \in Accounts, stamp' \in Nat, cached' \in Tokens \union {Nil}, lock' \in BOOLEAN,
           lockLost' \in BOOLEAN, faults' \in 0..MaxFaults, due' \subseteq Tokens, revoked' \subseteq 0..MaxGrant,
           admin' \in [pc: {"idle", "read", "write", "clear", "invalidate", "done"}, tok: Tokens, ver: Nat],
           revoked \subseteq revoked', due \subseteq due', \A t \in due' : t.n < MaxUse,
           \A p \in Procs : TokenOk(proc[p].acc.tok)', TokenOk(row.tok)',
           admin'.tok.n = 0 /\ (admin'.tok.g = 0 => admin'.pc = "idle"),
           Ordered' => ~Older(row'.tok, row.tok),
           lockLost => lockLost',
           ~lockLost' => lock' = lock \/ \A p \in Procs : ~proc[p].holds,
           Calm' =>
             /\ Calm
             /\ \/ row'.tok = row.tok /\ (row.ok => row'.ok)
                \/ platform = "grok" /\ \A p \in Procs : proc[p].acc.tok # row'.tok
             /\ DisabledOk'
    PROVE  RefreshInv'
<1>0. Ordered' => Ordered
  BY DEF Ordered, RefreshInv, TypeOK, HandType
<1>1. TypeOK'
  BY DEF RefreshInv, TypeOK, RefreshTypeOK, HandType
<1>2. SharedOk'
  BY <1>0 DEF RefreshInv, SharedOk
<1>3. ASSUME NEW p \in Procs, NEW r, r = proc[p]
      PROVE  ProcOk(r)'
  <2>1. ProcOk(r) /\ r \in ProcType /\ r.acc.tok \in Tokens /\ TokenOk(r.acc.tok)'
    BY <1>3, Facts
  <2>2. Condemned(r) => ~Accepted(r.acc.tok)'
    BY <2>1, RefusedStays, Facts, <1>3 DEF ProcOk
  <2>3. ~lockLost' => (r.pc \in Critical => r.holds) /\ (r.holds => lock')
    BY <1>3, <2>1 DEF ProcOk
  <2>4. r.pc = "persist" => r.got.n <= last'[r.got.g]
    <3>1. r.got \in Tokens /\ r.got.g \in 0..MaxGrant /\ r.got.n \in Nat /\ MaxUse \in Nat
      BY <1>3, Facts, TokenFacts
    <3>2. last[r.got.g] \in 0..MaxUse /\ last'[r.got.g] \in 0..MaxUse
      BY <3>1 DEF RefreshInv, TypeOK, RefreshTypeOK
    <3> QED
      BY <2>1, <3>1, <3>2 DEF ProcOk, LastGrows
  <2> QED
    BY <2>1, <2>2, <2>3, <2>4 DEF ProcOk
<1>4. \A p \in Procs : ProcOk(proc[p])'
  BY <1>3
<1>5. ASSUME NEW q \in Requests
      PROVE  ServedOk(proc[q], begun[q])'
  <2>1. q \in Procs
    BY DEF Procs
  <2>2. ServedOk(proc[q], begun[q]) /\ row.tok \in Tokens /\ begun[q] \in Tokens /\ row'.tok \in Tokens
    BY <2>1, Facts DEF Accounts
  <2>3. Ordered' /\ ~Older(row.tok, begun[q]) => ~Older(row'.tok, begun[q])
    BY <2>2, OlderChain
  <2> QED
    BY <1>0, <2>2, <2>3 DEF ServedOk
<1>6. ASSUME Calm', NEW p \in Procs
      PROVE  CalmOk(proc[p])'
  <2>1. CalmOk(proc[p]) /\ Calm
    BY <1>6, Facts
  <2>2. platform \in {"claude", "grok"}
    BY DEF RefreshInv, TypeOK, RefreshTypeOK
  <2> QED
    BY <1>6, <2>1, <2>2 DEF CalmOk, Condemned
<1>7. ASSUME NEW p \in Procs, NEW q \in Procs, p # q
      PROVE  Apart(proc[p], proc[q])'
  <2>1. Apart(proc[p], proc[q])
    BY <1>7 DEF RefreshInv
  <2> QED
    BY <2>1 DEF Apart, Condemned
<1> QED
  BY <1>1, <1>2, <1>4, <1>5, <1>6, <1>7 DEF RefreshInv

(* What such a step starts from. *)
LEMMA WorldFacts ==
    ASSUME RefreshInv
    PROVE  /\ row \in Accounts /\ row.tok \in Tokens /\ stamp \in Nat /\ cached \in Tokens \union {Nil}
           /\ lock \in BOOLEAN /\ lockLost \in BOOLEAN /\ faults \in 0..MaxFaults /\ due \subseteq Tokens
           /\ revoked \subseteq 0..MaxGrant /\ \A t \in due : t.n < MaxUse
           /\ admin \in [pc: {"idle", "read", "write", "clear", "invalidate", "done"}, tok: Tokens, ver: Nat]
           /\ admin.tok.n = 0 /\ (admin.tok.g = 0 => admin.pc = "idle") /\ admin.tok \in Tokens
           /\ manual \in HandType /\ HandOk /\ manual.acc.tok \in Tokens /\ manual.got \in Tokens
           /\ \A g \in 0..MaxGrant : last[g] \in Nat
           /\ last \in [0..MaxGrant -> 0..MaxUse]
           /\ \A p \in Procs : TokenOk(proc[p].acc.tok) /\ proc[p].acc.tok \in Tokens
           /\ TokenOk(row.tok) /\ ~Older(row.tok, row.tok)
           /\ Calm => DisabledOk
<1>1. \A p \in Procs : TokenOk(proc[p].acc.tok) /\ proc[p].acc.tok \in Tokens
  BY Facts DEF ProcOk
<1>2. row \in Accounts /\ row.tok \in Tokens /\ admin.tok \in Tokens /\ last \in [0..MaxGrant -> 0..MaxUse]
  BY DEF RefreshInv, TypeOK, RefreshTypeOK, Accounts
<1>3. ~Older(row.tok, row.tok) /\ \A g \in 0..MaxGrant : last[g] \in Nat
  BY <1>2, NotOlderThanItself, RefreshAssumption
<1>4. manual \in HandType /\ manual.acc.tok \in Tokens /\ manual.got \in Tokens
  BY DEF RefreshInv, TypeOK, HandType, Accounts
<1> QED
  BY <1>1, <1>2, <1>3, <1>4 DEF RefreshInv, TypeOK, RefreshTypeOK, SharedOk

(* A provider whose counters stay. *)
LEMMA LastStays ==
    ASSUME RefreshInv, UNCHANGED last
    PROVE  last' \in [0..MaxGrant -> 0..MaxUse] /\ LastGrows
<1>1. last \in [0..MaxGrant -> 0..MaxUse] /\ \A g \in 0..MaxGrant : last[g] \in Nat
  BY WorldFacts
<1> QED
  BY <1>1 DEF LastGrows

(* A new grant is ahead of every token in use, and revokes none of it that *)
(* is accepted again.                                                      *)
LEMMA AuthoriseInd ==
    ASSUME RefreshInv, Authorise
    PROVE  RefreshInv'
<1>1. /\ UNCHANGED <<platform, host, proc, mutex, last, manual, begun, outdated, row, stamp, cached, lock, lockLost, faults, due>>
      /\ admin.pc \in {"idle", "done"} /\ admin.tok.g < MaxGrant
      /\ revoked' = revoked \union {admin.tok.g} \/ UNCHANGED revoked
  BY DEF Authorise, world, account, locks
<1>2. PICK g \in Nat : g = admin.tok.g + 1 /\ g \in 0..MaxGrant /\ admin.tok.g < g /\ g # 0
  <2>1. admin.tok.g \in 0..MaxGrant /\ MaxGrant \in Nat
    BY WorldFacts, TokenFacts
  <2> QED
    BY <1>1, <2>1
<1>3. /\ admin'.pc = "read" /\ admin'.tok = [g |-> g, n |-> 0]
      /\ admin' \in [pc: {"idle", "read", "write", "clear", "invalidate", "done"}, tok: Tokens, ver: Nat]
  <2>1. [g |-> g, n |-> 0] \in Tokens
    BY <1>2, RefreshAssumption DEF Tokens
  <2>2. admin' = [admin EXCEPT !.pc = "read", !.tok = [g |-> g, n |-> 0]]
    BY <1>2 DEF Authorise
  <2> QED
    BY <2>1, <2>2, WorldFacts
<1>4. admin'.tok.g = g /\ admin'.tok.n = 0
  BY <1>3
<1>5. ASSUME NEW t \in Tokens, TokenOk(t)
      PROVE  TokenOk(t)'
  <2>1. t.g \in Nat /\ admin.tok.g \in Nat /\ t.g < g
    <3>1. t.g \in Nat /\ admin.tok.g \in Nat
      BY TokenFacts, WorldFacts
    <3> QED
      BY <1>2, <1>5, <3>1 DEF TokenOk
  <2> QED
    BY <1>1, <1>4, <1>5, <2>1 DEF TokenOk
<1>6. TokenOk(row.tok)' /\ HandOk' /\ \A p \in Procs : TokenOk(proc[p].acc.tok)'
  BY <1>1, <1>5, WorldFacts DEF HandOk
<1>7. revoked' \subseteq 0..MaxGrant /\ revoked \subseteq revoked'
  BY <1>1, WorldFacts, TokenFacts
<1>8. ASSUME Calm'
      PROVE  Calm /\ DisabledOk'
  <2>1. Calm
    BY <1>1, <1>2, <1>4, <1>8 DEF Calm
  <2>2. ~Accepted(row.tok) => ~Accepted(row.tok)'
    BY <1>1, <1>7 DEF Accepted
  <2> QED
    BY <1>1, <2>1, <2>2, WorldFacts DEF DisabledOk
<1> QED
  BY <1>1, <1>2, <1>3, <1>4, <1>6, <1>7, <1>8, WorldFacts, LastStays, WorldStep

LEMMA ApplyReadInd ==
    ASSUME RefreshInv, ApplyRead
    PROVE  RefreshInv'
<1>1. /\ UNCHANGED <<platform, host, proc, mutex, last, manual, begun, outdated, row, stamp, cached, lock, lockLost, faults, due,
                     revoked>>
      /\ admin.pc = "read" /\ admin' = [admin EXCEPT !.pc = "write", !.ver = row.ver]
  BY DEF ApplyRead, provider, world, account, locks, remote
<1>2. admin' \in [pc: {"idle", "read", "write", "clear", "invalidate", "done"}, tok: Tokens, ver: Nat]
  BY <1>1, WorldFacts DEF Accounts
<1>3. admin'.pc = "write" /\ admin'.tok = admin.tok /\ admin.tok.g # 0
  BY <1>1, WorldFacts
<1>4. TokenOk(row.tok)' /\ HandOk' /\ \A p \in Procs : TokenOk(proc[p].acc.tok)'
  BY <1>1, <1>3, WorldFacts DEF TokenOk, HandOk
<1>5. Calm' => Calm /\ DisabledOk'
  BY <1>1, <1>3, WorldFacts DEF Calm, DisabledOk, Accepted
<1> QED
  BY <1>1, <1>2, <1>3, <1>4, <1>5, WorldFacts, LastStays, WorldStep

(* The new credentials are of a grant that no process has a token of. *)
LEMMA ApplyWriteInd ==
    ASSUME RefreshInv, ApplyWrite
    PROVE  RefreshInv'
<1>1. /\ UNCHANGED <<platform, host, proc, mutex, last, manual, begun, outdated, stamp, cached, lock, lockLost, faults, due,
                     revoked>>
      /\ admin.pc = "write" /\ admin' = [admin EXCEPT !.pc = "clear"]
      /\ row' = [row EXCEPT !.tok = admin.tok, !.ver = admin.ver]
  BY DEF ApplyWrite, Step, world, locks, remote
<1>2. admin' \in [pc: {"idle", "read", "write", "clear", "invalidate", "done"}, tok: Tokens, ver: Nat]
  BY <1>1, WorldFacts
<1>3. admin'.pc = "clear" /\ admin'.tok = admin.tok /\ admin.tok.g # 0 /\ admin.tok \in Tokens
  BY <1>1, WorldFacts
<1>4. row' \in Accounts /\ row'.tok = admin.tok
  BY <1>1, WorldFacts DEF Accounts
<1>5. ASSUME NEW t \in Tokens, TokenOk(t)
      PROVE  t.g < admin.tok.g /\ t # admin.tok /\ TokenOk(t)'
  <2>1. t.g < admin.tok.g /\ t.g \in Nat /\ admin.tok.g \in Nat
    BY <1>1, <1>3, <1>5, TokenFacts DEF TokenOk
  <2> QED
    BY <1>1, <1>3, <1>5, <2>1 DEF TokenOk
<1>6. \A p \in Procs : TokenOk(proc[p].acc.tok)' /\ proc[p].acc.tok # row'.tok
  BY <1>1, <1>4, <1>5, WorldFacts
<1>7. TokenOk(row.tok)' /\ HandOk'
  <2>1. admin.tok.n <= last[admin.tok.g] /\ admin.tok.g <= admin.tok.g
    BY <1>3, TokenFacts, WorldFacts, RefreshAssumption
  <2> QED
    BY <1>1, <1>3, <1>4, <1>5, <2>1, WorldFacts DEF TokenOk, HandOk
<1>8. ~Older(row'.tok, row.tok)
  <2>1. row.tok.g < admin.tok.g /\ row.tok.g \in Nat /\ admin.tok.g \in Nat
    BY <1>3, <1>5, TokenFacts, WorldFacts
  <2> QED
    BY <1>4, <2>1 DEF Older
<1>9. ASSUME Calm'
      PROVE  Calm /\ platform = "grok" /\ DisabledOk'
  <2>1. Calm /\ platform = "grok"
    BY <1>1, <1>3, <1>9 DEF Calm, RefreshInv, TypeOK, RefreshTypeOK
  <2>2. DisabledOk'
    BY <1>1, <1>3, <1>6 DEF DisabledOk, At
  <2> QED
    BY <2>1, <2>2
<1> QED
  BY <1>1, <1>2, <1>3, <1>4, <1>6, <1>7, <1>8, <1>9, WorldFacts, LastStays, WorldStep

LEMMA ApplyEndInd ==
    ASSUME RefreshInv, ApplyClearError \/ ApplyInvalidate
    PROVE  RefreshInv'
<1>1. /\ UNCHANGED <<platform, host, proc, mutex, last, manual, begun, outdated, stamp, lock, lockLost, faults, due, revoked>>
      /\ admin.pc \in {"clear", "invalidate"} /\ (admin.pc = "clear" => row'.ok)
      /\ \E l \in {"invalidate", "done"} : admin' = [admin EXCEPT !.pc = l]
      /\ row' = [row EXCEPT !.ok = TRUE] \/ UNCHANGED row
      /\ cached' = Nil \/ UNCHANGED cached
  BY WorldFacts DEF ApplyClearError, ApplyInvalidate, Step, world, account, locks, remote, Accounts
<1>2. admin' \in [pc: {"idle", "read", "write", "clear", "invalidate", "done"}, tok: Tokens, ver: Nat]
  BY <1>1, WorldFacts
<1>3. admin'.pc \in {"invalidate", "done"} /\ admin'.tok = admin.tok /\ admin.tok.g # 0 /\ admin.tok \in Tokens
  BY <1>1, WorldFacts
<1>4. row' \in Accounts /\ row'.tok = row.tok /\ (row.ok => row'.ok)
  BY <1>1, WorldFacts DEF Accounts
<1>5. TokenOk(row.tok)' /\ HandOk' /\ \A p \in Procs : TokenOk(proc[p].acc.tok)'
  BY <1>1, <1>3, <1>4, WorldFacts DEF TokenOk, HandOk
<1>6. ~Older(row'.tok, row.tok)
  BY <1>4, WorldFacts
<1>7. ASSUME Calm'
      PROVE  Calm /\ DisabledOk'
  <2>1. Calm /\ DisabledOk
    BY <1>1, <1>3, <1>7, WorldFacts DEF Calm
  <2>2. ~Accepted(row.tok) => ~Accepted(row.tok)'
    BY <1>1, <1>4 DEF Accepted
  <2>3. admin.pc = "clear" \/ ~Accepted(row.tok) \/ row.ok
    BY <2>1 DEF DisabledOk
  <2> QED
    BY <1>1, <1>4, <2>1, <2>2, <2>3 DEF DisabledOk
<1>8. cached' \in Tokens \union {Nil}
  BY <1>1, WorldFacts
<1> QED
  BY <1>1, <1>2, <1>3, <1>4, <1>5, <1>6, <1>7, <1>8, WorldFacts, LastStays, WorldStep

(* The lock expires when its holder is gone, or else is lost; a token      *)
(* comes near its expiry, or leaves the cache.                             *)
LEMMA ExpiryInd ==
    ASSUME RefreshInv, LockExpires \/ Expire, UNCHANGED Rest
    PROVE  RefreshInv'
<1>1. /\ UNCHANGED <<platform, host, proc, mutex, last, begun, outdated, row, stamp, cached, admin, manual, revoked>>
      /\ Fault \/ UNCHANGED faults
  BY DEF LockExpires, Expire, world, account, locks, remote, Rest
<1>2. /\ lock' \in BOOLEAN /\ lockLost' \in BOOLEAN /\ (lockLost => lockLost')
      /\ ~lockLost' => lock' = lock \/ \A p \in Procs : ~proc[p].holds
  <2>1. CASE LockExpires
    <3>1. lock' = FALSE
      BY <2>1 DEF LockExpires
    <3>2. CASE lockLost' = lockLost /\ \A p \in Procs : ~proc[p].holds
      BY <3>1, <3>2, WorldFacts
    <3>3. CASE lockLost' = TRUE
      BY <3>1, <3>3
    <3> QED
      BY <2>1, <3>2, <3>3 DEF LockExpires
  <2>2. CASE Expire
    <3>1. lock' = lock /\ lockLost' = lockLost
      BY <2>2 DEF Expire, locks
    <3> QED
      BY <3>1, WorldFacts
  <2> QED
    BY <2>1, <2>2
<1>3. due' \subseteq Tokens /\ due \subseteq due' /\ \A t \in due' : t.n < MaxUse
  BY WorldFacts DEF LockExpires, Expire, remote
<1>4. faults' \in 0..MaxFaults
  BY <1>1, FaultFacts
<1>5. TokenOk(row.tok)' /\ HandOk' /\ \A p \in Procs : TokenOk(proc[p].acc.tok)'
  BY <1>1, WorldFacts DEF TokenOk, HandOk
<1>6. Calm' => Calm /\ DisabledOk'
  BY <1>1, <1>2, WorldFacts DEF Calm, DisabledOk, Accepted, At
<1> QED
  BY <1>1, <1>2, <1>3, <1>4, <1>5, <1>6, WorldFacts, LastStays, WorldStep

LEMMA CacheExpiresInd ==
    ASSUME RefreshInv, CacheExpires
    PROVE  RefreshInv'
<1>1. /\ UNCHANGED <<platform, host, proc, mutex, last, begun, outdated, row, stamp, admin, manual, revoked, due, lock, lockLost,
                     faults>>
      /\ cached' = Nil
  BY DEF CacheExpires, world, account, locks, remote
<1>2. TokenOk(row.tok)' /\ HandOk' /\ \A p \in Procs : TokenOk(proc[p].acc.tok)'
  BY <1>1, WorldFacts DEF TokenOk, HandOk
<1>3. Calm' => Calm /\ DisabledOk'
  BY <1>1, WorldFacts DEF Calm, DisabledOk, Accepted, At
<1> QED
  BY <1>1, <1>2, <1>3, WorldFacts, LastStays, WorldStep

-----------------------------------------------------------------------------
(* The refresh by hand.  Once it has used a token up, Calm is over. *)

LEMMA FirstOk ==
    ASSUME RefreshInv
    PROVE  TokenOk(First)
BY FirstFacts, WorldFacts, TokenFacts, RefreshAssumption DEF TokenOk

(* What is left of it when it ends. *)
LEMMA ForgetFacts ==
    ASSUME RefreshInv, NEW l \in {"idle", "invalidate"}
    PROVE  /\ Forget(l) \in HandType /\ Forget(l).pc = l /\ Forget(l).acc.tok = First
           /\ Forget(l).spent = manual.spent /\ Forget(l).undone = manual.undone
<1>1. manual \in HandType /\ First \in Tokens /\ Idle.acc.tok = First /\ Idle.acc \in Accounts
  BY WorldFacts, IdleFacts, FirstFacts DEF ProcType
<1> QED
  BY <1>1 DEF Forget, HandType

LEMMA ManualQuietInd ==
    ASSUME RefreshInv, ManualRead \/ ManualLoad \/ ManualInvalidate
    PROVE  RefreshInv'
<1>1. /\ UNCHANGED <<platform, host, proc, mutex, last, begun, outdated, row, stamp, admin, revoked, due, lock, lockLost>>
      /\ cached' \in {Nil, cached}
      /\ Fault \/ UNCHANGED faults
  BY DEF ManualRead, ManualLoad, ManualInvalidate, world, account, locks, remote, provider
<1>2. /\ manual' \in HandType /\ manual'.spent = manual.spent /\ manual'.undone = manual.undone /\ HandOk'
  <2>1. CASE ManualRead
    <3>1. manual' = [manual EXCEPT !.pc = "ask", !.acc = row]
      BY <2>1 DEF ManualRead
    <3>2. /\ manual' \in HandType /\ manual'.pc = "ask" /\ manual'.acc = row
          /\ manual'.spent = manual.spent /\ manual'.undone = manual.undone
      BY <3>1, WorldFacts DEF HandType
    <3>3. row.tok.n < MaxUse
      BY <2>1 DEF ManualRead
    <3> QED
      BY <1>1, <3>2, <3>3, WorldFacts DEF HandOk, TokenOk
  <2>2. CASE ManualLoad
    <3>1. manual' = [manual EXCEPT !.pc = "write", !.ok = row.ok] /\ manual.pc = "load" /\ row.ok \in BOOLEAN
      BY <2>2, WorldFacts DEF ManualLoad, Accounts
    <3>2. /\ manual' \in HandType /\ manual'.pc = "write" /\ manual'.acc = manual.acc /\ manual'.got = manual.got
          /\ manual'.spent = manual.spent /\ manual'.undone = manual.undone
      BY <3>1, WorldFacts DEF HandType
    <3> QED
      BY <1>1, <3>1, <3>2, WorldFacts DEF HandOk, TokenOk
  <2>3. CASE ManualInvalidate
    <3>1. /\ manual' \in HandType /\ manual'.pc = "idle" /\ manual'.acc.tok = First
          /\ manual'.spent = manual.spent /\ manual'.undone = manual.undone
      BY <2>3, ForgetFacts DEF ManualInvalidate
    <3> QED
      BY <1>1, <3>1, FirstOk DEF HandOk, TokenOk
  <2> QED
    BY <2>1, <2>2, <2>3
<1>3. TokenOk(row.tok)' /\ \A p \in Procs : TokenOk(proc[p].acc.tok)'
  BY <1>1, WorldFacts DEF TokenOk
<1>4. Calm' => Calm /\ DisabledOk'
  BY <1>1, <1>2, WorldFacts DEF Calm, DisabledOk, Accepted, At
<1>5. cached' \in Tokens \union {Nil} /\ faults' \in 0..MaxFaults
  <2>1. faults' \in 0..MaxFaults
    BY <1>1, FaultFacts
  <2>2. cached' \in Tokens \union {Nil}
    BY <1>1, WorldFacts
  <2> QED
    BY <2>1, <2>2
<1>6. last' \in [0..MaxGrant -> 0..MaxUse] /\ LastGrows
  BY <1>1, LastStays
<1>7. /\ Ordered' => ~Older(row'.tok, row.tok)
      /\ Calm' => Calm /\ row'.tok = row.tok /\ (row.ok => row'.ok) /\ DisabledOk'
  BY <1>1, <1>4, WorldFacts
<1> QED
  BY <1>1, <1>2, <1>3, <1>5, <1>6, <1>7, WorldFacts, WorldStep

LEMMA ManualAskInd ==
    ASSUME RefreshInv, ManualAsk
    PROVE  RefreshInv'
<1>1. /\ UNCHANGED <<platform, host, proc, mutex, begun, outdated, row, stamp, admin, revoked, due, lock, lockLost, faults,
                     cached>>
      /\ manual.pc = "ask"
  BY DEF ManualAsk, world, account, locks
<1>2. PICK t \in Tokens : t = manual.acc.tok
  BY WorldFacts
<1>3. t.g \in 0..MaxGrant /\ t.n \in Nat /\ t.n < MaxUse /\ MaxUse \in Nat /\ TokenOk(t)
  BY <1>1, <1>2, WorldFacts, TokenFacts DEF HandOk
<1>4. CASE manual' = Forget("idle") /\ UNCHANGED last
  <2>1. /\ manual' \in HandType /\ manual'.pc = "idle" /\ manual'.acc.tok = First
        /\ manual'.spent = manual.spent /\ manual'.undone = manual.undone
    BY <1>4, ForgetFacts
  <2>2. HandOk' /\ TokenOk(row.tok)' /\ \A p \in Procs : TokenOk(proc[p].acc.tok)'
    BY <1>1, <1>4, <2>1, FirstOk, WorldFacts DEF HandOk, TokenOk
  <2>3. Calm' => Calm /\ DisabledOk'
    BY <1>1, <1>4, <2>1, WorldFacts DEF Calm, DisabledOk, Accepted, At
  <2> QED
    BY <1>1, <1>4, <2>1, <2>2, <2>3, WorldFacts, LastStays, WorldStep
<1>5. CASE /\ Accepted(t) /\ last' = [last EXCEPT ![t.g] = @ + 1]
           /\ \/ manual' = [manual EXCEPT !.pc = "load", !.got = [t EXCEPT !.n = @ + 1], !.spent = TRUE]
              \/ manual' = [Forget("idle") EXCEPT !.spent = TRUE]
  <2>1. PICK n \in 0..MaxUse : n = t.n + 1
    BY <1>3
  <2>2. PICK u \in Tokens : u = [t EXCEPT !.n = @ + 1] /\ u.g = t.g /\ u.n = n
    <3>1. [t EXCEPT !.n = n] \in Tokens /\ [t EXCEPT !.n = n].g = t.g /\ [t EXCEPT !.n = n].n = n
      BY <1>2, <2>1 DEF Tokens
    <3> QED
      BY <2>1, <3>1
  <2>3. last[t.g] = t.n /\ last' = [last EXCEPT ![t.g] = n]
    BY <1>5, <2>1 DEF Accepted
  <2>4. last' \in [0..MaxGrant -> 0..MaxUse] /\ last'[t.g] = n
    BY <1>3, <2>3, WorldFacts
  <2>5. LastGrows
    <3>1. \A g \in 0..MaxGrant : last[g] \in Nat /\ last'[g] = IF g = t.g THEN n ELSE last[g]
      BY <1>3, <2>3, WorldFacts
    <3> QED
      BY <1>3, <2>1, <2>3, <3>1 DEF LastGrows
  <2>6. /\ manual' \in HandType /\ manual'.spent /\ manual'.undone = manual.undone
        /\ \/ manual'.pc = "idle" /\ manual'.acc.tok = First
           \/ manual'.pc = "load" /\ manual'.acc = manual.acc /\ manual'.got = u
    <3>1. CASE manual' = [manual EXCEPT !.pc = "load", !.got = u, !.spent = TRUE]
      BY <3>1, WorldFacts DEF HandType
    <3>2. CASE manual' = [Forget("idle") EXCEPT !.spent = TRUE]
      BY <3>2, ForgetFacts DEF HandType
    <3> QED
      BY <1>5, <2>2, <3>1, <3>2
  <2>7. ASSUME NEW s \in Tokens, TokenOk(s)
        PROVE  TokenOk(s)'
    <3>1. s.g \in 0..MaxGrant /\ s.n \in Nat /\ MaxUse \in Nat
      BY TokenFacts
    <3>2. last[s.g] \in 0..MaxUse /\ last'[s.g] \in 0..MaxUse /\ last[s.g] <= last'[s.g]
      BY <2>4, <2>5, <3>1, WorldFacts DEF LastGrows
    <3> QED
      BY <1>1, <2>7, <3>1, <3>2 DEF TokenOk
  <2>8. TokenOk(row.tok)' /\ TokenOk(manual.acc.tok)' /\ \A p \in Procs : TokenOk(proc[p].acc.tok)'
    <3>1. TokenOk(manual.acc.tok)'
      <4>1. TokenOk(t)' /\ TokenOk(First)'
        BY <1>3, <2>7, FirstOk, FirstFacts
      <4>2. manual'.acc.tok = t \/ manual'.acc.tok = First
        BY <1>2, <2>6
      <4> QED
        BY <4>1, <4>2 DEF TokenOk
    <3>2. ASSUME NEW p \in Procs
          PROVE  TokenOk(proc[p].acc.tok)'
      BY <1>1, <2>7, WorldFacts
    <3>3. TokenOk(row.tok)'
      BY <1>1, <2>7, WorldFacts
    <3> QED
      BY <3>1, <3>2, <3>3
  <2>9. HandOk'
    <3>1. n <= last'[u.g]
      BY <2>2, <2>4, <2>1
    <3> QED
      BY <1>2, <2>2, <2>6, <2>8, <3>1 DEF HandOk
  <2>10. ~Calm'
    BY <2>6 DEF Calm
  <2> QED
    BY <1>1, <2>4, <2>5, <2>6, <2>8, <2>9, <2>10, WorldFacts, WorldStep
<1> QED
  BY <1>2, <1>4, <1>5 DEF ManualAsk

LEMMA ManualWriteInd ==
    ASSUME RefreshInv, ManualWrite
    PROVE  RefreshInv'
<1>1. /\ UNCHANGED <<platform, host, proc, mutex, last, begun, outdated, stamp, admin, revoked, due, lock, lockLost, faults,
                     cached>>
      /\ manual.pc = "write" /\ row' = [tok |-> manual.got, ver |-> manual.acc.ver, ok |-> manual.ok]
      /\ manual' = [Forget("invalidate") EXCEPT !.undone = @ \/ (platform = "grok" /\ Older(manual.got, row.tok))]
  BY DEF ManualWrite, world, locks, remote
<1>2. /\ manual.spent /\ manual.got.g = manual.acc.tok.g /\ manual.got.n <= last[manual.got.g]
      /\ TokenOk(manual.acc.tok) /\ manual.got \in Tokens /\ manual \in HandType
  BY <1>1, WorldFacts DEF HandOk
<1>3. row' \in Accounts /\ row'.tok = manual.got
  BY <1>1, <1>2 DEF HandType, Accounts
<1>4. PICK b \in BOOLEAN : b = (manual.undone \/ (platform = "grok" /\ Older(manual.got, row.tok)))
  <2>1. manual.undone \in BOOLEAN
    BY <1>2 DEF HandType
  <2> QED
    BY Zenon, <2>1
<1>5. /\ manual' \in HandType /\ manual'.pc = "invalidate" /\ manual'.acc.tok = First /\ manual'.spent
      /\ manual'.undone = b
  <2>1. manual' = [Forget("invalidate") EXCEPT !.undone = b]
    BY <1>1, <1>4, ForgetFacts
  <2> QED
    BY <1>2, <2>1, ForgetFacts DEF HandType
<1>6. (manual.undone => manual'.undone) /\ (Ordered' => ~Older(row'.tok, row.tok))
  <2>1. b <=> (manual.undone \/ (platform = "grok" /\ Older(manual.got, row.tok)))
    BY <1>4
  <2> QED
    BY <1>1, <1>3, <1>5, <2>1 DEF Ordered
<1>7. TokenOk(manual.got)
  BY <1>2 DEF TokenOk
<1>8. TokenOk(row.tok)' /\ HandOk' /\ \A p \in Procs : TokenOk(proc[p].acc.tok)'
  BY <1>1, <1>3, <1>5, <1>7, FirstOk, WorldFacts DEF TokenOk, HandOk
<1>9. ~Calm'
  BY <1>5 DEF Calm
<1> QED
  BY <1>1, <1>3, <1>5, <1>6, <1>8, <1>9, WorldFacts, LastStays, WorldStep

(* Every process of an instance stops; the lock that one of them set stays *)
(* set, and keeps the others out until it expires.                         *)
LEMMA CrashInd ==
    ASSUME RefreshInv, NEW i \in Instances, CrashInstance(i), UNCHANGED Rest
    PROVE  RefreshInv'
<1>1. /\ UNCHANGED <<platform, host, last, begun, outdated, row, stamp, admin, manual, revoked, due, lock, lockLost, cached>>
      /\ proc' = [p \in Procs |-> IF host[p] = i THEN Idle ELSE proc[p]]
  BY DEF CrashInstance, world, account, remote, Rest
<1>2. \A p \in Procs : proc'[p] = proc[p] \/ proc'[p] = Idle
  BY <1>1
<1>3. TypeOK'
  <2>1. proc' \in [Procs -> ProcType]
    BY <1>1, IdleFacts, Facts
  <2>2. faults' \in 0..MaxFaults
    BY FaultFacts DEF CrashInstance
  <2>3. mutex' \in [Instances -> Procs \union {Nil}]
    BY DEF CrashInstance, RefreshInv, TypeOK, RefreshTypeOK
  <2> QED
    BY <1>1, <2>1, <2>2, <2>3 DEF RefreshInv, TypeOK, RefreshTypeOK, ProcType
<1>4. SharedOk'
  BY <1>1 DEF RefreshInv, SharedOk, TokenOk, HandOk, Ordered
<1>5. TokenOk(First)
  BY FirstOk
<1>6. ASSUME NEW p \in Procs, NEW r, r = proc[p] \/ r = Idle
      PROVE  ProcOk(r)' /\ (Calm' => CalmOk(r)')
  <2>1. ProcOk(r) /\ (Calm => CalmOk(r))
    <3>1. CASE r = proc[p]
      BY <3>1, Facts
    <3>2. CASE r = Idle
      <4>1. ~Condemned(r) /\ r.pc = "idle" /\ ~r.holds /\ r.acc.tok = First /\ r.pc \notin Critical
        BY <3>2, IdleFacts
      <4> QED
        BY <4>1, <1>5 DEF ProcOk, CalmOk
    <3> QED
      BY <1>6, <3>1, <3>2
  <2> QED
    BY <1>1, <2>1 DEF ProcOk, CalmOk, Calm, Accepted, TokenOk
<1>7. \A p \in Procs : ProcOk(proc[p])' /\ (Calm' => CalmOk(proc[p])')
  BY <1>2, <1>6
<1>8. ASSUME NEW q \in Requests
      PROVE  ServedOk(proc[q], begun[q])'
  <2>1. q \in Procs
    BY DEF Procs
  <2>2. ServedOk(proc[q], begun[q])
    BY <2>1, Facts
  <2> QED
    BY <1>1, <1>2, <2>1, <2>2, IdleFacts DEF ServedOk, Ordered
<1>9. ASSUME NEW p \in Procs, NEW q \in Procs, p # q
      PROVE  Apart(proc[p], proc[q])'
  <2>1. Apart(proc[p], proc[q])
    BY <1>9 DEF RefreshInv
  <2>2. (proc'[p] = proc[p] \/ proc'[p] = Idle) /\ (proc'[q] = proc[q] \/ proc'[q] = Idle)
    BY <1>2
  <2>3. Calm' => Calm
    BY <1>1 DEF Calm
  <2> QED
    BY <1>1, <2>1, <2>2, <2>3, IdleFacts DEF Apart, Condemned
<1>10. Calm' => DisabledOk'
  <2> SUFFICES ASSUME Calm'
               PROVE  DisabledOk'
    OBVIOUS
  <2>1. DisabledOk
    BY <1>1, WorldFacts DEF Calm
  <2>2. \A p \in Procs : proc'[p].pc = "refresh" => proc'[p] = proc[p]
    BY <1>2, IdleFacts
  <2> QED
    BY <1>1, <2>1, <2>2 DEF DisabledOk, Accepted, At
<1> QED
  BY <1>3, <1>4, <1>7, <1>8, <1>9, <1>10 DEF RefreshInv

-----------------------------------------------------------------------------
LEMMA InitInd == Init => RefreshInv
<1> SUFFICES ASSUME Init
             PROVE  RefreshInv
  OBVIOUS
<1>1. /\ proc = [p \in Procs |-> Idle] /\ row = Idle.acc /\ last = [g \in 0..MaxGrant |-> 0] /\ revoked = {} /\ due = {}
      /\ lock = FALSE /\ mutex = [i \in Instances |-> Nil] /\ cached = Nil /\ stamp = 0 /\ faults = 0 /\ lockLost = FALSE
      /\ admin = [pc |-> "idle", tok |-> First, ver |-> 0] /\ begun = [q \in Requests |-> First] /\ outdated = FALSE
      /\ manual = [pc |-> "idle", acc |-> Idle.acc, got |-> First, ok |-> TRUE,
                    spent |-> FALSE, undone |-> FALSE]
      /\ platform \in {"claude", "grok"} /\ host \in Deployments
  BY DEF Init, RefreshInit
<1>2. \A p \in Procs : proc[p] = Idle
  BY <1>1
<1>3. Idle.acc.tok = First /\ Idle.acc \in Accounts /\ Idle.acc.ok
  BY FirstFacts DEF Idle, Accounts
<1>4. TypeOK
  <2>1. proc \in [Procs -> ProcType]
    BY <1>1, IdleFacts
  <2>2. /\ mutex \in [Instances -> Procs \union {Nil}] /\ last \in [0..MaxGrant -> 0..MaxUse]
        /\ begun \in [Requests -> Tokens] /\ faults \in 0..MaxFaults /\ stamp \in Nat
    BY <1>1, FirstFacts, RefreshAssumption
  <2>3. admin \in [pc: {"idle", "read", "write", "clear", "invalidate", "done"}, tok: Tokens, ver: Nat]
    BY <1>1, FirstFacts
  <2>4. row \in Accounts /\ cached \in Tokens \union {Nil} /\ revoked \subseteq 0..MaxGrant /\ due \subseteq Tokens
    BY <1>1, <1>3
  <2>5. manual \in HandType
    BY <1>1, <1>3, FirstFacts DEF HandType
  <2> QED
    BY <1>1, <2>1, <2>2, <2>3, <2>4, <2>5 DEF TypeOK, RefreshTypeOK, ProcType, HandType
<1>5. TokenOk(First)
  <2>1. last[0] = 0
    BY <1>1, RefreshAssumption
  <2> QED
    BY <1>1, <2>1, FirstFacts DEF TokenOk
<1>6. SharedOk
  BY <1>1, <1>3, <1>5, FirstFacts DEF SharedOk, HandOk
<1>7. \A p \in Procs : ProcOk(proc[p]) /\ CalmOk(proc[p])
  BY <1>2, <1>5, IdleFacts DEF ProcOk, CalmOk
<1>8. \A q \in Requests : ServedOk(proc[q], begun[q])
  BY <1>2, IdleFacts DEF ServedOk, Procs
<1>9. \A p, q \in Procs : p # q => Apart(proc[p], proc[q])
  BY <1>2, IdleFacts DEF Apart
<1>10. DisabledOk
  BY <1>1, <1>3 DEF DisabledOk
<1> QED
  BY <1>4, <1>6, <1>7, <1>8, <1>9, <1>10 DEF RefreshInv

LEMMA StutterInd ==
    ASSUME RefreshInv, UNCHANGED allVars
    PROVE  RefreshInv'
<1>1. UNCHANGED <<platform, host, proc, mutex, last, begun, outdated, row, stamp, admin, manual, revoked, due, lock, lockLost,
                  faults, cached>>
  BY DEF allVars, vars
<1>2. TokenOk(row.tok)' /\ HandOk' /\ \A p \in Procs : TokenOk(proc[p].acc.tok)'
  BY <1>1, WorldFacts DEF TokenOk, HandOk
<1>3. Calm' => Calm /\ DisabledOk'
  BY <1>1, WorldFacts DEF Calm, DisabledOk, Accepted, At
<1> QED
  BY <1>1, <1>2, <1>3, WorldFacts, LastStays, WorldStep

LEMMA RefreshStepInd ==
    ASSUME RefreshInv, NEW p \in Procs, RefreshIfNeeded(p) \/ TimeOut(p), UNCHANGED Rest
    PROVE  RefreshInv'
BY LocalLockInd, AcquireInd, RereadInd, RefreshInd, RecoverInd, PersistInd, LoadInd, ReleaseInd DEF RefreshIfNeeded

LEMMA NextInd == RefreshInv /\ [Next]_allVars => RefreshInv'
<1> SUFFICES ASSUME RefreshInv, [Next]_allVars
             PROVE  RefreshInv'
  OBVIOUS
<1>1. ASSUME NEW f \in Refreshers, Service(f), UNCHANGED Rest
      PROVE  RefreshInv'
  <2>1. f \in Procs
    BY DEF Procs
  <2> QED
    BY <1>1, <2>1, CycleInd, SetErrorInd, RefreshStepInd DEF Service
<1>2. ASSUME NEW q \in Requests, GetAccessToken(q)
      PROVE  RefreshInv'
  <2>1. q \in Procs /\ (RefreshIfNeeded(q) /\ UNCHANGED <<admin, manual, begun, outdated>> => RefreshInv')
    <3>1. q \in Procs
      BY DEF Procs
    <3> QED
      BY <3>1, RefreshStepInd DEF Rest
  <2> QED
    BY <1>2, <2>1, RequestInd, LookupInd, CheckInd DEF GetAccessToken
<1>3. ASSUME NEW p \in Procs, TimeOut(p), UNCHANGED Rest
      PROVE  RefreshInv'
  BY <1>3, RefreshStepInd
<1>4. CASE Admin \/ CacheExpires
  BY <1>4, AuthoriseInd, ApplyReadInd, ApplyWriteInd, ApplyEndInd, CacheExpiresInd DEF Admin
<1>5. CASE Manual
  BY <1>5, ManualQuietInd, ManualAskInd, ManualWriteInd DEF Manual
<1> QED
  BY <1>1, <1>2, <1>3, <1>4, <1>5, CrashInd, ExpiryInd, StutterInd DEF Next, Rest

(* Whatever crashes, times out or fails, whenever an administrator         *)
(* authorises the account again or refreshes it by hand.                   *)
THEOREM Inductive == Spec => []RefreshInv
BY InitInd, NextInd, PTL DEF Spec

(* Every variable keeps its type. *)
THEOREM TypeCorrect == Spec => []TypeOK
<1>1. RefreshInv => TypeOK
  BY DEF RefreshInv
<1> QED
  BY <1>1, Inductive, PTL

(* While the Redis lock works, one process on all instances is between     *)
(* re-reading the row and writing it (RefreshIfNeeded,                     *)
(* releaseRefreshLock).                                                    *)
THEOREM OneRefresh == Spec => []OneRefreshAtATime
<1>1. RefreshInv => OneRefreshAtATime
  <2> SUFFICES ASSUME RefreshInv, ~lockLost, NEW p \in Procs, NEW q \in Procs, p # q,
                      proc[p].pc \in Critical, proc[q].pc \in Critical
               PROVE  FALSE
    BY DEF OneRefreshAtATime
  <2>1. proc[p].holds /\ proc[q].holds
    BY Facts DEF ProcOk
  <2> QED
    BY <2>1 DEF RefreshInv, Apart
<1> QED
  BY <1>1, Inductive, PTL

(* While the lock works and no refresh by hand has used a token up, an     *)
(* account is disabled only for a token that the provider refuses          *)
(* (SetError after tryRecoverFromRefreshRace).                             *)
THEOREM DisabledAccountsAreRefused == Spec => []DisabledMeansRefused
<1>1. RefreshInv => DisabledMeansRefused
  BY WorldFacts DEF DisabledMeansRefused, DisabledOk, Calm
<1> QED
  BY <1>1, Inductive, PTL

(* A Grok request is never served an older token than that of the account  *)
(* it was given, unless a refresh by hand has replaced a newer one         *)
(* (GetAccessToken, waitForRefreshedToken, CheckTokenVersion).             *)
THEOREM ServedNoOlder == Spec => []NeverOlderThanGiven
<1>1. RefreshInv => NeverOlderThanGiven
  BY DEF RefreshInv, SharedOk, NeverOlderThanGiven, Ordered
<1> QED
  BY <1>1, Inductive, PTL

(* Only a step that writes credentials changes the row's token, and a      *)
(* write of Grok's, but for one by hand, is of the grant it found there,   *)
(* or of a later one.                                                      *)
LEMMA GrantKept ==
    ASSUME RefreshInv, [Next]_allVars, platform = "grok", ~ManualWrite
    PROVE  row'.tok.g >= row.tok.g
<1>1. row.tok \in Tokens /\ row.tok.g \in Nat
  BY WorldFacts, TokenFacts
<1>2. ASSUME row'.tok = row.tok
      PROVE  row'.tok.g >= row.tok.g
  BY <1>1, <1>2
<1>3. ASSUME NEW p \in Procs, Persist(p), row' # row
      PROVE  row'.tok.g >= row.tok.g
  <2>1. proc[p].pc = "persist" /\ row' = Renewed(p) /\ row.tok = proc[p].acc.tok
    BY <1>3 DEF Persist, At, SameCredentials, account
  <2>2. row'.tok = proc[p].got /\ proc[p].got.g = proc[p].acc.tok.g
    BY <2>1, Facts, WorldFacts DEF Renewed, ProcOk, Accounts
  <2> QED
    BY <1>1, <2>1, <2>2
<1>4. CASE ApplyWrite
  <2>1. row'.tok = admin.tok /\ row.tok.g < admin.tok.g /\ admin.tok.g \in Nat
    BY <1>4, WorldFacts, TokenFacts DEF ApplyWrite, Accounts, TokenOk
  <2> QED
    BY <1>1, <2>1
<1>5. ASSUME NEW p \in Procs, SetError(p)
      PROVE  row'.tok = row.tok
  BY <1>5, WorldFacts DEF SetError, Accounts
<1>6. ASSUME ApplyClearError
      PROVE  row'.tok = row.tok
  BY <1>6, WorldFacts DEF ApplyClearError, Accounts
<1>7. ASSUME NEW p \in Procs, RefreshIfNeeded(p)
      PROVE  row' = row \/ Persist(p)
  BY <1>7 DEF RefreshIfNeeded, LocalLock, AcquireRefreshLock, Reread, Refresh, RecoverFromRace, LoadDurable, Release, account
<1>8. ASSUME NEW p \in Procs, \/ StartCycle(p) \/ Invalidate(p) \/ TimeOut(p) \/ Request(p) \/ Lookup(p) \/ Wait(p)
                              \/ CheckTokenVersion(p) \/ SetAccessToken(p)
      PROVE  row' = row
  BY <1>8 DEF StartCycle, Invalidate, TimeOut, Request, Lookup, Wait, CheckTokenVersion, SetAccessToken, account
<1>9. ASSUME \/ \E i \in Instances : CrashInstance(i)
             \/ LockExpires \/ Expire \/ Authorise \/ ApplyRead \/ ApplyInvalidate \/ CacheExpires \/ UNCHANGED allVars
             \/ ManualRead \/ ManualAsk \/ ManualLoad \/ ManualInvalidate
      PROVE  row' = row
  BY <1>9 DEF CrashInstance, LockExpires, Expire, Authorise, ApplyRead, ApplyInvalidate, CacheExpires, account, allVars,
              vars, provider, ManualRead, ManualAsk, ManualLoad, ManualInvalidate
<1>10. CASE \E f \in Refreshers : Service(f)
  BY <1>2, <1>3, <1>5, <1>7, <1>8, <1>10 DEF Service, Procs
<1>11. CASE \E q \in Requests : GetAccessToken(q)
  BY <1>2, <1>3, <1>7, <1>8, <1>11 DEF GetAccessToken, Procs
<1> QED
  BY <1>2, <1>4, <1>6, <1>8, <1>9, <1>10, <1>11 DEF Next, Admin, Manual

(* No step but the write of a refresh by hand brings an earlier grant of a *)
(* Grok account back: not a service's or a request's refresh that was      *)
(* under way when the account was authorised again                         *)
(* (UpdateGrokOAuthCredentialsIfUnchanged), and not a late step of any     *)
(* process after a refresh by hand.                                        *)
THEOREM GrantsOnlyAdvance == Spec => AuthorisationStands
<1>1. RefreshInv /\ [Next]_allVars => [platform = "grok" /\ ~ManualWrite => row'.tok.g >= row.tok.g]_allVars
  BY GrantKept
<1> QED
  BY <1>1, Inductive, PTL DEF Spec, AuthorisationStands

=============================================================================
