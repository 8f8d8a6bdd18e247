---------------------------- MODULE UsageBilling ----------------------------
(***************************************************************************)
(* The billing ledger of one user (repository/usage_billing_repo.go): the  *)
(* balance, the frozen balance in which the holds of all batch image jobs  *)
(* are pooled, and the rows that make each billing request happen once.    *)
(* Every operation is one transaction.                                     *)
(***************************************************************************)
EXTENDS Integers

CONSTANTS
    Holders,        \* the batch image jobs that money may be held for
    Usages,         \* ordinary billable requests of the user
    Cost,           \* what each of them costs
    Hold,           \* what is frozen for a job
    StartBalance,
    OtherHolds      \* what is frozen for the user's other jobs

ASSUME LedgerAssumption ==
    /\ Cost \in [Usages -> Nat \ {0}]
    /\ Hold \in Nat \ {0} /\ StartBalance \in Int /\ OtherHolds \in Nat

VARIABLES
    balance,
    frozen,
    dedup,          \* usage_billing_dedup: <<request, fingerprint>>
    archive,        \* usage_billing_dedup_archive
    moved           \* ghost: how often each request moved money

ledger == <<balance, frozen, dedup, archive, moved>>

Requests == ({"hold", "capture", "release"} \X Holders) \union ({"usage"} \X Usages)

LedgerTypeOK ==
    /\ balance \in Int
    /\ frozen \in Nat
    /\ dedup \subseteq Requests \X Nat
    /\ archive \subseteq Requests \X Nat
    /\ moved \in [Requests -> Nat]

LedgerInit ==
    /\ balance = StartBalance
    /\ frozen = OtherHolds
    /\ dedup = {} /\ archive = {}
    /\ moved = [r \in Requests |-> 0]

-----------------------------------------------------------------------------
(* Mutant of Rows: the archive is not looked up. *)
LiveRows == dedup

Rows         == dedup \union archive
Claimed(r)   == \E row \in Rows : row[1] = r
Conflict(r, f) == \E row \in Rows : row[1] = r /\ row[2] # f

(* claimUsageBillingRequest inserts the row; the transaction moves money   *)
(* with it.  A row that only the archive has counts as well: the insert is *)
(* rolled back.                                                            *)
Claim(r, f)  == dedup' = dedup \union {<<r, f>>} /\ UNCHANGED archive
Moves(r)     == moved' = [moved EXCEPT ![r] = @ + 1]
Already(r)   == Claimed(r) /\ UNCHANGED ledger

(* Apply: an ordinary request is charged even if the balance does not      *)
(* cover it.                                                               *)
Apply(u) ==
    LET r == <<"usage", u>> IN
    \/ Already(r)
    \/ ~Claimed(r) /\ Claim(r, 0) /\ Moves(r) /\ balance' = balance - Cost[u] /\ UNCHANGED frozen

(* ReserveBatchImageBalance *)
ReserveOK(b) == Claimed(<<"hold", b>>) \/ balance >= Hold

Reserve(b) ==
    LET r == <<"hold", b>> IN
    \/ Already(r)
    \/ ~Claimed(r) /\ Claim(r, 0) /\ Moves(r) /\ balance' = balance - Hold /\ frozen' = frozen + Hold

(* CaptureBatchImageBalance; the amount is part of the fingerprint.  What  *)
(* was frozen for this batch is not looked at, only the pool.              *)
CaptureOK(b, actual) ==
    LET r == <<"capture", b>> IN
    ~Conflict(r, actual) /\ (Claimed(r) \/ (actual <= Hold /\ frozen >= Hold))

Capture(b, actual) ==
    LET r == <<"capture", b>> IN
    \/ Already(r)
    \/ /\ ~Claimed(r) /\ Claim(r, actual) /\ Moves(r)
       /\ balance' = balance + (Hold - actual)
       /\ frozen' = frozen - Hold

(* ReleaseBatchImageBalance; a batch that was never reserved is skipped,   *)
(* but its release is claimed.                                             *)
ReleaseOK(b) ==
    Claimed(<<"release", b>>) \/ ~Claimed(<<"hold", b>>) \/ frozen >= Hold

(* Mutant of Release: whether the batch was reserved is not looked up. *)
ReleaseAny(b) ==
    LET r == <<"release", b>> IN
    \/ Already(r)
    \/ ~Claimed(r) /\ Claim(r, 0) /\ Moves(r) /\ balance' = balance + Hold /\ frozen' = frozen - Hold

Release(b) ==
    LET r == <<"release", b>> IN
    \/ Already(r)
    \/ /\ ~Claimed(r) /\ Claim(r, 0)
       /\ IF Claimed(<<"hold", b>>)
          THEN Moves(r) /\ balance' = balance + Hold /\ frozen' = frozen - Hold
          ELSE UNCHANGED <<balance, frozen, moved>>

(* CleanupUsageBillingDedup: old rows move to the archive. *)
Cleanup ==
    /\ dedup # {}
    /\ archive' = archive \union dedup
    /\ dedup' = {}
    /\ UNCHANGED <<balance, frozen, moved>>

=============================================================================
