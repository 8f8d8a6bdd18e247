---------------------------- MODULE BalanceCache ----------------------------
(***************************************************************************)
(* The cached balance of one user (service/billing_cache_service.go,       *)
(* repository/billing_cache.go) over the ledger: read-through, filled by   *)
(* workers that take their tasks in any order.                             *)
(***************************************************************************)
EXTENDS UsageBilling

CONSTANT Nil

VARIABLES
    cache,          \* the cached balance
    writes,         \* tasks of the cache writers: what to do, who asked, amount
    raced           \* ghost: a value that was read too early got into the cache

balances == <<cache, writes, raced>>

BalanceCacheTypeOK ==
    /\ cache \in Int \union {Nil}
    /\ \A w \in writes : /\ w.kind \in {"set", "deduct"} /\ w.by \in Usages /\ w.amount \in Int
    /\ raced \in BOOLEAN

BalanceCacheInit == cache = Nil /\ writes = {} /\ raced = FALSE

Task(k, u, n) == [kind |-> k, by |-> u, amount |-> n]

(* GetUserBalance: the cached value, or the row's, which a worker is asked *)
(* to put into the cache.                                                  *)
GetUserBalance == IF cache # Nil THEN cache ELSE balance

Fill(u) ==
    /\ writes' = IF cache # Nil THEN writes ELSE writes \union {Task("set", u, balance)}
    /\ UNCHANGED <<cache, raced>>

(* A key that is not there is not deducted from. *)
Deducted(n) == IF cache = Nil THEN Nil ELSE cache - n

(* cacheWriteWorker; unsynced is what will still be taken off the cache.   *)
CacheWrite(w, unsynced) ==
    /\ writes' = writes \ {w}
    /\ \/ /\ w.kind = "set" /\ cache' = w.amount
          /\ raced' = (raced \/ w.amount > balance + unsynced)
       \/ w.kind = "deduct" /\ cache' = Deducted(w.amount) /\ UNCHANGED raced

=============================================================================
