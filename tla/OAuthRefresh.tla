---------------------------- MODULE OAuthRefresh ----------------------------
(***************************************************************************)
(* The refresh of one upstream account's OAuth token                       *)
(* (service/oauth_refresh_api.go, service/token_refresh_service.go).  The  *)
(* provider rotates refresh tokens: each is accepted once.  A refresh runs *)
(* under a mutex of its instance and a Redis lock with a TTL, which has no *)
(* owner; it re-reads the row, calls the provider and writes the new       *)
(* credentials.  Platform "grok" writes with compare-and-set, the others   *)
(* unconditionally.                                                        *)
(***************************************************************************)
EXTENDS Integers

CONSTANTS
    Instances,      \* processes of the gateway
    Refreshers,     \* background refresh services
    Requests,       \* requests that need an access token
    Deployments,    \* which instance each of them may run on
    Nil,
    MaxGrant,       \* bound: authorisations of the account
    MaxUse,         \* bound: refreshes of one authorisation
    MaxFaults       \* bound: failures

Procs == Refreshers \union Requests

ASSUME RefreshAssumption ==
    /\ MaxGrant \in Nat /\ MaxUse \in Nat /\ MaxFaults \in Nat
    /\ Deployments \subseteq [Procs -> Instances]
    /\ Refreshers \intersect Requests = {}
    /\ Nil \notin Procs

VARIABLES
    platform,
    host,
    row,        \* the account: token, _token_version, and whether it is active
    last,       \* provider: the refresh token each grant accepts next
    revoked,    \* provider: grants that are no longer accepted
    due,        \* tokens whose expiry is near
    lock,       \* the Redis lock exists
    mutex,      \* who holds the mutex of each instance
    cached,     \* the cached access token
    proc,       \* per process: step, account at hand, token received,
                \* whether it set the lock, outcome of the refresh
    stamp,      \* how often credentials were written: the time of the last
    faults,
    lockLost    \* ghost: the lock failed, or expired under its holder

world   == <<platform, host>>
account == <<row, stamp>>
remote  == <<last, revoked, due>>
locks   == <<lock, mutex>>
vars    == <<platform, host, row, last, revoked, due, lock, mutex, cached, proc, stamp, faults, lockLost>>

Tokens   == [g: 0..MaxGrant, n: 0..MaxUse]
Accounts == [tok: Tokens, ver: Nat, ok: BOOLEAN]
First    == [g |-> 0, n |-> 0]

Critical   == {"reread", "refresh", "recover", "persist", "durable"}
RefreshPcs == Critical \union {"idle", "mutex", "lock", "release"}
ServicePcs == {"setError", "invalidate"}
RequestPcs == {"lookup", "wait", "check", "fill"}

RefreshTypeOK ==
    /\ platform \in {"claude", "grok"}
    /\ host \in Deployments
    /\ row \in Accounts
    /\ last \in [0..MaxGrant -> 0..MaxUse]
    /\ revoked \subseteq 0..MaxGrant
    /\ due \subseteq Tokens
    /\ lock \in BOOLEAN
    /\ mutex \in [Instances -> Procs \union {Nil}]
    /\ cached \in Tokens \union {Nil}
    /\ proc \in [Procs -> [pc: RefreshPcs \union ServicePcs \union RequestPcs, acc: Accounts,
                           got: Tokens, holds: BOOLEAN,
                           res: {"none", "current", "refreshed", "invalid", "error", "held"}]]
    /\ stamp \in Nat
    /\ faults \in 0..MaxFaults
    /\ lockLost \in BOOLEAN

Idle == [pc |-> "idle", acc |-> [tok |-> First, ver |-> 0, ok |-> TRUE], got |-> First,
         holds |-> FALSE, res |-> "none"]

RefreshInit ==
    /\ platform \in {"claude", "grok"}
    /\ host \in Deployments
    /\ row = Idle.acc
    /\ last = [g \in 0..MaxGrant |-> 0]
    /\ revoked = {}
    /\ due = {}
    /\ lock = FALSE
    /\ mutex = [i \in Instances |-> Nil]
    /\ cached = Nil
    /\ proc = [p \in Procs |-> Idle]
    /\ stamp = 0 /\ faults = 0 /\ lockLost = FALSE

-----------------------------------------------------------------------------
At(p, l)      == proc[p].pc = l
Goto(p, l)    == proc' = [proc EXCEPT ![p].pc = l]
Done(p)       == proc' = [proc EXCEPT ![p] = Idle]
Return(p, r)  == proc' = [proc EXCEPT ![p].pc = "release", ![p].res = r]
Fault         == faults < MaxFaults /\ faults' = faults + 1
Accepted(t)   == t.g \notin revoked /\ t.n = last[t.g]
Older(s, t)   == s.g < t.g \/ (s.g = t.g /\ s.n < t.n)

(* The time an attempt may take is limited to less than the lock's TTL,    *)
(* except for the requests of platforms other than Grok.                   *)
Bounded(p) == p \in Refreshers \/ platform = "grok"

-----------------------------------------------------------------------------
(* RefreshIfNeeded.                                                        *)

LocalLock(p) ==
    /\ At(p, "mutex")
    /\ mutex[host[p]] = Nil
    /\ mutex' = [mutex EXCEPT ![host[p]] = p]
    /\ Goto(p, "lock")
    /\ UNCHANGED <<world, account, remote, lock, cached, faults, lockLost>>

(* Mutant of AcquireRefreshLock: SET without NX. *)
AcquireRefreshLockAnyway(p) ==
    /\ At(p, "lock")
    /\ lock' = TRUE /\ proc' = [proc EXCEPT ![p].pc = "reread", ![p].holds = TRUE]
    /\ UNCHANGED <<world, account, remote, mutex, cached, faults, lockLost>>

(* When Redis fails, the refresh goes on without the lock. *)
AcquireRefreshLock(p) ==
    /\ At(p, "lock")
    /\ \/ /\ ~lock /\ lock' = TRUE
          /\ proc' = [proc EXCEPT ![p].pc = "reread", ![p].holds = TRUE]
          /\ UNCHANGED <<faults, lockLost>>
       \/ lock /\ Return(p, "held") /\ UNCHANGED <<lock, faults, lockLost>>
       \/ Goto(p, "reread") /\ Fault /\ lockLost' = TRUE /\ UNCHANGED lock
    /\ UNCHANGED <<world, account, remote, mutex, cached>>

(* Mutant of Reread: the need is not checked again under the lock. *)
RereadOnly(p) ==
    /\ At(p, "reread")
    /\ proc' = [proc EXCEPT ![p].acc = row, ![p].pc = "refresh"]
    /\ UNCHANGED <<world, account, remote, locks, cached, faults, lockLost>>

(* An account that is not active is left alone; for a request of Grok that *)
(* is an error.                                                            *)
Reread(p) ==
    /\ At(p, "reread")
    /\ \/ /\ proc' = [proc EXCEPT ![p].acc = row,
                ![p].pc = IF row.ok /\ row.tok \in due THEN "refresh" ELSE "release",
                ![p].res = IF ~row.ok /\ p \in Requests /\ platform = "grok" THEN "error" ELSE "current"]
          /\ UNCHANGED faults
       \/ Return(p, "error") /\ Fault
    /\ UNCHANGED <<world, account, remote, locks, cached, lockLost>>

(* executor.Refresh: the provider rotates the token, refuses one it does   *)
(* not accept (invalid_grant), or fails; the answer may be lost.           *)
Refresh(p) ==
    LET t == proc[p].acc.tok IN
    /\ At(p, "refresh")
    /\ \/ /\ Accepted(t)
          /\ last' = [last EXCEPT ![t.g] = @ + 1]
          /\ \/ proc' = [proc EXCEPT ![p].pc = "persist", ![p].got = [t EXCEPT !.n = @ + 1]]
                /\ UNCHANGED faults
             \/ Return(p, "error") /\ Fault
       \/ ~Accepted(t) /\ Goto(p, "recover") /\ UNCHANGED <<last, faults>>
       \/ Return(p, "error") /\ Fault /\ UNCHANGED last
    /\ UNCHANGED <<world, account, revoked, due, locks, cached, lockLost>>

(* tryRecoverFromRefreshRace *)
RecoverFromRace(p) ==
    /\ At(p, "recover")
    /\ \/ /\ row.tok # proc[p].acc.tok
          /\ proc' = [proc EXCEPT ![p].pc = "release", ![p].res = "current", ![p].acc = row]
          /\ UNCHANGED faults
       \/ row.tok = proc[p].acc.tok /\ Return(p, "invalid") /\ UNCHANGED faults
       \/ Return(p, "invalid") /\ Fault
    /\ UNCHANGED <<world, account, remote, locks, cached, lockLost>>

(* _token_version is the time of the write: above every earlier one. *)
Renewed(p) == [row EXCEPT !.tok = proc[p].got, !.ver = stamp + 1]

SameCredentials(a, b) == a.tok = b.tok /\ a.ver = b.ver

(* Mutant of Persist: Grok writes like the others. *)
PersistAnyway(p) ==
    /\ At(p, "persist")
    /\ row' = Renewed(p) /\ stamp' = stamp + 1
    /\ proc' = [proc EXCEPT ![p].pc = IF platform = "grok" THEN "durable" ELSE "release",
                ![p].res = "refreshed", ![p].acc = [row' EXCEPT !.ok = proc[p].acc.ok]]
    /\ UNCHANGED <<world, remote, locks, cached, faults, lockLost>>

(* UpdateGrokOAuthCredentialsIfUnchanged, or persistAccountCredentials;    *)
(* when the compare-and-set misses, the current row is taken.              *)
Persist(p) ==
    /\ At(p, "persist")
    /\ \/ /\ platform = "claude" \/ SameCredentials(row, proc[p].acc)
          /\ row' = Renewed(p) /\ stamp' = stamp + 1
          /\ \/ /\ proc' = [proc EXCEPT ![p].pc = IF platform = "grok" THEN "durable" ELSE "release",
                            ![p].res = "refreshed", ![p].acc = [row' EXCEPT !.ok = proc[p].acc.ok]]
                /\ UNCHANGED faults
             \/ Return(p, "error") /\ Fault
       \/ /\ platform = "grok" /\ ~SameCredentials(row, proc[p].acc)
          /\ proc' = [proc EXCEPT ![p].pc = "release", ![p].res = "current", ![p].acc = row]
          /\ UNCHANGED <<account, faults>>
       \/ Return(p, "error") /\ Fault /\ UNCHANGED account
    /\ UNCHANGED <<world, remote, locks, cached, lockLost>>

(* loadGrokDurableAccountAfterPersist *)
LoadDurable(p) ==
    /\ At(p, "durable")
    /\ cached' = Nil
    /\ \/ proc' = [proc EXCEPT ![p].pc = "release", ![p].acc = row] /\ UNCHANGED faults
       \/ Return(p, "error") /\ Fault
    /\ UNCHANGED <<world, account, remote, locks, lockLost>>

(* The attempt's context ends: what the provider answers later is dropped. *)
TimeOut(p) ==
    /\ proc[p].pc \in {"reread", "refresh", "persist"}
    /\ Return(p, "error") /\ Fault
    /\ UNCHANGED <<world, account, remote, locks, cached, lockLost>>

(* Where the caller goes on: a Grok request ends with an error when the    *)
(* account at hand is not active (grokOAuthRequestAccountEligibilityError). *)
After(p) ==
    LET good == platform = "grok" => proc[p].acc.ok IN
    CASE p \in Refreshers ->
           (CASE proc[p].res = "refreshed" -> "invalidate"
              [] proc[p].res = "invalid" -> "setError"
              [] OTHER -> "idle")
      [] p \in Requests ->
           (CASE good /\ proc[p].res \in {"refreshed", "current"} -> "check"
              [] good /\ proc[p].res = "held" -> "wait"
              [] OTHER -> IF platform = "grok" THEN "idle" ELSE "check")

(* Mutant of Release: the early return keeps the mutex. *)
ReleaseLockOnly(p) ==
    /\ At(p, "release")
    /\ lock' = (lock /\ ~proc[p].holds)
    /\ mutex' = IF proc[p].res = "held" THEN mutex ELSE [mutex EXCEPT ![host[p]] = Nil]
    /\ proc' = [proc EXCEPT ![p] = [Idle EXCEPT !.pc = After(p), !.acc = proc[p].acc]]
    /\ UNCHANGED <<world, account, remote, cached, faults, lockLost>>

(* releaseRefreshLock deletes the lock, whoever has set it by now, and the *)
(* mutex is unlocked.                                                      *)
Release(p) ==
    /\ At(p, "release")
    /\ \/ lock' = (lock /\ ~proc[p].holds) /\ UNCHANGED faults
       \/ proc[p].holds /\ Fault /\ UNCHANGED lock
    /\ mutex' = [mutex EXCEPT ![host[p]] = Nil]
    /\ proc' = [proc EXCEPT ![p] = [Idle EXCEPT !.pc = After(p),
                                                !.acc = IF After(p) = "idle" THEN @ ELSE proc[p].acc]]
    /\ UNCHANGED <<world, account, remote, cached, lockLost>>

RefreshIfNeeded(p) ==
    \/ LocalLock(p) \/ AcquireRefreshLock(p) \/ Reread(p) \/ Refresh(p) \/ RecoverFromRace(p)
    \/ Persist(p) \/ LoadDurable(p) \/ Release(p)

-----------------------------------------------------------------------------
(* The background service, for this account; a retry is a new start.       *)

StartCycle(f) ==
    /\ At(f, "idle")
    /\ row.ok /\ row.tok \in due
    /\ proc' = [proc EXCEPT ![f] = [Idle EXCEPT !.pc = "mutex"]]
    /\ UNCHANGED <<world, account, remote, locks, cached, faults, lockLost>>

(* Mutant of SetError: Grok's update without its condition. *)
SetErrorAnyway(f) ==
    /\ At(f, "setError")
    /\ row' = [row EXCEPT !.ok = FALSE] /\ Goto(f, "invalidate")
    /\ UNCHANGED <<world, stamp, remote, locks, cached, faults, lockLost>>

(* An invalid_grant disables the account; for Grok only while it is active *)
(* with the credentials that were refused.                                 *)
SetError(f) ==
    /\ At(f, "setError")
    /\ \/ /\ platform = "grok" => row.ok /\ SameCredentials(row, proc[f].acc)
          /\ row' = [row EXCEPT !.ok = FALSE] /\ Goto(f, "invalidate")
          /\ UNCHANGED faults
       \/ /\ platform = "grok" /\ ~(row.ok /\ SameCredentials(row, proc[f].acc))
          /\ Done(f) /\ UNCHANGED <<row, faults>>
       \/ /\ IF platform = "grok" THEN Done(f) ELSE Goto(f, "invalidate")
          /\ Fault /\ UNCHANGED row
    /\ UNCHANGED <<world, stamp, remote, locks, cached, lockLost>>

(* InvalidateToken, after a refresh and after a refusal *)
Invalidate(f) ==
    /\ At(f, "invalidate")
    /\ cached' = Nil \/ (UNCHANGED cached /\ faults < MaxFaults)
    /\ faults' = IF cached' = Nil THEN faults ELSE faults + 1
    /\ Done(f)
    /\ UNCHANGED <<world, account, remote, locks, lockLost>>

Service(f) == StartCycle(f) \/ SetError(f) \/ Invalidate(f) \/ RefreshIfNeeded(f)

-----------------------------------------------------------------------------
(* The lock's TTL passes.  Its holder is then gone, or is a request that   *)
(* takes longer.                                                           *)
LockExpires ==
    /\ lock /\ lock' = FALSE
    /\ \/ (\A p \in Procs : ~proc[p].holds) /\ UNCHANGED <<faults, lockLost>>
       \/ (\E p \in Procs : proc[p].holds /\ ~Bounded(p)) /\ Fault /\ lockLost' = TRUE
    /\ UNCHANGED <<world, account, remote, mutex, cached, proc>>

CrashInstance(i) ==
    /\ \E p \in Procs : host[p] = i /\ ~At(p, "idle")
    /\ proc' = [p \in Procs |-> IF host[p] = i THEN Idle ELSE proc[p]]
    /\ mutex' = [mutex EXCEPT ![i] = Nil]
    /\ Fault
    /\ UNCHANGED <<world, account, remote, lock, cached, lockLost>>

(* Time passes: the token in use comes near its expiry. *)
Expire ==
    /\ row.tok.n < MaxUse
    /\ row.tok \notin due
    /\ due' = due \union {row.tok}
    /\ UNCHANGED <<world, account, last, revoked, locks, cached, proc, faults, lockLost>>

=============================================================================
