--------------------------- MODULE TokenProvider ---------------------------
(***************************************************************************)
(* The users of the refreshed token: requests that take it from a cache    *)
(* (claude_token_provider.go, grok_token_provider.go,                      *)
(* token_cache_invalidator.go) and administrators, who authorise the       *)
(* account again (ApplyOAuthCredentials) or refresh its token by hand      *)
(* (refreshSingleAccount), next to the background refresh.                 *)
(***************************************************************************)
EXTENDS OAuthRefresh

VARIABLES
    admin,      \* who authorises: step, new token and _token_version read
    manual,     \* who refreshes by hand: step, account read, token received,
                \* status read again; ghosts: a token was used up, a newer
                \* token than the one written was replaced
    begun,      \* per request: the token of the account it was given
    outdated    \* ghost: a request got an older token than that

provider == <<world, account, remote, locks, cached, proc, faults, lockLost>>
allVars  == <<vars, admin, manual, begun, outdated>>

TypeOK ==
    /\ RefreshTypeOK
    /\ admin \in [pc: {"idle", "read", "write", "clear", "invalidate", "done"}, tok: Tokens, ver: Nat]
    /\ manual \in [pc: {"idle", "ask", "load", "write", "invalidate"}, acc: Accounts, got: Tokens, ok: BOOLEAN,
                   spent: BOOLEAN, undone: BOOLEAN]
    /\ begun \in [Requests -> Tokens]
    /\ outdated \in BOOLEAN

Init ==
    /\ RefreshInit
    /\ admin = [pc |-> "idle", tok |-> First, ver |-> 0]
    /\ manual = [pc |-> "idle", acc |-> Idle.acc, got |-> First, ok |-> TRUE,
                 spent |-> FALSE, undone |-> FALSE]
    /\ begun = [q \in Requests |-> First]
    /\ outdated = FALSE

-----------------------------------------------------------------------------
(* GetAccessToken.                                                         *)

End(q) == Done(q) /\ begun' = [begun EXCEPT ![q] = First]

Serve(q, t) == End(q) /\ outdated' = (outdated \/ (platform = "grok" /\ Older(t, begun[q])))

(* The account as it was read for the request. *)
Request(q) ==
    /\ At(q, "idle")
    /\ row.ok
    /\ proc' = [proc EXCEPT ![q] = [Idle EXCEPT !.pc = "lookup", !.acc = row]]
    /\ begun' = [begun EXCEPT ![q] = IF platform = "grok" THEN row.tok ELSE @]
    /\ UNCHANGED <<world, account, remote, locks, cached, faults, lockLost, admin, manual, outdated>>

(* Mutant of Hit: Grok trusts the cache as the others do. *)
HitAny(a) == cached # Nil

(* Grok takes a cached token only if it is the account's. *)
Hit(a) ==
    /\ cached # Nil
    /\ platform = "grok" => cached = a.tok /\ a.tok \notin due

Lookup(q) ==
    /\ At(q, "lookup")
    /\ IF Hit(proc[q].acc) THEN Serve(q, cached)
       ELSE /\ Goto(q, IF proc[q].acc.tok \in due THEN "mutex" ELSE "check")
            /\ UNCHANGED <<begun, outdated>>
    /\ UNCHANGED <<world, account, remote, locks, cached, faults, lockLost, admin, manual>>

(* The lock was held: the cache once more, or, for Grok, the row until it  *)
(* has changed (waitForRefreshedToken).                                    *)
Wait(q) ==
    /\ At(q, "wait")
    /\ \/ /\ platform = "claude"
          /\ IF cached # Nil THEN Serve(q, cached) ELSE Goto(q, "check") /\ UNCHANGED <<begun, outdated>>
          /\ UNCHANGED cached
       \/ /\ platform = "grok" /\ row.ok
          /\ row.tok # proc[q].acc.tok \/ row.ver > proc[q].acc.ver
          /\ Serve(q, row.tok)
          /\ cached' = IF cached # Nil THEN row.tok ELSE cached
       \/ platform = "grok" /\ End(q) /\ UNCHANGED <<cached, outdated>>
    /\ UNCHANGED <<world, account, remote, locks, faults, lockLost, admin, manual>>

(* CheckTokenVersion: the token of a newer row is served and not cached.   *)
CheckTokenVersion(q) ==
    /\ At(q, "check")
    /\ \/ /\ row.ver > proc[q].acc.ver
          /\ IF platform = "grok" => row.ok THEN Serve(q, row.tok) ELSE End(q) /\ UNCHANGED outdated
          /\ UNCHANGED faults
       \/ row.ver <= proc[q].acc.ver /\ Goto(q, "fill") /\ UNCHANGED <<begun, outdated, faults>>
       \/ Goto(q, "fill") /\ Fault /\ UNCHANGED <<begun, outdated>>
    /\ UNCHANGED <<world, account, remote, locks, cached, lockLost, admin, manual>>

SetAccessToken(q) ==
    /\ At(q, "fill")
    /\ cached' = proc[q].acc.tok
    /\ Serve(q, proc[q].acc.tok)
    /\ UNCHANGED <<world, account, remote, locks, faults, lockLost, admin, manual>>

GetAccessToken(q) ==
    \/ Request(q) \/ Lookup(q) \/ Wait(q) \/ CheckTokenVersion(q) \/ SetAccessToken(q)
    \/ RefreshIfNeeded(q) /\ UNCHANGED <<admin, manual, begun, outdated>>

-----------------------------------------------------------------------------
(* ApplyOAuthCredentials.                                                  *)

Step(l) == admin' = [admin EXCEPT !.pc = l]

(* The administrator authorises the account with the provider, which may   *)
(* revoke the earlier grant.                                               *)
Authorise ==
    /\ admin.pc \in {"idle", "done"} /\ admin.tok.g < MaxGrant
    /\ admin' = [admin EXCEPT !.pc = "read", !.tok = [g |-> @.g + 1, n |-> 0]]
    /\ \/ revoked' = revoked \union {admin.tok.g}
       \/ UNCHANGED revoked
    /\ UNCHANGED <<world, account, last, due, locks, cached, proc, faults, lockLost, manual, begun, outdated>>

(* What the new credentials lack is merged from the row read here:         *)
(* _token_version is.                                                      *)
ApplyRead ==
    /\ admin.pc = "read"
    /\ admin' = [admin EXCEPT !.pc = "write", !.ver = row.ver]
    /\ UNCHANGED <<provider, manual, begun, outdated>>

ApplyWrite ==
    /\ admin.pc = "write" /\ Step("clear")
    /\ row' = [row EXCEPT !.tok = admin.tok, !.ver = admin.ver]
    /\ UNCHANGED <<world, stamp, remote, locks, cached, proc, faults, lockLost, manual, begun, outdated>>

(* ClearAccountError *)
ApplyClearError ==
    /\ admin.pc = "clear" /\ Step("invalidate")
    /\ row' = [row EXCEPT !.ok = TRUE]
    /\ UNCHANGED <<world, stamp, remote, locks, cached, proc, faults, lockLost, manual, begun, outdated>>

ApplyInvalidate ==
    /\ admin.pc = "invalidate" /\ Step("done")
    /\ cached' = Nil
    /\ UNCHANGED <<world, account, remote, locks, proc, faults, lockLost, manual, begun, outdated>>

Admin == Authorise \/ ApplyRead \/ ApplyWrite \/ ApplyClearError \/ ApplyInvalidate

-----------------------------------------------------------------------------
(* refreshSingleAccount, one at a time and counted with the faults:        *)
(* whether the token is due and the account active or not, with no mutex,  *)
(* no Redis lock, no second reading and no comparison.                     *)

(* What was read and received is forgotten. *)
Forget(l) == [manual EXCEPT !.pc = l, !.acc = Idle.acc, !.got = First, !.ok = TRUE]

ManualRead ==
    /\ manual.pc = "idle" /\ Fault
    /\ row.tok.n < MaxUse
    /\ manual' = [manual EXCEPT !.pc = "ask", !.acc = row]
    /\ UNCHANGED <<world, account, remote, locks, cached, proc, lockLost, admin, begun, outdated>>

(* RefreshAccountToken: a refusal or a failure is the administrator's      *)
(* answer and changes nothing else; the token may be used up by then.      *)
ManualAsk ==
    LET t == manual.acc.tok IN
    /\ manual.pc = "ask"
    /\ \/ /\ Accepted(t)
          /\ last' = [last EXCEPT ![t.g] = @ + 1]
          /\ \/ manual' = [manual EXCEPT !.pc = "load", !.got = [t EXCEPT !.n = @ + 1], !.spent = TRUE]
             \/ manual' = [Forget("idle") EXCEPT !.spent = TRUE]
       \/ manual' = Forget("idle") /\ UNCHANGED last
    /\ UNCHANGED <<world, account, revoked, due, locks, cached, proc, faults, lockLost, admin, begun, outdated>>

(* UpdateAccount reads the row and writes all of it, with the credentials  *)
(* merged into those of ManualRead and the status found here.              *)
ManualLoad ==
    /\ manual.pc = "load"
    /\ manual' = [manual EXCEPT !.pc = "write", !.ok = row.ok]
    /\ UNCHANGED <<provider, admin, begun, outdated>>

ManualWrite ==
    /\ manual.pc = "write"
    /\ row' = [tok |-> manual.got, ver |-> manual.acc.ver, ok |-> manual.ok]
    /\ manual' = [Forget("invalidate") EXCEPT !.undone = @ \/ (platform = "grok" /\ Older(manual.got, row.tok))]
    /\ UNCHANGED <<world, stamp, remote, locks, cached, proc, faults, lockLost, admin, begun, outdated>>

(* InvalidateToken, whose error is only logged; the Grok handler's own     *)
(* endpoint does not call it.                                              *)
ManualInvalidate ==
    /\ manual.pc = "invalidate" /\ manual' = Forget("idle")
    /\ cached' \in {Nil, cached}
    /\ UNCHANGED <<world, account, remote, locks, proc, faults, lockLost, admin, begun, outdated>>

Manual == ManualRead \/ ManualAsk \/ ManualLoad \/ ManualWrite \/ ManualInvalidate

-----------------------------------------------------------------------------
(* A cached token's TTL ends. *)
CacheExpires ==
    /\ cached # Nil /\ cached' = Nil
    /\ UNCHANGED <<world, account, remote, locks, proc, faults, lockLost, admin, manual, begun, outdated>>

Next ==
    \/ \E f \in Refreshers : Service(f) /\ UNCHANGED <<admin, manual, begun, outdated>>
    \/ \E q \in Requests : GetAccessToken(q)
    \/ \E p \in Procs : TimeOut(p) /\ UNCHANGED <<admin, manual, begun, outdated>>
    \/ \E i \in Instances : CrashInstance(i) /\ UNCHANGED <<admin, manual, begun, outdated>>
    \/ (LockExpires \/ Expire) /\ UNCHANGED <<admin, manual, begun, outdated>>
    \/ Admin \/ Manual \/ CacheExpires

(* Fairness: the background services go on, and a lock that nobody deletes *)
(* expires.  Nothing is assumed of the requests.                           *)
Rest == <<admin, manual, begun, outdated>>

Fairness ==
    /\ \A f \in Refreshers : WF_allVars(Service(f) /\ UNCHANGED Rest)
    /\ WF_allVars(LockExpires /\ UNCHANGED Rest)

Spec == Init /\ [][Next]_allVars /\ Fairness

-----------------------------------------------------------------------------
(* While the Redis lock works, at most one of the services and requests on *)
(* all instances is between re-reading the row and writing it, whatever    *)
(* crashes, times out or is deleted by others (RefreshIfNeeded,            *)
(* releaseRefreshLock).  A refresh by hand takes no lock, so this does not *)
(* say that a refresh token is used once.                                  *)
OneRefreshAtATime ==
    ~lockLost => \A p, q \in Procs : p # q => ~(proc[p].pc \in Critical /\ proc[q].pc \in Critical)

(* While the lock works and no administrator has used a refresh token up   *)
(* by hand, an account is disabled only when the provider really refuses   *)
(* its token; for platforms without compare-and-set this holds as long as  *)
(* nobody authorises the account again (SetError after                     *)
(* tryRecoverFromRefreshRace).                                             *)
DisabledMeansRefused ==
    /\ ~lockLost /\ ~manual.spent
    /\ ~row.ok /\ admin.pc \in {"idle", "done"}
    /\ platform = "claude" => admin.tok.g = 0
    => ~Accepted(row.tok)

(* A service's or request's refresh that was under way when a Grok account *)
(* was authorised again never brings the earlier grant back                *)
(* (UpdateGrokOAuthCredentialsIfUnchanged).  The write of a refresh by     *)
(* hand is excepted: it compares nothing.                                  *)
AuthorisationStands ==
    [][platform = "grok" /\ ~ManualWrite => row'.tok.g >= row.tok.g]_allVars

(* A Grok request is never served an older token than that of the account  *)
(* it was given, although stale tokens do get into the cache, as long as   *)
(* no refresh by hand has replaced a newer token (GetAccessToken,          *)
(* waitForRefreshedToken, CheckTokenVersion).                              *)
NeverOlderThanGiven == platform = "grok" /\ ~manual.undone => ~outdated

(* An active account whose token is due gets a new one or is disabled,     *)
(* although instances die with the lock set and tokens are used up by      *)
(* hand, unless a request stays in the middle with the lock or new ones    *)
(* keep coming and take it each time (RefreshIfNeeded, the lock's TTL).    *)
DueIsRefreshed ==
    <>[](\A q \in Requests : At(q, "idle"))
      => (row.ok /\ row.tok \in due ~> ~(row.ok /\ row.tok \in due))

=============================================================================
