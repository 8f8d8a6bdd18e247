-------------------------- MODULE SchedulerOutbox --------------------------
(***************************************************************************)
(* The accounts of one group, whether the group is active, and the outbox  *)
(* that announces changes of both (repository/scheduler_outbox_repo.go).   *)
(* An account's change is saved and announced either by two statements or  *)
(* in one transaction; a group's by two statements.  A row's id is drawn   *)
(* when it is inserted, and the row is seen when it is committed.  Some    *)
(* changes of the accounts that may be scheduled are not announced.        *)
(***************************************************************************)
EXTENDS Integers, FiniteSets, FiniteSetsExt, Sequences, SequencesExt

CONSTANT MaxFaults      \* bound: failures

ASSUME OutboxAssumption == MaxFaults \in Nat

Subjects == {"account", "group"}

VARIABLES
    saved,          \* per subject: how often it has changed
    rows,           \* scheduler_outbox: committed rows
    seq,            \* the last id drawn
    writer,         \* per subject: the change under way, and its row
    watermark,      \* Redis: the last id consumed
    missed,         \* ghost: a change was not announced, its row may not be
                    \* read, or what was read may not be what is active
    faults

outbox == <<saved, rows, seq, writer, watermark>>

(* Groups start active. *)
GroupActive == saved["group"] % 2 = 0

Quiet == [pc |-> "none", id |-> 0]

OutboxInit ==
    /\ saved = [s \in Subjects |-> 0]
    /\ rows = {} /\ seq = 0 /\ watermark = 0
    /\ writer = [s \in Subjects |-> Quiet]
    /\ missed = FALSE /\ faults = 0

(* Changes made or under way. *)
Changes == saved["account"] + saved["group"]
           + Cardinality({s \in Subjects : writer[s].pc \in {"insert", "commit"}})

Fault == faults < MaxFaults /\ faults' = faults + 1

-----------------------------------------------------------------------------
(* The row that an insert for s conflicts with: ON CONFLICT DO NOTHING.    *)
Pending(s) == {r \in rows : r.on = s /\ r.dedup}

(* Save, as a statement of its own. *)
Update(s) ==
    /\ writer[s].pc = "none"
    /\ saved' = [saved EXCEPT ![s] = @ + 1]
    /\ writer' = [writer EXCEPT ![s].pc = "enqueue"]
    /\ UNCHANGED <<rows, seq, watermark, missed, faults>>

(* enqueueSchedulerOutbox, as a statement of its own; its error is logged. *)
Enqueue(s) ==
    /\ writer[s].pc = "enqueue"
    /\ writer' = [writer EXCEPT ![s] = Quiet]
    /\ \/ Pending(s) # {} /\ UNCHANGED <<rows, seq, missed, faults>>
       \/ /\ Pending(s) = {} /\ seq' = seq + 1
          /\ rows' = rows \union {[id |-> seq', on |-> s, dedup |-> TRUE]}
          /\ UNCHANGED <<missed, faults>>
       \/ Fault /\ missed' = TRUE /\ UNCHANGED <<rows, seq>>
    /\ UNCHANGED <<saved, watermark>>

(* Save and enqueue in a transaction: the row exists and is not seen yet,  *)
(* or another row stands for it.                                           *)
InsertInTx(s) ==
    /\ s = "account" /\ writer[s].pc = "none"
    /\ \/ /\ Pending(s) = {} /\ seq' = seq + 1
          /\ writer' = [writer EXCEPT ![s] = [pc |-> "insert", id |-> seq']]
       \/ \E r \in Pending(s) :
             /\ writer' = [writer EXCEPT ![s] = [pc |-> "commit", id |-> r.id]]
             /\ UNCHANGED seq
    /\ UNCHANGED <<saved, rows, watermark, missed, faults>>

(* A row may be overtaken by one with a higher id, and the row that stood  *)
(* for the change may have been read before the commit.                    *)
Commit(s) ==
    /\ writer[s].pc \in {"insert", "commit"}
    /\ saved' = [saved EXCEPT ![s] = @ + 1]
    /\ writer' = [writer EXCEPT ![s] = Quiet]
    /\ \/ /\ writer[s].pc = "insert"
          /\ rows' = rows \union {[id |-> writer[s].id, on |-> s, dedup |-> TRUE]}
          /\ missed' = (missed \/ seq > writer[s].id)
       \/ /\ writer[s].pc = "commit" /\ UNCHANGED rows
          /\ missed' = (missed \/ \A r \in Pending(s) : r.id # writer[s].id)
    /\ UNCHANGED <<seq, watermark, faults>>

Rollback(s) ==
    /\ writer[s].pc \in {"insert", "commit"} /\ Fault
    /\ writer' = [writer EXCEPT ![s] = Quiet]
    /\ UNCHANGED <<saved, rows, seq, watermark, missed>>

(* The accounts that may be scheduled change without a row: BindGroups     *)
(* with no groups ends before it enqueues, and a rate limit, an overload   *)
(* or an account expires by the clock (schedulableAccountsQuery).          *)
ChangeUnannounced(s) ==
    /\ s = "account"
    /\ saved' = [saved EXCEPT ![s] = @ + 1]
    /\ missed' = TRUE
    /\ UNCHANGED <<rows, seq, writer, watermark, faults>>

(* Some statement of the writers of s. *)
Change(s) == Update(s) \/ Enqueue(s) \/ InsertInTx(s) \/ Commit(s) \/ Rollback(s) \/ ChangeUnannounced(s)

-----------------------------------------------------------------------------
(* Mutant of Released: the rows read keep their deduplication key. *)
ReleasedNot(after) == rows

(* ListAfterAndReleaseDedup: the rows read free their deduplication key.   *)
After(id)       == {r \in rows : r.id > id}
Released(after) == {[r EXCEPT !.dedup = r.dedup /\ r.id <= after] : r \in rows}
LastId(rs)      == Max({r.id : r \in rs})

(* The subjects of the rows, by id, each once: a second event of a batch   *)
(* finds its group rebuilt already.                                        *)
Batch(rs) ==
    LET on       == {r.on : r \in rs}
        first(s) == Min({r.id : r \in {x \in rs : x.on = s}}) IN
    IF on = {} THEN <<>>
    ELSE IF on # Subjects THEN <<CHOOSE s \in Subjects : s \in on>>
    ELSE IF first("account") < first("group") THEN <<"account", "group">> ELSE <<"group", "account">>

(* DeleteConsumedUpTo: rows up to the watermark that are 10 seconds old.   *)
Consumed(upTo) == {r \in rows : r.id > upTo}

=============================================================================
