----------------------- MODULE SchedulerSnapshotProofs -----------------------
(***************************************************************************)
(* Proofs about SchedulerSnapshot, for any pollers, rebuilders, requests   *)
(* and crews of them, and any bounds on the changes and failures.          *)
(***************************************************************************)
EXTENDS SchedulerSnapshot, SequenceTheorems, WellFoundedInduction, TLAPS

Steps == {"idle", "list", "advance", "capture", "lock", "load", "allocate", "activate",
          "unlock", "lease", "read", "decide", "release"}

Orders == {<<>>, <<"account">>, <<"group">>, <<"account", "group">>, <<"group", "account">>}

HasGroup   == {<<"group">>, <<"account", "group">>, <<"group", "account">>}
HasAccount == {<<"account">>, <<"account", "group">>, <<"group", "account">>}

WorkType == [pc : Steps, epoch : Nat, loaded : Nat, batch : Orders, last : Nat,
             saw : BOOLEAN, strict : BOOLEAN, ok : BOOLEAN]

(* The variables keep their types. *)
OutboxTypeOK ==
    /\ saved \in [Subjects -> Nat]
    /\ rows \subseteq [id : Nat, on : Subjects, dedup : BOOLEAN]
    /\ seq \in Nat /\ watermark \in Nat /\ missed \in BOOLEAN
    /\ writer \in [Subjects -> [pc : {"none", "enqueue", "insert", "commit"}, id : Nat]]

CacheTypeOK ==
    /\ bucket \in [epoch : Nat, retired : BOOLEAN, active : Nat \union {Nil}]
    /\ newer \in Seq(Workers)
    /\ lock \in Workers \union {Nil} /\ lease \in Workers \union {Nil}

TypeOK ==
    /\ OutboxTypeOK /\ CacheTypeOK
    /\ crew \in Crews /\ work \in [Workers -> WorkType] /\ floor \in Nat

(* No token is of an epoch to come, and none of a retired bucket's holds.  *)
Tokened(x, b) == x.epoch <= b.epoch /\ (b.retired => x.epoch < b.epoch)

(* A writer whose token still holds has loaded nothing that is older than  *)
(* the latest retirement.                                                  *)
Holding == {"allocate", "activate"}

Fences(x, b, f) == x.pc \in Holding /\ x.epoch = b.epoch => x.loaded >= f

EpochInv ==
    /\ bucket.epoch > 0 /\ floor <= saved["account"]
    /\ bucket.active # Nil => bucket.active <= saved["account"]
    /\ \A w \in Workers : Tokened(work[w], bucket) /\ Fences(work[w], bucket, floor)
                          /\ work[w].loaded <= saved["account"]
    /\ RetiredIsGone

(* Only the lease's holder reads the group and acts on what it has read.   *)
LeaseInv == \A w \in Workers : work[w].pc \in {"read", "decide", "release"} => lease = w

(* Only pollers have events, and none while they look for new ones; a task *)
(* that has failed only unlocks or releases what it holds.                 *)
Polling(w, x) ==
    /\ w \notin Pollers => x.batch = <<>> /\ x.last = 0
    /\ w \in Pollers => (x.batch = <<>> <=> x.pc \in {"idle", "list", "advance"})
    /\ x.pc \notin {"unlock", "release"} => x.ok
    /\ x.pc = "idle" => x.last = 0
    /\ x.pc \in {"list", "advance"} => w \in Pollers

PollInv == \A w \in Workers : Polling(w, work[w])

(* Row ids are drawn from seq, and the one drawn for a row that is not     *)
(* committed is nobody's last.                                             *)
Inserting(id) == writer["account"].pc = "insert" /\ writer["account"].id = id

IdInv ==
    /\ writer["group"].pc \in {"none", "enqueue"}
    /\ writer["account"].pc = "insert" => writer["account"].id \in 1..seq
    /\ \A r \in rows : r.id \in 1..seq /\ ~Inserting(r.id)
    /\ watermark <= seq /\ ~Inserting(watermark)
    /\ \A w \in Workers : work[w].last <= seq /\ ~Inserting(work[w].last)

(* A row whose key still stands for the changes to come is still to be read. *)
Unread(id) == id > watermark /\ \A w \in Workers : id > work[w].last

DedupInv == ~missed => \A r \in rows : r.dedup => Unread(r.id)

(* A writer that has been overtaken has been so by an active snapshot.     *)
VersionInv ==
    \A w \in Workers :
        At(w, "activate") /\ ~Fenced(work[w].epoch) /\ ~Contains(newer, w) => bucket.active # Nil

(* A poller will look at the group yet. *)
GroupWill(x, s) ==
    /\ x.batch \in HasGroup
    /\ \/ Head(x.batch) = "account" \/ x.pc \in {"lease", "read"}
       \/ x.pc = "decide" /\ (x.saw <=> s["group"] % 2 = 0)

GroupRow(r) ==
    /\ r.on = "group" /\ r.id > watermark
    /\ \A w \in Workers : r.id <= work[w].last => GroupWill(work[w], saved) \/ ~work[w].ok

GroupDone ==
    /\ bucket.retired <=> ~GroupActive
    /\ \A w \in Workers : At(w, "decide") => (work[w].saw <=> GroupActive)

GroupInv == ~missed => writer["group"].pc = "enqueue" \/ GroupDone \/ \E r \in rows : GroupRow(r)

(* A poller will load the accounts yet, or has loaded the current ones and *)
(* will activate them.                                                     *)
AccountWill(x, b, s) ==
    /\ x.batch \in HasAccount
    /\ \/ x.pc \in {"capture", "lease", "read", "decide"}
       \/ x.pc = "release" /\ x.saw /\ x.epoch = b.epoch
       \/ x.pc \in {"lock", "load"} /\ x.epoch = b.epoch
       \/ x.pc \in Holding /\ x.epoch = b.epoch /\ x.loaded = s["account"]

AccountRow(r) ==
    /\ r.on = "account" /\ r.id > watermark
    /\ \A w \in Workers : r.id <= work[w].last => AccountWill(work[w], bucket, saved) \/ ~work[w].ok

Stale(x, b, s) == x.pc \in Holding /\ ~b.retired /\ x.epoch = b.epoch /\ x.loaded # s["account"]

AccountDone ==
    \/ bucket.active = saved["account"]
    \/ bucket.active = Nil /\ \A w \in Workers : ~Stale(work[w], bucket, saved)

AccountInv == ~missed => writer["account"].pc = "enqueue" \/ AccountDone \/ \E r \in rows : AccountRow(r)

SnapshotInv ==
    /\ TypeOK /\ EpochInv
    /\ LeaseInv /\ PollInv /\ IdInv /\ DedupInv /\ VersionInv
    /\ GroupInv /\ AccountInv

-----------------------------------------------------------------------------
(* Sets of numbers have a least element, and a greatest when bounded.      *)
LEMMA Least ==
    ASSUME NEW S \in SUBSET Nat, S # {}
    PROVE  \E x \in S : \A y \in S : x <= y
<1>1. PICK m \in S : \A k \in S : ~(<<k, m>> \in OpToRel(<, Nat))
  BY NatLessThanWellFounded, WFMin
<1>2. ASSUME NEW k \in S
      PROVE  m <= k
  <2>1. <<k, m>> \in Nat \X Nat /\ <<k, m>>[1] = k /\ <<k, m>>[2] = m
    OBVIOUS
  <2>2. ~(k < m)
    BY <1>1, <2>1 DEF OpToRel
  <2> QED
    BY <2>2
<1> QED
  BY <1>2

LEMMA Greatest ==
    ASSUME NEW S \in SUBSET Nat, S # {}, NEW n \in Nat, \A x \in S : x <= n
    PROVE  Max(S) \in S /\ \A y \in S : y <= Max(S)
<1> DEFINE Bounds == {b \in Nat : \A x \in S : x <= b}
<1>1. PICK b \in Bounds : \A c \in Bounds : b <= c
  <2>1. Bounds \in SUBSET Nat /\ Bounds # {}
    OBVIOUS
  <2> HIDE DEF Bounds
  <2> QED
    BY <2>1, Least
<1>2. b \in S
  <2>1. SUFFICES ASSUME b \notin S
                 PROVE  FALSE
    OBVIOUS
  <2>2. \A x \in S : x <= b - 1 /\ 0 <= b - 1
    BY <2>1
  <2>3. b - 1 \in Nat /\ b - 1 \in Bounds
    <3>1. PICK x \in S : TRUE
      OBVIOUS
    <3>2. b - 1 \in Nat
      BY <2>2, <3>1
    <3> QED
      BY <2>2, <3>2
  <2> QED
    BY <1>1, <2>3
<1> QED
  BY <1>2 DEF Max

(* The operators on sequences of the library.                              *)
LEMMA MinIn ==
    ASSUME NEW S \in SUBSET Nat, S # {}
    PROVE  Min(S) \in S
BY Least DEF Min

LEMMA FirstIndex ==
    ASSUME NEW s \in Seq(Workers), NEW w \in Workers
    PROVE  /\ ~Contains(s, w) => SelectInSeq(s, LAMBDA x : x = w) = 0
           /\ Contains(s, w) => /\ SelectInSeq(s, LAMBDA x : x = w) \in 1..Len(s)
                                /\ s[SelectInSeq(s, LAMBDA x : x = w)] = w
<1> DEFINE I == {i \in 1..Len(s) : s[i] = w}
<1>1. CASE Contains(s, w)
  <2>1. I # {} /\ I \in SUBSET Nat
    BY <1>1 DEF Contains
  <2>2. Min(I) \in I
    <3> HIDE DEF I
    <3> QED
      BY <2>1, MinIn
  <2>3. SelectInSeq(s, LAMBDA x : x = w) = Min(I)
    BY <2>1 DEF SelectInSeq
  <2> QED
    BY <1>1, <2>2, <2>3
<1>2. CASE ~Contains(s, w)
  <2>1. I = {}
    BY <1>2 DEF Contains
  <2> QED
    BY <1>2, <2>1 DEF SelectInSeq
<1> QED
  BY <1>1, <1>2

(* Dropping one entry of w keeps the others. *)
LEMMA DropKeeps ==
    ASSUME NEW s \in Seq(Workers), NEW w \in Workers
    PROVE  /\ RemoveFirst(s, w) \in Seq(Workers)
           /\ \A v \in Workers : v # w /\ Contains(s, v) => Contains(RemoveFirst(s, w), v)
<1>1. CASE ~Contains(s, w)
  BY <1>1 DEF Contains, RemoveFirst
<1>2. CASE Contains(s, w)
  <2>1. PICK k \in 1..Len(s) : s[k] = w /\ k = SelectInSeq(s, LAMBDA x : x = w)
    BY <1>2, FirstIndex
  <2>2. RemoveFirst(s, w) = SubSeq(s, 1, k - 1) \o SubSeq(s, k + 1, Len(s))
    BY <1>2, <2>1 DEF RemoveFirst, RemoveAt, Contains
  <2>3. PICK a : a = SubSeq(s, 1, k - 1)
    OBVIOUS
  <2>4. a \in Seq(Workers) /\ Len(a) = k - 1 /\ \A i \in 1..(k - 1) : a[i] = s[i]
    BY <2>3, SubSeqProperties
  <2>5. PICK c : c = SubSeq(s, k + 1, Len(s))
    OBVIOUS
  <2>6. c \in Seq(Workers) /\ Len(c) = Len(s) - k /\ \A i \in 1..(Len(s) - k) : c[i] = s[k + i]
    <3>1. \A i \in (k + 1)..Len(s) : s[i] \in Workers
      OBVIOUS
    <3>2. /\ SubSeq(s, k + 1, Len(s)) \in Seq(Workers)
          /\ Len(SubSeq(s, k + 1, Len(s))) = IF k + 1 <= Len(s) THEN Len(s) - (k + 1) + 1 ELSE 0
          /\ \A i \in 1..(Len(s) - (k + 1) + 1) : SubSeq(s, k + 1, Len(s))[i] = s[(k + 1) + i - 1]
      BY <3>1, SubSeqProperties
    <3> QED
      BY <2>5, <3>2
  <2>7. PICK d : d = a \o c
    OBVIOUS
  <2>8. /\ d \in Seq(Workers) /\ Len(d) = Len(s) - 1
        /\ \A i \in 1..(Len(s) - 1) : d[i] = IF i <= k - 1 THEN a[i] ELSE c[i - (k - 1)]
    <3>1. /\ a \o c \in Seq(Workers) /\ Len(a \o c) = Len(a) + Len(c)
          /\ \A i \in 1..(Len(a) + Len(c)) : (a \o c)[i] = IF i <= Len(a) THEN a[i] ELSE c[i - Len(a)]
      BY <2>4, <2>6, ConcatProperties
    <3> HIDE <2>7
    <3>2. Len(a) + Len(c) = Len(s) - 1 /\ Len(a) = k - 1
      BY <2>4, <2>6
    <3>3. /\ a \o c \in Seq(Workers) /\ Len(a \o c) = Len(s) - 1
          /\ \A i \in 1..(Len(s) - 1) : (a \o c)[i] = IF i <= k - 1 THEN a[i] ELSE c[i - (k - 1)]
      BY <3>1, <3>2
    <3> QED
      BY <2>7, <3>3
  <2>9. ASSUME NEW v \in Workers, v # w, Contains(s, v)
        PROVE  Contains(d, v)
    <3>1. PICK i \in 1..Len(s) : s[i] = v /\ i # k
      BY <2>1, <2>9 DEF Contains
    <3>2. CASE i < k
      <4>1. i \in 1..(Len(s) - 1) /\ d[i] = v
        BY <2>4, <2>8, <3>1, <3>2
      <4> QED
        BY <2>8, <4>1 DEF Contains
    <3>3. CASE i > k
      <4>1. i - 1 \in 1..(Len(s) - 1) /\ d[i - 1] = c[i - k] /\ i - k \in 1..(Len(s) - k)
        BY <2>8, <3>1, <3>3
      <4>2. c[i - k] = v
        BY <2>6, <3>1, <4>1
      <4> QED
        BY <2>8, <4>1, <4>2 DEF Contains
    <3> QED
      BY <3>1, <3>2, <3>3
  <2> QED
    BY <2>2, <2>3, <2>5, <2>7, <2>8, <2>9
<1> QED
  BY <1>1, <1>2

LEMMA AppendKeeps ==
    ASSUME NEW s \in Seq(Workers), NEW w \in Workers
    PROVE  /\ Append(s, w) \in Seq(Workers) /\ Contains(Append(s, w), w)
           /\ \A v \in Workers : Contains(s, v) => Contains(Append(s, w), v)
<1>1. Append(s, w) \in Seq(Workers) /\ Len(Append(s, w)) = Len(s) + 1
      /\ Append(s, w)[Len(s) + 1] = w /\ \A i \in 1..Len(s) : Append(s, w)[i] = s[i]
  OBVIOUS
<1> QED
  BY <1>1 DEF Contains

-----------------------------------------------------------------------------
(* The batch of the rows read has the subjects of all of them.             *)
LEMMA BatchFacts ==
    ASSUME OutboxTypeOK, NEW rs \in SUBSET rows, rs # {}
    PROVE  /\ Batch(rs) \in Orders /\ Batch(rs) # <<>>
           /\ \A r \in rs : r.on = "group" => Batch(rs) \in HasGroup
           /\ \A r \in rs : r.on = "account" => Batch(rs) \in HasAccount
<1> DEFINE on == {r.on : r \in rs}
           first(s) == Min({r.id : r \in {x \in rs : x.on = s}})
<1>1. on \subseteq Subjects /\ on # {} /\ \A r \in rs : r.on \in on
  BY DEF OutboxTypeOK
<1>2. CASE on = Subjects
  <2>1. Batch(rs) \in {<<"account", "group">>, <<"group", "account">>}
    BY <1>1, <1>2 DEF Batch
  <2> QED
    BY <2>1 DEF Orders, HasGroup, HasAccount
<1>3. CASE on # Subjects
  <2>1. PICK s \in Subjects : s = (CHOOSE t \in Subjects : t \in on) /\ on = {s}
    BY <1>1, <1>3 DEF Subjects
  <2>2. Batch(rs) = <<s>>
    BY <1>1, <1>3, <2>1 DEF Batch
  <2>3. \A r \in rs : r.on = s
    BY <1>1, <2>1
  <2>4. s = "account" \/ s = "group"
    BY DEF Subjects
  <2>5. <<s>> # <<>>
    OBVIOUS
  <2> QED
    BY <2>2, <2>3, <2>4, <2>5 DEF Orders, HasGroup, HasAccount
<1> QED
  BY <1>2, <1>3

LEMMA LastFacts ==
    ASSUME OutboxTypeOK, IdInv, NEW rs \in SUBSET rows, rs # {}
    PROVE  (\E r \in rs : LastId(rs) = r.id) /\ \A r \in rs : r.id <= LastId(rs)
<1> DEFINE S == {r.id : r \in rs}
<1>1. S \in SUBSET Nat /\ S # {} /\ seq \in Nat
  BY DEF OutboxTypeOK
<1>2. \A i \in S : i <= seq
  BY DEF IdInv
<1>3. Max(S) \in S /\ \A i \in S : i <= Max(S)
  <2> HIDE DEF S
  <2> QED
    BY <1>1, <1>2, Greatest
<1> QED
  BY <1>3 DEF LastId

(* The events of a batch, one after another. *)
LEMMA OrderFacts ==
    ASSUME NEW b \in Orders, b # <<>>
    PROVE  /\ Rest(b) \in Orders /\ Head(b) \in Subjects
           /\ EventStep(b) = IF Head(b) = "account" THEN "capture" ELSE "lease"
           /\ Head(b) = "group" => Rest(b) = <<>>
           /\ Head(b) = "account" /\ b \in HasGroup => Rest(b) = <<"group">>
<1>1. CASE b = <<"account">>
  <2>1. Head(b) = "account" /\ Tail(b) = <<>>
    BY <1>1
  <2> QED
    BY <1>1, <2>1 DEF Orders, Rest, EventStep, Subjects, HasGroup
<1>2. CASE b = <<"group">>
  <2>1. Head(b) = "group"
    BY <1>2
  <2> QED
    BY <1>2, <2>1 DEF Orders, Rest, EventStep, Subjects, HasGroup
<1>3. CASE b = <<"account", "group">>
  <2>1. Head(b) = "account" /\ Tail(b) = <<"group">>
    BY <1>3
  <2> QED
    BY <1>3, <2>1 DEF Orders, Rest, EventStep, Subjects, HasGroup
<1>4. CASE b = <<"group", "account">>
  <2>1. Head(b) = "group"
    BY <1>4
  <2> QED
    BY <1>4, <2>1 DEF Orders, Rest, EventStep, Subjects, HasGroup
<1> QED
  BY <1>1, <1>2, <1>3, <1>4 DEF Orders

(* After the first event: the next one, or the watermark. *)
LEMMA RestFacts ==
    ASSUME NEW b \in Orders, b # <<>>
    PROVE  /\ Rest(b) \in Orders
           /\ EventStep(Rest(b)) \in {"advance", "capture", "lease"}
           /\ EventStep(Rest(b)) = "advance" <=> Rest(b) = <<>>
           /\ b \in HasGroup /\ Head(b) = "account" => Rest(b) \in HasGroup /\ EventStep(Rest(b)) = "lease"
<1>1. Rest(b) \in Orders /\ (b \in HasGroup /\ Head(b) = "account" => Rest(b) = <<"group">>)
  BY OrderFacts
<1>2. CASE Rest(b) = <<>>
  <2>1. EventStep(Rest(b)) = "advance" /\ <<>> # <<"group">>
    BY <1>2 DEF EventStep
  <2> QED
    BY <1>1, <1>2, <2>1
<1>3. CASE Rest(b) # <<>>
  <2>1. EventStep(Rest(b)) = IF Head(Rest(b)) = "account" THEN "capture" ELSE "lease"
    BY <1>1, <1>3, OrderFacts
  <2>2. Head(<<"group">>) = "group" /\ <<"group">> \in HasGroup
    BY DEF HasGroup
  <2> QED
    BY <1>1, <1>3, <2>1, <2>2
<1> QED
  BY <1>2, <1>3

-----------------------------------------------------------------------------
(* What the workers' steps do to their own record.                         *)
Set(w, x) == work' = [work EXCEPT ![w] = x]

LEMMA SetFacts ==
    ASSUME work \in [Workers -> WorkType], NEW w \in Workers, NEW x \in WorkType, Set(w, x)
    PROVE  work' \in [Workers -> WorkType] /\ work'[w] = x /\ \A v \in Workers \ {w} : work'[v] = work[v]
BY DEF Set

LEMMA GotoFacts ==
    ASSUME work \in [Workers -> WorkType], NEW w \in Workers, NEW l \in Steps, Goto(w, l)
    PROVE  \E x \in WorkType : /\ Set(w, x) /\ x = [work[w] EXCEPT !.pc = l]
<1> [work[w] EXCEPT !.pc = l] \in WorkType
  BY DEF WorkType
<1> QED
  BY DEF Goto, Set

LEMMA IdleFacts ==
    /\ Idle \in WorkType /\ Idle.pc = "idle" /\ Idle.epoch = 0 /\ Idle.loaded = 0
    /\ Idle.batch = <<>> /\ Idle.last = 0 /\ Idle.ok
BY DEF Idle, WorkType, Steps, Orders

LEMMA StopFacts ==
    ASSUME NEW w \in Workers, Stop(w)
    PROVE  Set(w, Idle)
BY DEF Stop, Set

LEMMA DoneFacts ==
    ASSUME work \in [Workers -> WorkType], NEW w \in Workers, Done(w), w \in Pollers => work[w].batch # <<>>
    PROVE  \E x \in WorkType :
              /\ Set(w, x) /\ x.epoch = 0 /\ x.loaded = 0 /\ x.ok
              /\ w \notin Pollers => x = Idle
              /\ w \in Pollers => /\ x.batch = Rest(work[w].batch) /\ x.last = work[w].last
                                  /\ x.pc = EventStep(Rest(work[w].batch))
<1>1. CASE w \notin Pollers
  BY <1>1, IdleFacts DEF Done, Stop, Set
<1>2. CASE w \in Pollers
  <2>1. work[w].batch \in Orders /\ work[w].last \in Nat
    BY DEF WorkType
  <2>2. PICK rest \in Orders : rest = Rest(work[w].batch) /\ EventStep(rest) \in Steps
    BY <1>2, <2>1, RestFacts DEF Steps
  <2>3. PICK x : x = [Idle EXCEPT !.pc = EventStep(rest), !.batch = rest, !.last = work[w].last]
    OBVIOUS
  <2>4. x = [pc |-> EventStep(rest), epoch |-> 0, loaded |-> 0, batch |-> rest, last |-> work[w].last,
             saw |-> FALSE, strict |-> FALSE, ok |-> TRUE]
    BY <2>3 DEF Idle
  <2>5. x \in WorkType
    BY <2>1, <2>2, <2>4 DEF WorkType
  <2>6. Set(w, x)
    BY <1>2, <2>2, <2>3 DEF Done, Set
  <2> QED
    BY <1>2, <2>2, <2>4, <2>5, <2>6
<1> QED
  BY <1>1, <1>2

LEMMA EndWriteFacts ==
    ASSUME work \in [Workers -> WorkType], NEW w \in Workers, NEW ok \in BOOLEAN, EndWrite(w, ok)
    PROVE  \E x \in WorkType :
              /\ Set(w, x) /\ x.epoch = 0 /\ x.loaded = 0
              /\ w \in Requests => x = Idle
              /\ w \notin Requests => x.pc = "unlock" /\ x.ok = ok /\ x.batch = work[w].batch /\ x.last = work[w].last
<1>1. CASE w \in Requests
  BY <1>1, IdleFacts DEF EndWrite, Stop, Set
<1>2. CASE w \notin Requests
  <2>1. PICK x : x = [work[w] EXCEPT !.pc = "unlock", !.ok = ok, !.epoch = 0, !.loaded = 0, !.strict = FALSE]
    OBVIOUS
  <2>2. x \in WorkType
    BY <2>1 DEF WorkType, Steps
  <2>3. Set(w, x)
    BY <1>2, <2>1 DEF EndWrite, Set
  <2>4. x.pc = "unlock" /\ x.ok = ok /\ x.epoch = 0 /\ x.loaded = 0 /\ x.batch = work[w].batch /\ x.last = work[w].last
    BY <2>1 DEF WorkType
  <2> QED
    BY <1>2, <2>2, <2>3, <2>4
<1> QED
  BY <1>1, <1>2

-----------------------------------------------------------------------------
(* A step of w that reads the outbox and the bucket only: what w was about *)
(* to do it is still about to do, or it gives up, or it need not be done.   *)
Goes(w, x) ==
    \/ x.last = 0
    \/ /\ work[w].ok \/ ~x.ok
       /\ GroupWill(work[w], saved) => GroupWill(x, saved) \/ ~x.ok
       /\ AccountWill(work[w], bucket, saved) => AccountWill(x, bucket, saved) \/ ~x.ok \/ AccountDone

Around(w) ==
    /\ UNCHANGED <<outbox, bucket, crew, floor>>
    /\ missed' \in BOOLEAN /\ (missed => missed')
    /\ newer' \in {newer, Append(newer, w), RemoveFirst(newer, w)}
    /\ lock' \in Workers \union {Nil}
    /\ lease' = lease \/ (lease = Nil /\ lease' = w) \/ (lease = w /\ lease' = Nil)

Harmless(w, x) ==
    /\ Set(w, x) /\ x \in WorkType /\ Around(w)
    /\ x.pc \in {"read", "decide", "release"} => lease' = w
    /\ Tokened(x, bucket) /\ Fences(x, bucket, floor) /\ x.loaded <= saved["account"]
    /\ Polling(w, x) /\ x.last \in {0, work[w].last}
    /\ x.pc = "activate" => newer' = Append(newer, w)
    /\ x.pc = "decide" => (x.saw <=> GroupActive)
    /\ Stale(x, bucket, saved) => Stale(work[w], bucket, saved)
    /\ ~missed' => Goes(w, x)

LEMMA NewerFacts ==
    ASSUME newer \in Seq(Workers), NEW w \in Workers, newer' \in {newer, Append(newer, w), RemoveFirst(newer, w)}
    PROVE  newer' \in Seq(Workers) /\ \A v \in Workers \ {w} : Contains(newer, v) => Contains(newer', v)
<1>1. CASE newer' = newer
  BY <1>1
<1>2. CASE newer' = Append(newer, w)
  BY <1>2, AppendKeeps
<1>3. CASE newer' = RemoveFirst(newer, w)
  BY <1>3, DropKeeps
<1> QED
  BY <1>1, <1>2, <1>3

LEMMA HarmlessTypes ==
    ASSUME SnapshotInv, NEW w \in Workers, NEW x, Harmless(w, x)
    PROVE  TypeOK' /\ EpochInv' /\ LeaseInv' /\ PollInv'
<1>1. work' \in [Workers -> WorkType] /\ work'[w] = x /\ (\A v \in Workers \ {w} : work'[v] = work[v]) /\ x \in WorkType
  BY SetFacts DEF SnapshotInv, TypeOK, Harmless
<1>2. newer' \in Seq(Workers)
  BY NewerFacts DEF Around, Harmless, SnapshotInv, TypeOK, CacheTypeOK
<1>3. TypeOK'
  <2>1. lock' \in Workers \union {Nil} /\ lease' \in Workers \union {Nil}
    BY DEF Around, Harmless, SnapshotInv, TypeOK, CacheTypeOK
  <2>2. CacheTypeOK'
    BY <1>2, <2>1 DEF Around, Harmless, SnapshotInv, TypeOK, CacheTypeOK
  <2>3. OutboxTypeOK'
    BY DEF Around, Harmless, SnapshotInv, TypeOK, OutboxTypeOK, outbox
  <2> QED
    BY <1>1, <2>2, <2>3 DEF Around, Harmless, SnapshotInv, TypeOK
<1>4. EpochInv'
  BY <1>1 DEF Around, Harmless, SnapshotInv, EpochInv, Tokened, Fences, RetiredIsGone, outbox
<1>5. LeaseInv'
  <2>1. Nil \notin Workers
    BY CacheAssumption
  <2>2. ASSUME NEW v \in Workers, work'[v].pc \in {"read", "decide", "release"}
        PROVE  lease' = v
    <3>1. CASE v = w
      BY <1>1, <2>2, <3>1 DEF Around, Around, Harmless
    <3>2. CASE v # w
      BY <1>1, <2>1, <2>2, <3>2 DEF Around, Harmless, SnapshotInv, LeaseInv
    <3> QED
      BY <3>1, <3>2
  <2> QED
    BY <2>2 DEF LeaseInv
<1>6. PollInv'
  BY <1>1 DEF Around, Harmless, SnapshotInv, PollInv, Polling
<1> QED
  BY <1>3, <1>4, <1>5, <1>6

LEMMA HarmlessRows ==
    ASSUME SnapshotInv, NEW w \in Workers, NEW x, Harmless(w, x)
    PROVE  IdInv' /\ DedupInv' /\ VersionInv'
<1>1. work' \in [Workers -> WorkType] /\ work'[w] = x /\ (\A v \in Workers \ {w} : work'[v] = work[v]) /\ x \in WorkType
  BY SetFacts DEF SnapshotInv, TypeOK, Harmless
<1>2. UNCHANGED outbox /\ UNCHANGED <<saved, rows, seq, writer, watermark>>
  BY DEF Around, Harmless, outbox
<1>3. IdInv'
  <2>1. x.last <= seq /\ ~Inserting(x.last)
    BY DEF Around, Harmless, SnapshotInv, IdInv, Inserting, TypeOK, OutboxTypeOK
  <2>2. \A i : Inserting(i)' <=> Inserting(i)
    BY <1>2 DEF Inserting
  <2>3. \A v \in Workers : work'[v].last <= seq /\ ~Inserting(work'[v].last)
    BY <1>1, <2>1 DEF SnapshotInv, IdInv
  <2> QED
    BY <1>2, <2>2, <2>3 DEF SnapshotInv, IdInv
<1>4. DedupInv'
  <2>1. \A r \in rows : r.id \in Nat /\ r.id > 0
    BY DEF SnapshotInv, IdInv, TypeOK, OutboxTypeOK
  <2>2. ASSUME NEW r \in rows, ~missed, r.dedup
        PROVE  Unread(r.id)'
    BY <1>1, <1>2, <2>1, <2>2 DEF SnapshotInv, DedupInv, Unread, Around, Harmless
  <2> QED
    BY <1>2, <2>2 DEF DedupInv, Around, Harmless
<1>5. VersionInv'
  <2>1. \A v \in Workers \ {w} : Contains(newer, v) => Contains(newer', v)
    BY NewerFacts DEF Around, Harmless, SnapshotInv, TypeOK, CacheTypeOK
  <2>2. x.pc = "activate" => Contains(newer', w)
    BY AppendKeeps DEF Around, Harmless, SnapshotInv, TypeOK, CacheTypeOK
  <2> QED
    BY <1>1, <2>1, <2>2 DEF VersionInv, At, Fenced, SnapshotInv, Around, Harmless
<1> QED
  BY <1>3, <1>4, <1>5

LEMMA HarmlessGroup ==
    ASSUME SnapshotInv, NEW w \in Workers, NEW x, Harmless(w, x)
    PROVE  GroupInv'
<1>1. work' \in [Workers -> WorkType] /\ work'[w] = x /\ (\A v \in Workers \ {w} : work'[v] = work[v]) /\ x \in WorkType
  BY SetFacts DEF SnapshotInv, TypeOK, Harmless
<1>2. UNCHANGED <<saved, rows, seq, writer, watermark, bucket>> /\ (GroupActive' <=> GroupActive)
  BY DEF Around, Harmless, outbox, GroupActive
<1>3. \A r \in rows : r.id \in Nat /\ r.id > 0
  BY DEF SnapshotInv, IdInv, TypeOK, OutboxTypeOK
<1>4. GroupDone => GroupDone'
  BY <1>1, <1>2 DEF GroupDone, At, Around, Harmless
<1>5. ASSUME ~missed', NEW r \in rows, GroupRow(r)
      PROVE  GroupRow(r)'
  <2>1. ASSUME NEW v \in Workers, r.id <= work'[v].last
        PROVE  GroupWill(work'[v], saved') \/ ~work'[v].ok
    <3>1. CASE v # w
      <4>1. work'[v] = work[v]
        BY <1>1, <3>1
      <4>2. GroupWill(work[v], saved) \/ ~work[v].ok
        BY <1>5, <2>1, <4>1 DEF GroupRow
      <4>3. GroupWill(work[v], saved) => GroupWill(work'[v], saved')
        BY <1>2, <4>1
      <4> QED
        BY <4>1, <4>2, <4>3
    <3>2. CASE v = w
      <4>1. work'[v] = x
        BY <1>1, <3>2
      <4>2. x.last = work[w].last /\ x.last # 0
        BY <1>3, <2>1, <4>1 DEF Around, Around, Harmless
      <4>3. Goes(w, x) /\ (GroupWill(work[w], saved) \/ ~work[w].ok)
        BY <1>5, <2>1, <3>2, <4>1, <4>2 DEF Around, Harmless, GroupRow
      <4>4. GroupWill(x, saved) \/ ~x.ok
        BY <4>2, <4>3 DEF Goes
      <4>5. GroupWill(x, saved) => GroupWill(work'[v], saved')
        BY <1>2, <4>1
      <4> QED
        BY <4>1, <4>4, <4>5
    <3> QED
      BY <3>1, <3>2
  <2> QED
    BY <1>2, <1>5, <2>1 DEF GroupRow
<1> QED
  BY <1>2, <1>4, <1>5 DEF SnapshotInv, GroupInv, Around, Harmless

LEMMA HarmlessAccount ==
    ASSUME SnapshotInv, NEW w \in Workers, NEW x, Harmless(w, x)
    PROVE  AccountInv'
<1>1. work' \in [Workers -> WorkType] /\ work'[w] = x /\ (\A v \in Workers \ {w} : work'[v] = work[v]) /\ x \in WorkType
  BY SetFacts DEF SnapshotInv, TypeOK, Harmless
<1>2. UNCHANGED <<saved, rows, seq, writer, watermark, bucket>>
  BY DEF Around, Harmless, outbox
<1>3. \A r \in rows : r.id \in Nat /\ r.id > 0
  BY DEF SnapshotInv, IdInv, TypeOK, OutboxTypeOK
<1>4. AccountDone => AccountDone'
  <2>1. \A v \in Workers : Stale(work'[v], bucket', saved') => Stale(work[v], bucket, saved)
    BY <1>1, <1>2 DEF Around, Around, Harmless
  <2> QED
    BY <1>2, <2>1 DEF AccountDone
<1>5. ASSUME ~missed', ~AccountDone, NEW r \in rows, AccountRow(r)
      PROVE  AccountRow(r)'
  <2>1. ASSUME NEW v \in Workers, r.id <= work'[v].last
        PROVE  AccountWill(work'[v], bucket', saved') \/ ~work'[v].ok
    <3>1. CASE v # w
      <4>1. work'[v] = work[v]
        BY <1>1, <3>1
      <4>2. AccountWill(work[v], bucket, saved) \/ ~work[v].ok
        BY <1>5, <2>1, <4>1 DEF AccountRow
      <4>3. AccountWill(work[v], bucket, saved) => AccountWill(work'[v], bucket', saved')
        BY <1>2, <4>1
      <4> QED
        BY <4>1, <4>2, <4>3
    <3>2. CASE v = w
      <4>1. work'[v] = x
        BY <1>1, <3>2
      <4>2. x.last = work[w].last /\ x.last # 0
        BY <1>3, <2>1, <4>1 DEF Around, Around, Harmless
      <4>3. Goes(w, x) /\ (AccountWill(work[w], bucket, saved) \/ ~work[w].ok)
        BY <1>5, <2>1, <3>2, <4>1, <4>2 DEF Around, Harmless, AccountRow
      <4>4. AccountWill(x, bucket, saved) \/ ~x.ok
        BY <1>5, <4>2, <4>3 DEF Goes
      <4>5. AccountWill(x, bucket, saved) => AccountWill(work'[v], bucket', saved')
        BY <1>2, <4>1
      <4> QED
        BY <4>1, <4>4, <4>5
    <3> QED
      BY <3>1, <3>2
  <2> QED
    BY <1>2, <1>5, <2>1 DEF AccountRow
<1> QED
  BY <1>2, <1>4, <1>5 DEF SnapshotInv, AccountInv, Around, Harmless

LEMMA HarmlessStep ==
    ASSUME SnapshotInv, NEW w \in Workers, NEW x, Harmless(w, x)
    PROVE  SnapshotInv'
BY HarmlessTypes, HarmlessRows, HarmlessGroup, HarmlessAccount DEF SnapshotInv

LEMMA WorkerFacts ==
    ASSUME SnapshotInv, NEW w \in Workers
    PROVE  /\ work \in [Workers -> WorkType] /\ work[w] \in WorkType
           /\ saved["account"] \in Nat /\ saved["group"] \in Nat /\ bucket.epoch \in Nat /\ bucket.epoch > 0
           /\ Tokened(work[w], bucket) /\ Fences(work[w], bucket, floor) /\ work[w].loaded <= saved["account"]
           /\ Polling(w, work[w])
           /\ work[w].pc \in {"read", "decide", "release"} => lease = w
           /\ w \in Pollers => w \notin Rebuilders /\ w \notin Requests
<1>1. OutboxTypeOK /\ CacheTypeOK /\ work \in [Workers -> WorkType]
  BY DEF SnapshotInv, TypeOK
<1>2. saved["account"] \in Nat /\ saved["group"] \in Nat /\ bucket.epoch \in Nat
  BY <1>1 DEF OutboxTypeOK, CacheTypeOK, Subjects
<1> QED
  BY <1>1, <1>2, WorkersAssumption DEF SnapshotInv, EpochInv, LeaseInv, PollInv

(* A retired bucket has nothing to bring up to date. *)
LEMMA RetiredIsDone ==
    ASSUME SnapshotInv, bucket.retired
    PROVE  AccountDone
BY DEF AccountDone, Stale, SnapshotInv, EpochInv, RetiredIsGone

(* w gives up. *)
LEMMA StopHarmless ==
    ASSUME SnapshotInv, NEW w \in Workers, Stop(w), Around(w)
    PROVE  SnapshotInv'
<1>1. Set(w, Idle) /\ Idle \in WorkType
  BY StopFacts, IdleFacts
<1>2. Tokened(Idle, bucket) /\ Fences(Idle, bucket, floor) /\ Idle.loaded <= saved["account"]
  BY IdleFacts, WorkerFacts DEF Tokened, Fences, Holding
<1>3. Polling(w, Idle)
  BY IdleFacts DEF Polling
<1>4. Harmless(w, Idle)
  BY <1>1, <1>2, <1>3, IdleFacts DEF Harmless, Goes, Stale, Holding
<1> QED
  BY <1>4, HarmlessStep

(* w goes on with its next event. *)
LEMMA DoneHarmless ==
    ASSUME SnapshotInv, NEW w \in Workers, Done(w), Around(w), work[w].ok,
           work[w].pc \in {"capture", "lock", "unlock", "release"},
           ~missed' /\ w \in Pollers /\ AccountWill(work[w], bucket, saved) => AccountDone
    PROVE  SnapshotInv'
<1>1. work[w] \in WorkType /\ Polling(w, work[w])
  BY WorkerFacts
<1>2. w \in Pollers => work[w].batch \in Orders /\ work[w].batch # <<>>
  BY <1>1 DEF Polling, WorkType
<1>3. PICK x \in WorkType :
              /\ Set(w, x) /\ x.epoch = 0 /\ x.loaded = 0 /\ x.ok
              /\ w \notin Pollers => x = Idle
              /\ w \in Pollers => /\ x.batch = Rest(work[w].batch) /\ x.last = work[w].last
                                  /\ x.pc = EventStep(Rest(work[w].batch))
  BY <1>2, DoneFacts, WorkerFacts
<1>4. w \in Pollers => /\ x.pc \in {"advance", "capture", "lease"} /\ (x.pc = "advance" <=> x.batch = <<>>)
                       /\ work[w].batch \in HasGroup /\ Head(work[w].batch) = "account" =>
                              x.batch \in HasGroup /\ x.pc = "lease"
  BY <1>2, <1>3, RestFacts
<1>5. x.pc \in {"idle", "advance", "capture", "lease"}
  BY <1>3, <1>4, IdleFacts
<1>6. Tokened(x, bucket) /\ Fences(x, bucket, floor) /\ x.loaded <= saved["account"]
  BY <1>3, <1>5, WorkerFacts DEF Tokened, Fences, Holding
<1>7. Polling(w, x) /\ x.last \in {0, work[w].last}
  BY <1>3, <1>4, IdleFacts DEF Polling
<1>8. ~missed' => Goes(w, x)
  <2>1. CASE w \notin Pollers
    BY <1>3, <2>1, IdleFacts DEF Goes
  <2>2. CASE w \in Pollers
    <3>1. GroupWill(work[w], saved) => work[w].batch \in HasGroup /\ Head(work[w].batch) = "account"
      BY DEF GroupWill
    <3>2. GroupWill(work[w], saved) => GroupWill(x, saved)
      BY <1>4, <2>2, <3>1 DEF GroupWill
    <3> QED
      BY <2>2, <3>2 DEF Goes
  <2> QED
    BY <2>1, <2>2
<1>9. Harmless(w, x)
  BY <1>3, <1>5, <1>6, <1>7, <1>8 DEF Harmless, Stale, Holding
<1> QED
  BY <1>9, HarmlessStep

(* w ends its write. *)
LEMMA EndWriteHarmless ==
    ASSUME SnapshotInv, NEW w \in Workers, NEW ok \in BOOLEAN, EndWrite(w, ok), Around(w),
           work[w].pc \in {"load", "allocate", "activate"},
           ~missed' /\ ok /\ AccountWill(work[w], bucket, saved) => AccountDone
    PROVE  SnapshotInv'
<1>1. work[w] \in WorkType /\ Polling(w, work[w]) /\ work[w].ok
  BY WorkerFacts DEF Polling
<1>2. PICK x \in WorkType :
              /\ Set(w, x) /\ x.epoch = 0 /\ x.loaded = 0
              /\ w \in Requests => x = Idle
              /\ w \notin Requests => x.pc = "unlock" /\ x.ok = ok /\ x.batch = work[w].batch /\ x.last = work[w].last
  BY EndWriteFacts, WorkerFacts
<1>3. x.pc \in {"idle", "unlock"}
  BY <1>2, IdleFacts
<1>4. Tokened(x, bucket) /\ Fences(x, bucket, floor) /\ x.loaded <= saved["account"]
  BY <1>2, <1>3, WorkerFacts DEF Tokened, Fences, Holding
<1>5. Polling(w, x) /\ x.last \in {0, work[w].last}
  BY <1>1, <1>2, IdleFacts, WorkerFacts DEF Polling
<1>6. ~missed' => Goes(w, x)
  <2>1. CASE w \in Requests
    BY <1>2, <2>1, IdleFacts DEF Goes
  <2>2. CASE w \notin Requests
    <3>1. GroupWill(work[w], saved) => GroupWill(x, saved)
      BY <1>2, <2>2 DEF GroupWill
    <3> QED
      BY <1>1, <1>2, <2>2, <3>1 DEF Goes
  <2> QED
    BY <2>1, <2>2
<1>7. Harmless(w, x)
  BY <1>2, <1>3, <1>4, <1>5, <1>6 DEF Harmless, Stale, Holding
<1> QED
  BY <1>7, HarmlessStep

(* w only moves on. *)
LEMMA GotoHarmless ==
    ASSUME SnapshotInv, NEW w \in Workers, NEW l \in Steps, Goto(w, l), Around(w),
           l \notin {"idle", "list", "advance", "decide", "activate"} \union Holding,
           work[w].pc = "idle" => w \notin Pollers,
           work[w].pc \notin {"list", "advance", "unlock", "release"},
           l = "read" => lease' = w,
           l # "release",
           ~missed' => Goes(w, [work[w] EXCEPT !.pc = l])
    PROVE  SnapshotInv'
<1>1. work[w] \in WorkType /\ Polling(w, work[w])
  BY WorkerFacts
<1>2. PICK x \in WorkType : Set(w, x) /\ x = [work[w] EXCEPT !.pc = l]
  BY GotoFacts, WorkerFacts
<1>3. /\ x.pc = l /\ x.epoch = work[w].epoch /\ x.loaded = work[w].loaded /\ x.batch = work[w].batch
      /\ x.last = work[w].last /\ x.saw = work[w].saw /\ x.ok = work[w].ok
  BY <1>1, <1>2 DEF WorkType
<1>4. Tokened(x, bucket) /\ Fences(x, bucket, floor) /\ x.loaded <= saved["account"]
  BY <1>3, WorkerFacts DEF Tokened, Fences, Holding
<1>5. Polling(w, x)
  BY <1>1, <1>3 DEF Polling
<1>6. Harmless(w, x)
  BY <1>2, <1>3, <1>4, <1>5 DEF Harmless, Stale, Holding
<1> QED
  BY <1>6, HarmlessStep

-----------------------------------------------------------------------------
(* The steps that only look at the bucket and the database.                *)
LEMMA FullRebuildStep ==
    ASSUME SnapshotInv, NEW w \in Workers, FullRebuild(w), UNCHANGED crew
    PROVE  SnapshotInv'
<1>1. w \notin Pollers /\ work[w].pc = "idle" /\ Around(w) /\ work[w].last = 0 /\ work[w] \in WorkType
  BY WorkerFacts DEF FullRebuild, At, Around, outbox, cache, SnapshotInv, TypeOK, OutboxTypeOK, CacheTypeOK, Polling
<1>2. PICK l \in {"capture", "lease"} : Goto(w, l)
  BY DEF FullRebuild
<1>3. [work[w] EXCEPT !.pc = l].last = 0
  BY <1>1 DEF WorkType
<1>4. Goes(w, [work[w] EXCEPT !.pc = l])
  BY <1>3 DEF Goes
<1> QED
  BY <1>1, <1>2, <1>4, GotoHarmless DEF Steps, Holding

LEMMA FallBackStep ==
    ASSUME SnapshotInv, NEW w \in Workers, FallBack(w), UNCHANGED crew
    PROVE  SnapshotInv'
<1>1. w \notin Pollers /\ work[w].pc = "idle" /\ Around(w) /\ work[w].last = 0 /\ work[w] \in WorkType
  BY WorkerFacts DEF FallBack, At, Around, outbox, cache, SnapshotInv, TypeOK, OutboxTypeOK, CacheTypeOK, Polling
<1>2. Goto(w, "capture")
  BY DEF FallBack
<1>3. [work[w] EXCEPT !.pc = "capture"].last = 0
  BY <1>1 DEF WorkType
<1>4. Goes(w, [work[w] EXCEPT !.pc = "capture"])
  BY <1>3 DEF Goes
<1> QED
  BY <1>1, <1>2, <1>4, GotoHarmless DEF Steps, Holding

LEMMA CaptureTokenStep ==
    ASSUME SnapshotInv, NEW w \in Workers, CaptureToken(w), UNCHANGED crew
    PROVE  SnapshotInv'
<1>1. work[w] \in WorkType /\ Polling(w, work[w]) /\ work[w].pc = "capture" /\ work[w].ok /\ Around(w)
  BY WorkerFacts DEF CaptureToken, At, Around, outbox, cache, SnapshotInv, TypeOK, OutboxTypeOK, CacheTypeOK, Polling
<1>2. CASE bucket.retired /\ w \notin Rebuilders /\ Done(w)
  BY <1>1, <1>2, RetiredIsDone, DoneHarmless
<1>3. CASE bucket.retired /\ w \in Rebuilders /\ Goto(w, "lease")
  <2>1. w \notin Pollers /\ work[w].last = 0
    BY <1>1, <1>3, WorkerFacts DEF Polling
  <2>2. [work[w] EXCEPT !.pc = "lease"].last = 0
    BY <1>1, <2>1 DEF WorkType
  <2>3. Goes(w, [work[w] EXCEPT !.pc = "lease"])
    BY <2>2 DEF Goes
  <2> QED
    BY <1>1, <1>3, <2>3, GotoHarmless DEF Steps, Holding
<1>4. CASE /\ ~bucket.retired
           /\ work' = [work EXCEPT ![w].pc = IF w \in Requests THEN "load" ELSE "lock",
                                   ![w].epoch = bucket.epoch]
  <2>1. PICK l \in {"load", "lock"} : l = IF w \in Requests THEN "load" ELSE "lock"
    OBVIOUS
  <2>2. PICK x : x = [work[w] EXCEPT !.pc = l, !.epoch = bucket.epoch]
    OBVIOUS
  <2>3. Set(w, x)
    BY <1>4, <2>1, <2>2 DEF Set
  <2>4. x \in WorkType
    BY <1>1, <2>2, WorkerFacts DEF WorkType, Steps
  <2>5. /\ x.pc = l /\ x.epoch = bucket.epoch /\ x.loaded = work[w].loaded /\ x.batch = work[w].batch
        /\ x.last = work[w].last /\ x.saw = work[w].saw /\ x.ok = work[w].ok
    BY <1>1, <2>2 DEF WorkType
  <2>6. Tokened(x, bucket) /\ Fences(x, bucket, floor) /\ x.loaded <= saved["account"]
    BY <1>4, <2>5, WorkerFacts DEF Tokened, Fences, Holding
  <2>7. Polling(w, x)
    BY <1>1, <2>5 DEF Polling
  <2>8. Goes(w, x)
    <3>1. GroupWill(work[w], saved) => GroupWill(x, saved)
      BY <1>1, <2>5 DEF GroupWill
    <3>2. AccountWill(work[w], bucket, saved) => AccountWill(x, bucket, saved)
      BY <2>5 DEF AccountWill
    <3> QED
      BY <1>1, <3>1, <3>2 DEF Goes
  <2>9. Harmless(w, x)
    BY <1>1, <2>3, <2>4, <2>5, <2>6, <2>7, <2>8 DEF Harmless, Stale, Holding
  <2> QED
    BY <2>9, HarmlessStep
<1> QED
  BY <1>2, <1>3, <1>4 DEF CaptureToken

LEMMA LockBucketStep ==
    ASSUME SnapshotInv, NEW w \in Workers, LockBucket(w), UNCHANGED crew
    PROVE  SnapshotInv'
<1>1. work[w] \in WorkType /\ Polling(w, work[w]) /\ work[w].pc = "lock" /\ work[w].ok
  BY WorkerFacts DEF LockBucket, At, Polling
<1>2. Around(w)
  <2>1. missed' \in BOOLEAN /\ (missed => missed')
    <3>1. missed \in BOOLEAN
      BY DEF SnapshotInv, TypeOK, OutboxTypeOK
    <3>2. missed' = missed \/ missed' = (missed \/ (w \in Pollers /\ ~work[w].strict))
      BY Zenon DEF LockBucket
    <3> QED
      BY <3>1, <3>2, Zenon
  <2>2. lock' \in Workers \union {Nil}
    BY DEF LockBucket, TryLockBucket, SnapshotInv, TypeOK, CacheTypeOK
  <2> QED
    BY <2>1, <2>2 DEF LockBucket, Around
<1>3. CASE TryLockBucket(w) /\ Goto(w, "load")
  <2>1. PICK x : x = [work[w] EXCEPT !.pc = "load"]
    OBVIOUS
  <2>2. /\ x.pc = "load" /\ x.epoch = work[w].epoch /\ x.loaded = work[w].loaded /\ x.batch = work[w].batch
        /\ x.last = work[w].last /\ x.saw = work[w].saw /\ x.ok = work[w].ok
    BY <1>1, <2>1 DEF WorkType
  <2>3. GroupWill(work[w], saved) => GroupWill(x, saved)
    BY <1>1, <2>2 DEF GroupWill
  <2>4. AccountWill(work[w], bucket, saved) => AccountWill(x, bucket, saved)
    BY <1>1, <2>2 DEF AccountWill, Holding
  <2>5. Goes(w, [work[w] EXCEPT !.pc = "load"])
    BY <1>1, <2>1, <2>3, <2>4 DEF Goes
  <2> QED
    BY <1>1, <1>2, <1>3, <2>5, GotoHarmless DEF Steps, Holding
<1>4. CASE /\ lock # Nil /\ DoneOrStop(w, ~work[w].strict) /\ UNCHANGED lock
           /\ missed' = (missed \/ (w \in Pollers /\ ~work[w].strict))
  <2>1. CASE work[w].strict
    <3>1. Stop(w)
      BY <1>4, <2>1 DEF DoneOrStop
    <3> QED
      BY <1>2, <3>1, StopHarmless
  <2>2. CASE ~work[w].strict
    <3>1. Done(w) /\ (w \in Pollers => missed')
      BY <1>4, <2>2 DEF DoneOrStop
    <3> QED
      BY <1>1, <1>2, <3>1, DoneHarmless
  <2> QED
    BY <2>1, <2>2
<1> QED
  BY <1>3, <1>4 DEF LockBucket

LEMMA LoadAccountsStep ==
    ASSUME SnapshotInv, NEW w \in Workers, LoadAccounts(w), UNCHANGED crew
    PROVE  SnapshotInv'
<1>1. work[w] \in WorkType /\ Polling(w, work[w]) /\ work[w].pc = "load" /\ work[w].ok /\ Around(w)
  BY WorkerFacts DEF LoadAccounts, At, Around, outbox, cache, SnapshotInv, TypeOK, OutboxTypeOK, CacheTypeOK, Polling
<1>2. PICK x : x = [work[w] EXCEPT !.pc = "allocate", !.loaded = saved["account"]]
  OBVIOUS
<1>3. Set(w, x)
  BY <1>2 DEF LoadAccounts, Set
<1>4. x \in WorkType
  BY <1>1, <1>2, WorkerFacts DEF WorkType, Steps
<1>5. /\ x.pc = "allocate" /\ x.epoch = work[w].epoch /\ x.loaded = saved["account"] /\ x.batch = work[w].batch
      /\ x.last = work[w].last /\ x.saw = work[w].saw /\ x.ok = work[w].ok
  BY <1>1, <1>2 DEF WorkType
<1>6. Tokened(x, bucket) /\ Fences(x, bucket, floor) /\ x.loaded <= saved["account"]
  BY <1>5, WorkerFacts DEF Tokened, Fences, SnapshotInv, EpochInv
<1>7. Polling(w, x)
  BY <1>1, <1>5 DEF Polling
<1>8. Goes(w, x)
  <2>1. GroupWill(work[w], saved) => GroupWill(x, saved)
    BY <1>1, <1>5 DEF GroupWill
  <2>2. AccountWill(work[w], bucket, saved) => AccountWill(x, bucket, saved)
    BY <1>1, <1>5 DEF AccountWill, Holding
  <2> QED
    BY <1>1, <2>1, <2>2 DEF Goes
<1>9. Harmless(w, x)
  BY <1>1, <1>3, <1>4, <1>5, <1>6, <1>7, <1>8 DEF Harmless, Stale
<1> QED
  BY <1>9, HarmlessStep

LEMMA AllocateStep ==
    ASSUME SnapshotInv, NEW w \in Workers, Allocate(w), UNCHANGED crew
    PROVE  SnapshotInv'
<1>1. work[w] \in WorkType /\ Polling(w, work[w]) /\ work[w].pc = "allocate" /\ work[w].ok /\ Tokened(work[w], bucket)
  BY WorkerFacts DEF Allocate, At, Polling
<1>2. Around(w)
  BY DEF Allocate, AllocateVersion, Around, outbox, SnapshotInv, TypeOK, OutboxTypeOK, CacheTypeOK
<1>3. CASE Fenced(work[w].epoch) /\ EndWrite(w, ~work[w].strict)
  <2>1. PICK ok \in BOOLEAN : ok = ~work[w].strict
    OBVIOUS
  <2>2. ~AccountWill(work[w], bucket, saved)
    BY <1>1, <1>3 DEF AccountWill, Fenced, Tokened, WorkType
  <2> QED
    BY <1>1, <1>2, <1>3, <2>1, <2>2, EndWriteHarmless
<1>4. CASE ~Fenced(work[w].epoch) /\ AllocateVersion(w) /\ Goto(w, "activate")
  <2>1. PICK x \in WorkType : Set(w, x) /\ x = [work[w] EXCEPT !.pc = "activate"]
    BY <1>4, GotoFacts, WorkerFacts DEF Steps
  <2>2. /\ x.pc = "activate" /\ x.epoch = work[w].epoch /\ x.loaded = work[w].loaded /\ x.batch = work[w].batch
        /\ x.last = work[w].last /\ x.saw = work[w].saw /\ x.ok = work[w].ok
    BY <1>1, <2>1 DEF WorkType
  <2>3. Tokened(x, bucket) /\ Fences(x, bucket, floor) /\ x.loaded <= saved["account"]
    BY <1>1, <2>2, WorkerFacts DEF Tokened, Fences, Holding
  <2>4. Polling(w, x)
    BY <1>1, <2>2 DEF Polling
  <2>5. Goes(w, x)
    <3>1. GroupWill(work[w], saved) => GroupWill(x, saved)
      BY <1>1, <2>2 DEF GroupWill
    <3>2. AccountWill(work[w], bucket, saved) => AccountWill(x, bucket, saved)
      BY <1>1, <2>2 DEF AccountWill, Holding
    <3> QED
      BY <1>1, <3>1, <3>2 DEF Goes
  <2>6. Stale(x, bucket, saved) => Stale(work[w], bucket, saved)
    BY <1>1, <2>2 DEF Stale, Holding
  <2>7. newer' = Append(newer, w)
    BY <1>4 DEF AllocateVersion
  <2>8. Harmless(w, x)
    BY <1>2, <2>1, <2>2, <2>3, <2>4, <2>5, <2>6, <2>7 DEF Harmless
  <2> QED
    BY <2>8, HarmlessStep
<1> QED
  BY <1>3, <1>4 DEF Allocate

LEMMA UnlockStep ==
    ASSUME SnapshotInv, NEW w \in Workers, Unlock(w), UNCHANGED crew
    PROVE  SnapshotInv'
<1>1. Around(w) /\ work[w].pc = "unlock"
  BY DEF Unlock, UnlockBucket, At, Around, outbox, SnapshotInv, TypeOK, OutboxTypeOK, CacheTypeOK
<1>2. CASE ~work[w].ok
  <2>1. Stop(w)
    BY <1>2 DEF Unlock, DoneOrStop
  <2> QED
    BY <1>1, <2>1, StopHarmless
<1>3. CASE work[w].ok
  <2>1. Done(w)
    BY <1>3 DEF Unlock, DoneOrStop
  <2>2. ~AccountWill(work[w], bucket, saved)
    BY <1>1 DEF AccountWill, Holding
  <2> QED
    BY <1>1, <1>3, <2>1, <2>2, DoneHarmless
<1> QED
  BY <1>2, <1>3

LEMMA AcquireLeaseStep ==
    ASSUME SnapshotInv, NEW w \in Workers, AcquireLease(w), UNCHANGED crew
    PROVE  SnapshotInv'
<1>1. work[w] \in WorkType /\ Polling(w, work[w]) /\ work[w].pc = "lease" /\ work[w].ok
  BY WorkerFacts DEF AcquireLease, At, Polling
<1>2. Around(w)
  BY DEF AcquireLease, TryAcquireLease, Around, outbox, SnapshotInv, TypeOK, OutboxTypeOK, CacheTypeOK
<1>3. CASE TryAcquireLease(w) /\ Goto(w, "read")
  <2>1. PICK x : x = [work[w] EXCEPT !.pc = "read"]
    OBVIOUS
  <2>2. /\ x.pc = "read" /\ x.epoch = work[w].epoch /\ x.loaded = work[w].loaded /\ x.batch = work[w].batch
        /\ x.last = work[w].last /\ x.saw = work[w].saw /\ x.ok = work[w].ok
    BY <1>1, <2>1 DEF WorkType
  <2>3. GroupWill(work[w], saved) => GroupWill(x, saved)
    BY <1>1, <2>2 DEF GroupWill
  <2>4. AccountWill(work[w], bucket, saved) => AccountWill(x, bucket, saved)
    BY <1>1, <2>2 DEF AccountWill
  <2>5. Goes(w, [work[w] EXCEPT !.pc = "read"]) /\ lease' = w
    BY <1>1, <1>3, <2>1, <2>3, <2>4 DEF Goes, TryAcquireLease
  <2> QED
    BY <1>1, <1>2, <1>3, <2>5, GotoHarmless DEF Steps, Holding
<1>4. CASE Stop(w)
  BY <1>2, <1>4, StopHarmless
<1> QED
  BY <1>3, <1>4 DEF AcquireLease

LEMMA ReadGroupStep ==
    ASSUME SnapshotInv, NEW w \in Workers, ReadGroup(w), UNCHANGED crew
    PROVE  SnapshotInv'
<1>1. work[w] \in WorkType /\ Polling(w, work[w]) /\ work[w].pc = "read" /\ work[w].ok /\ lease = w /\ Around(w)
  BY WorkerFacts DEF ReadGroup, At, Around, outbox, cache, SnapshotInv, TypeOK, OutboxTypeOK, CacheTypeOK, Polling
<1>2. PICK a \in BOOLEAN : a = GroupActive
  BY DEF GroupActive
<1>3. PICK x : x = [work[w] EXCEPT !.pc = "decide", !.saw = a]
  OBVIOUS
<1>4. Set(w, x)
  BY <1>2, <1>3 DEF ReadGroup, Set
<1>5. x \in WorkType
  BY <1>1, <1>3, WorkerFacts DEF WorkType, Steps
<1>6. /\ x.pc = "decide" /\ x.epoch = work[w].epoch /\ x.loaded = work[w].loaded /\ x.batch = work[w].batch
      /\ x.last = work[w].last /\ x.saw = a /\ x.ok = work[w].ok
  BY <1>1, <1>3 DEF WorkType
<1>7. Tokened(x, bucket) /\ Fences(x, bucket, floor) /\ x.loaded <= saved["account"]
  BY <1>6, WorkerFacts DEF Tokened, Fences, Holding
<1>8. Polling(w, x)
  BY <1>1, <1>6 DEF Polling
<1>9. x.saw <=> saved["group"] % 2 = 0
  BY <1>2, <1>6 DEF GroupActive
<1>10. Goes(w, x)
  <2>1. GroupWill(work[w], saved) => GroupWill(x, saved)
    BY <1>6, <1>9 DEF GroupWill
  <2>2. AccountWill(work[w], bucket, saved) => AccountWill(x, bucket, saved)
    BY <1>1, <1>6 DEF AccountWill, Holding
  <2> QED
    BY <1>1, <2>1, <2>2 DEF Goes
<1>11. lease' = w
  BY <1>1 DEF ReadGroup, cache
<1>12. Harmless(w, x)
  BY <1>1, <1>4, <1>5, <1>6, <1>7, <1>8, <1>9, <1>10, <1>11 DEF Harmless, Stale, Holding, GroupActive
<1> QED
  BY <1>12, HarmlessStep

LEMMA ReleaseLifecycleStep ==
    ASSUME SnapshotInv, NEW w \in Workers, ReleaseLifecycle(w), UNCHANGED crew
    PROVE  SnapshotInv'
<1>1. work[w] \in WorkType /\ Polling(w, work[w]) /\ work[w].pc = "release"
  BY WorkerFacts DEF ReleaseLifecycle, At
<1>2. Around(w)
  BY DEF ReleaseLifecycle, ReleaseLease, Around, outbox, SnapshotInv, TypeOK, OutboxTypeOK, CacheTypeOK
<1>3. CASE Stop(w)
  BY <1>2, <1>3, StopHarmless
<1>4. CASE work[w].ok /\ ~work[w].saw /\ Done(w)
  <2>1. ~AccountWill(work[w], bucket, saved)
    BY <1>1, <1>4 DEF AccountWill, Holding
  <2> QED
    BY <1>1, <1>2, <1>4, <2>1, DoneHarmless
<1>5. CASE /\ work[w].ok /\ work[w].saw
           /\ work' = [work EXCEPT ![w] = [@ EXCEPT !.pc = "lock", !.strict = TRUE, !.saw = FALSE]]
  <2>1. PICK x : x = [work[w] EXCEPT !.pc = "lock", !.strict = TRUE, !.saw = FALSE]
    OBVIOUS
  <2>2. Set(w, x)
    BY <1>5, <2>1 DEF Set
  <2>3. x \in WorkType
    BY <1>1, <2>1, WorkerFacts DEF WorkType, Steps
  <2>4. /\ x.pc = "lock" /\ x.epoch = work[w].epoch /\ x.loaded = work[w].loaded /\ x.batch = work[w].batch
        /\ x.last = work[w].last /\ x.ok = work[w].ok
    BY <1>1, <2>1 DEF WorkType
  <2>5. Tokened(x, bucket) /\ Fences(x, bucket, floor) /\ x.loaded <= saved["account"]
    BY <2>4, WorkerFacts DEF Tokened, Fences, Holding
  <2>6. Polling(w, x)
    BY <1>1, <1>5, <2>4 DEF Polling
  <2>7. Goes(w, x)
    <3>1. GroupWill(work[w], saved) => GroupWill(x, saved)
      BY <1>1, <2>4 DEF GroupWill
    <3>2. AccountWill(work[w], bucket, saved) => AccountWill(x, bucket, saved)
      BY <1>1, <2>4 DEF AccountWill, Holding
    <3> QED
      BY <1>5, <3>1, <3>2 DEF Goes
  <2>8. Harmless(w, x)
    BY <1>2, <2>2, <2>3, <2>4, <2>5, <2>6, <2>7 DEF Harmless, Stale, Holding
  <2> QED
    BY <2>8, HarmlessStep
<1> QED
  BY <1>3, <1>4, <1>5 DEF ReleaseLifecycle

LEMMA StepErrorStep ==
    ASSUME SnapshotInv, NEW w \in Workers, StepError(w), UNCHANGED crew
    PROVE  SnapshotInv'
<1>1. work[w] \in WorkType /\ Polling(w, work[w])
  BY WorkerFacts
<1>2. Around(w)
  BY DEF StepError, Forget, Around, outbox, SnapshotInv, TypeOK, OutboxTypeOK, CacheTypeOK
<1>3. CASE Stop(w)
  BY <1>2, <1>3, StopHarmless
<1>4. CASE work[w].pc \in Locked /\ EndWrite(w, FALSE)
  BY <1>2, <1>4, EndWriteHarmless DEF Locked
<1>5. CASE work[w].pc \in Leased /\ work' = [work EXCEPT ![w].pc = "release", ![w].ok = FALSE]
  <2>1. PICK x : x = [work[w] EXCEPT !.pc = "release", !.ok = FALSE]
    OBVIOUS
  <2>2. Set(w, x)
    BY <1>5, <2>1 DEF Set
  <2>3. x \in WorkType
    BY <1>1, <2>1, WorkerFacts DEF WorkType, Steps
  <2>4. /\ x.pc = "release" /\ x.epoch = work[w].epoch /\ x.loaded = work[w].loaded /\ x.batch = work[w].batch
        /\ x.last = work[w].last /\ x.ok = FALSE
    BY <1>1, <2>1 DEF WorkType
  <2>5. Tokened(x, bucket) /\ Fences(x, bucket, floor) /\ x.loaded <= saved["account"]
    BY <2>4, WorkerFacts DEF Tokened, Fences, Holding
  <2>6. Polling(w, x)
    BY <1>1, <1>5, <2>4 DEF Polling, Leased
  <2>7. lease' = w
    BY <1>5, WorkerFacts DEF Leased, StepError
  <2>8. Goes(w, x)
    BY <2>4 DEF Goes
  <2>9. Harmless(w, x)
    BY <1>2, <2>2, <2>3, <2>4, <2>5, <2>6, <2>7, <2>8 DEF Harmless, Stale, Holding
  <2> QED
    BY <2>9, HarmlessStep
<1> QED
  BY <1>3, <1>4, <1>5 DEF StepError

LEMMA CrashStep ==
    ASSUME SnapshotInv, NEW w \in Workers, Crash(w), UNCHANGED crew
    PROVE  SnapshotInv'
<1>1. Around(w) /\ Stop(w)
  BY DEF Crash, Forget, Around, outbox, SnapshotInv, TypeOK, OutboxTypeOK, CacheTypeOK
<1> QED
  BY <1>1, StopHarmless

-----------------------------------------------------------------------------
(* Keys that expire. *)
LEMMA LockExpiresStep ==
    ASSUME SnapshotInv, LockExpires, UNCHANGED crew
    PROVE  SnapshotInv'
<1>1. UNCHANGED <<saved, rows, seq, writer, watermark, missed, bucket, newer, lease, work, floor, crew>> /\ lock' = Nil
  BY DEF LockExpires, UnlockBucket, outbox
<1>2. TypeOK' /\ EpochInv' /\ LeaseInv' /\ PollInv'
  BY <1>1 DEF SnapshotInv, TypeOK, OutboxTypeOK, CacheTypeOK, EpochInv, RetiredIsGone, LeaseInv, PollInv
<1>3. IdInv' /\ DedupInv' /\ VersionInv'
  BY <1>1 DEF SnapshotInv, IdInv, Inserting, DedupInv, Unread, VersionInv, At, Fenced
<1>4. GroupInv'
  BY <1>1 DEF SnapshotInv, GroupInv, GroupDone, GroupRow, GroupActive, At
<1>5. AccountInv'
  BY <1>1 DEF SnapshotInv, AccountInv, AccountDone, AccountRow
<1> QED
  BY <1>2, <1>3, <1>4, <1>5 DEF SnapshotInv

LEMMA LeaseExpiresStep ==
    ASSUME SnapshotInv, LeaseExpires, UNCHANGED crew
    PROVE  SnapshotInv'
<1>1. UNCHANGED <<saved, rows, seq, writer, watermark, missed, bucket, newer, lock, work, floor, crew>> /\ lease' = Nil
  BY DEF LeaseExpires, outbox
<1>2. LeaseInv'
  BY <1>1 DEF LeaseExpires, SnapshotInv, LeaseInv, Leased
<1>3. TypeOK' /\ EpochInv' /\ PollInv'
  BY <1>1 DEF SnapshotInv, TypeOK, OutboxTypeOK, CacheTypeOK, EpochInv, RetiredIsGone, PollInv
<1>4. IdInv' /\ DedupInv' /\ VersionInv'
  BY <1>1 DEF SnapshotInv, IdInv, Inserting, DedupInv, Unread, VersionInv, At, Fenced
<1>5. GroupInv'
  BY <1>1 DEF SnapshotInv, GroupInv, GroupDone, GroupRow, GroupActive, At
<1>6. AccountInv'
  BY <1>1 DEF SnapshotInv, AccountInv, AccountDone, AccountRow
<1> QED
  BY <1>2, <1>3, <1>4, <1>5, <1>6 DEF SnapshotInv

-----------------------------------------------------------------------------
(* The poller's steps on the outbox. *)
LEMMA PollOutboxStep ==
    ASSUME SnapshotInv, NEW w \in Workers, PollOutbox(w), UNCHANGED crew
    PROVE  SnapshotInv'
<1>1. UNCHANGED <<saved, rows, seq, writer, watermark, missed, bucket, newer, lock, lease, floor, crew>>
  BY DEF PollOutbox, outbox, cache
<1>2. PICK x : x = [work[w] EXCEPT !.pc = "list", !.last = watermark]
  OBVIOUS
<1>3. work[w] \in WorkType /\ Polling(w, work[w]) /\ work[w].pc = "idle" /\ w \in Pollers /\ watermark \in Nat
  BY WorkerFacts DEF PollOutbox, At, SnapshotInv, TypeOK, OutboxTypeOK
<1>4. x \in WorkType
  BY <1>2, <1>3 DEF WorkType, Steps
<1>5. /\ x.pc = "list" /\ x.epoch = work[w].epoch /\ x.loaded = work[w].loaded /\ x.batch = work[w].batch
      /\ x.last = watermark /\ x.ok = work[w].ok
  BY <1>2, <1>3 DEF WorkType
<1>6. work' \in [Workers -> WorkType] /\ work'[w] = x /\ \A v \in Workers \ {w} : work'[v] = work[v]
  BY <1>2, <1>4, SetFacts, WorkerFacts DEF PollOutbox, Set
<1>7. TypeOK'
  BY <1>1, <1>6 DEF SnapshotInv, TypeOK, OutboxTypeOK, CacheTypeOK
<1>8. EpochInv'
  BY <1>1, <1>5, <1>6, WorkerFacts DEF SnapshotInv, EpochInv, RetiredIsGone, Tokened, Fences, Holding
<1>9. LeaseInv'
  BY <1>1, <1>5, <1>6 DEF SnapshotInv, LeaseInv
<1>10. PollInv'
  BY <1>3, <1>5, <1>6 DEF SnapshotInv, PollInv, Polling
<1>11. IdInv'
  BY <1>1, <1>5, <1>6 DEF SnapshotInv, IdInv, Inserting
<1>12. DedupInv'
  BY <1>1, <1>5, <1>6 DEF SnapshotInv, DedupInv, Unread
<1>13. VersionInv'
  BY <1>1, <1>5, <1>6 DEF SnapshotInv, VersionInv, At, Fenced
<1>14. GroupInv'
  <2>1. GroupDone => GroupDone'
    BY <1>1, <1>5, <1>6 DEF GroupDone, At, GroupActive
  <2>2. ASSUME NEW r \in rows, GroupRow(r)
        PROVE  GroupRow(r)'
    <3>1. r.id \in Nat /\ r.id > watermark
      BY <2>2 DEF GroupRow, SnapshotInv, TypeOK, OutboxTypeOK
    <3> QED
      BY <1>1, <1>3, <1>5, <1>6, <2>2, <3>1 DEF GroupRow
  <2> QED
    BY <1>1, <2>1, <2>2 DEF SnapshotInv, GroupInv
<1>15. AccountInv'
  <2>1. AccountDone => AccountDone'
    BY <1>1, <1>5, <1>6 DEF AccountDone, Stale, Holding
  <2>2. ASSUME NEW r \in rows, AccountRow(r)
        PROVE  AccountRow(r)'
    <3>1. r.id \in Nat /\ r.id > watermark
      BY <2>2 DEF AccountRow, SnapshotInv, TypeOK, OutboxTypeOK
    <3> QED
      BY <1>1, <1>3, <1>5, <1>6, <2>2, <3>1 DEF AccountRow
  <2> QED
    BY <1>1, <2>1, <2>2 DEF SnapshotInv, AccountInv
<1> QED
  BY <1>7, <1>8, <1>9, <1>10, <1>11, <1>12, <1>13, <1>14, <1>15 DEF SnapshotInv

(* The rows that are released are the same rows, without some keys. *)
LEMMA ReleasedFacts ==
    ASSUME OutboxTypeOK, NEW i \in Nat
    PROVE  /\ Released(i) \subseteq [id : Nat, on : Subjects, dedup : BOOLEAN]
           /\ \A q \in Released(i) : \E r \in rows : q.id = r.id /\ q.on = r.on /\ (q.dedup => r.dedup /\ r.id <= i)
           /\ \A r \in rows : \E q \in Released(i) : q.id = r.id /\ q.on = r.on
<1> DEFINE f(r) == [r EXCEPT !.dedup = r.dedup /\ r.id <= i]
<1>1. ASSUME NEW r \in rows
      PROVE  /\ f(r) \in [id : Nat, on : Subjects, dedup : BOOLEAN]
             /\ f(r).id = r.id /\ f(r).on = r.on /\ (f(r).dedup => r.dedup /\ r.id <= i)
  <2>1. r \in [id : Nat, on : Subjects, dedup : BOOLEAN]
    BY DEF OutboxTypeOK
  <2>2. PICK d \in BOOLEAN : d = (r.dedup /\ r.id <= i)
    OBVIOUS
  <2>3. f(r) = [r EXCEPT !.dedup = d]
    BY <2>2
  <2>4. PICK q : q = [r EXCEPT !.dedup = d]
    OBVIOUS
  <2>5. q \in [id : Nat, on : Subjects, dedup : BOOLEAN] /\ q.id = r.id /\ q.on = r.on /\ q.dedup = d
    BY <2>1, <2>4
  <2>6. f(r) = q
    BY <2>3, <2>4
  <2> HIDE DEF f
  <2> QED
    BY <2>2, <2>5, <2>6
<1>2. Released(i) = {f(r) : r \in rows}
  BY DEF Released
<1> HIDE DEF f
<1> QED
  BY <1>1, <1>2

(* A poller reads all the rows that are not consumed: those it has not     *)
(* been told of it will attend to.                                         *)
LEMMA ListOutboxStep ==
    ASSUME SnapshotInv, NEW w \in Workers, ListOutbox(w), UNCHANGED crew
    PROVE  SnapshotInv'
<1>1. UNCHANGED <<saved, seq, writer, watermark, missed, bucket, newer, lock, lease, floor, crew>>
  BY DEF ListOutbox, cache
<1>2. /\ work[w] \in WorkType /\ Polling(w, work[w]) /\ work[w].pc = "list" /\ work[w].ok
      /\ w \in Pollers /\ work[w].batch = <<>> /\ work[w].last \in Nat
  BY WorkerFacts DEF ListOutbox, At, Polling, WorkType
<1>3. OutboxTypeOK /\ IdInv
  BY DEF SnapshotInv, TypeOK
<1>4. PICK found \in SUBSET rows : found = After(work[w].last)
  BY DEF After
<1>5. PICK x \in WorkType :
        /\ Set(w, x) /\ x.epoch = 0 /\ x.loaded = 0 /\ x.ok /\ Polling(w, x)
        /\ x.pc \in {"idle", "capture", "lease"}
        /\ x.last = 0 \/ (\E r \in rows : x.last = r.id)
        /\ \A r \in rows : r.id > work[w].last => r.id <= x.last
        /\ \A r \in rows : r.id > work[w].last /\ r.on = "group" => GroupWill(x, saved)
        /\ \A r \in rows : r.id > work[w].last /\ r.on = "account" => AccountWill(x, bucket, saved)
  <2>1. CASE found = {}
    <3>1. Set(w, Idle)
      BY <1>4, <2>1 DEF ListOutbox, Set
    <3>2. \A r \in rows : ~(r.id > work[w].last)
      BY <1>4, <2>1 DEF After
    <3>3. Polling(w, Idle)
      BY IdleFacts DEF Polling
    <3> QED
      BY <3>1, <3>2, <3>3, IdleFacts
  <2>2. CASE found # {}
    <3>1. PICK b : b = Batch(found)
      OBVIOUS
    <3>2. PICK i : i = LastId(found)
      OBVIOUS
    <3>3. /\ b \in Orders /\ b # <<>>
          /\ \A r \in found : r.on = "group" => b \in HasGroup
          /\ \A r \in found : r.on = "account" => b \in HasAccount
      BY <1>3, <2>2, <3>1, BatchFacts
    <3>4. (\E r \in found : i = r.id) /\ \A r \in found : r.id <= i
      BY <1>3, <2>2, <3>2, LastFacts
    <3>5. i \in Nat /\ \E r \in rows : i = r.id
      BY <1>3, <1>4, <3>4 DEF OutboxTypeOK
    <3>6. EventStep(b) = (IF Head(b) = "account" THEN "capture" ELSE "lease") /\ Head(b) \in Subjects
      BY <3>3, OrderFacts
    <3>7. PICK l \in {"capture", "lease"} : l = EventStep(b) /\ (Head(b) = "account" <=> l = "capture")
      BY <3>6
    <3>8. PICK x : x = [Idle EXCEPT !.pc = l, !.batch = b, !.last = i]
      OBVIOUS
    <3>9. x = [pc |-> l, epoch |-> 0, loaded |-> 0, batch |-> b, last |-> i,
               saw |-> FALSE, strict |-> FALSE, ok |-> TRUE]
      BY <3>8 DEF Idle
    <3>10. x \in WorkType
      BY <3>3, <3>5, <3>7, <3>9 DEF WorkType, Steps
    <3>11. Set(w, x)
      BY <1>4, <2>2, <3>1, <3>2, <3>7, <3>8 DEF ListOutbox, Set
    <3>12. Polling(w, x)
      BY <1>2, <3>3, <3>7, <3>9 DEF Polling
    <3>13. \A r \in rows : r.id > work[w].last => r \in found
      BY <1>4 DEF After
    <3>14. /\ \A r \in found : r.on = "group" => GroupWill(x, saved)
           /\ \A r \in found : r.on = "account" => AccountWill(x, bucket, saved)
      BY <3>3, <3>7, <3>9 DEF GroupWill, AccountWill
    <3> QED
      BY <3>4, <3>5, <3>7, <3>9, <3>10, <3>11, <3>12, <3>13, <3>14
  <2> QED
    BY <2>1, <2>2
<1>6. work' \in [Workers -> WorkType] /\ work'[w] = x /\ \A v \in Workers \ {w} : work'[v] = work[v]
  BY <1>5, SetFacts, WorkerFacts
<1>7. /\ rows' \subseteq [id : Nat, on : Subjects, dedup : BOOLEAN]
      /\ \A q \in rows' : \E r \in rows : q.id = r.id /\ q.on = r.on /\ (q.dedup => r.dedup /\ r.id <= work[w].last)
      /\ \A r \in rows : \E q \in rows' : q.id = r.id /\ q.on = r.on
  BY <1>2, <1>3, ReleasedFacts DEF ListOutbox
<1>8. \A r \in rows : r.id \in Nat /\ r.id > 0
  BY <1>3 DEF IdInv, OutboxTypeOK
<1>9. TypeOK'
  BY <1>1, <1>6, <1>7 DEF SnapshotInv, TypeOK, OutboxTypeOK, CacheTypeOK
<1>10. EpochInv'
  BY <1>1, <1>5, <1>6, WorkerFacts DEF SnapshotInv, EpochInv, RetiredIsGone, Tokened, Fences, Holding
<1>11. LeaseInv' /\ PollInv'
  BY <1>1, <1>5, <1>6 DEF SnapshotInv, LeaseInv, PollInv
<1>12. IdInv'
  <2>1. \A i : Inserting(i)' <=> Inserting(i)
    BY <1>1 DEF Inserting
  <2>2. x.last <= seq /\ ~Inserting(x.last)
    BY <1>3, <1>5 DEF IdInv, OutboxTypeOK, Inserting
  <2>3. \A v \in Workers : work'[v].last <= seq /\ ~Inserting(work'[v].last)
    BY <1>3, <1>6, <2>2 DEF IdInv
  <2>4. \A q \in rows' : q.id \in 1..seq /\ ~Inserting(q.id)
    BY <1>3, <1>7 DEF IdInv
  <2> QED
    BY <1>1, <1>3, <2>1, <2>3, <2>4 DEF IdInv
<1>13. DedupInv'
  <2>1. ASSUME ~missed, NEW q \in rows', q.dedup
        PROVE  FALSE
    <3>1. PICK r \in rows : r.dedup /\ r.id <= work[w].last
      BY <1>7, <2>1
    <3>2. r.id > work[w].last
      BY <2>1, <3>1 DEF SnapshotInv, DedupInv, Unread
    <3> QED
      BY <1>2, <1>8, <3>1, <3>2
  <2> QED
    BY <1>1, <2>1 DEF DedupInv
<1>14. VersionInv'
  BY <1>1, <1>5, <1>6 DEF SnapshotInv, VersionInv, At, Fenced
<1>15. GroupInv'
  <2>1. GroupDone => GroupDone'
    BY <1>1, <1>5, <1>6 DEF GroupDone, At, GroupActive
  <2>2. ASSUME NEW r \in rows, GroupRow(r)
        PROVE  \E q \in rows' : GroupRow(q)'
    <3>1. PICK q \in rows' : q.id = r.id /\ q.on = r.on
      BY <1>7
    <3>2. ~GroupWill(work[w], saved)
      BY <1>2 DEF GroupWill, HasGroup
    <3>3. r.id > work[w].last
      BY <1>2, <1>8, <2>2, <3>2 DEF GroupRow
    <3>4. GroupWill(x, saved)
      BY <1>5, <2>2, <3>3 DEF GroupRow
    <3>5. GroupRow(q)'
      BY <1>1, <1>6, <2>2, <3>1, <3>4 DEF GroupRow
    <3> QED
      BY <3>5
  <2> QED
    BY <1>1, <2>1, <2>2 DEF SnapshotInv, GroupInv
<1>16. AccountInv'
  <2>1. AccountDone => AccountDone'
    BY <1>1, <1>5, <1>6 DEF AccountDone, Stale, Holding
  <2>2. ASSUME NEW r \in rows, AccountRow(r)
        PROVE  \E q \in rows' : AccountRow(q)'
    <3>1. PICK q \in rows' : q.id = r.id /\ q.on = r.on
      BY <1>7
    <3>2. ~AccountWill(work[w], bucket, saved)
      BY <1>2 DEF AccountWill, Holding
    <3>3. r.id > work[w].last
      BY <1>2, <1>8, <2>2, <3>2 DEF AccountRow
    <3>4. AccountWill(x, bucket, saved)
      BY <1>5, <2>2, <3>3 DEF AccountRow
    <3>5. AccountRow(q)'
      BY <1>1, <1>6, <2>2, <3>1, <3>4 DEF AccountRow
    <3> QED
      BY <3>5
  <2> QED
    BY <1>1, <2>1, <2>2 DEF SnapshotInv, AccountInv
<1> QED
  BY <1>9, <1>10, <1>11, <1>12, <1>13, <1>14, <1>15, <1>16 DEF SnapshotInv

(* The watermark passes no row that somebody has yet to attend to. *)
LEMMA SetWatermarkStep ==
    ASSUME SnapshotInv, NEW w \in Workers, SetWatermark(w), UNCHANGED crew
    PROVE  SnapshotInv'
<1>1. UNCHANGED <<saved, seq, writer, missed, bucket, newer, lock, lease, floor, crew>>
  BY DEF SetWatermark, cache
<1>2. /\ work[w] \in WorkType /\ work[w].pc = "advance" /\ work[w].ok
      /\ work[w].batch = <<>> /\ work[w].last \in Nat /\ watermark \in Nat
  BY WorkerFacts DEF SetWatermark, At, Polling, WorkType, SnapshotInv, TypeOK, OutboxTypeOK
<1>3. work' \in [Workers -> WorkType] /\ work'[w] = Idle /\ \A v \in Workers \ {w} : work'[v] = work[v]
  BY SetFacts, StopFacts, IdleFacts, WorkerFacts DEF SetWatermark
<1>4. watermark' \in {watermark, work[w].last}
  BY DEF SetWatermark
<1>5. rows' \subseteq rows /\ \A r \in rows : r.id > work[w].last => r \in rows'
  BY DEF SetWatermark, Consumed
<1>6. \A r \in rows : r.id \in Nat /\ r.id > 0
  BY DEF SnapshotInv, IdInv, TypeOK, OutboxTypeOK
<1>7. TypeOK'
  BY <1>1, <1>2, <1>3, <1>4, <1>5 DEF SnapshotInv, TypeOK, OutboxTypeOK, CacheTypeOK
<1>8. EpochInv'
  BY <1>1, <1>3, IdleFacts, WorkerFacts DEF SnapshotInv, EpochInv, RetiredIsGone, Tokened, Fences, Holding
<1>9. LeaseInv' /\ PollInv'
  BY <1>1, <1>3, IdleFacts DEF SnapshotInv, LeaseInv, PollInv, Polling
<1>10. IdInv'
  <2>1. \A i : Inserting(i)' <=> Inserting(i)
    BY <1>1 DEF Inserting
  <2>2. watermark' <= seq /\ ~Inserting(watermark')
    BY <1>4 DEF SnapshotInv, IdInv
  <2>3. 0 <= seq /\ ~Inserting(0)
    BY DEF SnapshotInv, IdInv, TypeOK, OutboxTypeOK, Inserting
  <2>4. \A v \in Workers : work'[v].last <= seq /\ ~Inserting(work'[v].last)
    BY <1>3, <2>3, IdleFacts DEF SnapshotInv, IdInv
  <2> QED
    BY <1>1, <1>5, <2>1, <2>2, <2>4 DEF SnapshotInv, IdInv
<1>11. DedupInv'
  <2>1. ASSUME ~missed, NEW r \in rows, r.dedup
        PROVE  Unread(r.id)'
    <3>1. r.id > watermark /\ \A v \in Workers : r.id > work[v].last
      BY <2>1 DEF SnapshotInv, DedupInv, Unread
    <3>2. r.id > watermark'
      BY <1>4, <3>1
    <3> QED
      BY <1>3, <1>6, <3>1, <3>2, IdleFacts DEF Unread
  <2> QED
    BY <1>1, <1>5, <2>1 DEF DedupInv
<1>12. VersionInv'
  BY <1>1, <1>3, IdleFacts DEF SnapshotInv, VersionInv, At, Fenced
<1>13. GroupInv'
  <2>1. GroupDone => GroupDone'
    BY <1>1, <1>3, IdleFacts DEF GroupDone, At, GroupActive
  <2>2. ASSUME NEW r \in rows, GroupRow(r)
        PROVE  r \in rows' /\ GroupRow(r)'
    <3>1. ~GroupWill(work[w], saved)
      BY <1>2 DEF GroupWill, HasGroup
    <3>2. r.id > work[w].last /\ r.id > watermark
      BY <1>2, <1>6, <2>2, <3>1 DEF GroupRow
    <3>3. r.id > watermark' /\ r \in rows'
      BY <1>4, <1>5, <3>2
    <3> QED
      BY <1>1, <1>3, <1>6, <2>2, <3>3, IdleFacts DEF GroupRow
  <2> QED
    BY <1>1, <2>1, <2>2 DEF SnapshotInv, GroupInv
<1>14. AccountInv'
  <2>1. AccountDone => AccountDone'
    BY <1>1, <1>3, IdleFacts DEF AccountDone, Stale, Holding
  <2>2. ASSUME NEW r \in rows, AccountRow(r)
        PROVE  r \in rows' /\ AccountRow(r)'
    <3>1. ~AccountWill(work[w], bucket, saved)
      BY <1>2 DEF AccountWill, Holding
    <3>2. r.id > work[w].last /\ r.id > watermark
      BY <1>2, <1>6, <2>2, <3>1 DEF AccountRow
    <3>3. r.id > watermark' /\ r \in rows'
      BY <1>4, <1>5, <3>2
    <3> QED
      BY <1>1, <1>3, <1>6, <2>2, <3>3, IdleFacts DEF AccountRow
  <2> QED
    BY <1>1, <2>1, <2>2 DEF SnapshotInv, AccountInv
<1> QED
  BY <1>7, <1>8, <1>9, <1>10, <1>11, <1>12, <1>13, <1>14 DEF SnapshotInv

-----------------------------------------------------------------------------
(* An activation that replaces the active accounts. *)
LEMMA ReplaceStep ==
    ASSUME SnapshotInv, NEW w \in Workers, UNCHANGED <<outbox, lock, lease, floor, crew>>,
           work[w].pc = "activate", ~Fenced(work[w].epoch), Contains(newer, w),
           bucket' = [bucket EXCEPT !.active = work[w].loaded], newer' \in Seq(Workers),
           EndWrite(w, TRUE), missed' \in BOOLEAN, missed => missed', ~missed' => ~Overtaken(w)
    PROVE  SnapshotInv'
<1>1. UNCHANGED <<saved, rows, seq, writer, watermark, lock, lease, floor, crew>>
  BY DEF outbox
<1>2. /\ work[w] \in WorkType /\ Polling(w, work[w]) /\ work[w].ok /\ work[w].loaded \in Nat
      /\ ~bucket.retired /\ work[w].epoch = bucket.epoch /\ work[w].loaded >= floor
      /\ work[w].loaded <= saved["account"] /\ saved["account"] \in Nat /\ floor \in Nat
  <2>1. ~bucket.retired /\ work[w].epoch = bucket.epoch
    BY DEF Fenced
  <2>2. work[w] \in WorkType /\ work[w].loaded \in Nat /\ floor \in Nat
    BY WorkerFacts DEF WorkType, SnapshotInv, TypeOK
  <2> QED
    BY <2>1, <2>2, WorkerFacts DEF Fences, Holding, Polling
<1>3. PICK x \in WorkType :
              /\ Set(w, x) /\ x.epoch = 0 /\ x.loaded = 0
              /\ w \in Requests => x = Idle
              /\ w \notin Requests => x.pc = "unlock" /\ x.ok = TRUE /\ x.batch = work[w].batch /\ x.last = work[w].last
  BY EndWriteFacts, WorkerFacts
<1>4. x.pc \in {"idle", "unlock"} /\ x.last \in {0, work[w].last}
  BY <1>3, IdleFacts
<1>5. work' \in [Workers -> WorkType] /\ work'[w] = x /\ \A v \in Workers \ {w} : work'[v] = work[v]
  BY <1>3, SetFacts, WorkerFacts
<1>6. /\ bucket' \in [epoch : Nat, retired : BOOLEAN, active : Nat \union {Nil}]
      /\ bucket'.epoch = bucket.epoch /\ bucket'.retired = bucket.retired /\ bucket'.active = work[w].loaded
      /\ bucket'.active # Nil
  <2>1. bucket \in [epoch : Nat, retired : BOOLEAN, active : Nat \union {Nil}]
    BY DEF SnapshotInv, TypeOK, CacheTypeOK
  <2> QED
    BY <1>2, <2>1, CacheAssumption
<1>7. TypeOK'
  <2>1. OutboxTypeOK'
    BY <1>1 DEF SnapshotInv, TypeOK, OutboxTypeOK
  <2>2. CacheTypeOK'
    BY <1>1, <1>6 DEF SnapshotInv, TypeOK, CacheTypeOK
  <2> QED
    BY <1>1, <1>5, <2>1, <2>2 DEF SnapshotInv, TypeOK
<1>8. EpochInv'
  <2>1. \A v \in Workers : Tokened(work'[v], bucket') /\ Fences(work'[v], bucket', floor')
                           /\ work'[v].loaded <= saved'["account"]
    BY <1>1, <1>2, <1>3, <1>4, <1>5, <1>6, WorkerFacts DEF Tokened, Fences, Holding
  <2> QED
    BY <1>1, <1>2, <1>6, <2>1 DEF SnapshotInv, EpochInv, RetiredIsGone
<1>9. LeaseInv'
  BY <1>1, <1>4, <1>5 DEF SnapshotInv, LeaseInv
<1>10. PollInv'
  <2>1. Polling(w, x)
    BY <1>2, <1>3, IdleFacts, WorkerFacts DEF Polling
  <2> QED
    BY <1>5, <2>1 DEF SnapshotInv, PollInv
<1>11. IdInv'
  <2>1. \A i : Inserting(i)' <=> Inserting(i)
    BY <1>1 DEF Inserting
  <2>2. x.last <= seq /\ ~Inserting(x.last)
    BY <1>4 DEF SnapshotInv, IdInv, TypeOK, OutboxTypeOK, Inserting
  <2>3. \A v \in Workers : work'[v].last <= seq /\ ~Inserting(work'[v].last)
    BY <1>5, <2>2 DEF SnapshotInv, IdInv
  <2> QED
    BY <1>1, <2>1, <2>3 DEF SnapshotInv, IdInv
<1>12. \A r \in rows : r.id \in Nat /\ r.id > 0
  BY DEF SnapshotInv, IdInv, TypeOK, OutboxTypeOK
<1>13. DedupInv'
  <2>1. ASSUME ~missed, NEW r \in rows, r.dedup
        PROVE  Unread(r.id)'
    BY <1>1, <1>4, <1>5, <1>12, <2>1 DEF SnapshotInv, DedupInv, Unread
  <2> QED
    BY <1>1, <2>1 DEF DedupInv
<1>14. VersionInv'
  BY <1>6 DEF VersionInv
<1>15. GroupInv'
  <2>1. GroupDone => GroupDone'
    BY <1>1, <1>4, <1>5, <1>6 DEF GroupDone, At, GroupActive
  <2>2. ASSUME NEW r \in rows, GroupRow(r)
        PROVE  GroupRow(r)'
    <3>1. GroupWill(work[w], saved) /\ w \notin Requests => GroupWill(x, saved)
      BY <1>2, <1>3 DEF GroupWill
    <3>2. r.id <= x.last => GroupWill(x, saved)
      BY <1>2, <1>3, <1>12, <2>2, <3>1, IdleFacts DEF GroupRow
    <3> QED
      BY <1>1, <1>5, <2>2, <3>2 DEF GroupRow
  <2> QED
    BY <1>1, <2>1, <2>2 DEF SnapshotInv, GroupInv
<1>16. AccountInv'
  <2>1. CASE work[w].loaded = saved["account"]
    BY <1>1, <1>6, <2>1 DEF AccountInv, AccountDone
  <2>2. CASE work[w].loaded # saved["account"]
    <3>1. ~missed' => ~AccountDone
      <4>1. Stale(work[w], bucket, saved)
        BY <1>2, <2>2 DEF Stale, Holding
      <4>2. bucket.active = saved["account"] => Overtaken(w)
        BY <1>2, <2>2, CacheAssumption DEF Overtaken
      <4> QED
        BY <4>1, <4>2 DEF AccountDone
    <3>2. ASSUME NEW r \in rows, AccountRow(r)
          PROVE  AccountRow(r)'
      <4>1. ~AccountWill(work[w], bucket, saved)
        BY <2>2 DEF AccountWill, Holding
      <4>2. ~(r.id <= x.last)
        BY <1>2, <1>4, <1>12, <3>2, <4>1 DEF AccountRow
      <4>3. \A v \in Workers : AccountWill(work[v], bucket, saved) => AccountWill(work[v], bucket', saved')
        BY <1>1, <1>6 DEF AccountWill
      <4> QED
        BY <1>1, <1>5, <3>2, <4>2, <4>3 DEF AccountRow
    <3> QED
      BY <1>1, <3>1, <3>2 DEF SnapshotInv, AccountInv
  <2> QED
    BY <2>1, <2>2
<1> QED
  BY <1>7, <1>8, <1>9, <1>10, <1>11, <1>13, <1>14, <1>15, <1>16 DEF SnapshotInv

LEMMA ActivateStep ==
    ASSUME SnapshotInv, NEW w \in Workers, Activate(w), UNCHANGED crew
    PROVE  SnapshotInv'
<1>1. work[w] \in WorkType /\ Polling(w, work[w]) /\ work[w].pc = "activate" /\ work[w].ok /\ Tokened(work[w], bucket)
  BY WorkerFacts DEF Activate, At, Polling
<1>2. newer \in Seq(Workers) /\ missed \in BOOLEAN
  BY DEF SnapshotInv, TypeOK, CacheTypeOK, OutboxTypeOK
<1>3. CASE Fenced(work[w].epoch) /\ Forget(w) /\ EndWrite(w, ~work[w].strict) /\ UNCHANGED <<bucket, missed>>
  <2>1. PICK ok \in BOOLEAN : ok = ~work[w].strict
    OBVIOUS
  <2>2. ~AccountWill(work[w], bucket, saved)
    BY <1>1, <1>3 DEF AccountWill, Fenced, Tokened, WorkType
  <2>3. Around(w)
    BY <1>2, <1>3 DEF Activate, Forget, Around, outbox, SnapshotInv, TypeOK, CacheTypeOK
  <2> QED
    BY <1>1, <1>3, <2>1, <2>2, <2>3, EndWriteHarmless
<1>4. CASE /\ ~Fenced(work[w].epoch) /\ ActivateSnapshot(w, work[w].loaded) /\ EndWrite(w, TRUE)
           /\ missed' = (missed \/ Overtaken(w))
  <2>1. missed' \in BOOLEAN /\ (missed => missed') /\ (~missed' => ~Overtaken(w))
    <3>1. Overtaken(w) \in BOOLEAN
      BY DEF Overtaken
    <3> QED
      BY <1>2, <1>4, <3>1
  <2>2. PICK k : k = SelectInSeq(newer, LAMBDA x : x = w)
    OBVIOUS
  <2>3. CASE Contains(newer, w)
    <3>1. k \in 1..Len(newer)
      BY <1>2, <2>2, <2>3, FirstIndex
    <3>2. bucket' = [bucket EXCEPT !.active = work[w].loaded] /\ newer' = SubSeq(newer, k + 1, Len(newer))
      <4>1. k # 0
        BY <1>2, <3>1
      <4>2. IF k = 0 THEN UNCHANGED <<bucket, newer>>
            ELSE /\ bucket' = [bucket EXCEPT !.active = work[w].loaded]
                 /\ newer' = SubSeq(newer, k + 1, Len(newer))
        BY <1>4, <2>2, Zenon DEF ActivateSnapshot
      <4> QED
        BY <4>1, <4>2
    <3>3. newer' \in Seq(Workers)
      <4>1. \A i \in (k + 1)..Len(newer) : newer[i] \in Workers
        BY <1>2, <3>1
      <4>2. k + 1 \in Int /\ Len(newer) \in Int
        BY <1>2, <3>1
      <4> QED
        BY <3>2, <4>1, <4>2, SubSeqProperties
    <3> QED
      BY <1>1, <1>4, <2>1, <2>3, <3>2, <3>3, ReplaceStep DEF Activate, outbox
  <2>4. CASE ~Contains(newer, w)
    <3>1. k = 0
      BY <1>2, <2>2, <2>4, FirstIndex
    <3>2. UNCHANGED <<bucket, newer>>
      BY <1>4, <2>2, <3>1 DEF ActivateSnapshot
    <3>3. bucket.active # Nil
      BY <1>1, <1>4, <2>4 DEF SnapshotInv, VersionInv, At
    <3>4. bucket.active \in Nat /\ bucket.active <= saved["account"] /\ saved["account"] \in Nat
      BY <3>3, WorkerFacts DEF SnapshotInv, EpochInv, TypeOK, CacheTypeOK
    <3>5. ~missed' /\ AccountWill(work[w], bucket, saved) => AccountDone
      <4>1. SUFFICES ASSUME ~missed', AccountWill(work[w], bucket, saved)
                     PROVE  bucket.active = saved["account"]
        BY DEF AccountDone
      <4>2. work[w].loaded = saved["account"]
        BY <1>1, <4>1 DEF AccountWill
      <4>3. ~(work[w].loaded > bucket.active)
        BY <2>1, <2>4, <3>3, <4>1 DEF Overtaken
      <4> QED
        BY <3>4, <4>2, <4>3
    <3>6. Around(w)
      BY <1>4, <2>1, <3>2 DEF Activate, Around, outbox, SnapshotInv, TypeOK, CacheTypeOK
    <3> QED
      BY <1>1, <1>4, <3>5, <3>6, EndWriteHarmless
  <2> QED
    BY <2>3, <2>4
<1> QED
  BY <1>3, <1>4 DEF Activate

(* The lease's holder opens or retires the bucket as it has seen the group, *)
(* and nobody else is about to.                                            *)
Decided(w, x) ==
    /\ Set(w, x) /\ x \in WorkType
    /\ x.pc = "release" /\ x.batch = work[w].batch /\ x.last = work[w].last
    /\ x.saw = work[w].saw /\ x.ok = work[w].ok

Reopened(e) ==
    /\ bucket'.epoch = bucket.epoch /\ ~bucket'.retired /\ floor' = floor /\ e = bucket.epoch
    /\ bucket' = bucket \/ (bucket.retired /\ bucket'.active = Nil)

Retired(e) ==
    /\ bucket'.retired /\ bucket'.active = Nil /\ e < bucket'.epoch
    /\ bucket.retired => bucket'.epoch = bucket.epoch /\ floor' = floor
    /\ ~bucket.retired => bucket'.epoch = bucket.epoch + 1 /\ floor' = saved["account"]

LEMMA DecideBucket ==
    ASSUME SnapshotInv, NEW w \in Workers, Decide(w)
    PROVE  /\ bucket' \in [epoch : Nat, retired : BOOLEAN, active : Nat \union {Nil}]
           /\ \E x : Decided(w, x) /\ IF x.saw THEN Reopened(x.epoch) ELSE Retired(x.epoch)
<1>1. work[w] \in WorkType /\ Tokened(work[w], bucket) /\ bucket.epoch \in Nat /\ work[w].epoch \in Nat
  BY WorkerFacts DEF WorkType
<1>2. bucket \in [epoch : Nat, retired : BOOLEAN, active : Nat \union {Nil}] /\ (bucket.retired => bucket.active = Nil)
  BY DEF SnapshotInv, TypeOK, CacheTypeOK, EpochInv, RetiredIsGone
<1>3. CASE /\ work[w].saw /\ ReopenBucket /\ UNCHANGED floor
           /\ work' = [work EXCEPT ![w].pc = "release", ![w].epoch = bucket.epoch]
  <2>1. PICK x : x = [work[w] EXCEPT !.pc = "release", !.epoch = bucket.epoch]
    OBVIOUS
  <2>2. Set(w, x) /\ x \in WorkType
    BY <1>1, <1>3, <2>1 DEF Set, WorkType, Steps
  <2>3. /\ x.pc = "release" /\ x.epoch = bucket.epoch /\ x.batch = work[w].batch
        /\ x.last = work[w].last /\ x.ok = work[w].ok /\ x.saw = work[w].saw
    BY <1>1, <2>1 DEF WorkType
  <2>4. /\ bucket' \in [epoch : Nat, retired : BOOLEAN, active : Nat \union {Nil}]
        /\ bucket'.epoch = bucket.epoch /\ ~bucket'.retired
        /\ bucket' = bucket \/ (bucket.retired /\ bucket'.active = Nil)
    BY <1>2, <1>3 DEF ReopenBucket
  <2>5. Decided(w, x) /\ x.saw
    BY <1>3, <2>2, <2>3 DEF Decided
  <2>6. Reopened(x.epoch)
    BY <1>3, <2>3, <2>4 DEF Reopened
  <2> QED
    BY <2>4, <2>5, <2>6
<1>4. CASE /\ ~work[w].saw /\ RetireBucket
           /\ floor' = (IF bucket.retired THEN floor ELSE saved["account"])
           /\ Goto(w, "release")
  <2>1. PICK x \in WorkType : Set(w, x) /\ x = [work[w] EXCEPT !.pc = "release"]
    BY <1>4, GotoFacts, WorkerFacts DEF Steps
  <2>2. /\ x.pc = "release" /\ x.epoch = work[w].epoch /\ x.batch = work[w].batch
        /\ x.last = work[w].last /\ x.ok = work[w].ok /\ x.saw = work[w].saw
    BY <1>1, <2>1 DEF WorkType
  <2>3. /\ bucket' \in [epoch : Nat, retired : BOOLEAN, active : Nat \union {Nil}]
        /\ bucket'.epoch = (IF bucket.retired THEN bucket.epoch ELSE bucket.epoch + 1)
        /\ bucket'.retired /\ bucket'.active = Nil
    BY <1>1, <1>2, <1>4 DEF RetireBucket
  <2>4. x.epoch < bucket'.epoch
    BY <1>1, <2>2, <2>3 DEF Tokened
  <2>5. Decided(w, x) /\ ~x.saw
    BY <1>4, <2>1, <2>2 DEF Decided
  <2>6. Retired(x.epoch)
    BY <1>4, <2>3, <2>4 DEF Retired
  <2> QED
    BY <2>3, <2>5, <2>6
<1> QED
  BY <1>3, <1>4 DEF Decide

LEMMA DecideStep ==
    ASSUME SnapshotInv, NEW w \in Workers, Decide(w), UNCHANGED crew
    PROVE  SnapshotInv'
<1>1. UNCHANGED <<saved, rows, seq, writer, watermark, missed, newer, lock, lease, crew>>
  BY DEF Decide, outbox
<1>2. bucket' \in [epoch : Nat, retired : BOOLEAN, active : Nat \union {Nil}]
  BY DecideBucket
<1>3. PICK x : Decided(w, x) /\ IF x.saw THEN Reopened(x.epoch) ELSE Retired(x.epoch)
  BY DecideBucket
<1>4. /\ work[w] \in WorkType /\ Polling(w, work[w]) /\ work[w].pc = "decide" /\ work[w].ok /\ lease = w
      /\ saved["account"] \in Nat /\ bucket.epoch \in Nat /\ floor \in Nat /\ work[w].loaded <= saved["account"]
  BY WorkerFacts DEF Decide, At, Polling, SnapshotInv, TypeOK
<1>5. /\ x \in WorkType /\ x.pc = "release" /\ x.batch = work[w].batch /\ x.last = work[w].last
      /\ x.saw = work[w].saw /\ x.ok
  BY <1>3, <1>4 DEF Decided
<1>6. work' \in [Workers -> WorkType] /\ work'[w] = x /\ \A v \in Workers \ {w} : work'[v] = work[v]
  BY <1>3, SetFacts, WorkerFacts DEF Decided
<1>7. x.loaded = work[w].loaded
  <2>1. work'[w].loaded = work[w].loaded
    <3>1. work \in [Workers -> WorkType]
      BY WorkerFacts
    <3>2. \/ work' = [work EXCEPT ![w].pc = "release", ![w].epoch = bucket.epoch]
          \/ work' = [work EXCEPT ![w].pc = "release"]
      BY DEF Decide, Goto
    <3> QED
      BY <1>4, <3>1, <3>2 DEF WorkType
  <2> QED
    BY <1>6, <2>1
<1>8. bucket'.epoch >= bucket.epoch /\ x.epoch <= bucket'.epoch /\ (bucket'.retired => x.epoch < bucket'.epoch)
      /\ floor' \in Nat /\ floor' <= saved["account"] /\ (bucket'.retired <=> ~x.saw)
  BY <1>2, <1>3, <1>4, <1>5 DEF Reopened, Retired, WorkType, SnapshotInv, EpochInv
<1>9. ASSUME NEW v \in Workers \ {w}
      PROVE  /\ Tokened(work[v], bucket') /\ Fences(work[v], bucket', floor')
             /\ bucket' = bucket \/ bucket'.retired \/ work[v].epoch # bucket'.epoch
  <2>1. Tokened(work[v], bucket) /\ Fences(work[v], bucket, floor) /\ work[v].epoch \in Nat /\ bucket'.epoch \in Nat
    BY <1>2, WorkerFacts DEF WorkType
  <2>2. CASE x.saw
    <3>1. Reopened(x.epoch)
      BY <1>3, <2>2
    <3> QED
      BY <1>4, <2>1, <3>1 DEF Reopened, Tokened, Fences
  <2>3. CASE ~x.saw
    <3>1. Retired(x.epoch)
      BY <1>3, <2>3
    <3>2. CASE bucket.retired
      BY <1>4, <2>1, <3>1, <3>2 DEF Retired, Tokened, Fences
    <3>3. CASE ~bucket.retired
      BY <1>4, <2>1, <3>1, <3>3 DEF Retired, Tokened, Fences
    <3> QED
      BY <3>2, <3>3
  <2> QED
    BY <1>5, <2>2, <2>3 DEF WorkType
<1>10. TypeOK'
  <2>1. OutboxTypeOK'
    BY <1>1 DEF SnapshotInv, TypeOK, OutboxTypeOK
  <2>2. CacheTypeOK'
    BY <1>1, <1>2 DEF SnapshotInv, TypeOK, CacheTypeOK
  <2> QED
    BY <1>1, <1>6, <1>8, <2>1, <2>2 DEF SnapshotInv, TypeOK
<1>11. EpochInv'
  <2>1. \A v \in Workers : Tokened(work'[v], bucket') /\ Fences(work'[v], bucket', floor')
                           /\ work'[v].loaded <= saved'["account"]
    <3>1. Tokened(x, bucket') /\ Fences(x, bucket', floor') /\ x.loaded <= saved'["account"]
      BY <1>1, <1>4, <1>5, <1>7, <1>8 DEF Tokened, Fences, Holding
    <3>2. \A v \in Workers : work[v].loaded <= saved["account"]
      BY WorkerFacts
    <3> QED
      BY <1>1, <1>6, <1>9, <3>1, <3>2
  <2>2. /\ bucket'.retired => bucket'.active = Nil
        /\ bucket'.active # Nil => bucket'.active <= saved["account"] /\ bucket'.active >= floor'
    BY <1>3 DEF Reopened, Retired, SnapshotInv, EpochInv, RetiredIsGone
  <2>3. bucket'.epoch > 0
    BY <1>2, <1>4, <1>8, WorkerFacts
  <2> QED
    BY <1>1, <1>8, <2>1, <2>2, <2>3 DEF EpochInv, RetiredIsGone
<1>12. LeaseInv'
  BY <1>1, <1>4, <1>6 DEF SnapshotInv, LeaseInv
<1>13. PollInv'
  <2>1. Polling(w, x)
    BY <1>4, <1>5 DEF Polling
  <2> QED
    BY <1>6, <2>1 DEF SnapshotInv, PollInv
<1>14. IdInv'
  BY <1>1, <1>5, <1>6 DEF SnapshotInv, IdInv, Inserting
<1>15. DedupInv'
  BY <1>1, <1>5, <1>6 DEF SnapshotInv, DedupInv, Unread
<1>16. VersionInv'
  <2>1. ASSUME NEW v \in Workers \ {w}, work[v].pc = "activate", ~bucket'.retired, bucket'.epoch = work[v].epoch,
               ~Contains(newer, v)
        PROVE  bucket'.active # Nil
    <3>1. bucket' = bucket
      BY <1>9, <2>1 DEF Holding
    <3> QED
      BY <2>1, <3>1 DEF SnapshotInv, VersionInv, At, Fenced
  <2> QED
    BY <1>1, <1>5, <1>6, <2>1 DEF VersionInv, At, Fenced
<1>17. GroupInv'
  <2>1. \A v \in Workers \ {w} : work[v].pc # "decide"
    BY <1>4 DEF SnapshotInv, LeaseInv
  <2>2. CASE x.saw <=> saved["group"] % 2 = 0
    <3>1. GroupDone'
      BY <1>1, <1>5, <1>6, <1>8, <2>1, <2>2 DEF GroupDone, GroupActive, At
    <3> QED
      BY <3>1 DEF GroupInv
  <2>3. CASE ~(x.saw <=> saved["group"] % 2 = 0)
    <3>1. ~GroupDone
      BY <1>4, <1>5, <2>3 DEF GroupDone, GroupActive, At
    <3>2. GroupWill(work[w], saved) => GroupWill(x, saved)
      BY <1>4, <1>5, <2>3 DEF GroupWill
    <3>3. ASSUME NEW r \in rows, GroupRow(r)
          PROVE  GroupRow(r)'
      BY <1>1, <1>4, <1>5, <1>6, <3>2, <3>3 DEF GroupRow
    <3> QED
      BY <1>1, <3>1, <3>3 DEF SnapshotInv, GroupInv
  <2> QED
    BY <2>2, <2>3
<1>18. AccountInv'
  <2>1. CASE bucket' = bucket
    <3>1. AccountDone => AccountDone'
      BY <1>1, <1>5, <1>6, <2>1 DEF AccountDone, Stale, Holding
    <3>2. x.saw \/ AccountDone
      <4>1. ~x.saw => bucket.retired
        BY <1>3, <2>1 DEF Retired
      <4> QED
        BY <4>1, RetiredIsDone
    <3>3. ASSUME NEW r \in rows, AccountRow(r), x.saw
          PROVE  AccountRow(r)'
      <4>1. AccountWill(work[w], bucket, saved) => AccountWill(x, bucket, saved)
        BY <1>3, <1>5, <3>3 DEF AccountWill, Reopened
      <4> QED
        BY <1>1, <1>4, <1>5, <1>6, <2>1, <3>3, <4>1 DEF AccountRow
    <3> QED
      BY <1>1, <3>1, <3>2, <3>3 DEF SnapshotInv, AccountInv
  <2>2. CASE bucket' # bucket
    <3>1. bucket'.active = Nil
      BY <1>3, <2>2 DEF Reopened, Retired
    <3>2. \A v \in Workers : ~Stale(work'[v], bucket', saved')
      BY <1>5, <1>6, <1>9, <2>2 DEF Stale, Holding
    <3> QED
      BY <3>1, <3>2 DEF AccountInv, AccountDone
  <2> QED
    BY <2>1, <2>2
<1> QED
  BY <1>10, <1>11, <1>12, <1>13, <1>14, <1>15, <1>16, <1>17, <1>18 DEF SnapshotInv

-----------------------------------------------------------------------------
(* The writers' steps: no worker and no bucket is touched. *)
Apart == UNCHANGED <<bucket, newer, lock, lease, crew, work, floor, watermark>>

LEMMA ApartFacts ==
    ASSUME SnapshotInv, Apart, OutboxTypeOK', saved'["account"] >= saved["account"]
    PROVE  TypeOK' /\ EpochInv' /\ LeaseInv' /\ PollInv' /\ VersionInv'
<1>1. saved["account"] \in Nat /\ saved'["account"] \in Nat
  BY DEF OutboxTypeOK, Subjects, SnapshotInv, TypeOK
<1>2. TypeOK'
  BY DEF SnapshotInv, TypeOK, CacheTypeOK, Apart
<1>3. EpochInv'
  <2>1. /\ floor \in Nat /\ floor <= saved'["account"]
        /\ bucket.active # Nil => bucket.active \in Nat /\ bucket.active <= saved'["account"]
    BY <1>1 DEF SnapshotInv, TypeOK, CacheTypeOK, EpochInv
  <2>2. \A v \in Workers : work[v].loaded \in Nat /\ work[v].loaded <= saved'["account"]
    BY <1>1, WorkerFacts DEF WorkType
  <2> QED
    BY <2>1, <2>2 DEF SnapshotInv, EpochInv, RetiredIsGone, Apart
<1>4. LeaseInv' /\ PollInv' /\ VersionInv'
  BY DEF SnapshotInv, LeaseInv, PollInv, VersionInv, At, Fenced, Apart
<1> QED
  BY <1>2, <1>3, <1>4

(* What is settled for one subject, or waits in a row, stays so whatever   *)
(* the other subject's writer does.                                        *)
LEMMA GroupApart ==
    ASSUME SnapshotInv, Apart, saved'["group"] = saved["group"], rows \subseteq rows'
    PROVE  (GroupDone => GroupDone') /\ \A r \in rows : GroupRow(r) => r \in rows' /\ GroupRow(r)'
<1>1. \A v \in Workers : GroupWill(work[v], saved) => GroupWill(work[v], saved')
  BY DEF GroupWill
<1>2. GroupDone => GroupDone'
  BY DEF GroupDone, GroupActive, At, Apart
<1>3. ASSUME NEW r \in rows, GroupRow(r)
      PROVE  GroupRow(r)'
  BY <1>1, <1>3 DEF GroupRow, Apart
<1> QED
  BY <1>2, <1>3

LEMMA AccountApart ==
    ASSUME SnapshotInv, Apart, saved'["account"] = saved["account"], rows \subseteq rows'
    PROVE  (AccountDone => AccountDone') /\ \A r \in rows : AccountRow(r) => r \in rows' /\ AccountRow(r)'
<1>1. \A v \in Workers : AccountWill(work[v], bucket, saved) => AccountWill(work[v], bucket', saved')
  BY DEF AccountWill, Apart
<1>2. \A v \in Workers : Stale(work[v], bucket', saved') => Stale(work[v], bucket, saved)
  BY DEF Stale, Apart
<1>3. AccountDone => AccountDone'
  BY <1>2 DEF AccountDone, Apart
<1>4. ASSUME NEW r \in rows, AccountRow(r)
      PROVE  AccountRow(r)'
  BY <1>1, <1>4 DEF AccountRow, Apart
<1> QED
  BY <1>3, <1>4

(* A row that nobody has read yet waits for everybody. *)
LEMMA UnreadRows ==
    ASSUME SnapshotInv, Apart, NEW r, r \in rows', r.id \in Nat, Unread(r.id)
    PROVE  (r.on = "group" => GroupRow(r)') /\ (r.on = "account" => AccountRow(r)')
<1>1. r.id > watermark' /\ \A v \in Workers : r.id > work'[v].last /\ work'[v].last \in Nat
  BY WorkerFacts DEF Unread, Apart, WorkType
<1>2. r.id > watermark' /\ \A v \in Workers : ~(r.id <= work'[v].last)
  BY <1>1
<1> QED
  BY <1>2 DEF GroupRow, AccountRow

LEMMA UpdateStep ==
    ASSUME SnapshotInv, NEW s \in Subjects, Update(s), Apart
    PROVE  SnapshotInv'
<1>1. OutboxTypeOK /\ IdInv /\ saved["account"] \in Nat /\ saved["group"] \in Nat
  BY DEF SnapshotInv, TypeOK, OutboxTypeOK, Subjects
<1>2. UNCHANGED <<rows, seq, watermark, missed>>
  BY DEF Update
<1>3. /\ saved' \in [Subjects -> Nat] /\ saved'[s] = saved[s] + 1
      /\ \A t \in Subjects \ {s} : saved'[t] = saved[t]
  BY <1>1 DEF Update, OutboxTypeOK
<1>4. /\ writer' \in [Subjects -> [pc : {"none", "enqueue", "insert", "commit"}, id : Nat]]
      /\ writer'[s].pc = "enqueue" /\ \A t \in Subjects \ {s} : writer'[t] = writer[t]
  BY <1>1 DEF Update, OutboxTypeOK
<1>5. OutboxTypeOK'
  BY <1>1, <1>2, <1>3, <1>4 DEF OutboxTypeOK
<1>6. saved'["account"] >= saved["account"]
  BY <1>1, <1>3 DEF Subjects
<1>7. IdInv'
  <2>1. \A i : Inserting(i)' => Inserting(i)
    BY <1>4 DEF Inserting, Subjects
  <2>2. /\ writer'["group"].pc \in {"none", "enqueue"}
        /\ writer'["account"].pc = "insert" => writer'["account"].id \in 1..seq
    BY <1>1, <1>4 DEF IdInv, Subjects
  <2> QED
    BY <1>1, <1>2, <2>1, <2>2 DEF IdInv, Apart
<1>8. DedupInv'
  BY <1>2 DEF SnapshotInv, DedupInv, Unread, Apart
<1>9. GroupInv'
  <2>1. CASE s = "group"
    BY <1>4, <2>1 DEF GroupInv
  <2>2. CASE s # "group"
    <3>1. saved'["group"] = saved["group"] /\ writer'["group"] = writer["group"]
      BY <1>3, <1>4, <2>2 DEF Subjects
    <3> QED
      BY <1>2, <3>1, GroupApart DEF SnapshotInv, GroupInv
  <2> QED
    BY <2>1, <2>2
<1>10. AccountInv'
  <2>1. CASE s = "account"
    BY <1>4, <2>1 DEF AccountInv
  <2>2. CASE s # "account"
    <3>1. saved'["account"] = saved["account"] /\ writer'["account"] = writer["account"]
      BY <1>3, <1>4, <2>2 DEF Subjects
    <3> QED
      BY <1>2, <3>1, AccountApart DEF SnapshotInv, AccountInv
  <2> QED
    BY <2>1, <2>2
<1> QED
  BY <1>5, <1>6, <1>7, <1>8, <1>9, <1>10, ApartFacts DEF SnapshotInv

LEMMA EnqueueStep ==
    ASSUME SnapshotInv, NEW s \in Subjects, Enqueue(s), Apart
    PROVE  SnapshotInv'
<1>1. OutboxTypeOK /\ IdInv /\ saved["account"] \in Nat /\ seq \in Nat
  BY DEF SnapshotInv, TypeOK, OutboxTypeOK, Subjects
<1>2. UNCHANGED <<saved, watermark>>
  BY DEF Enqueue
<1>3. /\ writer' \in [Subjects -> [pc : {"none", "enqueue", "insert", "commit"}, id : Nat]]
      /\ writer'[s].pc = "none" /\ \A t \in Subjects \ {s} : writer'[t] = writer[t]
  BY <1>1 DEF Enqueue, OutboxTypeOK, Quiet
<1>4. PICK row : row = [id |-> seq + 1, on |-> s, dedup |-> TRUE]
  OBVIOUS
<1>5. row \in [id : Nat, on : Subjects, dedup : BOOLEAN] /\ row.id = seq + 1 /\ row.on = s
  BY <1>1, <1>4
<1>6. \/ Pending(s) # {} /\ UNCHANGED <<rows, seq, missed>>
      \/ seq' = seq + 1 /\ rows' = rows \union {row} /\ UNCHANGED missed
      \/ missed' = TRUE /\ UNCHANGED <<rows, seq>>
  BY <1>4 DEF Enqueue
<1>7. rows \subseteq rows' /\ seq' \in Nat /\ seq' >= seq /\ (~missed' => ~missed)
  BY <1>1, <1>6
<1>8. OutboxTypeOK'
  BY ZenonT(40), <1>1, <1>2, <1>3, <1>5, <1>6 DEF OutboxTypeOK
<1>9. \A i : Inserting(i)' => Inserting(i)
  BY <1>3 DEF Inserting, Subjects
<1>10. Unread(seq + 1) /\ ~Inserting(seq + 1)
  <2>1. watermark \in Nat /\ \A v \in Workers : work[v].last \in Nat
    BY WorkerFacts DEF SnapshotInv, TypeOK, OutboxTypeOK, WorkType
  <2> QED
    BY <1>1, <2>1 DEF Unread, IdInv, Inserting
<1>11. IdInv'
  <2>1. /\ writer'["group"].pc \in {"none", "enqueue"}
        /\ writer'["account"].pc = "insert" => writer'["account"].id \in 1..seq
    BY <1>1, <1>3 DEF IdInv, Subjects
  <2>2. \A r \in rows' : r.id \in 1..seq' /\ ~Inserting(r.id)'
    <3>1. \A r \in rows : r.id \in 1..seq /\ ~Inserting(r.id)
      BY <1>1 DEF IdInv
    <3>2. rows' = rows \/ (seq' = seq + 1 /\ rows' = rows \union {row})
      BY <1>6
    <3>3. 1..seq \subseteq 1..seq' /\ seq + 1 \in 1..(seq + 1)
      BY <1>1, <1>7
    <3> QED
      BY <1>5, <1>9, <1>10, <3>1, <3>2, <3>3
  <2>3. 1..seq \subseteq 1..seq' /\ \A i \in Nat : i <= seq => i <= seq'
    BY <1>1, <1>7
  <2>4. watermark \in Nat /\ \A v \in Workers : work[v].last \in Nat
    BY WorkerFacts DEF SnapshotInv, TypeOK, OutboxTypeOK, WorkType
  <2> QED
    BY <1>1, <1>9, <2>1, <2>2, <2>3, <2>4 DEF IdInv, Apart
<1>12. DedupInv'
  <2>1. ~missed' => \A r \in rows' : r.dedup => Unread(r.id)
    BY <1>5, <1>6, <1>7, <1>10 DEF SnapshotInv, DedupInv
  <2> QED
    BY <2>1 DEF DedupInv, Unread, Apart
<1>13. ~missed' => \E r \in rows' : r.on = s /\ r.id \in Nat /\ Unread(r.id)
  <2>1. CASE Pending(s) # {} /\ UNCHANGED <<rows, seq, missed>>
    <3>1. PICK r \in rows : r.on = s /\ r.dedup
      BY <2>1 DEF Pending
    <3> QED
      BY <1>1, <2>1, <3>1 DEF SnapshotInv, DedupInv, OutboxTypeOK
  <2>2. CASE rows' = rows \union {row}
    BY <1>5, <1>10, <2>2
  <2> QED
    BY <1>6, <2>1, <2>2
<1>14. GroupInv'
  <2>1. CASE s = "group"
    <3>1. ~missed' => \E r \in rows' : GroupRow(r)'
      BY <1>13, <2>1, UnreadRows
    <3> QED
      BY <3>1 DEF GroupInv
  <2>2. CASE s # "group"
    <3>1. writer'["group"] = writer["group"]
      BY <1>3, <2>2 DEF Subjects
    <3> QED
      BY <1>2, <1>7, <3>1, GroupApart DEF SnapshotInv, GroupInv
  <2> QED
    BY <2>1, <2>2
<1>15. AccountInv'
  <2>1. CASE s = "account"
    <3>1. ~missed' => \E r \in rows' : AccountRow(r)'
      BY <1>13, <2>1, UnreadRows
    <3> QED
      BY <3>1 DEF AccountInv
  <2>2. CASE s # "account"
    <3>1. writer'["account"] = writer["account"]
      BY <1>3, <2>2 DEF Subjects
    <3> QED
      BY <1>2, <1>7, <3>1, AccountApart DEF SnapshotInv, AccountInv
  <2> QED
    BY <2>1, <2>2
<1> QED
  BY <1>1, <1>2, <1>8, <1>11, <1>12, <1>14, <1>15, ApartFacts DEF SnapshotInv

(* A row that is drawn and not committed announces nothing yet. *)
LEMMA InsertInTxStep ==
    ASSUME SnapshotInv, NEW s \in Subjects, InsertInTx(s), Apart
    PROVE  SnapshotInv'
<1>1. OutboxTypeOK /\ IdInv /\ saved["account"] \in Nat /\ seq \in Nat
  BY DEF SnapshotInv, TypeOK, OutboxTypeOK, Subjects
<1>2. UNCHANGED <<saved, rows, watermark, missed>> /\ s = "account" /\ writer["account"].pc = "none"
  BY DEF InsertInTx
<1>3. PICK y \in [pc : {"insert", "commit"}, id : Nat] :
        /\ writer' = [writer EXCEPT !["account"] = y]
        /\ \/ y.pc = "insert" /\ y.id = seq + 1 /\ seq' = seq + 1
           \/ y.pc = "commit" /\ seq' = seq
  <2>1. CASE seq' = seq + 1 /\ writer' = [writer EXCEPT ![s] = [pc |-> "insert", id |-> seq']]
    <3>1. PICK z : z = [pc |-> "insert", id |-> seq']
      OBVIOUS
    <3>2. z \in [pc : {"insert", "commit"}, id : Nat] /\ z.pc = "insert" /\ z.id = seq + 1
      BY <1>1, <2>1, <3>1
    <3>3. writer' = [writer EXCEPT !["account"] = z]
      BY <1>2, <2>1, <3>1
    <3> QED
      BY <2>1, <3>2, <3>3
  <2>2. ASSUME NEW r \in Pending(s), writer' = [writer EXCEPT ![s] = [pc |-> "commit", id |-> r.id]], UNCHANGED seq
        PROVE  \E y \in [pc : {"insert", "commit"}, id : Nat] :
                  writer' = [writer EXCEPT !["account"] = y] /\ y.pc = "commit" /\ seq' = seq
    <3>1. r.id \in Nat
      BY <1>1 DEF Pending, OutboxTypeOK
    <3>2. PICK z : z = [pc |-> "commit", id |-> r.id]
      OBVIOUS
    <3>3. z \in [pc : {"insert", "commit"}, id : Nat] /\ z.pc = "commit"
      BY <3>1, <3>2
    <3>4. writer' = [writer EXCEPT !["account"] = z]
      BY <1>2, <2>2, <3>2
    <3> QED
      BY <2>2, <3>3, <3>4
  <2> QED
    BY <2>1, <2>2 DEF InsertInTx
<1>4. /\ writer' \in [Subjects -> [pc : {"none", "enqueue", "insert", "commit"}, id : Nat]]
      /\ writer'["account"] = y /\ writer'["group"] = writer["group"]
  BY <1>1, <1>3 DEF OutboxTypeOK, Subjects
<1>5. seq' \in Nat /\ seq' >= seq
  BY <1>1, <1>3
<1>6. OutboxTypeOK'
  BY <1>1, <1>2, <1>4, <1>5 DEF OutboxTypeOK
<1>7. \A i \in Nat : i <= seq => ~Inserting(i)'
  BY <1>1, <1>3, <1>4 DEF Inserting
<1>8. IdInv'
  <2>1. /\ writer'["group"].pc \in {"none", "enqueue"}
        /\ writer'["account"].pc = "insert" => writer'["account"].id \in 1..seq'
    BY <1>1, <1>3, <1>4 DEF IdInv
  <2>2. \A r \in rows : r.id \in 1..seq' /\ ~Inserting(r.id)'
    BY <1>1, <1>5, <1>7 DEF IdInv
  <2>3. watermark \in Nat /\ \A v \in Workers : work[v].last \in Nat
    BY WorkerFacts DEF SnapshotInv, TypeOK, OutboxTypeOK, WorkType
  <2>4. watermark <= seq' /\ \A v \in Workers : work[v].last <= seq'
    BY <1>1, <1>5, <2>3 DEF IdInv
  <2>5. ~Inserting(watermark)' /\ \A v \in Workers : ~Inserting(work[v].last)'
    BY <1>1, <1>2, <1>7, <2>3 DEF IdInv, Apart, Inserting
  <2> QED
    BY <1>2, <2>1, <2>2, <2>4, <2>5 DEF IdInv, Apart, Inserting
<1>9. DedupInv'
  BY <1>2 DEF SnapshotInv, DedupInv, Unread, Apart
<1>10. GroupInv'
  BY <1>2, <1>4, GroupApart DEF SnapshotInv, GroupInv
<1>11. AccountInv'
  BY <1>2, AccountApart DEF SnapshotInv, AccountInv
<1> QED
  BY <1>1, <1>2, <1>6, <1>8, <1>9, <1>10, <1>11, ApartFacts DEF SnapshotInv

(* A commit that was not overtaken is announced by a row still to be read. *)
LEMMA CommitStep ==
    ASSUME SnapshotInv, NEW s \in Subjects, Commit(s), Apart
    PROVE  SnapshotInv'
<1>1. OutboxTypeOK /\ IdInv /\ saved["account"] \in Nat /\ seq \in Nat
  BY DEF SnapshotInv, TypeOK, OutboxTypeOK, Subjects
<1>2. UNCHANGED <<seq, watermark>> /\ s = "account" /\ writer["account"].pc \in {"insert", "commit"}
  BY <1>1 DEF Commit, IdInv, Subjects
<1>3. /\ saved' \in [Subjects -> Nat] /\ saved'["account"] = saved["account"] + 1 /\ saved'["group"] = saved["group"]
  BY <1>1, <1>2 DEF Commit, OutboxTypeOK, Subjects
<1>4. /\ writer' \in [Subjects -> [pc : {"none", "enqueue", "insert", "commit"}, id : Nat]]
      /\ writer'["account"].pc = "none" /\ writer'["group"] = writer["group"]
  BY <1>1, <1>2 DEF Commit, OutboxTypeOK, Subjects, Quiet
<1>5. PICK i \in Nat : i = writer["account"].id
  BY <1>1 DEF OutboxTypeOK, Subjects
<1>6. PICK row : row = [id |-> i, on |-> "account", dedup |-> TRUE]
  OBVIOUS
<1>7. row \in [id : Nat, on : Subjects, dedup : BOOLEAN] /\ row.id = i /\ row.on = "account"
  BY <1>5, <1>6 DEF Subjects
<1>8. \/ /\ writer["account"].pc = "insert" /\ rows' = rows \union {row}
         /\ missed' = (missed \/ seq > i)
      \/ /\ rows' = rows
         /\ missed' = (missed \/ \A r \in Pending("account") : r.id # i)
  BY <1>2, <1>5, <1>6 DEF Commit
<1>9. missed \in BOOLEAN /\ missed' \in BOOLEAN /\ (~missed' => ~missed)
  <2>1. missed \in BOOLEAN
    BY <1>1 DEF OutboxTypeOK
  <2>2. PICK c \in BOOLEAN : missed' = (missed \/ c)
    BY <1>8, Zenon
  <2> QED
    BY <2>1, <2>2
<1>10. rows \subseteq rows'
  BY <1>8
<1>11. OutboxTypeOK'
  BY <1>1, <1>2, <1>3, <1>4, <1>7, <1>8, <1>9 DEF OutboxTypeOK
<1>12. \A j : ~Inserting(j)'
  BY <1>4 DEF Inserting
<1>13. IdInv'
  <2>1. \A r \in rows' : r.id \in 1..seq
    BY <1>1, <1>5, <1>7, <1>8 DEF IdInv
  <2> QED
    BY <1>1, <1>2, <1>4, <1>12, <2>1 DEF IdInv, Apart
<1>14. writer["account"].pc = "insert" /\ ~missed' /\ rows' = rows \union {row} /\ ~(seq > i) => Unread(i)
  <2>1. watermark \in Nat /\ \A v \in Workers : work[v].last \in Nat
    BY WorkerFacts DEF SnapshotInv, TypeOK, OutboxTypeOK, WorkType
  <2> QED
    BY <1>1, <1>5, <2>1 DEF Unread, IdInv, Inserting
<1>15. \/ missed'
       \/ rows' = rows /\ \E r \in rows : r.on = "account" /\ r.dedup
       \/ rows' = rows \union {row} /\ Unread(i)
  <2>1. CASE /\ writer["account"].pc = "insert" /\ rows' = rows \union {row}
             /\ missed' = (missed \/ seq > i)
    BY <1>14, <2>1
  <2>2. CASE /\ rows' = rows
             /\ missed' = (missed \/ \A r \in Pending("account") : r.id # i)
    BY <2>2 DEF Pending
  <2> QED
    BY <1>8, <2>1, <2>2
<1>16. DedupInv'
  <2>1. ~missed' => \A r \in rows' : r.dedup => Unread(r.id)
    BY <1>7, <1>9, <1>15 DEF SnapshotInv, DedupInv
  <2> QED
    BY <1>2, <2>1 DEF DedupInv, Unread, Apart
<1>17. GroupInv'
  BY <1>3, <1>4, <1>9, <1>10, GroupApart DEF SnapshotInv, GroupInv
<1>18. AccountInv'
  <2>1. ~missed' => \E r \in rows' : r.on = "account" /\ r.id \in Nat /\ Unread(r.id)
    <3>1. CASE rows' = rows /\ \E r \in rows : r.on = "account" /\ r.dedup
      BY <1>1, <1>9, <3>1 DEF SnapshotInv, DedupInv, OutboxTypeOK
    <3>2. CASE rows' = rows \union {row} /\ Unread(i)
      BY <1>7, <3>2
    <3> QED
      BY <1>15, <3>1, <3>2
  <2>2. ~missed' => \E r \in rows' : AccountRow(r)'
    BY <2>1, UnreadRows
  <2> QED
    BY <2>2 DEF AccountInv
<1> QED
  BY <1>1, <1>3, <1>11, <1>13, <1>16, <1>17, <1>18, ApartFacts DEF SnapshotInv

LEMMA RollbackStep ==
    ASSUME SnapshotInv, NEW s \in Subjects, Rollback(s), Apart
    PROVE  SnapshotInv'
<1>1. OutboxTypeOK /\ IdInv /\ saved["account"] \in Nat
  BY DEF SnapshotInv, TypeOK, OutboxTypeOK, Subjects
<1>2. UNCHANGED <<saved, rows, seq, watermark, missed>> /\ s = "account" /\ writer["account"].pc # "enqueue"
  BY <1>1 DEF Rollback, IdInv, Subjects
<1>3. /\ writer' \in [Subjects -> [pc : {"none", "enqueue", "insert", "commit"}, id : Nat]]
      /\ writer'["account"].pc = "none" /\ writer'["group"] = writer["group"]
  BY <1>1, <1>2 DEF Rollback, OutboxTypeOK, Subjects, Quiet
<1>4. OutboxTypeOK'
  BY <1>1, <1>2, <1>3 DEF OutboxTypeOK
<1>5. IdInv'
  BY <1>1, <1>2, <1>3 DEF IdInv, Inserting, Apart
<1>6. DedupInv'
  BY <1>2 DEF SnapshotInv, DedupInv, Unread, Apart
<1>7. GroupInv'
  BY <1>2, <1>3, GroupApart DEF SnapshotInv, GroupInv
<1>8. AccountInv'
  BY <1>2, AccountApart DEF SnapshotInv, AccountInv
<1> QED
  BY <1>1, <1>2, <1>4, <1>5, <1>6, <1>7, <1>8, ApartFacts DEF SnapshotInv

(* A change without a row counts as missed, which promises nothing.        *)
LEMMA ChangeUnannouncedStep ==
    ASSUME SnapshotInv, NEW s \in Subjects, ChangeUnannounced(s), Apart
    PROVE  SnapshotInv'
<1>1. OutboxTypeOK /\ IdInv /\ saved["account"] \in Nat
  BY DEF SnapshotInv, TypeOK, OutboxTypeOK, Subjects
<1>2. UNCHANGED <<rows, seq, writer, watermark>> /\ missed' = TRUE /\ s = "account"
  BY DEF ChangeUnannounced
<1>3. saved' \in [Subjects -> Nat] /\ saved'["account"] = saved["account"] + 1
  BY <1>1 DEF ChangeUnannounced, OutboxTypeOK, Subjects
<1>4. OutboxTypeOK' /\ saved'["account"] >= saved["account"]
  BY <1>1, <1>2, <1>3 DEF OutboxTypeOK
<1>5. IdInv'
  BY <1>1, <1>2 DEF IdInv, Inserting, Apart
<1>6. DedupInv' /\ GroupInv' /\ AccountInv'
  BY <1>2 DEF DedupInv, GroupInv, AccountInv
<1> QED
  BY <1>4, <1>5, <1>6, ApartFacts DEF SnapshotInv

-----------------------------------------------------------------------------
(* SnapshotInv holds at the start and is kept by every step. *)
LEMMA InitInv == Init => SnapshotInv
<1> SUFFICES ASSUME Init
             PROVE  SnapshotInv
  OBVIOUS
<1> USE DEF Init, OutboxInit, CacheInit
<1>1. /\ saved \in [Subjects -> Nat] /\ saved["account"] = 0 /\ saved["group"] = 0 /\ rows = {} /\ seq = 0
      /\ watermark = 0 /\ missed = FALSE
      /\ writer \in [Subjects -> [pc : {"none", "enqueue", "insert", "commit"}, id : Nat]]
      /\ writer["account"].pc = "none" /\ writer["group"].pc = "none"
  BY DEF Quiet, Subjects
<1>2. bucket.epoch = 1 /\ ~bucket.retired /\ bucket.active = Nil /\ newer = <<>> /\ lock = Nil /\ lease = Nil
      /\ bucket \in [epoch : Nat, retired : BOOLEAN, active : Nat \union {Nil}]
  OBVIOUS
<1>3. work \in [Workers -> WorkType] /\ \A w \in Workers : work[w] = Idle
  BY IdleFacts
<1>4. TypeOK
  <2>1. OutboxTypeOK
    <3>1. rows \subseteq [id : Nat, on : Subjects, dedup : BOOLEAN]
      OBVIOUS
    <3>2. missed \in BOOLEAN /\ seq \in Nat /\ watermark \in Nat
      OBVIOUS
    <3> QED
      BY <1>1, <3>1, <3>2, Zenon DEF OutboxTypeOK
  <2>2. CacheTypeOK
    BY <1>2 DEF CacheTypeOK
  <2> QED
    BY <1>3, <2>1, <2>2 DEF TypeOK
<1>5. EpochInv
  BY <1>1, <1>2, <1>3, IdleFacts DEF EpochInv, Tokened, Fences, Holding, RetiredIsGone
<1>6. LeaseInv /\ PollInv /\ VersionInv
  BY <1>3, IdleFacts DEF LeaseInv, PollInv, Polling, VersionInv, At
<1>7. IdInv /\ DedupInv
  BY <1>1, <1>3, IdleFacts DEF IdInv, Inserting, DedupInv
<1>8. GroupInv
  <2>1. GroupDone
    BY <1>1, <1>2, <1>3, IdleFacts DEF GroupDone, GroupActive, At
  <2> QED
    BY <2>1 DEF GroupInv
<1>9. AccountInv
  <2>1. AccountDone
    BY <1>2, <1>3, IdleFacts DEF AccountDone, Stale, Holding
  <2> QED
    BY <2>1 DEF AccountInv
<1> QED
  BY <1>4, <1>5, <1>6, <1>7, <1>8, <1>9 DEF SnapshotInv

LEMMA ChangeStep ==
    ASSUME SnapshotInv, NEW s \in Subjects, Change(s), UNCHANGED <<cache, crew, work, floor>>
    PROVE  SnapshotInv'
<1>1. Apart
  BY DEF Apart, cache, Change, Update, Enqueue, InsertInTx, Commit, Rollback, ChangeUnannounced
<1> QED
  BY <1>1, UpdateStep, EnqueueStep, InsertInTxStep, CommitStep, RollbackStep, ChangeUnannouncedStep DEF Change

LEMMA WorkerStep ==
    ASSUME SnapshotInv, NEW w \in Workers, Start(w) \/ Step(w) \/ StepError(w) \/ Crash(w), UNCHANGED crew
    PROVE  SnapshotInv'
<1>1. CASE Start(w)
  BY <1>1, PollOutboxStep, FullRebuildStep, FallBackStep DEF Start
<1>2. CASE Step(w)
  BY <1>2, ListOutboxStep, SetWatermarkStep, CaptureTokenStep, LockBucketStep, LoadAccountsStep, AllocateStep,
     ActivateStep, UnlockStep, AcquireLeaseStep, ReadGroupStep, DecideStep, ReleaseLifecycleStep DEF Step
<1>3. CASE StepError(w)
  BY <1>3, StepErrorStep
<1>4. CASE Crash(w)
  BY <1>4, CrashStep
<1> QED
  BY <1>1, <1>2, <1>3, <1>4

LEMMA StutterStep == SnapshotInv /\ UNCHANGED vars => SnapshotInv'
<1> SUFFICES ASSUME SnapshotInv, UNCHANGED vars
             PROVE  SnapshotInv'
  OBVIOUS
<1>1. UNCHANGED <<saved, rows, seq, writer, watermark, missed, bucket, newer, lock, lease, work, floor, crew>>
  BY DEF vars, outbox, cache
<1>2. TypeOK' /\ EpochInv' /\ LeaseInv' /\ PollInv'
  BY <1>1 DEF SnapshotInv, TypeOK, OutboxTypeOK, CacheTypeOK, EpochInv, RetiredIsGone, LeaseInv, PollInv
<1>3. IdInv' /\ DedupInv' /\ VersionInv'
  BY <1>1 DEF SnapshotInv, IdInv, Inserting, DedupInv, Unread, VersionInv, At, Fenced
<1>4. GroupInv'
  BY <1>1 DEF SnapshotInv, GroupInv, GroupDone, GroupRow, GroupActive, At
<1>5. AccountInv'
  BY <1>1 DEF SnapshotInv, AccountInv, AccountDone, AccountRow
<1> QED
  BY <1>2, <1>3, <1>4, <1>5 DEF SnapshotInv

(* The inductive invariant: where every change of the database is, from    *)
(* its statement to the bucket, and what each worker's token still allows. *)
THEOREM Inductive == Spec => []SnapshotInv
<1>1. SnapshotInv /\ [Next]_vars => SnapshotInv'
  <2> SUFFICES ASSUME SnapshotInv, [Next]_vars
               PROVE  SnapshotInv'
    OBVIOUS
  <2>1. ASSUME NEW s \in Subjects, Change(s), UNCHANGED <<cache, crew, work, floor>>
        PROVE  SnapshotInv'
    BY <2>1, ChangeStep
  <2>2. ASSUME NEW w \in crew, Start(w) \/ Step(w) \/ StepError(w) \/ Crash(w), UNCHANGED crew
        PROVE  SnapshotInv'
    <3>1. w \in Workers
      BY WorkersAssumption DEF SnapshotInv, TypeOK
    <3> QED
      BY <2>2, <3>1, WorkerStep
  <2>3. CASE LockExpires /\ UNCHANGED crew
    BY <2>3, LockExpiresStep
  <2>4. CASE LeaseExpires /\ UNCHANGED crew
    BY <2>4, LeaseExpiresStep
  <2>5. CASE UNCHANGED vars
    BY <2>5, StutterStep
  <2> QED
    BY <2>1, <2>2, <2>3, <2>4, <2>5 DEF Next
<1> QED
  BY InitInv, <1>1, PTL DEF Spec

(* A retired bucket serves nothing, and members loaded before a group's    *)
(* retirement are never served after it, whatever races and failures there *)
(* are (retireBucketScript, activateSnapshotScript).                       *)
THEOREM RetiredServesNothing == Spec => []RetiredIsGone
<1>1. SnapshotInv => RetiredIsGone
  BY DEF SnapshotInv, EpochInv
<1> QED
  BY <1>1, Inductive, PTL

(* When no row is left to read and nobody is at work, the bucket's members *)
(* agree with the database (pollOutbox, ListAfterAndReleaseDedup,          *)
(* prepareGroupLifecycle), unless one of these has happened: a change was  *)
(* not announced or its row not inserted; its row was committed below a    *)
(* higher id, or the row that stood for it had been read; a poller passed  *)
(* over a locked bucket; a snapshot loaded earlier replaced a later one.   *)
THEOREM OutboxSuffices == Spec => []QuietMeansFresh
<1>1. SnapshotInv => QuietMeansFresh
  <2> SUFFICES ASSUME SnapshotInv, ~missed, After(watermark) = {},
                      \A s \in Subjects : writer[s].pc = "none",
                      \A w \in Workers : At(w, "idle")
               PROVE  Fresh
    BY DEF QuietMeansFresh
  <2>1. writer["group"].pc = "none" /\ writer["account"].pc = "none"
    BY DEF Subjects
  <2>2. \A r \in rows : ~(r.id > watermark)
    BY DEF After
  <2>3. GroupDone
    BY <2>1, <2>2 DEF SnapshotInv, GroupInv, GroupRow
  <2>4. AccountDone
    BY <2>1, <2>2 DEF SnapshotInv, AccountInv, AccountRow
  <2> QED
    BY <2>3, <2>4 DEF Fresh, GroupDone, AccountDone, SnapshotInv, EpochInv, RetiredIsGone
<1> QED
  BY <1>1, Inductive, PTL

=============================================================================
