--------------------------- MODULE BulkJobs_proofs ---------------------------
(* Proofs about BulkJobs, for any number of jobs, rows, terms and workers,    *)
(* any chunk size and any plans.                                              *)
EXTENDS BulkJobs, FiniteSetTheorems, TLAPS

(* A job that has not ended has a row left to decide. *)
OpenHasRows == \A j \in Jobs : job[j].status \notin Terminal => job[j].processed < RowCount

Holding(w) == worker[w].pc \in {"claimed", "landing"}

(* As long as a worker owns its claim, nobody has touched the job since: the  *)
(* row it goes by is the row in the database.                                 *)
ClaimInv ==
  \A w \in Workers : Holding(w) /\ OwnedClaim(w, worker[w].id) => worker[w].seen = job[worker[w].id]

QueueInv ==
  /\ TypeOK
  /\ IsFiniteSet(links)
  /\ RowsAccounted
  /\ OpenHasRows
  /\ ClaimInv

-----------------------------------------------------------------------------
(* Rows and terms of one chunk *)

LEMMA RowsAreFinite ==
  /\ IsFiniteSet(Rows) /\ Cardinality(Rows) = RowCount
  /\ \A r \in Rows : r \in Nat /\ r < RowCount
  /\ \A S \in SUBSET Rows : IsFiniteSet(S) /\ Cardinality(S) \in 0..RowCount
<1>1. RowCount \in Nat /\ RowCount # 0
  BY BulkAssumption
<1>2. IsFiniteSet(Rows) /\ Cardinality(Rows) = RowCount
  <2>1. 0 \in Int /\ RowCount - 1 \in Int
    BY <1>1
  <2> QED BY <1>1, <2>1, FS_Interval DEF Rows
<1>3. ASSUME NEW S \in SUBSET Rows PROVE IsFiniteSet(S) /\ Cardinality(S) \in 0..RowCount
  <2>1. IsFiniteSet(S) /\ Cardinality(S) <= RowCount
    BY <1>2, FS_Subset
  <2>2. Cardinality(S) \in Nat
    BY <2>1, FS_CardinalityType
  <2> QED BY <1>1, <2>1, <2>2
<1> QED BY <1>1, <1>2, <1>3 DEF Rows

(* The first k of a finite set of numbers are at most k. *)
LEMMA FirstFew ==
  ASSUME NEW F \in SUBSET Nat, IsFiniteSet(F), NEW k \in Nat
  PROVE  LET first == {r \in F : Cardinality({q \in F : q < r}) < k}
         IN  /\ IsFiniteSet(first)
             /\ Cardinality(first) <= k
             /\ k = 0 => first = {}
<1> DEFINE Before(r) == {q \in F : q < r}
           first == {r \in F : Cardinality(Before(r)) < k}
           rank == [r \in first |-> Cardinality(Before(r))]
<1>1. ASSUME NEW r \in F PROVE IsFiniteSet(Before(r)) /\ Cardinality(Before(r)) \in Nat
  <2>1. Before(r) \in SUBSET F
    OBVIOUS
  <2> HIDE DEF Before
  <2>2. IsFiniteSet(Before(r))
    BY <2>1, FS_Subset
  <2> QED BY <2>2, FS_CardinalityType
<1>2. ASSUME NEW r \in F, NEW s \in F, r < s
      PROVE  Cardinality(Before(r)) # Cardinality(Before(s))
  <2>0. \A q \in F : q \in Nat
    OBVIOUS
  <2>1. Before(r) \in SUBSET Before(s)
    <3>1. \A q \in F : q < r => q < s
      BY <2>0, <1>2
    <3> QED BY <3>1
  <2>2. r \in Before(s) /\ r \notin Before(r)
    BY <1>2
  <2> HIDE DEF Before
  <2> QED BY <1>1, <2>1, <2>2, FS_Subset
<1>3. rank \in [first -> 0..(k - 1)]
  <2> HIDE DEF Before
  <2>1. ASSUME NEW r \in first PROVE Cardinality(Before(r)) \in 0..(k - 1)
    BY <1>1
  <2> QED BY <2>1
<1>4. \A r, s \in first : r # s => rank[r] # rank[s]
  BY <1>2
<1>5. rank \in Injection(first, 0..(k - 1))
  BY <1>3, <1>4 DEF Injection, IsInjective
<1>6. IsFiniteSet(0..(k - 1)) /\ Cardinality(0..(k - 1)) = k
  <2>1. 0 \in Int /\ k - 1 \in Int
    OBVIOUS
  <2> QED BY <2>1, FS_Interval
<1>7. IsFiniteSet(first) /\ Cardinality(first) <= k
  <2> HIDE DEF first, rank
  <2> QED BY <1>5, <1>6, FS_Injection
<1>8. k = 0 => first = {}
  <2> HIDE DEF Before
  <2>1. ASSUME k = 0, NEW r \in first PROVE FALSE
    BY <1>1, <2>1
  <2> QED BY <2>1
<1> QED BY <1>7, <1>8

LEMMA Shapes ==
  ASSUME TypeOK, NEW w \in Workers
  PROVE  /\ worker[w].pc \in {"idle", "polling", "claimed", "landing"}
         /\ worker[w].pc = "polling" => worker[w] \in [pc: {"polling"}, left: 0..MaxChunks]
         /\ worker[w].pc = "claimed" =>
              worker[w] \in [pc: {"claimed"}, left: 0..MaxChunks, id: Jobs, seen: JobRows]
         /\ worker[w].pc = "landing" =>
              worker[w] \in [pc: {"landing"}, left: 0..MaxChunks, id: Jobs, seen: JobRows, quota: Nat]
         /\ Holding(w) => /\ worker[w].left \in 0..MaxChunks
                          /\ worker[w].id \in Jobs
                          /\ worker[w].seen \in JobRows
BY DEF TypeOK, WorkerStates, Holding

-----------------------------------------------------------------------------
(* Steps that decide no row *)

SameProgress(i) ==
  /\ job'[i] \in JobRows
  /\ job'[i].processed = job[i].processed
  /\ job'[i].landed = job[i].landed
  /\ job'[i].skipped = job[i].skipped
  /\ job'[i].errors = job[i].errors
  /\ job'[i].status \notin Terminal => job[i].status \notin Terminal

(* The jobs change their status at most. *)
LEMMA StatusKeeps ==
  ASSUME QueueInv, UNCHANGED imports, \A i \in Jobs : SameProgress(i)
  PROVE  RowsAccounted' /\ OpenHasRows'
<1>1. \A i \in Jobs : Imported(i)' = Imported(i)
  BY DEF Imported
<1>2. RowsAccounted'
  BY <1>1 DEF QueueInv, RowsAccounted, SameProgress
<1>3. OpenHasRows'
  BY DEF QueueInv, OpenHasRows, SameProgress
<1> QED BY <1>2, <1>3

(* Nobody gets a claim, and a job that changes is no longer anybody's. *)
LEMMA ClaimsKept ==
  ASSUME QueueInv,
         \A w \in Workers :
           \/ worker'[w] = worker[w]
           \/ worker'[w].pc \notin {"claimed", "landing"}
           \/ /\ Holding(w)
              /\ worker'[w].id = worker[w].id /\ worker'[w].seen = worker[w].seen,
         \A i \in Jobs : job'[i] = job[i] \/ job'[i].status # "running"
  PROVE  ClaimInv'
<1> SUFFICES ASSUME NEW w \in Workers, Holding(w)', OwnedClaim(w, worker[w].id)'
             PROVE  (worker[w].seen = job[worker[w].id])'
  BY DEF ClaimInv
<1>1. Holding(w) /\ worker'[w].id = worker[w].id /\ worker'[w].seen = worker[w].seen
  BY DEF Holding
<1>2. worker[w].id \in Jobs
  BY <1>1, Shapes DEF QueueInv
<1>3. job'[worker[w].id] = job[worker[w].id]
  BY <1>1, <1>2 DEF OwnedClaim
<1>4. OwnedClaim(w, worker[w].id)
  BY <1>1, <1>3 DEF OwnedClaim
<1> QED BY <1>1, <1>3, <1>4 DEF QueueInv, ClaimInv

LEMMA LinksStayFinite ==
  ASSUME QueueInv,
         \/ UNCHANGED links
         \/ \E t \in Terms : links' \in {links \union {t}, links \ {t}}
  PROVE  IsFiniteSet(links')
BY FS_AddElement, FS_RemoveElement DEF QueueInv

(* Whatever else happens, as long as jobs and workers stay. *)
LEMMA UsersKeep ==
  ASSUME QueueInv, UNCHANGED <<job, worker, crashes, imports>>,
         stale' \subseteq Jobs, links' \subseteq Terms, deleted' \subseteq Terms, quota' \in Quotas,
         IsFiniteSet(links')
  PROVE  QueueInv'
<1>1. TypeOK'
  BY DEF QueueInv, TypeOK
<1>2. RowsAccounted' /\ OpenHasRows' /\ ClaimInv'
  BY DEF QueueInv, RowsAccounted, Imported, OpenHasRows, ClaimInv, Holding, OwnedClaim
<1> QED BY <1>1, <1>2 DEF QueueInv

LEMMA TermsKeep ==
  ASSUME QueueInv,
         \/ \E t \in Terms : AddTerm(t) \/ SoftDeleteTerm(t) \/ RestoreTerm(t)
         \/ \E j \in Jobs : AgeClaim(j)
         \/ ChangePlan
         \/ UNCHANGED vars
  PROVE  QueueInv'
<1>0. TypeOK
  BY DEF QueueInv
<1>1. ASSUME NEW t \in Terms, AddTerm(t) \/ SoftDeleteTerm(t) \/ RestoreTerm(t)
      PROVE  QueueInv'
  <2>1. links' \in {links \union {t}, links \ {t}}
    BY <1>1 DEF AddTerm, SoftDeleteTerm, RestoreTerm
  <2>2. IsFiniteSet(links')
    BY <2>1, LinksStayFinite
  <2>3. links' \subseteq Terms /\ deleted' \subseteq Terms /\ stale' \subseteq Jobs /\ quota' \in Quotas
    BY <1>0, <1>1 DEF TypeOK, AddTerm, SoftDeleteTerm, RestoreTerm
  <2>4. UNCHANGED <<job, worker, crashes, imports>>
    BY <1>1 DEF AddTerm, SoftDeleteTerm, RestoreTerm
  <2> QED BY <2>2, <2>3, <2>4, UsersKeep
<1>2. ASSUME NEW j \in Jobs, AgeClaim(j) PROVE QueueInv'
  <2>1. IsFiniteSet(links')
    BY <1>2 DEF QueueInv, AgeClaim
  <2> QED BY <1>0, <1>2, <2>1, UsersKeep DEF TypeOK, AgeClaim
<1>3. CASE ChangePlan \/ UNCHANGED vars
  <2>1. IsFiniteSet(links')
    BY <1>3 DEF QueueInv, ChangePlan, vars
  <2>2. quota' \in Quotas
    BY <1>0, <1>3 DEF TypeOK, ChangePlan, vars
  <2>3. UNCHANGED <<job, stale, links, deleted, worker, crashes, imports>>
    BY <1>3 DEF ChangePlan, vars
  <2> QED BY <1>0, <2>1, <2>2, <2>3, UsersKeep DEF TypeOK
<1> QED BY <1>1, <1>2, <1>3

-----------------------------------------------------------------------------
(* The queue *)

(* A step of the queue or of a worker that hands out no claim. *)
LEMMA QueueStepKeeps ==
  ASSUME QueueInv, UNCHANGED <<links, deleted, quota, imports>>,
         stale' \subseteq Jobs, crashes' \in 0..MaxCrashes,
         job' \in [Jobs -> JobRows], worker' \in [Workers -> WorkerStates],
         \A w \in Workers :
           \/ worker'[w] = worker[w]
           \/ worker'[w].pc \notin {"claimed", "landing"}
           \/ /\ Holding(w)
              /\ worker'[w].id = worker[w].id /\ worker'[w].seen = worker[w].seen,
         \A i \in Jobs : SameProgress(i) /\ (job'[i] = job[i] \/ job'[i].status # "running")
  PROVE  QueueInv'
<1>1. TypeOK'
  BY DEF QueueInv, TypeOK
<1>2. RowsAccounted' /\ OpenHasRows'
  BY StatusKeeps
<1>3. ClaimInv'
  BY ClaimsKept
<1>4. IsFiniteSet(links')
  BY DEF QueueInv
<1> QED BY <1>1, <1>2, <1>3, <1>4 DEF QueueInv

LEMMA OneStatus ==
  ASSUME QueueInv, NEW j \in Jobs, NEW st \in {"queued", "cancelled", "failed"},
         job[j].status \notin Terminal,
         job' = [job EXCEPT ![j].status = st]
  PROVE  /\ job' \in [Jobs -> JobRows]
         /\ \A i \in Jobs : SameProgress(i) /\ (job'[i] = job[i] \/ job'[i].status # "running")
<1>1. job \in [Jobs -> JobRows]
  BY DEF QueueInv, TypeOK
<1>2. job[j] \in JobRows
  BY <1>1
<1>3. [job[j] EXCEPT !.status = st] \in JobRows
  BY <1>2 DEF JobRows, Terminal
<1>4. job' = [i \in Jobs |-> IF i = j THEN [job[j] EXCEPT !.status = st] ELSE job[i]]
  BY <1>1
<1>5. job' \in [Jobs -> JobRows]
  BY <1>1, <1>3, <1>4
<1>6. ASSUME NEW i \in Jobs PROVE SameProgress(i) /\ (job'[i] = job[i] \/ job'[i].status # "running")
  <2>1. CASE i = j
    <3>1. /\ job'[j] \in JobRows /\ job'[j].status = st
          /\ job'[j].processed = job[j].processed /\ job'[j].landed = job[j].landed
          /\ job'[j].skipped = job[j].skipped /\ job'[j].errors = job[j].errors
      BY <1>2, <1>3, <1>4 DEF JobRows
    <3> QED BY <2>1, <3>1 DEF SameProgress
  <2>2. CASE i # j
    BY <1>1, <1>4, <2>2 DEF SameProgress
  <2> QED BY <2>1, <2>2
<1> QED BY <1>5, <1>6

LEMMA SameJobs ==
  ASSUME QueueInv, UNCHANGED job
  PROVE  /\ job' \in [Jobs -> JobRows]
         /\ \A i \in Jobs : SameProgress(i) /\ (job'[i] = job[i] \/ job'[i].status # "running")
BY DEF QueueInv, TypeOK, SameProgress

LEMMA UserKeeps ==
  ASSUME QueueInv, NEW j \in Jobs, EnqueueBulkJob(j) \/ CancelBulkJob(j)
  PROVE  QueueInv'
<1>1. TypeOK
  BY DEF QueueInv
<1>2. PICK st \in {"queued", "cancelled", "failed"} : job' = [job EXCEPT ![j].status = st]
  BY DEF EnqueueBulkJob, CancelBulkJob
<1>3. job[j].status \notin Terminal
  BY DEF EnqueueBulkJob, CancelBulkJob, Terminal
<1>4. UNCHANGED <<stale, links, deleted, quota, worker, crashes, imports>>
  BY DEF EnqueueBulkJob, CancelBulkJob
<1>5. stale' \subseteq Jobs /\ crashes' \in 0..MaxCrashes /\ worker' \in [Workers -> WorkerStates]
  BY <1>1, <1>4 DEF TypeOK
<1>6. \A w \in Workers : worker'[w] = worker[w]
  BY <1>4
<1> QED BY <1>2, <1>3, <1>4, <1>5, <1>6, OneStatus, QueueStepKeeps

(* What a worker becomes; the others stay. *)
LEMMA Becoming ==
  ASSUME QueueInv, NEW w \in Workers, NEW s \in WorkerStates, Become(w, s)
  PROVE  /\ worker' \in [Workers -> WorkerStates]
         /\ worker'[w] = s
         /\ \A x \in Workers : x # w => worker'[x] = worker[x]
BY DEF QueueInv, TypeOK, Become

LEMMA StartTickKeeps ==
  ASSUME QueueInv, NEW w \in Workers, StartTick(w)
  PROVE  QueueInv'
<1>1. TypeOK
  BY DEF QueueInv
<1> DEFINE s == [pc |-> "polling", left |-> MaxChunks]
<1>2. s \in WorkerStates
  BY BulkAssumption DEF WorkerStates
<1>3. worker' \in [Workers -> WorkerStates] /\ \A x \in Workers : worker'[x] = worker[x] \/ worker'[x].pc = "polling"
  <2>1. Become(w, s) /\ s.pc = "polling"
    BY DEF StartTick
  <2> HIDE DEF s
  <2> QED BY <1>2, <2>1, Becoming
<1>4. ASSUME NEW i \in Jobs
      PROVE  SameProgress(i) /\ (job'[i] = job[i] \/ job'[i].status # "running")
  <2>1. job[i] \in JobRows
    BY <1>1 DEF TypeOK
  <2>2. CASE i \in stale /\ job[i].status = "running"
    <3>1. job'[i] = [job[i] EXCEPT !.status = "queued", !.claimedBy = NoOne]
      BY <2>2 DEF StartTick
    <3>2. /\ job'[i] \in JobRows /\ job'[i].status = "queued"
          /\ job'[i].processed = job[i].processed /\ job'[i].landed = job[i].landed
          /\ job'[i].skipped = job[i].skipped /\ job'[i].errors = job[i].errors
      BY <2>1, <3>1 DEF JobRows
    <3> QED BY <2>2, <3>2 DEF SameProgress, Terminal
  <2>3. CASE ~(i \in stale /\ job[i].status = "running")
    <3>1. job'[i] = job[i]
      BY <2>3 DEF StartTick
    <3> QED BY <2>1, <3>1 DEF SameProgress
  <2> QED BY <2>2, <2>3
<1>5. job' \in [Jobs -> JobRows]
  BY <1>4 DEF StartTick, SameProgress
<1>6. stale' \subseteq Jobs /\ crashes' \in 0..MaxCrashes /\ UNCHANGED <<links, deleted, quota, imports>>
  BY <1>1 DEF TypeOK, StartTick
<1> QED BY <1>3, <1>4, <1>5, <1>6, QueueStepKeeps

(* A worker goes on to the next chunk, or ends its tick. *)
LEMMA LeaveKeeps ==
  ASSUME QueueInv, NEW w \in Workers, NEW s \in [pc: {"idle"}] \union [pc: {"polling"}, left: 0..MaxChunks],
         Become(w, s), UNCHANGED <<stale, links, deleted, quota, imports>>, crashes' \in 0..MaxCrashes,
         \/ UNCHANGED job
         \/ /\ worker[w].id \in Jobs /\ job[worker[w].id].status = "running"
            /\ job' = [job EXCEPT ![worker[w].id].status = "failed"]
  PROVE  QueueInv'
<1>1. TypeOK
  BY DEF QueueInv
<1>2. s \in WorkerStates
  BY DEF WorkerStates
<1>3. /\ worker' \in [Workers -> WorkerStates]
      /\ \A x \in Workers : worker'[x] = worker[x] \/ worker'[x].pc \notin {"claimed", "landing"}
  BY <1>2, Becoming
<1>4. /\ job' \in [Jobs -> JobRows]
      /\ \A i \in Jobs : SameProgress(i) /\ (job'[i] = job[i] \/ job'[i].status # "running")
  <2> DEFINE j == worker[w].id
  <2>1. CASE UNCHANGED job
    BY <2>1, SameJobs
  <2>2. CASE j \in Jobs /\ job[j].status = "running" /\ job' = [job EXCEPT ![j].status = "failed"]
    <3>1. job[j].status \notin Terminal
      BY <2>2 DEF Terminal
    <3> HIDE DEF j
    <3> QED BY <2>2, <3>1, OneStatus
  <2> QED BY <2>1, <2>2
<1>5. stale' \subseteq Jobs
  BY <1>1 DEF TypeOK
<1> QED BY <1>3, <1>4, <1>5, QueueStepKeeps

LEMMA EndTickKeeps ==
  ASSUME QueueInv, NEW w \in Workers, EndTick(w) \/ Crash(w)
  PROVE  QueueInv'
<1>1. Idle \in [pc: {"idle"}] \union [pc: {"polling"}, left: 0..MaxChunks]
  BY DEF Idle
<1>2. Become(w, Idle) /\ UNCHANGED <<job, stale, links, deleted, quota, imports>>
  BY DEF EndTick, Crash
<1>3. crashes' \in 0..MaxCrashes
  <2>1. crashes \in 0..MaxCrashes /\ MaxCrashes \in Nat
    BY BulkAssumption DEF QueueInv, TypeOK
  <2>2. crashes' = crashes \/ (crashes < MaxCrashes /\ crashes' = crashes + 1)
    BY DEF EndTick, Crash
  <2> QED BY <2>1, <2>2
<1> QED BY <1>1, <1>2, <1>3, LeaveKeeps

LEMMA FailKeeps ==
  ASSUME QueueInv, NEW w \in Workers, Holding(w), FailIfOwned(w), NextChunk(w),
         UNCHANGED <<stale, links, deleted, quota, crashes, imports>>
  PROVE  QueueInv'
<1> DEFINE s == [pc |-> "polling", left |-> worker[w].left]
<1>1. worker[w].id \in Jobs /\ worker[w].left \in 0..MaxChunks
  BY Shapes DEF QueueInv
<1>2. s \in [pc: {"idle"}] \union [pc: {"polling"}, left: 0..MaxChunks]
  BY <1>1
<1>3. Become(w, s)
  BY DEF NextChunk
<1>4. \/ UNCHANGED job
      \/ /\ worker[w].id \in Jobs /\ job[worker[w].id].status = "running"
         /\ job' = [job EXCEPT ![worker[w].id].status = "failed"]
  BY <1>1 DEF FailIfOwned, OwnedClaim
<1>5. crashes' \in 0..MaxCrashes
  BY DEF QueueInv, TypeOK
<1> HIDE DEF s
<1> QED BY <1>2, <1>3, <1>4, <1>5, LeaveKeeps

LEMMA GetLexiconQuotaKeeps ==
  ASSUME QueueInv, NEW w \in Workers, GetLexiconQuota(w)
  PROVE  QueueInv'
<1>1. worker[w].pc = "claimed" /\ Holding(w) /\ UNCHANGED <<stale, links, deleted, quota, crashes, imports>>
  BY DEF GetLexiconQuota, Holding
<1>2. CASE FailIfOwned(w) /\ NextChunk(w)
  BY <1>1, <1>2, FailKeeps
<1>3. CASE UNCHANGED job /\ Become(w, [pc |-> "landing", left |-> worker[w].left, id |-> worker[w].id,
                                       seen |-> worker[w].seen, quota |-> quota])
  <2> DEFINE s == [pc |-> "landing", left |-> worker[w].left, id |-> worker[w].id,
                   seen |-> worker[w].seen, quota |-> quota]
  <2>1. TypeOK
    BY DEF QueueInv
  <2>2. quota \in Nat
    BY <2>1, BulkAssumption DEF TypeOK
  <2>3. s \in WorkerStates
    BY <1>1, <2>1, <2>2, Shapes DEF WorkerStates
  <2>4. s.id = worker[w].id /\ s.seen = worker[w].seen /\ Become(w, s)
    BY <1>3
  <2> HIDE DEF s
  <2>5. /\ worker' \in [Workers -> WorkerStates]
        /\ \A x \in Workers :
             \/ worker'[x] = worker[x]
             \/ /\ Holding(x)
                /\ worker'[x].id = worker[x].id /\ worker'[x].seen = worker[x].seen
    BY <1>1, <2>3, <2>4, Becoming
  <2>6. stale' \subseteq Jobs /\ crashes' \in 0..MaxCrashes
    BY <1>1, <2>1 DEF TypeOK
  <2> QED BY <1>1, <1>3, <2>5, <2>6, SameJobs, QueueStepKeeps
<1> QED BY <1>2, <1>3 DEF GetLexiconQuota

(* The claim returns the row it has just written. *)
LEMMA ClaimKeeps ==
  ASSUME QueueInv, NEW w \in Workers, ClaimNextJob(w)
  PROVE  QueueInv'
<1>1. TypeOK
  BY DEF QueueInv
<1>2. PICK j \in Queued :
        /\ job' = [job EXCEPT ![j].status = "running", ![j].claimedBy = w]
        /\ stale' = stale \ {j}
        /\ Become(w, [pc |-> "claimed", left |-> worker[w].left - 1, id |-> j, seen |-> job'[j]])
  BY DEF ClaimNextJob
<1>3. /\ worker[w].pc = "polling" /\ worker[w].left > 0
      /\ UNCHANGED <<links, deleted, quota, crashes, imports>>
  BY DEF ClaimNextJob
<1>4. j \in Jobs /\ job[j].status = "queued" /\ job[j] \in JobRows
  BY <1>1 DEF Queued, TypeOK
<1>5. /\ job'[j] = [job[j] EXCEPT !.status = "running", !.claimedBy = w]
      /\ \A i \in Jobs : i # j => job'[i] = job[i]
      /\ DOMAIN job' = Jobs
      /\ job' = [i \in Jobs |-> job'[i]]
  BY <1>1, <1>2, <1>4 DEF TypeOK
<1>6. /\ job'[j] \in JobRows /\ job'[j].status = "running" /\ job'[j].claimedBy = w
      /\ job'[j].processed = job[j].processed /\ job'[j].landed = job[j].landed
      /\ job'[j].skipped = job[j].skipped /\ job'[j].errors = job[j].errors
  BY <1>4, <1>5 DEF JobRows
<1>7. \A i \in Jobs : SameProgress(i)
  <2>1. SameProgress(j)
    BY <1>4, <1>6 DEF SameProgress, Terminal
  <2>2. \A i \in Jobs : i # j => SameProgress(i)
    BY <1>1, <1>5 DEF SameProgress, TypeOK
  <2> QED BY <2>1, <2>2
<1>8. job' \in [Jobs -> JobRows]
  BY <1>5, <1>7 DEF SameProgress
<1> DEFINE s == [pc |-> "claimed", left |-> worker[w].left - 1, id |-> j, seen |-> job'[j]]
<1>9. s \in WorkerStates
  <2>1. worker[w].left - 1 \in 0..MaxChunks
    <3>1. worker[w].left \in 0..MaxChunks /\ MaxChunks \in Nat
      BY <1>1, <1>3, Shapes, BulkAssumption
    <3> QED BY <1>3, <3>1
  <2> QED BY <1>4, <1>6, <2>1 DEF WorkerStates
<1>10. /\ worker' \in [Workers -> WorkerStates] /\ worker'[w] = s
       /\ \A x \in Workers : x # w => worker'[x] = worker[x]
  <2>1. Become(w, s)
    BY <1>2
  <2> HIDE DEF s
  <2> QED BY <1>9, <2>1, Becoming
<1>11. TypeOK'
  BY <1>1, <1>2, <1>3, <1>8, <1>10 DEF TypeOK
<1>12. RowsAccounted' /\ OpenHasRows'
  BY <1>3, <1>7, StatusKeeps
<1>13. ClaimInv'
  <2> SUFFICES ASSUME NEW x \in Workers, Holding(x)', OwnedClaim(x, worker[x].id)'
               PROVE  (worker[x].seen = job[worker[x].id])'
    BY DEF ClaimInv
  <2>1. CASE x = w
    BY <1>10, <2>1
  <2>2. CASE x # w
    <3>1. worker'[x] = worker[x] /\ Holding(x)
      BY <1>10, <2>2 DEF Holding
    <3>2. worker[x].id \in Jobs
      BY <1>1, <3>1, Shapes
    <3>3. worker[x].id # j
      BY <1>6, <2>2, <3>1 DEF OwnedClaim
    <3>4. job'[worker[x].id] = job[worker[x].id]
      BY <1>5, <3>2, <3>3
    <3>5. OwnedClaim(x, worker[x].id)
      BY <3>1, <3>4 DEF OwnedClaim
    <3> QED BY <3>1, <3>4, <3>5 DEF QueueInv, ClaimInv
  <2> QED BY <2>1, <2>2
<1>14. IsFiniteSet(links')
  BY <1>3 DEF QueueInv
<1> QED BY <1>11, <1>12, <1>13, <1>14 DEF QueueInv

-----------------------------------------------------------------------------
(* The transaction of a chunk *)

LEMMA RemainingIsNat ==
  ASSUME TypeOK, IsFiniteSet(links), NEW w \in Workers, worker[w].pc = "landing"
  PROVE  /\ Remaining(w) \in Nat /\ worker[w].quota \in Nat /\ Cardinality(links) \in Nat
         /\ Remaining(w) # 0 => Remaining(w) + Cardinality(links) = worker[w].quota
<1>1. worker[w].quota \in Nat
  BY Shapes
<1>2. Cardinality(links) \in Nat
  BY FS_CardinalityType
<1> QED BY <1>1, <1>2 DEF Remaining, Minus

(* A chunk decides at least one row, and goes no further than the job.        *)
LEMMA ChunkRange ==
  ASSUME TypeOK, NEW w \in Workers, worker[w].pc = "landing",
         worker[w].seen.processed < RowCount, NEW upTo \in StopsAt(w)
  PROVE  /\ Start(w) \in Nat /\ upTo \in Nat
         /\ Start(w) < upTo /\ upTo <= RowCount
         /\ ChunkRows(w, upTo) \subseteq Rows
         /\ \A r \in Rows : r \in ChunkRows(w, upTo) <=> Start(w) <= r /\ r < upTo
<1>0. RowCount \in Nat /\ ChunkSize \in Nat /\ ChunkSize # 0
  BY BulkAssumption
<1>1. Start(w) \in Nat /\ Start(w) < RowCount
  BY <1>0, Shapes DEF Start, JobRows
<1>2. ChunkEnd(w) \in Nat /\ Start(w) < ChunkEnd(w) /\ ChunkEnd(w) <= RowCount
  BY <1>0, <1>1 DEF ChunkEnd, Min2
<1>3. upTo \in Nat /\ Start(w) < upTo /\ upTo <= RowCount
  <2>1. CASE upTo = ChunkEnd(w)
    BY <1>2, <2>1
  <2>2. ASSUME upTo \in Valid(w), NEW q \in Valid(w), q < upTo
        PROVE  upTo \in Nat /\ Start(w) < upTo /\ upTo <= RowCount
    BY <1>0, <1>1, <1>2, <2>2 DEF Valid, ChunkRows
  <2> QED BY <2>1, <2>2 DEF StopsAt
<1>4. /\ ChunkRows(w, upTo) \subseteq Rows
      /\ \A r \in Rows : r \in ChunkRows(w, upTo) <=> Start(w) <= r /\ r < upTo
  BY <1>0, <1>1, <1>3 DEF ChunkRows, Rows
<1> QED BY <1>1, <1>3, <1>4

(* landBulkChunk stays within the chunk and within the quota. *)
LEMMA LandedRange ==
  ASSUME TypeOK, IsFiniteSet(links), NEW w \in Workers, worker[w].pc = "landing",
         worker[w].seen.processed < RowCount, NEW upTo \in StopsAt(w), NEW broken \in SUBSET Valid(w)
  PROVE  LET rows == LandedRows(w, upTo, broken)
         IN  /\ rows \subseteq ChunkRows(w, upTo)
             /\ \A r \in rows : TermOf(w, r) \in Terms
             /\ IsFiniteSet(rows)
             /\ Cardinality(rows) <= Remaining(w)
             /\ Remaining(w) = 0 => rows = {}
<1> DEFINE tried == (Valid(w) \ broken) \intersect ChunkRows(w, upTo)
           fresh == {r \in tried : /\ TermOf(w, r) \notin links
                                   /\ \A q \in tried : q < r => TermOf(w, q) # TermOf(w, r)}
           rows == {r \in fresh : Cardinality({q \in fresh : q < r}) < Remaining(w)}
<1>1. LandedRows(w, upTo, broken) = rows
  BY DEF LandedRows
<1>2. ChunkRows(w, upTo) \subseteq Rows
  BY ChunkRange
<1>3. fresh \subseteq ChunkRows(w, upTo) /\ fresh \in SUBSET Rows /\ fresh \subseteq Valid(w)
  BY <1>2
<1>4. \A r \in Valid(w) \intersect Rows : TermOf(w, r) \in Terms
  <2>1. worker[w].id \in Jobs
    BY Shapes
  <2>2. Content \in [Jobs -> [Rows -> Terms \union {Invalid}]]
    BY BulkAssumption
  <2> QED BY <2>1, <2>2 DEF Valid, TermOf
<1> HIDE DEF fresh, tried
<1>5. fresh \in SUBSET Nat /\ IsFiniteSet(fresh)
  BY <1>3, RowsAreFinite
<1>6. Remaining(w) \in Nat
  BY RemainingIsNat
<1>7. IsFiniteSet(rows) /\ Cardinality(rows) <= Remaining(w) /\ (Remaining(w) = 0 => rows = {})
  BY <1>5, <1>6, FirstFew
<1>8. rows \subseteq fresh
  OBVIOUS
<1> HIDE DEF rows
<1> QED BY <1>1, <1>3, <1>4, <1>7, <1>8

(* A block of rows of job j decided: the good ones imported, the others       *)
(* reported.                                                                  *)
Decided(j, upTo, good) ==
  LET bad == {r \in Rows : job[j].processed <= r /\ r < upTo} \ good
  IN  /\ job' = [job EXCEPT ![j] =
           [status |-> IF upTo = RowCount THEN "completed" ELSE "queued",
            claimedBy |-> NoOne,
            processed |-> upTo,
            landed |-> job[j].landed + Cardinality(good),
            skipped |-> job[j].skipped + Cardinality(bad),
            errors |-> job[j].errors \union bad]]
      /\ imports' = [imports EXCEPT ![j] =
           [r \in Rows |-> IF r \in good THEN imports[j][r] + 1 ELSE imports[j][r]]]

(* What an owned claim commits is the next block of its job; the user's links *)
(* grow by the rows imported, within the quota that was read.                 *)
LEMMA CommitDecides ==
  ASSUME QueueInv, NEW w \in Workers, CommitChunk(w), OwnedClaim(w, worker[w].id)
  PROVE  \E upTo \in Nat :
           \E good \in SUBSET {r \in Rows : job[worker[w].id].processed <= r /\ r < upTo} :
             /\ worker[w].id \in Jobs
             /\ job[worker[w].id].status = "running"
             /\ job[worker[w].id].processed < upTo /\ upTo <= RowCount
             /\ Decided(worker[w].id, upTo, good)
             /\ links' = links \union {TermOf(w, r) : r \in good}
             /\ \A r \in good : TermOf(w, r) \in Terms
             /\ Cardinality(good) <= Remaining(w)
             /\ Remaining(w) = 0 => good = {}
<1>1. TypeOK /\ worker[w].pc = "landing" /\ IsFiniteSet(links)
  BY DEF QueueInv, CommitChunk
<1> DEFINE j == worker[w].id
<1>2. j \in Jobs /\ job[j].status = "running" /\ worker[w].seen = job[j]
  <2>1. j \in Jobs
    BY <1>1, Shapes
  <2> QED BY <1>1, <2>1 DEF QueueInv, ClaimInv, Holding, OwnedClaim
<1>3. job[j].processed < RowCount
  BY <1>2 DEF QueueInv, OpenHasRows, Terminal
<1>4. PICK upTo \in StopsAt(w), broken \in SUBSET Valid(w) :
        LET rows == LandedRows(w, upTo, broken)
            errs == ChunkRows(w, upTo) \ rows
        IN  /\ links' = links \union {TermOf(w, r) : r \in rows}
            /\ imports' = [imports EXCEPT ![j] =
                 [r \in Rows |-> IF r \in rows THEN @[r] + 1 ELSE @[r]]]
            /\ job' = [job EXCEPT ![j] =
                 [status |-> IF Finished(w, upTo) THEN "completed" ELSE "queued",
                  claimedBy |-> NoOne,
                  processed |-> upTo,
                  landed |-> worker[w].seen.landed + Cardinality(rows),
                  skipped |-> worker[w].seen.skipped + Cardinality(errs),
                  errors |-> worker[w].seen.errors \union errs]]
  BY <1>1, <1>2 DEF CommitChunk
<1> DEFINE good == LandedRows(w, upTo, broken)
           block == {r \in Rows : job[j].processed <= r /\ r < upTo}
<1>5. /\ Start(w) = job[j].processed /\ Start(w) \in Nat /\ upTo \in Nat
      /\ Start(w) < upTo /\ upTo <= RowCount
      /\ ChunkRows(w, upTo) = block
  BY <1>1, <1>2, <1>3, ChunkRange DEF Start
<1>6. /\ good \subseteq ChunkRows(w, upTo)
      /\ \A r \in good : TermOf(w, r) \in Terms
      /\ Cardinality(good) <= Remaining(w)
      /\ Remaining(w) = 0 => good = {}
  BY <1>1, <1>2, <1>3, LandedRange
<1> HIDE DEF good
<1>7. good \in SUBSET block
  BY <1>5, <1>6
<1>8. imports' = [imports EXCEPT ![j] = [r \in Rows |-> IF r \in good THEN imports[j][r] + 1 ELSE imports[j][r]]]
  BY <1>1, <1>2, <1>4 DEF good, TypeOK
<1>9. job' = [job EXCEPT ![j] =
        [status |-> IF upTo = RowCount THEN "completed" ELSE "queued",
         claimedBy |-> NoOne,
         processed |-> upTo,
         landed |-> job[j].landed + Cardinality(good),
         skipped |-> job[j].skipped + Cardinality(block \ good),
         errors |-> job[j].errors \union (block \ good)]]
  BY <1>2, <1>4, <1>5 DEF good, Finished
<1>10. Decided(j, upTo, good)
  BY <1>8, <1>9 DEF Decided
<1>11. links' = links \union {TermOf(w, r) : r \in good}
  BY <1>4 DEF good
<1> QED BY <1>2, <1>5, <1>6, <1>7, <1>10, <1>11

(* The block joins what was decided before; both parts are counted.           *)
LEMMA DecidedAccounts ==
  ASSUME QueueInv, NEW j \in Jobs, NEW upTo \in Nat,
         job[j].processed < upTo, upTo <= RowCount,
         NEW good \in SUBSET {r \in Rows : job[j].processed <= r /\ r < upTo},
         Decided(j, upTo, good)
  PROVE  /\ job' \in [Jobs -> JobRows] /\ imports' \in [Jobs -> [Rows -> Nat]]
         /\ RowsAccounted' /\ OpenHasRows'
<1> DEFINE block == {r \in Rows : job[j].processed <= r /\ r < upTo}
           bad == block \ good
<1>1. TypeOK /\ RowsAccounted /\ OpenHasRows
  BY DEF QueueInv
<1>2. /\ job[j] \in JobRows /\ imports[j] \in [Rows -> Nat]
      /\ job[j].processed \in Nat
  BY <1>1 DEF TypeOK, JobRows
<1>3. /\ imports'[j] = [r \in Rows |-> IF r \in good THEN imports[j][r] + 1 ELSE imports[j][r]]
      /\ \A i \in Jobs : i # j => imports'[i] = imports[i]
      /\ imports' \in [Jobs -> [Rows -> Nat]]
  <2>1. imports' = [imports EXCEPT ![j] = [r \in Rows |-> IF r \in good THEN imports[j][r] + 1 ELSE imports[j][r]]]
    BY DEF Decided
  <2>2. [r \in Rows |-> IF r \in good THEN imports[j][r] + 1 ELSE imports[j][r]] \in [Rows -> Nat]
    BY <1>2
  <2>3. imports \in [Jobs -> [Rows -> Nat]]
    BY <1>1 DEF TypeOK
  <2> HIDE DEF bad, block
  <2> QED BY <2>1, <2>2, <2>3
<1>4. \A r \in Rows : imports[j][r] > 0 => r < job[j].processed
  BY <1>1 DEF RowsAccounted, Imported
<1>5. Imported(j)' = Imported(j) \union good
  <2>1. ASSUME NEW r \in Rows PROVE imports'[j][r] > 0 <=> imports[j][r] > 0 \/ r \in good
    BY <1>2, <1>3
  <2> QED BY <2>1 DEF Imported
<1>6. \A r \in Rows : imports'[j][r] <= 1
  <2> SUFFICES ASSUME NEW r \in Rows PROVE imports'[j][r] <= 1
    OBVIOUS
  <2>1. imports[j][r] <= 1 /\ imports[j][r] \in Nat
    BY <1>1, <1>2 DEF RowsAccounted
  <2>2. CASE r \in good
    <3>1. imports[j][r] = 0
      <4>1. r \in Nat /\ job[j].processed <= r
        BY <2>2, RowsAreFinite
      <4> QED BY <1>2, <1>4, <2>1, <4>1
    <3> QED BY <1>3, <2>2, <3>1
  <2>3. CASE r \notin good
    BY <1>3, <2>1, <2>3
  <2> QED BY <2>2, <2>3
<1>7. /\ Imported(j) \subseteq Rows /\ good \subseteq Rows /\ bad \subseteq Rows /\ job[j].errors \subseteq Rows
      /\ Imported(j) \intersect job[j].errors = {}
      /\ Imported(j) \union job[j].errors = {r \in Rows : r < job[j].processed}
      /\ job[j].landed = Cardinality(Imported(j))
      /\ job[j].skipped = Cardinality(job[j].errors)
  <2>1. Imported(j) \subseteq Rows
    BY DEF Imported
  <2> QED BY <1>1, <1>2, <2>1 DEF RowsAccounted, JobRows
<1>8. /\ good \union bad = block
      /\ good \intersect bad = {}
      /\ block \intersect {r \in Rows : r < job[j].processed} = {}
      /\ block \union {r \in Rows : r < job[j].processed} = {r \in Rows : r < upTo}
  <2>1. \A r \in Rows : r \in Nat
    BY RowsAreFinite
  <2>2. \A r \in Rows : ~(job[j].processed <= r /\ r < job[j].processed)
    BY <1>2, <2>1
  <2>3. \A r \in Rows : (job[j].processed <= r /\ r < upTo) \/ r < job[j].processed <=> r < upTo
    BY <1>2, <2>1
  <2> QED BY <2>2, <2>3
<1> HIDE DEF bad, block
<1>9. /\ Cardinality(Imported(j) \union good) = Cardinality(Imported(j)) + Cardinality(good)
      /\ Cardinality(job[j].errors \union bad) = Cardinality(job[j].errors) + Cardinality(bad)
  <2>1. Imported(j) \intersect good = {} /\ job[j].errors \intersect bad = {}
    BY <1>7, <1>8
  <2>2. /\ IsFiniteSet(Imported(j)) /\ IsFiniteSet(good) /\ IsFiniteSet(job[j].errors) /\ IsFiniteSet(bad)
        /\ Cardinality(Imported(j)) \in Nat /\ Cardinality(good) \in Nat
        /\ Cardinality(job[j].errors) \in Nat /\ Cardinality(bad) \in Nat
    BY <1>7, RowsAreFinite
  <2>3. /\ Cardinality(Imported(j) \intersect good) = 0
        /\ Cardinality(job[j].errors \intersect bad) = 0
    BY <2>1, FS_EmptySet
  <2>4. Cardinality(Imported(j) \union good)
          = Cardinality(Imported(j)) + Cardinality(good) - Cardinality(Imported(j) \intersect good)
    BY <2>2, FS_Union
  <2>5. Cardinality(job[j].errors \union bad)
          = Cardinality(job[j].errors) + Cardinality(bad) - Cardinality(job[j].errors \intersect bad)
    BY <2>2, FS_Union
  <2> QED BY <2>1, <2>2, <2>3, <2>4, <2>5
<1> DEFINE new == [status |-> IF upTo = RowCount THEN "completed" ELSE "queued",
                   claimedBy |-> NoOne,
                   processed |-> upTo,
                   landed |-> job[j].landed + Cardinality(good),
                   skipped |-> job[j].skipped + Cardinality(bad),
                   errors |-> job[j].errors \union bad]
<1>10. /\ job'[j] = new /\ \A i \in Jobs : i # j => job'[i] = job[i]
       /\ job' = [i \in Jobs |-> job'[i]]
  BY <1>1 DEF Decided, TypeOK, bad, block
<1>11. new \in JobRows
  <2>1. job[j].landed + Cardinality(good) \in 0..RowCount
    BY <1>7, <1>9, RowsAreFinite
  <2>2. job[j].skipped + Cardinality(bad) \in 0..RowCount
    BY <1>7, <1>9, RowsAreFinite
  <2>3. upTo \in 0..RowCount
    BY BulkAssumption
  <2> QED BY <1>7, <2>1, <2>2, <2>3 DEF JobRows, Terminal
<1>12. job' \in [Jobs -> JobRows]
  <2>1. \A i \in Jobs : job'[i] \in JobRows
    BY <1>1, <1>10, <1>11 DEF TypeOK
  <2> QED BY <1>10, <2>1
<1>13. /\ new.status = (IF upTo = RowCount THEN "completed" ELSE "queued")
       /\ new.processed = upTo /\ new.errors = job[j].errors \union bad
       /\ new.landed = job[j].landed + Cardinality(good)
       /\ new.skipped = job[j].skipped + Cardinality(bad)
  OBVIOUS
<1> HIDE DEF new
<1>14. OpenHasRows'
  <2>1. new.status \notin Terminal => new.processed < RowCount
    BY <1>13, BulkAssumption DEF Terminal
  <2> QED BY <1>1, <1>10, <2>1 DEF OpenHasRows
<1>15. \A i \in Jobs : i # j => Imported(i)' = Imported(i)
  BY <1>3 DEF Imported
<1>16. RowsAccounted'
  <2>1. ASSUME NEW i \in Jobs, i # j
        PROVE  /\ \A r \in Rows : imports'[i][r] <= 1
               /\ Imported(i)' \intersect job'[i].errors = {}
               /\ Imported(i)' \union job'[i].errors = {r \in Rows : r < job'[i].processed}
               /\ job'[i].landed = Cardinality(Imported(i)')
               /\ job'[i].skipped = Cardinality(job'[i].errors)
    BY <1>1, <1>3, <1>10, <1>15, <2>1 DEF RowsAccounted
  <2>2. /\ Imported(j)' \intersect job'[j].errors = {}
        /\ Imported(j)' \union job'[j].errors = {r \in Rows : r < job'[j].processed}
    BY <1>5, <1>7, <1>8, <1>10, <1>13
  <2>3. /\ job'[j].landed = Cardinality(Imported(j)')
        /\ job'[j].skipped = Cardinality(job'[j].errors)
    BY <1>5, <1>7, <1>9, <1>10, <1>13
  <2> QED BY <1>6, <2>1, <2>2, <2>3 DEF RowsAccounted
<1> QED BY <1>3, <1>12, <1>14, <1>16

(* A finite set and the image of another. *)
LEMMA UnionOfImage ==
  ASSUME NEW L, IsFiniteSet(L), NEW R, IsFiniteSet(R), NEW f, f \in [R -> {f[r] : r \in R}]
  PROVE  /\ IsFiniteSet(L \union {f[r] : r \in R})
         /\ Cardinality(L \union {f[r] : r \in R}) <= Cardinality(L) + Cardinality(R)
<1> DEFINE image == {f[r] : r \in R}
<1>1. f \in Surjection(R, image)
  BY DEF Surjection
<1> HIDE DEF image
<1>2. IsFiniteSet(image) /\ Cardinality(image) <= Cardinality(R)
  BY <1>1, FS_Surjection
<1>3. /\ IsFiniteSet(L \union image)
      /\ Cardinality(L \union image) = Cardinality(L) + Cardinality(image) - Cardinality(L \intersect image)
  BY <1>2, FS_Union
<1>4. /\ Cardinality(L) \in Nat /\ Cardinality(R) \in Nat /\ Cardinality(image) \in Nat
      /\ Cardinality(L \intersect image) \in Nat
  BY <1>2, FS_CardinalityType, FS_Intersection
<1>5. Cardinality(L \union image) <= Cardinality(L) + Cardinality(R)
  BY <1>2, <1>3, <1>4
<1> QED BY <1>3, <1>5 DEF image

LEMMA CommitWithinQuota ==
  ASSUME QueueInv, NEW w \in Workers, CommitChunk(w)
  PROVE  /\ links' \subseteq Terms /\ IsFiniteSet(links')
         /\ imports' # imports => Cardinality(links') <= worker[w].quota
<1>1. TypeOK /\ IsFiniteSet(links) /\ worker[w].pc = "landing"
  BY DEF QueueInv, CommitChunk
<1>2. CASE ~OwnedClaim(w, worker[w].id)
  <2>1. UNCHANGED <<links, imports>>
    BY <1>2 DEF CommitChunk
  <2> QED BY <1>1, <2>1 DEF TypeOK
<1>3. CASE OwnedClaim(w, worker[w].id)
  <2> DEFINE j == worker[w].id
  <2>1. PICK upTo \in Nat, good \in SUBSET Rows :
          /\ good \in SUBSET {r \in Rows : job[j].processed <= r /\ r < upTo}
          /\ j \in Jobs
          /\ Decided(j, upTo, good)
          /\ links' = links \union {TermOf(w, r) : r \in good}
          /\ \A r \in good : TermOf(w, r) \in Terms
          /\ Cardinality(good) <= Remaining(w)
          /\ Remaining(w) = 0 => good = {}
    BY <1>3, CommitDecides
  <2> DEFINE f == [r \in good |-> TermOf(w, r)]
  <2>2. IsFiniteSet(good) /\ Cardinality(good) \in Nat
    BY RowsAreFinite
  <2>3. f \in [good -> {f[r] : r \in good}] /\ links' = links \union {f[r] : r \in good}
    BY <2>1
  <2> HIDE DEF f
  <2>4. IsFiniteSet(links') /\ Cardinality(links') <= Cardinality(links) + Cardinality(good)
    BY <1>1, <2>1, <2>2, <2>3, UnionOfImage
  <2>5. Cardinality(links') \in Nat
    BY <2>4, FS_CardinalityType
  <2>6. ASSUME imports' # imports PROVE good # {}
    <3>1. ASSUME good = {} PROVE imports' = imports
      <4>1. imports \in [Jobs -> [Rows -> Nat]]
        BY <1>1 DEF TypeOK
      <4>2. imports' = [imports EXCEPT ![j] = [r \in Rows |-> imports[j][r]]]
        BY <2>1, <3>1 DEF Decided
      <4>3. [r \in Rows |-> imports[j][r]] = imports[j]
        BY <2>1, <4>1
      <4> QED BY <2>1, <4>1, <4>2, <4>3
    <3> QED BY <2>6, <3>1
  <2>7. imports' # imports => Cardinality(links') <= worker[w].quota
    BY <1>1, <2>1, <2>2, <2>4, <2>5, <2>6, RemainingIsNat
  <2>8. links' \subseteq Terms
    BY <1>1, <2>1 DEF TypeOK
  <2> QED BY <2>4, <2>7, <2>8
<1> QED BY <1>2, <1>3

LEMMA CommitKeeps ==
  ASSUME QueueInv, NEW w \in Workers, CommitChunk(w)
  PROVE  QueueInv'
<1>1. TypeOK /\ worker[w].pc = "landing" /\ Holding(w)
  BY DEF QueueInv, CommitChunk, Holding
<1>2. UNCHANGED <<stale, deleted, quota, crashes>> /\ NextChunk(w)
  BY DEF CommitChunk
<1> DEFINE s == [pc |-> "polling", left |-> worker[w].left]
<1>3. s \in [pc: {"idle"}] \union [pc: {"polling"}, left: 0..MaxChunks] /\ Become(w, s) /\ s.pc = "polling"
  BY <1>1, <1>2, Shapes DEF NextChunk
<1> HIDE DEF s
<1>4. CASE ~OwnedClaim(w, worker[w].id)
  <2>1. UNCHANGED <<job, links, imports>>
    BY <1>4 DEF CommitChunk
  <2>2. crashes' \in 0..MaxCrashes
    BY <1>1, <1>2 DEF TypeOK
  <2> QED BY <1>2, <1>3, <2>1, <2>2, LeaveKeeps
<1>5. CASE OwnedClaim(w, worker[w].id)
  <2> DEFINE j == worker[w].id
  <2>1. PICK upTo \in Nat, good \in SUBSET Rows :
          /\ good \in SUBSET {r \in Rows : job[j].processed <= r /\ r < upTo}
          /\ j \in Jobs
          /\ job[j].processed < upTo /\ upTo <= RowCount
          /\ Decided(j, upTo, good)
    BY <1>5, CommitDecides
  <2>2. /\ job' \in [Jobs -> JobRows] /\ imports' \in [Jobs -> [Rows -> Nat]]
        /\ RowsAccounted' /\ OpenHasRows'
    BY <2>1, DecidedAccounts
  <2>3. links' \subseteq Terms /\ IsFiniteSet(links')
    BY CommitWithinQuota
  <2>4. s \in WorkerStates
    BY <1>3 DEF WorkerStates
  <2>5. /\ worker' \in [Workers -> WorkerStates]
        /\ worker'[w].pc = "polling" /\ \A x \in Workers : x # w => worker'[x] = worker[x]
    BY <1>3, <2>4, Becoming
  <2>6. TypeOK'
    BY <1>1, <1>2, <2>2, <2>3, <2>5 DEF TypeOK
  <2>7. ASSUME NEW i \in Jobs PROVE job'[i] = job[i] \/ job'[i].status # "running"
    BY <1>1, <2>1 DEF Decided, TypeOK
  <2>8. ClaimInv'
    BY <2>5, <2>7, ClaimsKept
  <2> QED BY <2>2, <2>3, <2>6, <2>8 DEF QueueInv
<1> QED BY <1>4, <1>5

-----------------------------------------------------------------------------
LEMMA QueueStarts == Init => QueueInv
<1> SUFFICES ASSUME Init PROVE QueueInv
  OBVIOUS
<1> DEFINE fresh == [status |-> "absent", claimedBy |-> NoOne, processed |-> 0,
                     landed |-> 0, skipped |-> 0, errors |-> {}]
<1>1. fresh \in JobRows /\ RowCount \in Nat /\ RowCount # 0
  BY BulkAssumption DEF JobRows
<1>2. /\ \A j \in Jobs : job[j] = fresh
      /\ job \in [Jobs -> JobRows]
      /\ worker \in [Workers -> WorkerStates]
      /\ \A w \in Workers : worker[w].pc = "idle"
      /\ imports \in [Jobs -> [Rows -> Nat]]
      /\ \A j \in Jobs : \A r \in Rows : imports[j][r] = 0
  <2>1. Idle \in WorkerStates /\ Idle.pc = "idle"
    BY DEF Idle, WorkerStates
  <2>2. job = [j \in Jobs |-> fresh] /\ worker = [w \in Workers |-> Idle]
        /\ imports = [j \in Jobs |-> [r \in Rows |-> 0]]
    BY DEF Init
  <2>3. [r \in Rows |-> 0] \in [Rows -> Nat]
    OBVIOUS
  <2>4. imports \in [Jobs -> [Rows -> Nat]] /\ \A j \in Jobs : imports[j] = [r \in Rows |-> 0]
    BY <2>2, <2>3
  <2> HIDE DEF fresh
  <2> QED BY <1>1, <2>1, <2>2, <2>4
<1>3. TypeOK
  <2>1. stale \subseteq Jobs /\ links \subseteq Terms /\ deleted \subseteq Terms /\ quota \in Quotas
    BY DEF Init
  <2>2. crashes \in 0..MaxCrashes
    BY BulkAssumption DEF Init
  <2> QED BY <1>2, <2>1, <2>2 DEF TypeOK
<1>4. \A j \in Jobs : Imported(j) = {}
  BY <1>2 DEF Imported
<1>5. {r \in Rows : r < 0} = {}
  BY RowsAreFinite
<1>6. RowsAccounted
  <2> SUFFICES ASSUME NEW j \in Jobs
               PROVE  /\ \A r \in Rows : imports[j][r] <= 1
                      /\ Imported(j) \intersect job[j].errors = {}
                      /\ Imported(j) \union job[j].errors = {r \in Rows : r < job[j].processed}
                      /\ job[j].landed = Cardinality(Imported(j))
                      /\ job[j].skipped = Cardinality(job[j].errors)
    BY DEF RowsAccounted
  <2>1. job[j].errors = {} /\ job[j].processed = 0 /\ job[j].landed = 0 /\ job[j].skipped = 0
    BY <1>2
  <2>2. Imported(j) = {} /\ Cardinality({}) = 0
    BY <1>4, FS_EmptySet
  <2>3. Imported(j) \union job[j].errors = {r \in Rows : r < job[j].processed}
    BY <1>5, <2>1, <2>2
  <2>4. \A r \in Rows : imports[j][r] <= 1
    BY <1>2
  <2> HIDE DEF fresh
  <2> QED BY <2>1, <2>2, <2>3, <2>4
<1>7. OpenHasRows
  <2>1. fresh.processed = 0
    OBVIOUS
  <2> HIDE DEF fresh
  <2>2. \A j \in Jobs : job[j].processed < RowCount
    BY <1>1, <1>2, <2>1
  <2> QED BY <2>2 DEF OpenHasRows
<1>8. ClaimInv
  BY <1>2 DEF ClaimInv, Holding
<1>9. IsFiniteSet(links)
  BY FS_EmptySet DEF Init
<1> QED BY <1>3, <1>6, <1>7, <1>8, <1>9 DEF QueueInv

LEMMA QueueKept == QueueInv /\ [Next]_vars => QueueInv'
<1> SUFFICES ASSUME QueueInv, [Next]_vars PROVE QueueInv'
  OBVIOUS
<1>1. ASSUME NEW j \in Jobs, EnqueueBulkJob(j) \/ CancelBulkJob(j) PROVE QueueInv'
  BY <1>1, UserKeeps
<1>2. ASSUME NEW j \in Jobs, AgeClaim(j) PROVE QueueInv'
  BY <1>2, TermsKeep
<1>3. ASSUME NEW t \in Terms, AddTerm(t) \/ SoftDeleteTerm(t) \/ RestoreTerm(t) PROVE QueueInv'
  BY <1>3, TermsKeep
<1>4. CASE ChangePlan \/ UNCHANGED vars
  BY <1>4, TermsKeep
<1>5. ASSUME NEW w \in Workers, WorkerStep(w) PROVE QueueInv'
  BY <1>5, StartTickKeeps, ClaimKeeps, EndTickKeeps, GetLexiconQuotaKeeps, CommitKeeps DEF WorkerStep
<1>6. ASSUME NEW w \in Workers, ChunkFails(w) PROVE QueueInv'
  BY <1>6, FailKeeps DEF ChunkFails, Holding
<1>7. ASSUME NEW w \in Workers, Crash(w) PROVE QueueInv'
  BY <1>7, EndTickKeeps
<1> QED BY <1>1, <1>2, <1>3, <1>4, <1>5, <1>6, <1>7 DEF Next

LEMMA Queue == Spec => []QueueInv
  BY QueueStarts, QueueKept, PTL DEF Spec

-----------------------------------------------------------------------------
(* The jobs, the user's links and the workers stay of their types.            *)
THEOREM TypeCorrect == Spec => []TypeOK
<1>1. QueueInv => TypeOK
  BY DEF QueueInv
<1> QED BY <1>1, Queue, PTL

(* processBulkJobChunk with ownedClaim: however many invocations claim a job, *)
(* lose it, die or are given up too early, every row up to its progress is    *)
(* imported exactly once or reported exactly once.                            *)
THEOREM EveryRowAccounted == Spec => []RowsAccounted
<1>1. QueueInv => RowsAccounted
  BY DEF QueueInv
<1> QED BY <1>1, Queue, PTL

-----------------------------------------------------------------------------
LEMMA EndedStays ==
  ASSUME QueueInv, [Next]_vars, NEW i \in Jobs, job[i].status \in Terminal
  PROVE  job'[i] = job[i] /\ imports'[i] = imports[i]
<1>0. job \in [Jobs -> JobRows] /\ job[i].status \notin {"absent", "queued", "running"}
      /\ imports \in [Jobs -> [Rows -> Nat]]
  BY DEF QueueInv, TypeOK, Terminal
<1>1. ASSUME NEW j \in Jobs, EnqueueBulkJob(j) \/ CancelBulkJob(j)
      PROVE  job'[i] = job[i] /\ imports'[i] = imports[i]
  <2>1. job[j].status \in {"absent", "queued", "running"}
    BY <1>1 DEF EnqueueBulkJob, CancelBulkJob
  <2>2. i # j
    BY <1>0, <2>1
  <2> QED BY <1>0, <1>1, <2>2 DEF EnqueueBulkJob, CancelBulkJob
<1>2. ASSUME UNCHANGED <<job, imports>>
      PROVE  job'[i] = job[i] /\ imports'[i] = imports[i]
  BY <1>2
<1>3. ASSUME NEW w \in Workers, StartTick(w)
      PROVE  job'[i] = job[i] /\ imports'[i] = imports[i]
  BY <1>0, <1>3 DEF StartTick
<1>4. ASSUME NEW w \in Workers, ClaimNextJob(w)
      PROVE  job'[i] = job[i] /\ imports'[i] = imports[i]
  <2>1. PICK j \in Jobs : /\ job[j].status = "queued"
                          /\ job' = [job EXCEPT ![j].status = "running", ![j].claimedBy = w]
    BY <1>4 DEF ClaimNextJob, Queued
  <2>2. i # j
    BY <1>0, <2>1
  <2>3. imports' = imports
    BY <1>4 DEF ClaimNextJob
  <2> QED BY <1>0, <2>1, <2>2, <2>3
<1>5. ASSUME NEW w \in Workers, FailIfOwned(w), UNCHANGED imports
      PROVE  job'[i] = job[i] /\ imports'[i] = imports[i]
  BY <1>0, <1>5 DEF FailIfOwned, OwnedClaim
<1>6. ASSUME NEW w \in Workers, CommitChunk(w)
      PROVE  job'[i] = job[i] /\ imports'[i] = imports[i]
  <2>1. CASE OwnedClaim(w, worker[w].id)
    <3> DEFINE j == worker[w].id
    <3>1. PICK upTo \in Nat, good \in SUBSET Rows : Decided(j, upTo, good)
      BY <2>1, <1>6, CommitDecides
    <3>2. i # j
      BY <1>0, <2>1 DEF OwnedClaim
    <3> HIDE DEF j
    <3> QED BY <1>0, <3>1, <3>2 DEF Decided
  <2>2. CASE ~OwnedClaim(w, worker[w].id)
    BY <1>6, <2>2 DEF CommitChunk
  <2> QED BY <2>1, <2>2
<1>7. ASSUME NEW j \in Jobs, AgeClaim(j)
      PROVE  job'[i] = job[i] /\ imports'[i] = imports[i]
  BY <1>7 DEF AgeClaim
<1>8. ASSUME NEW t \in Terms, AddTerm(t) \/ SoftDeleteTerm(t) \/ RestoreTerm(t)
      PROVE  job'[i] = job[i] /\ imports'[i] = imports[i]
  BY <1>8 DEF AddTerm, SoftDeleteTerm, RestoreTerm
<1>9. CASE ChangePlan \/ UNCHANGED vars
  BY <1>9 DEF ChangePlan, vars
<1>10. ASSUME NEW w \in Workers, EndTick(w) \/ Crash(w) \/ GetLexiconQuota(w) \/ ChunkFails(w)
       PROVE  job'[i] = job[i] /\ imports'[i] = imports[i]
  BY <1>2, <1>5, <1>10 DEF EndTick, Crash, GetLexiconQuota, ChunkFails
<1> QED BY <1>1, <1>3, <1>4, <1>6, <1>7, <1>8, <1>9, <1>10 DEF Next, WorkerStep

(* cancelBulkJob against ownedClaim: an ended job, and what was imported of   *)
(* it, never change again, although workers may still hold its row.           *)
THEOREM EndingIsFinal == Spec => EndedIsFinal
<1>1. QueueInv /\ [Next]_vars =>
        [\A j \in Jobs : job[j].status \in Terminal => job'[j] = job[j] /\ imports'[j] = imports[j]]_vars
  BY EndedStays
<1> QED BY <1>1, Queue, PTL DEF Spec, EndedIsFinal

(* lockUserQuotaAndCountRemaining: the links after a chunk that imports rows  *)
(* fit the quota its worker read, whoever added terms since.                  *)
THEOREM ImportsFitQuota == Spec => ImportsWithinQuota
<1> DEFINE A == imports' # imports =>
       \E w \in Workers : /\ worker[w].pc = "landing" /\ worker'[w].pc = "polling"
                          /\ Cardinality(links') <= worker[w].quota
<1>1. ASSUME QueueInv, Next PROVE A
  <2>1. ASSUME NEW w \in Workers, CommitChunk(w) PROVE A
    <3>1. imports' # imports => Cardinality(links') <= worker[w].quota
      BY <1>1, <2>1, CommitWithinQuota
    <3>2. worker[w].pc = "landing" /\ worker'[w].pc = "polling"
      BY <1>1, <2>1 DEF QueueInv, TypeOK, CommitChunk, NextChunk, Become
    <3> QED BY <3>1, <3>2
  <2>2. CASE ~(\E w \in Workers : CommitChunk(w))
    BY <1>1, <2>2 DEF Next, WorkerStep, EnqueueBulkJob, CancelBulkJob, AgeClaim, AddTerm,
       SoftDeleteTerm, RestoreTerm, ChangePlan, StartTick, ClaimNextJob, EndTick,
       GetLexiconQuota, ChunkFails, Crash
  <2> QED BY <2>1, <2>2
<1>2. QueueInv /\ [Next]_vars => [A]_vars
  BY <1>1
<1> QED BY <1>2, Queue, PTL DEF Spec, ImportsWithinQuota

-----------------------------------------------------------------------------
(* BulkJobs implements BulkImport *)

LEMMA SameOutcome ==
  ASSUME UNCHANGED imports, \A i \in Jobs : job'[i].errors = job[i].errors
  PROVE  importOutcome' = importOutcome
BY DEF importOutcome, OutcomeOf

(* Nothing the user sees of the imports changes. *)
LEMMA Stutters ==
  ASSUME UNCHANGED imports,
         \A i \in Jobs : /\ job'[i].errors = job[i].errors
                         /\ \/ job'[i].status = job[i].status
                            \/ job'[i].status \in Open /\ job[i].status \in Open
  PROVE  UNCHANGED ImportOf!vars
<1>1. importOutcome' = importOutcome
  BY SameOutcome
<1>2. importState' = importState
  BY DEF importState, StateOf
<1> QED BY <1>1, <1>2 DEF ImportOf!vars

(* An import is submitted, given up or cancelled. *)
LEMMA StatusRefines ==
  ASSUME QueueInv, NEW j \in Jobs, NEW st \in {"queued", "cancelled", "failed"},
         job' = [job EXCEPT ![j].status = st], UNCHANGED imports,
         IF st = "queued" THEN job[j].status = "absent" ELSE job[j].status \in Open
  PROVE  ImportOf!Next
<1>1. job \in [Jobs -> JobRows]
  BY DEF QueueInv, TypeOK
<1>2. /\ job'[j].status = st /\ job'[j].errors = job[j].errors
      /\ \A i \in Jobs : i # j => job'[i] = job[i]
  BY <1>1 DEF JobRows
<1>3. importOutcome' = importOutcome
  BY <1>2, SameOutcome
<1>4. importState' = [importState EXCEPT ![j] = IF st = "queued" THEN "open" ELSE st]
  <2>1. StateOf(j)' = IF st = "queued" THEN "open" ELSE st
    BY <1>2 DEF StateOf, Open
  <2>2. \A i \in Jobs : i # j => StateOf(i)' = StateOf(i)
    BY <1>2 DEF StateOf
  <2> QED BY <2>1, <2>2 DEF importState
<1>5. importState[j] = IF st = "queued" THEN "absent" ELSE "open"
  BY DEF importState, StateOf, Open
<1>6. CASE st = "queued"
  <2>1. ImportOf!Submit(j)
    BY <1>3, <1>4, <1>5, <1>6 DEF ImportOf!Submit
  <2> QED BY <2>1 DEF ImportOf!Next
<1>7. CASE st # "queued"
  <2>1. ImportOf!GiveUp(j)
    BY <1>3, <1>4, <1>5, <1>7 DEF ImportOf!GiveUp
  <2> QED BY <2>1 DEF ImportOf!Next
<1> QED BY <1>6, <1>7

(* A chunk decides the next rows of its import, and completes it with the     *)
(* last.                                                                      *)
LEMMA DecidedRefines ==
  ASSUME QueueInv, NEW j \in Jobs, NEW upTo \in Nat, NEW good,
         job[j].status = "running", job[j].processed < upTo, upTo <= RowCount,
         good \in SUBSET {r \in Rows : job[j].processed <= r /\ r < upTo},
         Decided(j, upTo, good)
  PROVE  ImportOf!Next
<1> DEFINE block == {r \in Rows : job[j].processed <= r /\ r < upTo}
           pending == {r \in Rows : importOutcome[j][r] = "pending"}
<1>1. TypeOK /\ RowsAccounted
  BY DEF QueueInv
<1>2. /\ job[j].processed \in Nat /\ RowCount \in Nat
      /\ \A r \in Rows : r \in Nat /\ r < RowCount
      /\ imports[j] \in [Rows -> Nat]
  BY <1>1, BulkAssumption, RowsAreFinite DEF TypeOK, JobRows
<1>3. \A r \in Rows : importOutcome[j][r] = "pending" <=> job[j].processed <= r
  <2>1. \A r \in Rows : importOutcome[j][r] = "pending" <=> r \notin Imported(j) \union job[j].errors
    BY DEF importOutcome, OutcomeOf, Imported
  <2>2. \A r \in Rows : r \in Imported(j) \union job[j].errors <=> r < job[j].processed
    BY <1>1 DEF RowsAccounted
  <2> QED BY <1>2, <2>1, <2>2
<1>4. {r \in pending : r < upTo} = block
  BY <1>3
<1>5. block = pending <=> upTo = RowCount
  <2>1. ASSUME upTo = RowCount PROVE block = pending
    BY <1>2, <1>3, <2>1
  <2>2. ASSUME upTo # RowCount PROVE block # pending
    <3>1. upTo \in Rows /\ upTo \notin block
      BY <1>2, <2>2 DEF Rows
    <3>2. upTo \in pending
      BY <1>2, <1>3, <3>1
    <3> QED BY <3>1, <3>2
  <2> QED BY <2>1, <2>2
<1>6. upTo \in {r + 1 : r \in pending}
  <2>1. upTo - 1 \in Rows /\ job[j].processed <= upTo - 1 /\ upTo = (upTo - 1) + 1
    BY <1>2 DEF Rows
  <2>2. upTo - 1 \in pending
    BY <1>3, <2>1
  <2> QED BY <2>1, <2>2
<1>7. /\ job'[j].status = (IF upTo = RowCount THEN "completed" ELSE "queued")
      /\ job'[j].errors = job[j].errors \union (block \ good)
      /\ \A i \in Jobs : i # j => job'[i] = job[i]
  BY <1>1 DEF TypeOK, Decided
<1>8. /\ imports'[j] = [r \in Rows |-> IF r \in good THEN imports[j][r] + 1 ELSE imports[j][r]]
      /\ \A i \in Jobs : i # j => imports'[i] = imports[i]
  BY <1>1 DEF TypeOK, Decided
<1>9. importState[j] = "open"
  BY DEF importState, StateOf, Open
<1>10. importState' = [importState EXCEPT ![j] = IF upTo = RowCount THEN "completed" ELSE "open"]
  BY <1>7 DEF importState, StateOf, Open
<1>11. ASSUME NEW r \in Rows
       PROVE  OutcomeOf(j, r)' = IF r \in good THEN "imported"
                                 ELSE IF r \in block THEN "reported" ELSE importOutcome[j][r]
  <2>1. r \in good => imports'[j][r] > 0
    BY <1>2, <1>8
  <2>2. r \notin good => imports'[j][r] = imports[j][r]
    BY <1>8
  <2>3. r \in block => ~(imports[j][r] > 0)
    <3>1. imports[j][r] > 0 => r < job[j].processed
      BY <1>1 DEF RowsAccounted, Imported
    <3> QED BY <1>2, <3>1
  <2>4. importOutcome[j][r] = OutcomeOf(j, r)
    BY DEF importOutcome
  <2> HIDE DEF block
  <2> QED BY <1>7, <2>1, <2>2, <2>3, <2>4 DEF OutcomeOf
<1>12. importOutcome' = [importOutcome EXCEPT ![j] =
         [r \in Rows |-> IF r \in good THEN "imported"
                         ELSE IF r \in block THEN "reported" ELSE importOutcome[j][r]]]
  <2> DEFINE new == [r \in Rows |-> IF r \in good THEN "imported"
                         ELSE IF r \in block THEN "reported" ELSE importOutcome[j][r]]
  <2>1. [r \in Rows |-> OutcomeOf(j, r)'] = new
    BY <1>11
  <2>2. \A i \in Jobs : i # j => [r \in Rows |-> OutcomeOf(i, r)'] = [r \in Rows |-> OutcomeOf(i, r)]
    BY <1>7, <1>8 DEF OutcomeOf
  <2>3. importOutcome' = [i \in Jobs |-> [r \in Rows |-> OutcomeOf(i, r)']]
    BY DEF importOutcome
  <2>4. importOutcome = [i \in Jobs |-> [r \in Rows |-> OutcomeOf(i, r)]]
    BY DEF importOutcome
  <2> HIDE DEF new
  <2>5. importOutcome' = [importOutcome EXCEPT ![j] = new]
    BY <2>1, <2>2, <2>3, <2>4
  <2> QED BY <2>5 DEF new
<1>13. ImportOf!Decide(j)
  <2> DEFINE part == {r \in pending : r < upTo}
  <2>1. part = block /\ good \in SUBSET part
    BY <1>4
  <2> HIDE DEF block, pending
  <2>2. importState' = [importState EXCEPT ![j] = IF part = pending THEN "completed" ELSE "open"]
    BY <1>5, <1>10, <2>1
  <2>3. importOutcome' = [importOutcome EXCEPT ![j] =
          [r \in Rows |-> IF r \in good THEN "imported" ELSE IF r \in part THEN "reported" ELSE @[r]]]
    <3>1. j \in DOMAIN importOutcome
      BY DEF importOutcome
    <3> HIDE DEF part
    <3> QED BY <1>12, <2>1, <3>1
  <2>4. ImportOf!Pending(j) = pending
    BY DEF ImportOf!Pending, pending
  <2> QED BY <1>6, <1>9, <2>1, <2>2, <2>3, <2>4 DEF ImportOf!Decide
<1> QED BY <1>13 DEF ImportOf!Next

LEMMA ImportStarts == Init => ImportOf!Init
<1> SUFFICES ASSUME Init PROVE ImportOf!Init
  OBVIOUS
<1>1. importState = [j \in Jobs |-> "absent"]
  BY DEF Init, importState, StateOf, Open
<1>2. ASSUME NEW j \in Jobs, NEW r \in Rows PROVE OutcomeOf(j, r) = "pending"
  BY DEF Init, OutcomeOf
<1>3. importOutcome = [j \in Jobs |-> [r \in Rows |-> "pending"]]
  BY <1>2 DEF importOutcome
<1> QED BY <1>1, <1>3 DEF ImportOf!Init

LEMMA FailRefines ==
  ASSUME QueueInv, NEW w \in Workers, Holding(w), FailIfOwned(w), UNCHANGED imports
  PROVE  [ImportOf!Next]_ImportOf!vars
<1>1. worker[w].id \in Jobs
  BY Shapes DEF QueueInv
<1>2. CASE OwnedClaim(w, worker[w].id)
  <2>1. /\ job' = [job EXCEPT ![worker[w].id].status = "failed"]
        /\ job[worker[w].id].status \in Open
    BY <1>2 DEF FailIfOwned, OwnedClaim, Open
  <2> QED BY <1>1, <2>1, StatusRefines
<1>3. CASE ~OwnedClaim(w, worker[w].id)
  <2>1. job' = job
    BY <1>3 DEF FailIfOwned
  <2> QED BY <2>1, Stutters
<1> QED BY <1>2, <1>3

LEMMA ImportSteps ==
  ASSUME QueueInv, [Next]_vars
  PROVE  [ImportOf!Next]_ImportOf!vars
<1>0. job \in [Jobs -> JobRows]
  BY DEF QueueInv, TypeOK
<1>1. ASSUME NEW j \in Jobs, EnqueueBulkJob(j) PROVE ImportOf!Next
  <2>1. /\ job' = [job EXCEPT ![j].status = "queued"] /\ UNCHANGED imports
        /\ job[j].status = "absent"
    BY <1>1 DEF EnqueueBulkJob
  <2> QED BY <2>1, StatusRefines
<1>2. ASSUME NEW j \in Jobs, CancelBulkJob(j) PROVE ImportOf!Next
  <2>1. /\ job' = [job EXCEPT ![j].status = "cancelled"] /\ UNCHANGED imports
        /\ job[j].status \in Open
    BY <1>2 DEF CancelBulkJob, Open
  <2> QED BY <2>1, StatusRefines
<1>3. ASSUME UNCHANGED <<job, imports>> PROVE UNCHANGED ImportOf!vars
  BY <1>3, Stutters
<1>4. ASSUME NEW w \in Workers, StartTick(w) PROVE UNCHANGED ImportOf!vars
  <2>1. ASSUME NEW i \in Jobs
        PROVE  /\ job'[i].errors = job[i].errors
               /\ \/ job'[i].status = job[i].status
                  \/ job'[i].status \in Open /\ job[i].status \in Open
    <3>1. CASE i \in stale /\ job[i].status = "running"
      <4>1. job'[i] = [job[i] EXCEPT !.status = "queued", !.claimedBy = NoOne]
        BY <1>4, <3>1 DEF StartTick
      <4> QED BY <1>0, <3>1, <4>1 DEF JobRows, Open
    <3>2. CASE ~(i \in stale /\ job[i].status = "running")
      BY <1>4, <3>2 DEF StartTick
    <3> QED BY <3>1, <3>2
  <2>2. UNCHANGED imports
    BY <1>4 DEF StartTick
  <2> QED BY <2>1, <2>2, Stutters
<1>5. ASSUME NEW w \in Workers, ClaimNextJob(w) PROVE UNCHANGED ImportOf!vars
  <2>1. PICK j \in Jobs : /\ job[j].status = "queued"
                          /\ job' = [job EXCEPT ![j].status = "running", ![j].claimedBy = w]
    BY <1>5 DEF ClaimNextJob, Queued
  <2>2. /\ job'[j].status = "running" /\ job'[j].errors = job[j].errors
        /\ \A i \in Jobs : i # j => job'[i] = job[i]
    BY <1>0, <2>1 DEF JobRows
  <2>3. UNCHANGED imports
    BY <1>5 DEF ClaimNextJob
  <2> QED BY <2>1, <2>2, <2>3, Stutters DEF Open
<1>6. ASSUME NEW w \in Workers, CommitChunk(w) PROVE [ImportOf!Next]_ImportOf!vars
  <2>1. CASE OwnedClaim(w, worker[w].id)
    <3> DEFINE j == worker[w].id
    <3>1. PICK upTo \in Nat, good \in SUBSET Rows :
            /\ good \in SUBSET {r \in Rows : job[j].processed <= r /\ r < upTo}
            /\ j \in Jobs /\ job[j].status = "running"
            /\ job[j].processed < upTo /\ upTo <= RowCount
            /\ Decided(j, upTo, good)
      BY <1>6, <2>1, CommitDecides
    <3> HIDE DEF j
    <3> QED BY <3>1, DecidedRefines
  <2>2. CASE ~OwnedClaim(w, worker[w].id)
    BY <1>3, <1>6, <2>2 DEF CommitChunk
  <2> QED BY <2>1, <2>2
<1>7. ASSUME NEW w \in Workers, GetLexiconQuota(w) \/ ChunkFails(w) PROVE [ImportOf!Next]_ImportOf!vars
  BY <1>3, <1>7, FailRefines DEF GetLexiconQuota, ChunkFails, Holding
<1>8. ASSUME NEW w \in Workers, EndTick(w) \/ Crash(w) PROVE UNCHANGED ImportOf!vars
  BY <1>3, <1>8 DEF EndTick, Crash
<1>9. ASSUME NEW j \in Jobs, AgeClaim(j) PROVE UNCHANGED ImportOf!vars
  BY <1>3, <1>9 DEF AgeClaim
<1>10. ASSUME NEW t \in Terms, AddTerm(t) \/ SoftDeleteTerm(t) \/ RestoreTerm(t)
       PROVE  UNCHANGED ImportOf!vars
  BY <1>3, <1>10 DEF AddTerm, SoftDeleteTerm, RestoreTerm
<1>11. CASE ChangePlan \/ UNCHANGED vars
  BY <1>3, <1>11 DEF ChangePlan, vars
<1> QED BY <1>1, <1>2, <1>4, <1>5, <1>6, <1>7, <1>8, <1>9, <1>10, <1>11 DEF Next, WorkerStep

(* processQueuedBulkJobs as a whole: claims, recoveries, chunks cut short and *)
(* dying workers together decide the rows of an import in order and once, and *)
(* complete it exactly with its last row; every step of the queue is one step *)
(* of BulkImport or none.                                                     *)
THEOREM ImportIsImplemented == Spec => ImplementsBulkImport
<1>1. QueueInv /\ [Next]_vars => [ImportOf!Next]_ImportOf!vars
  BY ImportSteps
<1> QED BY <1>1, ImportStarts, Queue, PTL DEF Spec, ImplementsBulkImport, ImportOf!Spec
=============================================================================
