------------------------------ MODULE BulkJobs ------------------------------
(* The asynchronous bulk import of vocabulary terms, for one user:            *)
(*   src/src/lib/domain-vocabulary-jobs.ts        (queue, claims, recovery)   *)
(*   src/src/lib/domain-vocabulary-job-runner.ts  (one chunk of one job)      *)
(*   src/src/lib/domain-vocabulary.ts             (landing rows, the quota)   *)
(*                                                                            *)
(* Every minute a worker invocation re-queues stale claims and then claims    *)
(* and processes up to MaxChunks chunks.  Invocations overlap, die, and are   *)
(* declared dead too early; the user cancels and edits meanwhile.  A claim    *)
(* token is fresh for every claim; here it is the worker's name, which is as  *)
(* good, since an invocation holds one claim at a time and remembers nothing  *)
(* of an earlier one.                                                         *)
EXTENDS Integers, FiniteSets

CONSTANTS
  MaxJobs,      \* bound: jobs enqueued; job numbers follow createdAt
  RowCount,     \* rows of a job
  Content,      \* [Jobs -> [Rows -> Terms \union {Invalid}]], a job's input
  Terms,
  Invalid,      \* a row that fails validation or the scope screening
  ChunkSize,
  Quotas,       \* customLexiconMaxTerms of the plans, 0: not allowed
  Workers,
  NoOne,
  MaxChunks,    \* chunks per tick
  MaxCrashes,   \* bound: workers that die
  SlowWorkers   \* whether the claim of a living worker may be declared stale

Jobs == 1..MaxJobs
Rows == 0..(RowCount - 1)

ASSUME BulkAssumption ==
  /\ MaxJobs \in Nat /\ RowCount \in Nat \ {0} /\ ChunkSize \in Nat \ {0}
  /\ MaxChunks \in Nat \ {0} /\ MaxCrashes \in Nat
  /\ Quotas \subseteq Nat
  /\ Invalid \notin Terms /\ NoOne \notin Workers
  /\ Content \in [Jobs -> [Rows -> Terms \union {Invalid}]]
  /\ SlowWorkers \in BOOLEAN

VARIABLES
  job,      \* the LexiconBulkJob rows
  stale,    \* jobs whose claimedAt is older than STALE_RUNNING_AGE_MS
  links,    \* the user's active UserDomainTerm links
  deleted,  \* links soft-deleted and restorable
  quota,    \* the quota of the user's present plan
  worker,   \* the worker invocations
  crashes,
  imports   \* history: how often each row has been imported

vars == <<job, stale, links, deleted, quota, worker, crashes, imports>>

Terminal == {"completed", "failed", "cancelled"}

JobRows == [status: {"absent", "queued", "running"} \union Terminal,
            claimedBy: Workers \union {NoOne}, processed: 0..RowCount,
            landed: 0..RowCount, skipped: 0..RowCount, errors: SUBSET Rows]

(* seen: the job row returned by the claim *)
WorkerStates ==
  [pc: {"idle"}]
  \union [pc: {"polling"}, left: 0..MaxChunks]
  \union [pc: {"claimed"}, left: 0..MaxChunks, id: Jobs, seen: JobRows]
  \union [pc: {"landing"}, left: 0..MaxChunks, id: Jobs, seen: JobRows, quota: Nat]

TypeOK ==
  /\ job \in [Jobs -> JobRows]
  /\ stale \subseteq Jobs
  /\ links \subseteq Terms /\ deleted \subseteq Terms
  /\ quota \in Quotas
  /\ worker \in [Workers -> WorkerStates]
  /\ crashes \in 0..MaxCrashes
  /\ imports \in [Jobs -> [Rows -> Nat]]

Idle == [pc |-> "idle"]

Init ==
  /\ job = [j \in Jobs |-> [status |-> "absent", claimedBy |-> NoOne, processed |-> 0,
                            landed |-> 0, skipped |-> 0, errors |-> {}]]
  /\ stale = {} /\ links = {} /\ deleted = {}
  /\ quota \in Quotas
  /\ worker = [w \in Workers |-> Idle]
  /\ crashes = 0
  /\ imports = [j \in Jobs |-> [r \in Rows |-> 0]]

-----------------------------------------------------------------------------
(* The user *)

EnqueueBulkJob(j) ==
  /\ job[j].status = "absent"
  /\ \A i \in Jobs : i < j => job[i].status # "absent"
  /\ quota # 0
  /\ job' = [job EXCEPT ![j].status = "queued"]
  /\ UNCHANGED <<stale, links, deleted, quota, worker, crashes, imports>>

CancelBulkJob(j) ==
  /\ job[j].status \in {"queued", "running"}
  /\ job' = [job EXCEPT ![j].status = "cancelled"]
  /\ UNCHANGED <<stale, links, deleted, quota, worker, crashes, imports>>

(* addUserVocabularyTerm, counted and inserted under the user's lock *)
AddTerm(t) ==
  /\ Cardinality(links) < quota
  /\ t \notin links
  /\ links' = links \union {t}
  /\ UNCHANGED <<job, stale, deleted, quota, worker, crashes, imports>>

SoftDeleteTerm(t) ==
  /\ t \in links
  /\ links' = links \ {t}
  /\ deleted' = deleted \union {t}
  /\ UNCHANGED <<job, stale, quota, worker, crashes, imports>>

(* restoreUserVocabularyTerm takes the lock but does not look at the quota.  *)
RestoreTerm(t) ==
  /\ t \in deleted /\ t \notin links
  /\ links' = links \union {t}
  /\ deleted' = deleted \ {t}
  /\ UNCHANGED <<job, stale, quota, worker, crashes, imports>>

ChangePlan ==
  /\ \E q \in Quotas \ {quota} : quota' = q
  /\ UNCHANGED <<job, stale, links, deleted, worker, crashes, imports>>

-----------------------------------------------------------------------------
(* The queue *)

Become(w, s) == worker' = [worker EXCEPT ![w] = s]

Working(w, j) == worker[w].pc \in {"claimed", "landing"} /\ worker[w].id = j

(* Time passes a claim by. *)
AgeClaim(j) ==
  /\ job[j].status = "running" /\ j \notin stale
  /\ SlowWorkers \/ ~Working(job[j].claimedBy, j)
  /\ stale' = stale \union {j}
  /\ UNCHANGED <<job, links, deleted, quota, worker, crashes, imports>>

(* Mutant: a tick does not look for stale claims. *)
StartTickOnly(w) ==
  /\ worker[w] = Idle
  /\ Become(w, [pc |-> "polling", left |-> MaxChunks])
  /\ UNCHANGED <<job, stale, links, deleted, quota, crashes, imports>>

(* A tick begins with recoverStaleRunning. *)
StartTick(w) ==
  /\ worker[w] = Idle
  /\ Become(w, [pc |-> "polling", left |-> MaxChunks])
  /\ job' = [j \in Jobs |->
       IF j \in stale /\ job[j].status = "running"
       THEN [job[j] EXCEPT !.status = "queued", !.claimedBy = NoOne] ELSE job[j]]
  /\ stale' = {}
  /\ UNCHANGED <<links, deleted, quota, crashes, imports>>

Queued == {j \in Jobs : job[j].status = "queued"}

(* Mutant: one chunk more than maxJobs. *)
ClaimOneMore(w) ==
  /\ worker[w].pc = "polling"
  /\ \E j \in Queued :
       /\ \A i \in Queued : j <= i
       /\ job' = [job EXCEPT ![j].status = "running", ![j].claimedBy = w]
       /\ stale' = stale \ {j}
       /\ Become(w, [pc |-> "claimed", left |-> worker[w].left - 1, id |-> j, seen |-> job'[j]])
  /\ UNCHANGED <<links, deleted, quota, crashes, imports>>

(* The oldest queued job *)
ClaimNextJob(w) ==
  /\ worker[w].pc = "polling" /\ worker[w].left > 0
  /\ \E j \in Queued :
       /\ \A i \in Queued : j <= i
       /\ job' = [job EXCEPT ![j].status = "running", ![j].claimedBy = w]
       /\ stale' = stale \ {j}
       /\ Become(w, [pc |-> "claimed", left |-> worker[w].left - 1, id |-> j, seen |-> job'[j]])
  /\ UNCHANGED <<links, deleted, quota, crashes, imports>>

(* Nothing queued, all chunks used, or (after a first one) the time budget.  *)
EndTick(w) ==
  /\ worker[w].pc = "polling"
  /\ Queued = {} \/ worker[w].left < MaxChunks
  /\ Become(w, Idle)
  /\ UNCHANGED <<job, stale, links, deleted, quota, crashes, imports>>

-----------------------------------------------------------------------------
(* One chunk *)

(* Mutants: any running claim will do; any claim of one's own will do. *)
OwnedByStatus(w, j) == job[j].status = "running"
OwnedByClaim(w, j) == job[j].claimedBy = w

OwnedClaim(w, j) == job[j].status = "running" /\ job[j].claimedBy = w

NextChunk(w) == Become(w, [pc |-> "polling", left |-> worker[w].left])

(* markJobFailed or failClaimedJob: only while the claim is still held *)
FailIfOwned(w) ==
  LET j == worker[w].id
  IN  job' = IF OwnedClaim(w, j) THEN [job EXCEPT ![j].status = "failed"] ELSE job

(* The quota is read outside the transaction. *)
GetLexiconQuota(w) ==
  /\ worker[w].pc = "claimed"
  /\ \/ /\ quota = 0                                  \* plan_gate_required
        /\ FailIfOwned(w)
        /\ NextChunk(w)
     \/ /\ quota # 0
        /\ Become(w, [pc |-> "landing", left |-> worker[w].left, id |-> worker[w].id,
                      seen |-> worker[w].seen, quota |-> quota])
        /\ UNCHANGED job
  /\ UNCHANGED <<stale, links, deleted, quota, crashes, imports>>

Min2(a, b) == IF a < b THEN a ELSE b
Minus(a, b) == IF a > b THEN a - b ELSE 0

TermOf(w, r) == Content[worker[w].id][r]

Start(w) == worker[w].seen.processed
ChunkEnd(w) == Min2(RowCount, Start(w) + ChunkSize)
ChunkRows(w, upTo) == Start(w)..(upTo - 1)
Valid(w) == {r \in ChunkRows(w, ChunkEnd(w)) : TermOf(w, r) # Invalid}

(* Where processing may stop.  The batched path takes the whole chunk; the    *)
(* row-by-row path may run out of time before any valid row but the first.    *)
StopsAt(w) ==
  {ChunkEnd(w)} \union {r \in Valid(w) : \E q \in Valid(w) : q < r}

(* Mutant: the terms the user has by now are not counted. *)
RemainingOfPlan(w) == worker[w].quota

(* lockUserQuotaAndCountRemaining *)
Remaining(w) == Minus(worker[w].quota, Cardinality(links))

(* landBulkChunk: of the rows that bring a term the user does not have, as    *)
(* many as the quota leaves, in order.  broken: rows that failed unexpectedly *)
(* and were isolated by the row-by-row path.                                  *)
LandedRows(w, upTo, broken) ==
  LET tried == (Valid(w) \ broken) \intersect ChunkRows(w, upTo)
      fresh == {r \in tried : /\ TermOf(w, r) \notin links
                              /\ \A q \in tried : q < r => TermOf(w, q) # TermOf(w, r)}
  IN  {r \in fresh : Cardinality({q \in fresh : q < r}) < Remaining(w)}

(* Mutant: a chunk cut short still completes a job it was the last chunk of. *)
FinishedAtChunkEnd(w, upTo) == ChunkEnd(w) = RowCount

Finished(w, upTo) == upTo = RowCount

(* The transaction of processBulkJobChunk: links and progress together, and   *)
(* neither when the claim was lost.  Progress is computed from the row as it  *)
(* was claimed.                                                               *)
CommitChunk(w) ==
  /\ worker[w].pc = "landing"
  /\ LET j == worker[w].id
         seen == worker[w].seen
     IN  \/ /\ ~OwnedClaim(w, j)                      \* LostClaimError
            /\ UNCHANGED <<job, links, imports>>
         \/ /\ OwnedClaim(w, j)
            /\ \E upTo \in StopsAt(w), broken \in SUBSET Valid(w) :
                 LET rows == LandedRows(w, upTo, broken)
                     errs == ChunkRows(w, upTo) \ rows
                 IN  /\ links' = links \union {TermOf(w, r) : r \in rows}
                     /\ imports' = [imports EXCEPT ![j] =
                          [r \in Rows |-> IF r \in rows THEN @[r] + 1 ELSE @[r]]]
                     /\ job' = [job EXCEPT ![j] =
                          [status |-> IF Finished(w, upTo) THEN "completed" ELSE "queued",
                           claimedBy |-> NoOne,
                           processed |-> upTo,
                           landed |-> seen.landed + Cardinality(rows),
                           skipped |-> seen.skipped + Cardinality(errs),
                           errors |-> seen.errors \union errs]]
  /\ NextChunk(w)
  /\ UNCHANGED <<stale, deleted, quota, crashes>>

(* Any statement of the chunk fails: rolled back, then failClaimedJob. *)
ChunkFails(w) ==
  /\ worker[w].pc \in {"claimed", "landing"}
  /\ FailIfOwned(w)
  /\ NextChunk(w)
  /\ UNCHANGED <<stale, links, deleted, quota, crashes, imports>>

(* The invocation dies: nothing it has not committed happens. *)
Crash(w) ==
  /\ worker[w] # Idle /\ crashes < MaxCrashes
  /\ crashes' = crashes + 1
  /\ Become(w, Idle)
  /\ UNCHANGED <<job, stale, links, deleted, quota, imports>>

-----------------------------------------------------------------------------
WorkerStep(w) ==
  StartTick(w) \/ ClaimNextJob(w) \/ EndTick(w) \/ GetLexiconQuota(w) \/ CommitChunk(w)

Next ==
  \/ \E j \in Jobs : EnqueueBulkJob(j) \/ CancelBulkJob(j) \/ AgeClaim(j)
  \/ \E t \in Terms : AddTerm(t) \/ SoftDeleteTerm(t) \/ RestoreTerm(t)
  \/ ChangePlan
  \/ \E w \in Workers : WorkerStep(w) \/ ChunkFails(w) \/ Crash(w)

Spec == Init /\ [][Next]_vars

(* The cron starts a tick every minute, an invocation that does not die goes  *)
(* on, and time passes.                                                       *)
Fairness ==
  /\ \A w \in Workers : WF_vars(WorkerStep(w))
  /\ \A j \in Jobs : WF_vars(AgeClaim(j))

FairSpec == Spec /\ Fairness

-----------------------------------------------------------------------------
(* Safety *)

Imported(j) == {r \in Rows : imports[j][r] > 0}

(* processBulkJobChunk, ownedClaim: whichever invocations claimed, lost and   *)
(* re-claimed a job, each row up to its progress was imported exactly once or *)
(* is reported exactly once, no later row was touched, and the roll-up agrees.*)
RowsAccounted ==
  \A j \in Jobs :
    /\ \A r \in Rows : imports[j][r] <= 1
    /\ Imported(j) \intersect job[j].errors = {}
    /\ Imported(j) \union job[j].errors = {r \in Rows : r < job[j].processed}
    /\ job[j].landed = Cardinality(Imported(j))
    /\ job[j].skipped = Cardinality(job[j].errors)

(* cancelBulkJob, ownedClaim: a cancelled or otherwise ended job stays as it  *)
(* is; no invocation that was still working on it imports a row of it.        *)
EndedIsFinal ==
  [][\A j \in Jobs : job[j].status \in Terminal =>
       job'[j] = job[j] /\ imports'[j] = imports[j]]_vars

(* lockUserQuotaAndCountRemaining: a chunk that imports rows leaves the user  *)
(* within the quota its worker read, whatever was added, restored or imported *)
(* by others between the reading and the transaction.                         *)
ImportsWithinQuota ==
  [][imports' # imports =>
       \E w \in Workers : /\ worker[w].pc = "landing" /\ worker'[w].pc = "polling"
                          /\ Cardinality(links') <= worker[w].quota]_vars

(* What the user sees of the jobs: to him a claimed job is still open. *)
Open == {"queued", "running"}

StateOf(j) == IF job[j].status \in Open THEN "open" ELSE job[j].status

OutcomeOf(j, r) ==
  IF imports[j][r] > 0 THEN "imported" ELSE IF r \in job[j].errors THEN "reported" ELSE "pending"

importState == [j \in Jobs |-> StateOf(j)]
importOutcome == [j \in Jobs |-> [r \in Rows |-> OutcomeOf(j, r)]]

ImportOf == INSTANCE BulkImport WITH state <- importState, outcome <- importOutcome

(* processQueuedBulkJobs as a whole: claims, recoveries and chunks cut short  *)
(* decide the rows in order and once, complete a job exactly with its last    *)
(* row, and never touch one that was cancelled or given up.                   *)
ImplementsBulkImport == ImportOf!Spec

(* Liveness *)

(* processQueuedBulkJobs, recoverStaleRunning: every queued import ends, even *)
(* when the workers that claimed it died.                                     *)
EveryJobEnds ==
  \A j \in Jobs : job[j].status = "queued" ~> job[j].status \in Terminal
=============================================================================
