---------------------------- MODULE VersionChain ----------------------------
(* The hash chain of one policy's versions while the resolver migration       *)
(* reseals it:                                                                *)
(*   src/src/services/policy/version-manager.ts     (insertChainedVersion)    *)
(*   src/src/services/policy/resolver-migration.ts  (migrateVersion, relink)  *)
(*   src/src/services/security/policy-security.ts   (computeChainedHash)      *)
(*                                                                            *)
(* A version is linked to its predecessor by prevHash, the predecessor's      *)
(* envelope or else its sourceHash.  Transactions hold row locks until they   *)
(* commit; what a migration has written is private to it until then.          *)
EXTENDS Naturals, Sequences, FiniteSets

CONSTANTS
  Legacies,    \* lengths the chain may have when the migration starts
  Statuses,    \* statuses its rows may have
  MaxVersion,  \* bound: versions ever created
  Runs,        \* executions of the migration job, which may overlap
  Appenders,   \* requests that create a version
  Editors,     \* requests that change a status
  EditedUpTo,  \* bound: statuses change only in chains this short
  MaxInFlight, \* bound: transactions and status changes under way at a time
  NoOne        \* holder of a free lock

ASSUME ChainAssumption ==
  /\ MaxVersion \in Nat /\ EditedUpTo \in Nat /\ MaxInFlight \in Nat
  /\ Legacies \subseteq 0..MaxVersion
  /\ Statuses \subseteq {"DRAFT", "PENDING", "APPROVED", "REJECTED", "ARCHIVED"}
  /\ NoOne \notin Runs \union Appenders /\ Runs \intersect Appenders = {}

VARIABLES
  rows,       \* committed PolicyVersion rows, by version
  rowLock,    \* holder of each row's lock
  chainLock,  \* holder of the advisory lock policy-version-chain
  run,        \* the row each job is migrating and what it has written
  tried,      \* rows each job has picked: it tries a row once
  append,     \* what each creation has read
  edit,       \* what each status change has read
  manual      \* history: versions a person has archived

lockVars == <<rowLock, chainLock>>
jobVars == <<run, tried>>
vars == <<rows, lockVars, jobVars, append, edit, manual>>

-----------------------------------------------------------------------------
(* Hashes, rows and chains *)

Versions == 1..MaxVersion
Idle == [op |-> "idle"]
None == [kind |-> "none"]

(* A hash is what went into it; another input gives another hash. *)
Forged(what, v) == [kind |-> "forged", what |-> what, of |-> v]
ChainedHash(v, prev) == [kind |-> "hash", of |-> v, prev |-> prev]
Envelope(v, resolver) == [kind |-> "envelope", of |-> v, resolver |-> resolver]

(* Rows written over those of a chain, or one row. *)
Written(new, chain) ==
  [v \in DOMAIN new \union DOMAIN chain |-> IF v \in DOMAIN new THEN new[v] ELSE chain[v]]

Only(v, row) == [w \in {v} |-> row]

Link(row) == IF row.env # None THEN row.env ELSE row.hash      \* chainLink

Before(chain, v) == IF v = 1 THEN None ELSE Link(chain[v - 1])

SelfConsistent(v, row) == row.hash = ChainedHash(v, row.prev)

SealIntact(v, row) ==
  IF row.env = None THEN SelfConsistent(v, row) ELSE row.env.kind # "forged"

(* What an old row may be: with an envelope, one that no locale reproduces, or *)
(* none; broken off its predecessor; with a sourceHash that is not its own.    *)
Shapes ==
  [env: {"none", "old", "forged"}, linked: BOOLEAN, sound: BOOLEAN, status: Statuses]

OldEnvelope(v, kind) ==
  CASE kind = "none" -> None [] kind = "old" -> Envelope(v, 0) [] OTHER -> Forged("envelope", v)

OldChain(shape) ==
  LET chain[v \in DOMAIN shape] ==
        LET prev == IF shape[v].linked THEN Before(chain, v) ELSE Forged("link", v)
        IN  [env |-> OldEnvelope(v, shape[v].env),
             hash |-> IF shape[v].sound THEN ChainedHash(v, prev) ELSE Forged("hash", v),
             prev |-> prev, resolved |-> FALSE, status |-> shape[v].status,
             flagged |-> FALSE, before |-> "none"]
  IN  chain

(* The first version has no predecessor to be broken off from. *)
OldChains(n) == {OldChain(shape) : shape \in {s \in [1..n -> Shapes] : n > 0 => s[1].linked}}

Init ==
  /\ rows \in UNION {OldChains(n) : n \in Legacies}
  /\ rowLock = [v \in Versions |-> NoOne] /\ chainLock = NoOne
  /\ run = [r \in Runs |-> Idle] /\ tried = [r \in Runs |-> {}]
  /\ append = [a \in Appenders |-> Idle]
  /\ edit = [e \in Editors |-> Idle]
  /\ manual = {v \in DOMAIN rows : rows[v].status = "ARCHIVED"}

Underway ==
  {r \in Runs : run[r] # Idle} \union {a \in Appenders : append[a] # Idle}
  \union {e \in Editors : edit[e] # Idle}

MayBegin == Cardinality(Underway) < MaxInFlight                  \* bound

Free(v) == rowLock[v] = NoOne
Unlocked(p) == [v \in Versions |-> IF rowLock[v] = p THEN NoOne ELSE rowLock[v]]

-----------------------------------------------------------------------------
(* The migration job *)

(* The batch is read outside the row's transaction; ids are in no order. *)
PickRow(r) ==
  /\ run[r] = Idle /\ MayBegin
  /\ \E v \in DOMAIN rows \ tried[r] :
        /\ ~rows[v].resolved
        /\ run' = [run EXCEPT ![r] = [op |-> "picked", row |-> v]]
        /\ tried' = [tried EXCEPT ![r] = @ \union {v}]
  /\ UNCHANGED <<rows, lockVars, append, edit, manual>>

EndRun(r) ==
  /\ run' = [run EXCEPT ![r] = Idle]
  /\ rowLock' = Unlocked(r)
  /\ UNCHANGED <<chainLock, tried, append, edit, manual>>

(* Someone migrated the row meanwhile, or its seal does not hold: the reason   *)
(* is recorded, nothing else changes.                                          *)
PassOver(r) ==
  /\ run[r].op = "picked" /\ Free(run[r].row)
  /\ LET v == run[r].row IN rows[v].resolved \/ ~SealIntact(v, rows[v])
  /\ EndRun(r)
  /\ UNCHANGED rows

(* Mutant: the row is recompiled without a look at its old seal. *)
LockUnverified(r) ==
  /\ run[r].op = "picked" /\ Free(run[r].row)
  /\ ~rows[run[r].row].resolved
  /\ rowLock' = [rowLock EXCEPT ![run[r].row] = r]
  /\ run' = [run EXCEPT ![r].op = "compiling"]
  /\ UNCHANGED <<rows, chainLock, tried, append, edit, manual>>

LockRow(r) ==
  /\ run[r].op = "picked" /\ Free(run[r].row)
  /\ LET v == run[r].row IN ~rows[v].resolved /\ SealIntact(v, rows[v])
  /\ rowLock' = [rowLock EXCEPT ![run[r].row] = r]
  /\ run' = [run EXCEPT ![r].op = "compiling"]
  /\ UNCHANGED <<rows, chainLock, tried, append, edit, manual>>

(* Mutant: the status before the archiving is not restored. *)
LeftArchived(row) == row.status

Restored(row) == IF row.flagged THEN row.before ELSE row.status

(* Mutant: archivedByResolverMigration is not cleared. *)
ResealedKeepingFlag(v, row) ==
  [row EXCEPT !.env = Envelope(v, 1), !.resolved = TRUE, !.status = Restored(row)]

Resealed(v, row) ==
  [row EXCEPT !.env = Envelope(v, 1), !.resolved = TRUE, !.status = Restored(row),
              !.flagged = FALSE, !.before = IF row.flagged THEN "none" ELSE @]

(* writeSuccess: the new seal, then its successors' links. *)
Reseal(r) ==
  /\ run[r].op = "compiling"
  /\ LET v == run[r].row
     IN  run' = [run EXCEPT ![r] =
                   [op |-> "relinking", wrote |-> Only(v, Resealed(v, rows[v])),
                    at |-> v, old |-> Link(rows[v]), new |-> Envelope(v, 1)]]
  /\ UNCHANGED <<rows, lockVars, tried, append, edit, manual>>

(* writeFailure: a row already archived, by whomever, keeps its status. *)
RecompileFails(r) ==
  /\ run[r].op = "compiling"
  /\ LET v == run[r].row  row == rows[v]
     IN  rows' = IF row.status = "ARCHIVED" THEN rows
                 ELSE [rows EXCEPT ![v] = [row EXCEPT !.status = "ARCHIVED",
                                                      !.before = row.status, !.flagged = TRUE]]
  /\ EndRun(r)

(* Mutant: the source hash is recomputed even where it did not match. *)
RelinkedBlindly(v, row, change) ==
  [row EXCEPT !.prev = change.new, !.hash = ChainedHash(v, change.new)]

Relinked(v, row, change) ==
  [row EXCEPT !.prev = change.new,
              !.hash = IF row.hash = ChainedHash(v, change.old)
                       THEN ChainedHash(v, change.new) ELSE @]

HasSuccessor(r) == run[r].at + 1 \in DOMAIN rows
FollowsLink(r) == rows[run[r].at + 1].prev = run[r].old

RelinkSuccessor(r) ==
  /\ run[r].op = "relinking"
  /\ HasSuccessor(r) /\ Free(run[r].at + 1) /\ FollowsLink(r)
  /\ LET v == run[r].at + 1
         next == Relinked(v, rows[v], run[r])
         goesOn == next.env = None /\ next.hash # rows[v].hash
     IN  /\ rowLock' = [rowLock EXCEPT ![v] = r]
         /\ run' = [run EXCEPT ![r] =
                      [op |-> IF goesOn THEN "relinking" ELSE "committing",
                       wrote |-> Written(Only(v, next), run[r].wrote),
                       at |-> v, old |-> rows[v].hash, new |-> next.hash]]
  /\ UNCHANGED <<rows, chainLock, tried, append, edit, manual>>

(* Mutant: the job waits for the advisory lock before it trusts to be at the tail. *)
RelinkStopsUnderChainLock(r) ==
  /\ run[r].op = "relinking" /\ chainLock = NoOne
  /\ HasSuccessor(r) => Free(run[r].at + 1) /\ ~FollowsLink(r)
  /\ run' = [run EXCEPT ![r].op = "committing"]
  /\ UNCHANGED <<rows, lockVars, tried, append, edit, manual>>

(* The chain ends here, or was broken here before the migration. *)
RelinkStops(r) ==
  /\ run[r].op = "relinking"
  /\ HasSuccessor(r) => Free(run[r].at + 1) /\ ~FollowsLink(r)
  /\ run' = [run EXCEPT ![r].op = "committing"]
  /\ UNCHANGED <<rows, lockVars, tried, append, edit, manual>>

CommitRun(r) ==
  /\ run[r].op = "committing"
  /\ rows' = Written(run[r].wrote, rows)
  /\ EndRun(r)

(* An infrastructure fault rolls the row's transaction back. *)
RunFault(r) ==
  /\ run[r] # Idle
  /\ EndRun(r)
  /\ UNCHANGED rows

-----------------------------------------------------------------------------
(* Creating a version *)

LockChain(a) ==
  /\ append[a] = Idle /\ chainLock = NoOne /\ MayBegin
  /\ Len(rows) < MaxVersion                                     \* bound
  /\ chainLock' = a
  /\ append' = [append EXCEPT ![a] = [op |-> "chained"]]
  /\ UNCHANGED <<rows, rowLock, jobVars, edit, manual>>

(* Mutant: the tail is read without FOR UPDATE. *)
ReadTail(a) ==
  /\ append[a].op = "chained"
  /\ LET v == Len(rows) + 1
     IN  append' = [append EXCEPT ![a] =
                      [op |-> "inserting", version |-> v, link |-> Before(rows, v)]]
  /\ UNCHANGED <<rows, lockVars, jobVars, edit, manual>>

(* SELECT the tail FOR UPDATE; an empty chain has no row to lock. *)
LockTail(a) ==
  /\ append[a].op = "chained"
  /\ LET n == Len(rows)
     IN  /\ n > 0 => Free(n)
         /\ append' = [append EXCEPT ![a] =
                         [op |-> "inserting", version |-> n + 1, link |-> Before(rows, n + 1)]]
         /\ rowLock' = [v \in Versions |-> IF v = n THEN a ELSE rowLock[v]]
  /\ UNCHANGED <<rows, chainLock, jobVars, edit, manual>>

EndAppend(a) ==
  /\ append' = [append EXCEPT ![a] = Idle]
  /\ rowLock' = Unlocked(a)
  /\ chainLock' = IF chainLock = a THEN NoOne ELSE chainLock
  /\ UNCHANGED <<jobVars, edit, manual>>

InsertVersion(a) ==
  /\ append[a].op = "inserting"
  /\ LET v == append[a].version  link == append[a].link
         row == [env |-> Envelope(v, 1), hash |-> ChainedHash(v, link), prev |-> link,
                 resolved |-> TRUE, status |-> "DRAFT", flagged |-> FALSE, before |-> "none"]
     IN  rows' = Written(Only(v, row), rows)
  /\ EndAppend(a)

AppendFault(a) ==
  /\ append[a] # Idle
  /\ EndAppend(a)
  /\ UNCHANGED rows

-----------------------------------------------------------------------------
(* Status changes: submit and archive read the version, then update it by id. *)

Change(e, op, from) ==
  /\ edit[e] = Idle /\ MayBegin /\ Len(rows) <= EditedUpTo      \* bound
  /\ \E v \in DOMAIN rows :
        /\ rows[v].status \in from
        /\ edit' = [edit EXCEPT ![e] = [op |-> op, row |-> v]]
  /\ UNCHANGED <<rows, lockVars, jobVars, append, manual>>

BeginSubmit(e) == Change(e, "submit", {"DRAFT", "REJECTED"})
BeginArchive(e) == Change(e, "archive", {"APPROVED"})

Update(e, op, status) ==
  /\ edit[e].op = op /\ Free(edit[e].row)
  /\ rows' = [rows EXCEPT ![edit[e].row].status = status]
  /\ edit' = [edit EXCEPT ![e] = Idle]
  /\ UNCHANGED <<lockVars, jobVars, append>>

SubmitForApproval(e) == Update(e, "submit", "PENDING") /\ UNCHANGED manual
ArchiveVersion(e) ==
  Update(e, "archive", "ARCHIVED") /\ manual' = manual \union {edit[e].row}

(* The decision rechecks the status under the row's lock. *)
Review(v) ==
  /\ Free(v) /\ rows[v].status = "PENDING"
  /\ \E s \in {"APPROVED", "REJECTED", "DRAFT"} : rows' = [rows EXCEPT ![v].status = s]
  /\ UNCHANGED <<lockVars, jobVars, append, edit, manual>>

-----------------------------------------------------------------------------

Migrate(r) ==
  \/ PassOver(r) \/ LockRow(r) \/ Reseal(r) \/ RecompileFails(r)
  \/ RelinkSuccessor(r) \/ RelinkStops(r) \/ CommitRun(r)

Create(a) == LockTail(a) \/ InsertVersion(a)

Next ==
  \/ \E r \in Runs : PickRow(r) \/ Migrate(r) \/ RunFault(r)
  \/ \E a \in Appenders : LockChain(a) \/ Create(a) \/ AppendFault(a)
  \/ \E e \in Editors :
        \/ BeginSubmit(e) \/ SubmitForApproval(e) \/ BeginArchive(e) \/ ArchiveVersion(e)
  \/ \E v \in DOMAIN rows : Review(v)

Spec == Init /\ [][Next]_vars

(* A transaction that has begun goes on once the locks it needs are free.  A    *)
(* creation that is retried may take a row's lock again and again, but         *)
(* PostgreSQL grants a lock in the order of the requests for it.               *)
FairSpec ==
  /\ Spec
  /\ \A r \in Runs : SF_vars(Migrate(r))
  /\ \A a \in Appenders : WF_vars(Create(a))
  /\ \A e \in Editors : WF_vars(SubmitForApproval(e) \/ ArchiveVersion(e))

-----------------------------------------------------------------------------
(* Properties *)

Rows ==
  [resolved: BOOLEAN, flagged: BOOLEAN,
   status: {"DRAFT", "PENDING", "APPROVED", "REJECTED", "ARCHIVED"},
   before: {"none", "DRAFT", "PENDING", "APPROVED", "REJECTED"}]

(* Rows are numbered without gaps, a lock is held by a transaction that is     *)
(* under way, and only rows a migration archived, or later restored, are       *)
(* flagged.                                                                    *)
TypeOK ==
  /\ DOMAIN rows \in {1..n : n \in 0..MaxVersion}
  /\ \A v \in DOMAIN rows :
        /\ [f \in {"resolved", "flagged", "status", "before"} |-> rows[v][f]] \in Rows
        /\ rows[v].flagged <=> rows[v].before # "none"
        /\ rows[v].resolved => ~rows[v].flagged /\ rows[v].env = Envelope(v, 1)
  /\ \A v \in Versions : rowLock[v] \in
        {NoOne} \union {r \in Runs : run[r] # Idle} \union {a \in Appenders : append[a] # Idle}
  /\ chainLock \in {NoOne} \union {a \in Appenders : append[a] # Idle}
  /\ \A r \in Runs : tried[r] \subseteq DOMAIN rows

Linked(v) == rows[v].prev = Before(rows, v)

(* However migrations, creations and faults interleave, a version stays linked *)
(* to its predecessor if it was, stays visibly broken off if it was not, and a *)
(* new version is linked (insertChainedVersion's tail lock, relinkSuccessors). *)
ChainOnlyGrows ==
  [][/\ DOMAIN rows \subseteq DOMAIN rows'
     /\ \A v \in DOMAIN rows' : Linked(v)' = (IF v \in DOMAIN rows THEN Linked(v) ELSE TRUE)]_vars

(* Rewriting a link never launders a version: a source hash that did not match *)
(* its version still does not, and one that did still does.                    *)
TamperingStaysVisible ==
  [][\A v \in DOMAIN rows : SelfConsistent(v, rows'[v]) = SelfConsistent(v, rows[v])]_vars

(* Only a version whose old seal held at that moment is sealed again.          *)
ResealedIfIntact ==
  [][\A v \in DOMAIN rows :
        rows'[v].resolved /\ ~rows[v].resolved => SealIntact(v, rows[v])]_vars

(* Row locks are taken towards the tail, after the advisory lock: no set of    *)
(* overlapping jobs and creations ever waits for itself.                       *)
TransactionsEnd ==
  /\ \A r \in Runs : []<>(run[r] = Idle)
  /\ \A a \in Appenders : []<>(append[a] = Idle)

(* A version the migration took out of service comes back with its status once *)
(* it recompiles, whatever failures and status changes came between: among the *)
(* migrated versions only those a person archived are archived.                *)
ArchivingIsUndone ==
  \A v \in DOMAIN rows : rows[v].resolved /\ rows[v].status = "ARCHIVED" => v \in manual
=============================================================================
