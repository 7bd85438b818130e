--------------------------- MODULE VocabularyTerms ---------------------------
(* The vocabulary of one owner in one (domain, locale) group:                 *)
(*   src/src/lib/domain-vocabulary.ts           (add, modify, delete, restore, *)
(*                                               bulk import, quota, lock)     *)
(*   src/src/lib/domain-vocabulary-snapshot.ts  (rollback, freezing)           *)
(*   src/src/lib/domain-vocabulary-retention.ts (archiving after a downgrade)  *)
(*                                                                             *)
(* A request reads before its transaction, the quota of the owner's plan too;  *)
(* add, modify, restore and a bulk chunk then take the owner's advisory lock,  *)
(* check under it, write, and release it by committing.  Delete, rollback and  *)
(* the retention sweep do not take that lock; the sweep has one of its own.    *)
EXTENDS Naturals, Sequences, FiniteSets

CONSTANTS
  Terms,         \* global DomainTerm rows
  Conflicts,     \* pairs of terms with one spelling and two canonical names
  MaxLinks,      \* bound: UserDomainTerm rows ever created
  Quotas,        \* term quotas of the paying plans
  Batches,       \* the rows a bulk import may bring, sequences of terms
  Handlers,      \* concurrent requests
  Sweeps,        \* retention sweeps that may overlap
  MaxSnapshots,  \* bound: snapshots of this group
  MaxInFlight,   \* bound: requests and sweeps under way at a time
  NoOne          \* holder of a free lock

ASSUME ConstantsAssumption ==
  /\ MaxLinks \in Nat
  /\ Quotas \subseteq Nat \ {0}
  /\ MaxSnapshots \in Nat /\ MaxInFlight \in Nat
  /\ Conflicts \subseteq Terms \X Terms
  /\ \A t, u \in Terms : <<t, u>> \in Conflicts => <<u, t>> \in Conflicts /\ t # u
  /\ Batches \subseteq Seq(Terms)
  /\ NoOne \notin Handlers \union Sweeps

VARIABLES
  term,         \* UserDomainTerm.termId of the rows created so far
  deleted,      \* rows with deletedAt set
  archived,     \* rows with archivedAt set
  archiveSnap,  \* UserDomainTerm.archiveSnapshotId, by the snapshot's termIds
  snapshots,    \* UserVocabularySnapshot rows, by their termIds (contentHash)
  maxTerms,     \* quota of the owner's plan; 0: the free plan, which has none
  lock,         \* holder of the vocabulary write lock
  req,          \* what each request has read and not yet acted upon
  sweepLock,    \* holder of the archive lock
  sweep,        \* the same for the retention sweeps
  returned      \* history: active rows last activated by a restore or a rollback

rowVars == <<term, deleted, archived, archiveSnap, returned>>
reqVars == <<lock, req>>
sweepVars == <<sweepLock, sweep>>
vars == <<rowVars, snapshots, maxTerms, reqVars, sweepVars>>

-----------------------------------------------------------------------------
(* Rows, requests and passes *)

Links == 1..MaxLinks

Rows == DOMAIN term

Active == Rows \ (deleted \union archived)       \* activeLinkPredicate

TermsOf(S) == {term[l] : l \in S}

Idle == [op |-> "idle"]

Requests ==
  {Idle}
  \union [op: {"add", "adding"}, term: Terms, quota: Quotas]
  \union [op: {"modify", "modifying", "restore", "restoring"}, link: Links, term: Terms]
  \union [op: {"bulk"}, rows: Batches, quota: Quotas]
  \union [op: {"landing"}, rows: Batches, quota: Quotas, accepted: SUBSET Nat, left: Nat]
  \union [op: {"rollback"}, wanted: SUBSET Terms, seen: SUBSET (Links \X Terms)]

Passes ==
  {Idle} \union [op: {"due"}] \union [op: {"archiving"}, seen: SUBSET (Links \X Terms)]

TypeOK ==
  /\ Rows \in {1..n : n \in 0..MaxLinks} /\ TermsOf(Rows) \subseteq Terms
  /\ deleted \subseteq Rows /\ archived \subseteq Rows
  /\ DOMAIN archiveSnap = archived
  /\ \A l \in archived : archiveSnap[l] \in snapshots
  /\ snapshots \subseteq (SUBSET Terms) \ {{}}
  /\ maxTerms \in Quotas \union {0}
  /\ lock \in Handlers \union {NoOne}
  /\ \A h \in Handlers : req[h] \in Requests
  /\ sweepLock \in Sweeps \union {NoOne}
  /\ \A s \in Sweeps : sweep[s] \in Passes
  /\ returned \subseteq Active

Init ==
  /\ term = <<>>
  /\ deleted = {} /\ archived = {} /\ archiveSnap = <<>>
  /\ returned = {}
  /\ snapshots = {}
  /\ maxTerms \in Quotas
  /\ lock = NoOne
  /\ req = [h \in Handlers |-> Idle]
  /\ sweepLock = NoOne
  /\ sweep = [s \in Sweeps |-> Idle]

-----------------------------------------------------------------------------
(* Requests: what they read before their transaction *)

InFlight == {h \in Handlers : req[h] # Idle} \union {s \in Sweeps : sweep[s] # Idle}

Begin(h, r) ==
  /\ req[h] = Idle
  /\ Cardinality(InFlight) < MaxInFlight                      \* bound
  /\ req' = [req EXCEPT ![h] = r]
  /\ UNCHANGED <<rowVars, snapshots, maxTerms, lock, sweepVars>>

(* The request ends, and its transaction with it: the advisory lock is freed. *)
End(h) ==
  /\ req' = [req EXCEPT ![h] = Idle]
  /\ lock' = IF lock = h THEN NoOne ELSE lock

Holds(h, op) == req[h].op = op

(* The request is killed, or one of its statements fails: nothing is written. *)
Abandon(h) ==
  /\ req[h] # Idle
  /\ End(h)
  /\ UNCHANGED <<rowVars, snapshots, maxTerms, sweepVars>>

(* getLexiconQuota, before the transaction: the quota checked later is this. *)
BeginAdd(h) ==
  /\ maxTerms > 0
  /\ \E t \in Terms : Begin(h, [op |-> "add", term |-> t, quota |-> maxTerms])

BeginModify(h) ==
  \E l \in Active, t \in Terms : Begin(h, [op |-> "modify", link |-> l, term |-> t])

(* The link is read whatever its state, with the term it has now. *)
BeginRestore(h) ==
  \E l \in Rows : Begin(h, [op |-> "restore", link |-> l, term |-> term[l]])

BeginBulk(h) ==
  /\ maxTerms > 0
  /\ \E b \in Batches : Begin(h, [op |-> "bulk", rows |-> b, quota |-> maxTerms])

(* First statement of the rollback's transaction: the active links. *)
BeginRollback(h) ==
  \E s \in snapshots :
    Begin(h, [op |-> "rollback", wanted |-> s, seen |-> {<<l, term[l]>> : l \in Active}])

-----------------------------------------------------------------------------
(* The vocabulary write lock, and the checks made under it *)

(* assertNoScopeConflict: no other active link spells alike another name. *)
NoScopeConflict(t, except) == \A l \in Active \ {except} : <<t, term[l]>> \notin Conflicts

Remaining(quota) ==
  IF Cardinality(Active) < quota THEN quota - Cardinality(Active) ELSE 0

LockVocabularyWrites(h, r) ==
  /\ lock = NoOne
  /\ lock' = h
  /\ req' = [req EXCEPT ![h] = r]
  /\ UNCHANGED <<rowVars, snapshots, maxTerms, sweepVars>>

Refuse(h) ==
  /\ lock = NoOne
  /\ End(h)
  /\ UNCHANGED <<rowVars, snapshots, maxTerms, sweepVars>>

(* Mutant: the quota is not counted again under the lock. *)
CheckAddWithoutQuota(h) ==
  /\ Holds(h, "add")
  /\ LET t == req[h].term
     IN  IF NoScopeConflict(t, 0)
         THEN LockVocabularyWrites(h, [req[h] EXCEPT !.op = "adding"])
         ELSE Refuse(h)

(* lockUserQuotaAndCountRemaining, of the quota read; then the conflict check. *)
CheckAdd(h) ==
  /\ Holds(h, "add")
  /\ LET t == req[h].term
     IN  IF Remaining(req[h].quota) > 0 /\ NoScopeConflict(t, 0)
         THEN LockVocabularyWrites(h, [req[h] EXCEPT !.op = "adding"])
         ELSE Refuse(h)

(* Mutant: the modified term is checked without waiting for the lock. *)
CheckModifyUnlocked(h) ==
  /\ Holds(h, "modify")
  /\ NoScopeConflict(req[h].term, req[h].link)
  /\ req' = [req EXCEPT ![h].op = "modifying"]
  /\ UNCHANGED <<rowVars, snapshots, maxTerms, lock, sweepVars>>

CheckModify(h) ==
  /\ Holds(h, "modify")
  /\ IF NoScopeConflict(req[h].term, req[h].link)
     THEN LockVocabularyWrites(h, [req[h] EXCEPT !.op = "modifying"])
     ELSE Refuse(h)

(* The term compared is the one read before the lock was taken. *)
CheckRestore(h) ==
  /\ Holds(h, "restore")
  /\ IF NoScopeConflict(req[h].term, req[h].link)
     THEN LockVocabularyWrites(h, [req[h] EXCEPT !.op = "restoring"])
     ELSE Refuse(h)

(* screenBulkScopeConflicts: each row against the active links and the rows   *)
(* accepted before it.                                                         *)
Screened(rows) ==
  LET ok[i \in 0..Len(rows)] ==
        IF i = 0 THEN {}
        ELSE IF /\ NoScopeConflict(rows[i], 0)
                /\ \A j \in ok[i - 1] : <<rows[i], rows[j]>> \notin Conflicts
             THEN ok[i - 1] \union {i}
             ELSE ok[i - 1]
  IN  ok[Len(rows)]

CheckBulk(h) ==
  /\ Holds(h, "bulk")
  /\ LET b == req[h].rows
         q == req[h].quota
     IN  LockVocabularyWrites(h, [op |-> "landing", rows |-> b, quota |-> q,
                                  accepted |-> Screened(b), left |-> Remaining(q)])

-----------------------------------------------------------------------------
(* Writes *)

(* New rows for the terms of a sequence. *)
Insert(ts) ==
  /\ Len(term) + Len(ts) <= MaxLinks                           \* bound
  /\ term' = term \o ts

InsertLink(h) ==                         \* a duplicate aborts the transaction
  /\ Holds(h, "adding")
  /\ IF req[h].term \in TermsOf(Active) THEN UNCHANGED term ELSE Insert(<<req[h].term>>)
  /\ End(h)
  /\ UNCHANGED <<deleted, archived, archiveSnap, returned, snapshots, maxTerms, sweepVars>>

(* The UPDATE is of an active link only, and fails on the unique index when    *)
(* another active link has the term already.                                   *)
RepointLink(h) ==
  /\ Holds(h, "modifying")
  /\ LET l == req[h].link
     IN  IF l \in Active /\ req[h].term \notin TermsOf(Active \ {l})
         THEN term' = [term EXCEPT ![l] = req[h].term]
         ELSE UNCHANGED term
  /\ End(h)
  /\ UNCHANGED <<deleted, archived, archiveSnap, returned, snapshots, maxTerms, sweepVars>>

(* Mutant: an archived link is restored like a deleted one. *)
ReactivateArchived(h) ==
  /\ Holds(h, "restoring")
  /\ LET l == req[h].link
     IN  IF l \in deleted /\ term[l] \notin TermsOf(Active)
         THEN /\ deleted' = deleted \ {l}
              /\ returned' = returned \union {l}
         ELSE UNCHANGED <<deleted, returned>>
  /\ End(h)
  /\ UNCHANGED <<term, archived, archiveSnap, snapshots, maxTerms, sweepVars>>

ReactivateLink(h) ==
  /\ Holds(h, "restoring")
  /\ LET l == req[h].link
     IN  IF l \in deleted \ archived /\ term[l] \notin TermsOf(Active)
         THEN /\ deleted' = deleted \ {l}
              /\ returned' = returned \union {l}
         ELSE UNCHANGED <<deleted, returned>>
  /\ End(h)
  /\ UNCHANGED <<term, archived, archiveSnap, snapshots, maxTerms, sweepVars>>

(* landBulkChunk: of the accepted rows, those that are no duplicate, until the *)
(* quota counted under the lock is used up.                                    *)
Fresh(r) ==
  {i \in r.accepted : /\ r.rows[i] \notin TermsOf(Active)
                      /\ \A j \in r.accepted : j < i => r.rows[j] # r.rows[i]}

Landing(r) == {i \in Fresh(r) : Cardinality({j \in Fresh(r) : j <= i}) <= r.left}

InOrder(rows, S) ==                      \* the rows at the indices in S
  LET upTo[i \in 0..Len(rows)] ==
        IF i = 0 THEN <<>>
        ELSE IF i \in S THEN Append(upTo[i - 1], rows[i]) ELSE upTo[i - 1]
  IN  upTo[Len(rows)]

LandBulkChunk(h) ==
  /\ Holds(h, "landing")
  /\ Insert(InOrder(req[h].rows, Landing(req[h])))
  /\ End(h)
  /\ UNCHANGED <<deleted, archived, archiveSnap, returned, snapshots, maxTerms, sweepVars>>

(* softDeleteUserVocabularyTerm: one UPDATE of an active link, no lock. *)
SoftDelete(l) ==
  /\ l \in Active
  /\ deleted' = deleted \union {l}
  /\ returned' = returned \ {l}
  /\ UNCHANGED <<term, archived, archiveSnap, snapshots, maxTerms, reqVars, sweepVars>>

(* rollbackToSnapshot: links read as active whose term is not wanted are       *)
(* deleted by id; for each wanted term not read as active some row of that     *)
(* term has deletedAt cleared, whatever else is set on it, or a row is made.   *)
(* No conflict or quota is looked at; a second active link of a term aborts.   *)
Missing(r) == r.wanted \ {x[2] : x \in r.seen}

Dropped(r) == {x[1] : x \in {y \in r.seen : y[2] \notin r.wanted}}

RowsWith(t) == {l \in Rows : term[l] = t}

RollbackToSnapshot(h) ==
  /\ Holds(h, "rollback")
  /\ LET r     == req[h]
         reuse == {t \in Missing(r) : RowsWith(t) # {}}
         fresh == Missing(r) \ reuse
     IN  \E picks \in SUBSET UNION {RowsWith(t) : t \in reuse} :
         \E new \in [1..Cardinality(fresh) -> fresh] :
           /\ \A t \in reuse : Cardinality(picks \intersect RowsWith(t)) = 1
           /\ fresh = {new[i] : i \in DOMAIN new}
           /\ Insert(new)
           /\ deleted' = (deleted \union Dropped(r)) \ picks
           /\ UNCHANGED archived
           /\ \A k, l \in Active' : term'[k] = term'[l] => k = l
           /\ returned' = (returned \union (Active' \ Active)) \intersect Active'
  /\ End(h)
  /\ UNCHANGED <<archiveSnap, snapshots, maxTerms, sweepVars>>

-----------------------------------------------------------------------------
(* Snapshots, plans and the retention sweep *)

Store(s) ==
  /\ snapshots' = snapshots \union {s}
  /\ Cardinality(snapshots') <= MaxSnapshots                   \* bound

(* createSnapshotsForOwner, called when a version is approved. *)
CreateSnapshot ==
  /\ Active # {}
  /\ Store(TermsOf(Active))
  /\ UNCHANGED <<rowVars, maxTerms, reqVars, sweepVars>>

(* The owner moves to another plan, with another quota or with none.  The 90   *)
(* days on the free plan before a sweep add nothing: a sweep may come late.    *)
ChangePlan ==
  /\ \E q \in Quotas \union {0} : q # maxTerms /\ maxTerms' = q
  /\ UNCHANGED <<rowVars, snapshots, reqVars, sweepVars>>

FindDowngraded(s) ==
  /\ sweep[s] = Idle /\ maxTerms = 0
  /\ Cardinality(InFlight) < MaxInFlight                      \* bound
  /\ sweep' = [sweep EXCEPT ![s] = [op |-> "due"]]
  /\ UNCHANGED <<rowVars, snapshots, maxTerms, reqVars, sweepLock>>

EndPass(s) ==
  /\ sweep' = [sweep EXCEPT ![s] = Idle]
  /\ sweepLock' = IF sweepLock = s THEN NoOne ELSE sweepLock

(* Mutant: the archive lock is not taken. *)
PinLinksUnlocked(s) ==
  /\ sweep[s].op = "due" /\ Active # {}
  /\ sweep' = [sweep EXCEPT ![s] =
                 [op |-> "archiving", seen |-> {<<l, term[l]>> : l \in Active}]]
  /\ UNCHANGED <<rowVars, snapshots, maxTerms, reqVars, sweepLock>>

(* Under the archive lock, which no other writer takes: the links to archive. *)
PinLinks(s) ==
  /\ sweep[s].op = "due" /\ sweepLock = NoOne
  /\ IF Active = {}
     THEN EndPass(s)
     ELSE /\ sweep' = [sweep EXCEPT ![s] =
                         [op |-> "archiving", seen |-> {<<l, term[l]>> : l \in Active}]]
          /\ sweepLock' = s
  /\ UNCHANGED <<rowVars, snapshots, maxTerms, reqVars>>

Pinned(s) == {x[1] : x \in sweep[s].seen}

(* The snapshot of the terms read is created or counted again; the links are   *)
(* archived by id.                                                             *)
ArchiveLinks(s) ==
  /\ sweep[s].op = "archiving"
  /\ LET pinned == Pinned(s)
         snap   == {x[2] : x \in sweep[s].seen}
     IN  /\ Store(snap)
         /\ archived' = archived \union pinned
         /\ archiveSnap' = [l \in archived' |-> IF l \in pinned THEN snap ELSE archiveSnap[l]]
         /\ returned' = returned \ pinned
  /\ EndPass(s)
  /\ UNCHANGED <<term, deleted, maxTerms, reqVars>>

AbandonPass(s) ==
  /\ sweep[s] # Idle
  /\ EndPass(s)
  /\ UNCHANGED <<rowVars, snapshots, maxTerms, reqVars>>

Next ==
  \/ \E h \in Handlers :
       \/ BeginAdd(h) \/ CheckAdd(h) \/ InsertLink(h)
       \/ BeginModify(h) \/ CheckModify(h) \/ RepointLink(h)
       \/ BeginRestore(h) \/ CheckRestore(h) \/ ReactivateLink(h)
       \/ BeginBulk(h) \/ CheckBulk(h) \/ LandBulkChunk(h)
       \/ BeginRollback(h) \/ RollbackToSnapshot(h)
       \/ Abandon(h)
  \/ \E l \in Links : SoftDelete(l)
  \/ CreateSnapshot
  \/ ChangePlan
  \/ \E s \in Sweeps : FindDowngraded(s) \/ PinLinks(s) \/ ArchiveLinks(s) \/ AbandonPass(s)

Spec == Init /\ [][Next]_vars

-----------------------------------------------------------------------------
(* Safety *)

(* lockUserQuotaAndCountRemaining: an add or a bulk chunk that adds anything   *)
(* leaves no more active links than the quota its request read, not counting   *)
(* those a restore or a rollback brought back, which look at no quota and,     *)
(* the rollback, at no lock.  The plan may have changed since the quota was    *)
(* read, and overlapping requests may have read different quotas.              *)
AddsWithinQuotaRead ==
  [][Active' # Active =>
       \A h \in Handlers : InsertLink(h) \/ LandBulkChunk(h)
         => Cardinality(Active' \ returned') <= req[h].quota]_vars

(* The conflict checks are made under the lock (assertNoScopeConflict): of two *)
(* active links that conflict, one was brought back, by a rollback, which does *)
(* not look, or by a restore, which compares the term it read earlier.         *)
ConflictsOnlyByReturn ==
  \A k, l \in Active : <<term[k], term[l]>> \in Conflicts => k \in returned \/ l \in returned

(* archiveLinksForUser: however many sweeps overlap, a link is archived, and   *)
(* its snapshot counted, by one of them.                                       *)
ArchivedOnce ==
  [][\A s \in Sweeps : ArchiveLinks(s) => Pinned(s) \intersect archived = {}]_vars

-----------------------------------------------------------------------------
(* A claim of the source that does not hold *)

(* domain-vocabulary-snapshot.ts:601: "Apply a snapshot's term set as the     *)
(* user's active vocabulary" - even when nothing changed since it was read.    *)
RollbackExact ==
  [][\A h \in Handlers :
       RollbackToSnapshot(h) /\ req[h].seen = {<<l, term[l]>> : l \in Active}
         => TermsOf(Active)' = req[h].wanted]_vars
=============================================================================
