--------------------------- MODULE PolicyVersions ---------------------------
(* The version workflow of a policy and the life of the policy row itself:   *)
(*   src/src/services/policy/version-manager.ts   (submit, approve, ...)      *)
(*   src/src/lib/domain-vocabulary-snapshot.ts    (frozen vocabulary, counts) *)
(*   src/src/lib/policy-lifecycle.ts              (trash, restore, purge)     *)
(*   src/src/services/policy/executable-version.ts (which version runs)       *)
(*                                                                            *)
(* A request handler is a Worker invocation: it first reads (authorisation    *)
(* and the version row) and later writes, in one statement or in one          *)
(* READ COMMITTED transaction.  Other handlers run between the two, and a     *)
(* handler may die before it writes.  One action is one atomic database       *)
(* effect; a transaction whose rows stay locked until it commits is one.      *)
EXTENDS Naturals, FiniteSets

CONSTANTS
  Policies,      \* policy rows
  MaxVersion,    \* bound: versions created per policy
  Users,
  TeamPolicies,  \* policies with a teamId; the others are personal
  PolicyOwner,   \* [Policies -> Users], policies.userId
  TeamRole,      \* [Users -> Roles], the user's role in the (one) team
  Contents,      \* vocabulary groups (domain, locale, term set)
  Handlers,      \* concurrent requests
  MaxRef         \* bound: refCount a further approval may still start from

Roles == {"owner", "admin", "member", "viewer", "none"}

Statuses == {"DRAFT", "PENDING_APPROVAL", "APPROVED", "REJECTED",
             "DEPRECATED", "ARCHIVED"}

Decisions == {"APPROVED", "REJECTED", "REQUESTED_CHANGES"}

ASSUME ConstantsAssumption ==
  /\ IsFiniteSet(Policies)
  /\ MaxVersion \in Nat \ {0}
  /\ MaxRef \in Nat
  /\ TeamPolicies \subseteq Policies
  /\ PolicyOwner \in [Policies -> Users]
  /\ TeamRole \in [Users -> Roles]

Versions  == Policies \X (1..MaxVersion)   \* <<policyId, version>>
Snapshots == Users \X Contents             \* <<owner, content hash>>

VARIABLES
  policy,     \* "live" | "trashed" (deletedAt set) | "gone" (row deleted)
  inBin,      \* a PolicyRecycleBin row exists (policyId is unique there)
  status,     \* PolicyVersion.status, "ABSENT" before the row is inserted
  isDefault,  \* PolicyVersion.isDefault
  author,     \* PolicyVersion.createdBy
  sealed,     \* PolicyVersion.sourceScopesJson: the vocabulary compiled with
  refs,       \* PolicyVersion.vocabularySnapshotIds
  refCount,   \* UserVocabularySnapshot.refCount
  approvals,  \* PolicyApproval rows with decision APPROVED: <<version, approver>>
  vocab,      \* the vocabulary each user currently has in scope
  req         \* what each handler has read and not yet acted upon

rowVars == <<policy, inBin>>
verVars == <<status, isDefault, author, sealed, refs>>
snapVars == <<refCount, approvals>>
vars == <<rowVars, verVars, snapVars, vocab, req>>

-----------------------------------------------------------------------------
(* Requests in flight *)

Idle == [op |-> "idle"]

Requests ==
  {Idle}
  \union [op: {"create"}, pol: Policies, user: Users, seal: SUBSET Contents]
  \union [op: {"submit", "setDefault", "deprecate", "archive"}, ver: Versions]
  \union [op: {"clearing"}, ver: Versions, old: SUBSET Versions]
  \union [op: {"approve"}, ver: Versions, user: Users, decision: Decisions]
  \union [op: {"softDelete", "restore", "purge"}, pol: Policies]
  \union [op: {"cleanup"}, queue: SUBSET Policies]

TypeOK ==
  /\ policy \in [Policies -> {"live", "trashed", "gone"}]
  /\ inBin \in [Policies -> BOOLEAN]
  /\ status \in [Versions -> Statuses \union {"ABSENT"}]
  /\ isDefault \in [Versions -> BOOLEAN]
  /\ author \in [Versions -> Users]
  /\ sealed \in [Versions -> SUBSET Contents]
  /\ refs \in [Versions -> SUBSET Snapshots]
  /\ refCount \in [Snapshots -> Nat]
  /\ approvals \subseteq Versions \X Users
  /\ vocab \in [Users -> SUBSET Contents]
  /\ req \in [Handlers -> Requests]

(* A policy is created with its first draft in one transaction, sealed with   *)
(* the vocabulary its owner has at that moment.                               *)
Init ==
  /\ policy = [p \in Policies |-> "live"]
  /\ inBin = [p \in Policies |-> FALSE]
  /\ status = [v \in Versions |-> IF v[2] = 1 THEN "DRAFT" ELSE "ABSENT"]
  /\ isDefault = [v \in Versions |-> FALSE]
  /\ author = [v \in Versions |-> PolicyOwner[v[1]]]
  /\ vocab \in [Users -> SUBSET Contents]
  /\ sealed = [v \in Versions |-> IF v[2] = 1 THEN vocab[PolicyOwner[v[1]]] ELSE {}]
  /\ refs = [v \in Versions |-> {}]
  /\ refCount = [s \in Snapshots |-> 0]
  /\ approvals = {}
  /\ req = [h \in Handlers |-> Idle]

-----------------------------------------------------------------------------
(* Authorisation and version selection *)

HasPermission(role, action) ==
  \/ role \in {"owner", "admin"}
  \/ role = "member" /\ action = "update"

(* A team policy goes by the caller's team role, creator or not; a personal  *)
(* policy by its owner.                                                       *)
Allowed(u, p, action) ==
  IF p \in TeamPolicies THEN HasPermission(TeamRole[u], action)
                        ELSE PolicyOwner[p] = u

LoadPolicyForAction(u, p, action) ==
  policy[p] = "live" /\ Allowed(u, p, action)

LoadTrashedForAction(u, p, action) ==
  policy[p] = "trashed" /\ Allowed(u, p, action)

DecideVersionApproval(u, v) ==
  /\ Allowed(u, v[1], "approve")
  /\ v[1] \in TeamPolicies => author[v] # u      \* four eyes

VersionsOf(p) == {v \in Versions : v[1] = p /\ status[v] # "ABSENT"}

Latest(S) == {v \in S : \A w \in S : w[2] <= v[2]}

(* The versions an execution of p may select: any default (the rows come in   *)
(* no order), else the highest approved, else the latest.                     *)
ResolveExecutableVersion(p) ==
  LET defaults == {v \in VersionsOf(p) : isDefault[v]}
      approved == {v \in VersionsOf(p) : status[v] = "APPROVED"}
  IN  IF defaults # {} THEN defaults
      ELSE IF approved # {} THEN Latest(approved)
      ELSE Latest(VersionsOf(p))

-----------------------------------------------------------------------------
(* Handlers: begin (the read) and finish (the write) *)

Begin(h, r) ==
  /\ req[h] = Idle
  /\ req' = [req EXCEPT ![h] = r]
  /\ UNCHANGED <<rowVars, verVars, snapVars, vocab>>

Finish(h) == req' = [req EXCEPT ![h] = Idle]

Holds(h, op) == req[h].op = op

(* The Worker is killed, or the statement or transaction fails and rolls back. *)
Abandon(h) ==
  /\ req[h] # Idle
  /\ Finish(h)
  /\ UNCHANGED <<rowVars, verVars, snapVars, vocab>>

(* The vocabulary tables change outside any version handler. *)
EditVocabulary(u) ==
  /\ \E words \in SUBSET Contents : words # vocab[u] /\ vocab' = [vocab EXCEPT ![u] = words]
  /\ UNCHANGED <<rowVars, verVars, snapVars, req>>

(* createVersion: the source is compiled and sealed with the author's present *)
(* vocabulary before the transaction, which serialises on the policy's chain. *)
IsNextVersion(v) ==                              \* one after the chain's tail
  /\ \A w \in VersionsOf(v[1]) : w[2] < v[2]
  /\ v[2] > 1 => <<v[1], v[2] - 1>> \in VersionsOf(v[1])

BeginCreate(h) ==
  \E p \in Policies, u \in Users :
    /\ LoadPolicyForAction(u, p, "update")
    /\ \E v \in Versions : v[1] = p /\ IsNextVersion(v)        \* bound
    /\ Begin(h, [op |-> "create", pol |-> p, user |-> u, seal |-> vocab[u]])

InsertVersion(h) ==
  /\ Holds(h, "create")
  /\ \E v \in Versions :
       /\ v[1] = req[h].pol
       /\ IsNextVersion(v)
       /\ status' = [status EXCEPT ![v] = "DRAFT"]
       /\ author' = [author EXCEPT ![v] = req[h].user]
       /\ sealed' = [sealed EXCEPT ![v] = req[h].seal]
  /\ Finish(h)
  /\ UNCHANGED <<rowVars, isDefault, refs, snapVars, vocab>>

SetStatus(v, st) == status' = [status EXCEPT ![v] = st]

BeginSubmit(h) ==
  \E v \in Versions, u \in Users :
    /\ LoadPolicyForAction(u, v[1], "update")
    /\ status[v] \in {"DRAFT", "REJECTED"}
    /\ Begin(h, [op |-> "submit", ver |-> v])

(* The update names the row by id only: the status is not looked at again. *)
SubmitForApproval(h) ==
  /\ Holds(h, "submit")
  /\ SetStatus(req[h].ver, "PENDING_APPROVAL")
  /\ Finish(h)
  /\ UNCHANGED <<rowVars, isDefault, author, sealed, refs, snapVars, vocab>>

(* Mutant: the four-eyes rule is forgotten. *)
BeginApproveAlone(h) ==
  \E v \in Versions, u \in Users, d \in Decisions :
    /\ LoadPolicyForAction(u, v[1], "approve")
    /\ status[v] = "PENDING_APPROVAL"
    /\ Begin(h, [op |-> "approve", ver |-> v, user |-> u, decision |-> d])

BeginApprove(h) ==
  \E v \in Versions, u \in Users, d \in Decisions :
    /\ LoadPolicyForAction(u, v[1], "approve")
    /\ status[v] = "PENDING_APPROVAL"
    /\ DecideVersionApproval(u, v)
    /\ Begin(h, [op |-> "approve", ver |-> v, user |-> u, decision |-> d])

(* Mutant: the version row is locked but its status not looked at again. *)
LockPendingVersionBlindly(v) == status[v] \in Statuses

(* lockPolicyForSnapshotRefs and lockPendingVersion: both rows are locked and *)
(* looked at again inside the transaction.                                    *)
LockPolicyForSnapshotRefs(p) == policy[p] = "live"
LockPendingVersion(v) == status[v] = "PENDING_APPROVAL"

Frozen(v) == {author[v]} \X vocab[author[v]]

(* Mutant: the current vocabulary is frozen without comparing it to the seal. *)
FreezeUnverified(v) ==
  /\ \A s \in Frozen(v) : refCount[s] < MaxRef
  /\ refs' = [refs EXCEPT ![v] = Frozen(v)]
  /\ refCount' = [s \in Snapshots |-> IF s \in Frozen(v) THEN refCount[s] + 1 ELSE refCount[s]]

(* Mutant: the vocabulary itself is stored where its snapshots' ids belong. *)
FreezeContents(v) ==
  /\ vocab[author[v]] = sealed[v]
  /\ refs' = [refs EXCEPT ![v] = vocab[author[v]]]
  /\ UNCHANGED refCount

(* freezeVocabularyForApproval: refused when the vocabulary is no longer the  *)
(* sealed one; otherwise each group's snapshot is created or counted again.   *)
FreezeApprovalVocabulary(v) ==
  /\ vocab[author[v]] = sealed[v]
  /\ \A s \in Frozen(v) : refCount[s] < MaxRef
  /\ refs' = [refs EXCEPT ![v] = Frozen(v)]
  /\ refCount' = [s \in Snapshots |-> IF s \in Frozen(v) THEN refCount[s] + 1 ELSE refCount[s]]

ApproveVersion(h) ==
  /\ Holds(h, "approve")
  /\ LET v == req[h].ver
     IN  /\ LockPolicyForSnapshotRefs(v[1])
         /\ LockPendingVersion(v)
         /\ \/ /\ req[h].decision = "APPROVED"
               /\ FreezeApprovalVocabulary(v)
               /\ approvals' = approvals \union {<<v, req[h].user>>}
               /\ SetStatus(v, "APPROVED")
            \/ /\ req[h].decision = "REJECTED"
               /\ SetStatus(v, "REJECTED")
               /\ UNCHANGED <<refs, snapVars>>
            \/ /\ req[h].decision = "REQUESTED_CHANGES"
               /\ SetStatus(v, "DRAFT")
               /\ UNCHANGED <<refs, snapVars>>
  /\ Finish(h)
  /\ UNCHANGED <<rowVars, isDefault, author, sealed, vocab>>

BeginSetDefault(h) ==
  \E v \in Versions, u \in Users :
    /\ LoadPolicyForAction(u, v[1], "update")
    /\ status[v] = "APPROVED"
    /\ Begin(h, [op |-> "setDefault", ver |-> v])

(* First UPDATE of the transaction: under READ COMMITTED it sees the defaults *)
(* committed when the statement starts, and waits for their row locks.        *)
ClearDefaults(h) ==
  /\ Holds(h, "setDefault")
  /\ LET v == req[h].ver
     IN  req' = [req EXCEPT ![h] =
           [op |-> "clearing", ver |-> v,
            old |-> {w \in VersionsOf(v[1]) : isDefault[w]}]]
  /\ UNCHANGED <<rowVars, verVars, snapVars, vocab>>

(* Second UPDATE, by id, and COMMIT. *)
SetDefaultVersion(h) ==
  /\ Holds(h, "clearing")
  /\ isDefault' = [w \in Versions |-> \/ w = req[h].ver
                                      \/ isDefault[w] /\ w \notin req[h].old]
  /\ Finish(h)
  /\ UNCHANGED <<rowVars, status, author, sealed, refs, snapVars, vocab>>

BeginDeprecate(h) ==
  \E v \in Versions, u \in Users :
    /\ LoadPolicyForAction(u, v[1], "delete")
    /\ status[v] = "APPROVED"
    /\ ~isDefault[v]
    /\ Begin(h, [op |-> "deprecate", ver |-> v])

DeprecateVersion(h) ==
  /\ Holds(h, "deprecate")
  /\ SetStatus(req[h].ver, "DEPRECATED")
  /\ Finish(h)
  /\ UNCHANGED <<rowVars, isDefault, author, sealed, refs, snapVars, vocab>>

(* Mutant: the default version may be archived. *)
BeginArchiveAny(h) ==
  \E v \in Versions, u \in Users :
    /\ LoadPolicyForAction(u, v[1], "delete")
    /\ status[v] \in {"APPROVED", "DEPRECATED"}
    /\ Begin(h, [op |-> "archive", ver |-> v])

BeginArchive(h) ==
  \E v \in Versions, u \in Users :
    /\ LoadPolicyForAction(u, v[1], "delete")
    /\ status[v] \in {"APPROVED", "DEPRECATED"}
    /\ ~isDefault[v]
    /\ Begin(h, [op |-> "archive", ver |-> v])

ArchiveVersion(h) ==
  /\ Holds(h, "archive")
  /\ SetStatus(req[h].ver, "ARCHIVED")
  /\ Finish(h)
  /\ UNCHANGED <<rowVars, isDefault, author, sealed, refs, snapVars, vocab>>

-----------------------------------------------------------------------------
(* The policy row: trash, restore, physical deletion *)

BeginSoftDelete(h) ==
  \E p \in Policies, u \in Users :
    /\ LoadPolicyForAction(u, p, "delete")
    /\ Begin(h, [op |-> "softDelete", pol |-> p])

(* The bin row needs an existing policy (foreign key) and no other bin row    *)
(* (unique policyId): otherwise the transaction fails, see Abandon.           *)
SoftDeletePolicy(h) ==
  /\ Holds(h, "softDelete")
  /\ LET p == req[h].pol
     IN  /\ policy[p] # "gone" /\ ~inBin[p]
         /\ inBin' = [inBin EXCEPT ![p] = TRUE]
         /\ policy' = [policy EXCEPT ![p] = "trashed"]
  /\ Finish(h)
  /\ UNCHANGED <<verVars, snapVars, vocab>>

BeginRestore(h) ==
  \E p \in Policies, u \in Users :
    /\ LoadTrashedForAction(u, p, "delete")
    /\ inBin[p]
    /\ Begin(h, [op |-> "restore", pol |-> p])

(* Mutant: the bin row outlives the restore. *)
RestoreKeepingBin(h) ==
  /\ Holds(h, "restore")
  /\ policy' = [policy EXCEPT ![req[h].pol] = IF @ = "gone" THEN "gone" ELSE "live"]
  /\ Finish(h)
  /\ UNCHANGED <<inBin, verVars, snapVars, vocab>>

RestorePolicy(h) ==
  /\ Holds(h, "restore")
  /\ LET p == req[h].pol
     IN  /\ policy' = [policy EXCEPT ![p] = IF @ = "gone" THEN "gone" ELSE "live"]
         /\ inBin' = [inBin EXCEPT ![p] = FALSE]
  /\ Finish(h)
  /\ UNCHANGED <<verVars, snapVars, vocab>>

Holders(p, s) == {v \in Versions : v[1] = p /\ s \in refs[v]}

(* Mutant: a snapshot is given back once, however many versions hold it. *)
ReleaseEachOnce(p) ==
  refCount' = [s \in Snapshots |->
    IF Holders(p, s) # {} /\ refCount[s] > 0 THEN refCount[s] - 1 ELSE refCount[s]]

(* Every version's references of the deleted policy are given back, floored   *)
(* at zero; the version rows keep their references as evidence.               *)
ReleaseSnapshotRefsForPolicy(p) ==
  refCount' = [s \in Snapshots |->
    LET times == Cardinality(Holders(p, s))
    IN  IF refCount[s] >= times THEN refCount[s] - times ELSE 0]

(* Mutant: references are released even when no policy row was deleted. *)
PurgeAlwaysReleasing(p) ==
  /\ inBin' = [inBin EXCEPT ![p] = FALSE]
  /\ policy' = [policy EXCEPT ![p] = "gone"]
  /\ ReleaseSnapshotRefsForPolicy(p)

(* DELETE ... RETURNING: whatever the policy row's state; only the            *)
(* transaction that really deletes the row releases.                          *)
PurgePolicy(p) ==
  /\ inBin' = [inBin EXCEPT ![p] = FALSE]
  /\ \/ /\ policy[p] = "gone"
        /\ UNCHANGED <<policy, refCount>>
     \/ /\ policy[p] # "gone"
        /\ policy' = [policy EXCEPT ![p] = "gone"]
        /\ ReleaseSnapshotRefsForPolicy(p)

(* Also one item of emptyTrash, which re-checks access before each purge. *)
BeginPermanentDelete(h) ==
  \E p \in Policies, u \in Users :
    /\ LoadTrashedForAction(u, p, "delete")
    /\ Begin(h, [op |-> "purge", pol |-> p])

PermanentDeletePolicy(h) ==
  /\ Holds(h, "purge")
  /\ PurgePolicy(req[h].pol)
  /\ Finish(h)
  /\ UNCHANGED <<verVars, approvals, vocab>>

(* cleanupExpiredTrashItems lists the expired bin rows (any of them may have  *)
(* passed its 30 days), then purges them one transaction after the other.     *)
BeginCleanup(h) ==
  \E expired \in SUBSET {p \in Policies : inBin[p]} :
    /\ expired # {}
    /\ Begin(h, [op |-> "cleanup", queue |-> expired])

CleanupExpiredTrashItem(h) ==
  /\ Holds(h, "cleanup")
  /\ \E p \in req[h].queue :
       /\ PurgePolicy(p)
       /\ req' = [req EXCEPT ![h] =
            IF @.queue = {p} THEN Idle ELSE [op |-> "cleanup", queue |-> @.queue \ {p}]]
  /\ UNCHANGED <<verVars, approvals, vocab>>

-----------------------------------------------------------------------------
Next ==
  \/ \E u \in Users : EditVocabulary(u)
  \/ \E h \in Handlers :
       \/ BeginCreate(h) \/ InsertVersion(h)
       \/ BeginSubmit(h) \/ SubmitForApproval(h)
       \/ BeginApprove(h) \/ ApproveVersion(h)
       \/ BeginSetDefault(h) \/ ClearDefaults(h) \/ SetDefaultVersion(h)
       \/ BeginDeprecate(h) \/ DeprecateVersion(h)
       \/ BeginArchive(h) \/ ArchiveVersion(h)
       \/ BeginSoftDelete(h) \/ SoftDeletePolicy(h)
       \/ BeginRestore(h) \/ RestorePolicy(h)
       \/ BeginPermanentDelete(h) \/ PermanentDeletePolicy(h)
       \/ BeginCleanup(h) \/ CleanupExpiredTrashItem(h)
       \/ Abandon(h)

Spec == Init /\ [][Next]_vars

-----------------------------------------------------------------------------
(* Safety: true of any number of concurrent requests *)

(* Someone entitled to approve did approve v, and on a team policy it was not *)
(* v's author (approveVersion, decideVersionApproval).                        *)
Reviewed(v) == \E u \in Users : <<v, u>> \in approvals /\ DecideVersionApproval(u, v)

(* Whatever the interleaving of stale submits, approvals and default changes, *)
(* a version that can be selected as approved, deprecated or default, or that *)
(* holds frozen vocabulary, went through a review by an entitled other person.*)
ReviewedBeforeExecutable ==
  \A v \in Versions :
    (status[v] \in {"APPROVED", "DEPRECATED", "ARCHIVED"} \/ isDefault[v] \/ refs[v] # {})
      => Reviewed(v)

(* freezeApprovalVocabulary: the vocabulary an approved version runs with is  *)
(* exactly the one its source was compiled and sealed with, however often the *)
(* author edits the vocabulary and however often the version is re-approved.  *)
FrozenAsSealed ==
  \A v \in Versions : Reviewed(v) => refs[v] = {author[v]} \X sealed[v]

LiveHolders(s) == {v \in Versions : policy[v[1]] # "gone" /\ s \in refs[v]}

(* releaseSnapshotRefsForPolicy: a snapshot is never counted less than it is  *)
(* referenced by versions of policies that still exist, so no purge takes     *)
(* away a reference that another policy's version still relies on.            *)
RefCountCovers ==
  \A s \in Snapshots : refCount[s] >= Cardinality(LiveHolders(s))

(* The recycle bin lists exactly the policies that are in the trash, through  *)
(* concurrent deletes, restores, purges and clean-ups (policy-lifecycle).     *)
BinIffTrashed == \A p \in Policies : inBin[p] <=> policy[p] = "trashed"

(* lockPendingVersion: a snapshot count rises only together with a version    *)
(* leaving PENDING_APPROVAL for APPROVED on a policy that is live at that     *)
(* moment, so two approvers of one submission count it once.                  *)
CountedOncePerSubmission ==
  [][(\E s \in Snapshots : refCount'[s] > refCount[s]) =>
       \E v \in Versions : /\ status[v] = "PENDING_APPROVAL" /\ status'[v] = "APPROVED"
                           /\ policy[v[1]] = "live"]_vars

-----------------------------------------------------------------------------
(* Safety: true when requests do not overlap *)

(* resolveExecutableVersion: which version of a policy runs does not depend on *)
(* the order of its rows (setDefaultVersion leaves one default), and it is an  *)
(* approved one if there is any.                                              *)
RunsOneApproved ==
  \A p \in Policies : \A v, w \in ResolveExecutableVersion(p) :
    /\ v = w
    /\ (\E u \in VersionsOf(p) : status[u] = "APPROVED") => status[v] = "APPROVED"

(* countSnapshotRefs: freezing and releasing are symmetric, a snapshot is     *)
(* counted exactly as often as versions of existing policies reference it.    *)
RefCountExact ==
  \A s \in Snapshots : refCount[s] = Cardinality(LiveHolders(s))
=============================================================================
