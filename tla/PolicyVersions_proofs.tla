------------------------ MODULE PolicyVersions_proofs ------------------------
(* Proofs about PolicyVersions, for any number of policies, versions, users,  *)
(* vocabulary groups and concurrent requests.                                 *)
EXTENDS PolicyVersions, FiniteSetTheorems, TLAPS

(* What a request in flight has established and nothing can undo: the version *)
(* it names was inserted, so that author and seal are fixed, and a request    *)
(* that makes a version default or retires it names a reviewed version.       *)
RequestOK(h) ==
  /\ req[h].op \in {"setDefault", "clearing", "deprecate", "archive"} => Reviewed(req[h].ver)
  /\ req[h].op = "approve" => DecideVersionApproval(req[h].user, req[h].ver)
  /\ req[h].op \in {"submit", "approve"} => status[req[h].ver] # "ABSENT"

(* Only inserted versions are ever approved. *)
ApprovedExists ==
  \A v \in Versions, u \in Users : <<v, u>> \in approvals => status[v] # "ABSENT"

(* The inductive strengthening of the two review properties. *)
ReviewInv ==
  /\ ReviewedBeforeExecutable
  /\ FrozenAsSealed
  /\ ApprovedExists
  /\ \A h \in Handlers : RequestOK(h)

-----------------------------------------------------------------------------
(* Typing *)

(* Beginning a request disturbs nothing but the handler's own entry. *)
LEMMA BeginType ==
  ASSUME TypeOK, NEW h \in Handlers, NEW r \in Requests, Begin(h, r)
  PROVE  TypeOK'
BY DEF TypeOK, Begin, rowVars, verVars, snapVars

(* Every read phase records a well-formed request. *)
LEMMA ReadPhase ==
  ASSUME TypeOK, NEW h \in Handlers,
         \/ BeginCreate(h) \/ BeginSubmit(h) \/ BeginApprove(h) \/ BeginSetDefault(h)
         \/ BeginDeprecate(h) \/ BeginArchive(h) \/ BeginSoftDelete(h)
         \/ BeginRestore(h) \/ BeginPermanentDelete(h) \/ BeginCleanup(h)
  PROVE  \E r \in Requests : Begin(h, r)
<1>1. CASE BeginCreate(h)
  BY <1>1 DEF BeginCreate, Requests, TypeOK
<1>2. CASE BeginSubmit(h)
  BY <1>2 DEF BeginSubmit, Requests
<1>3. CASE BeginApprove(h)
  BY <1>3 DEF BeginApprove, Requests
<1>4. CASE BeginSetDefault(h)
  BY <1>4 DEF BeginSetDefault, Requests
<1>5. CASE BeginDeprecate(h)
  BY <1>5 DEF BeginDeprecate, Requests
<1>6. CASE BeginArchive(h)
  BY <1>6 DEF BeginArchive, Requests
<1>7. CASE BeginSoftDelete(h)
  BY <1>7 DEF BeginSoftDelete, Requests
<1>8. CASE BeginRestore(h)
  BY <1>8 DEF BeginRestore, Requests
<1>9. CASE BeginPermanentDelete(h)
  BY <1>9 DEF BeginPermanentDelete, Requests
<1>10. CASE BeginCleanup(h)
  BY <1>10 DEF BeginCleanup, Requests
<1> QED BY <1>1, <1>2, <1>3, <1>4, <1>5, <1>6, <1>7, <1>8, <1>9, <1>10

(* What a well-formed request carries. *)
LEMMA RequestFields ==
  ASSUME TypeOK, NEW h \in Handlers
  PROVE  /\ req[h].op \in {"submit", "setDefault", "deprecate", "archive", "clearing", "approve"}
              => req[h].ver \in Versions
         /\ req[h].op = "approve" => req[h].user \in Users
         /\ req[h].op \in {"create", "softDelete", "restore", "purge"} => req[h].pol \in Policies
         /\ req[h].op = "create" => req[h].user \in Users /\ req[h].seal \in SUBSET Contents
         /\ req[h].op = "cleanup" => req[h].queue \in SUBSET Policies
BY DEF TypeOK, Requests, Idle

LEMMA VersionsFinite == IsFiniteSet(Versions)
<1>1. IsFiniteSet(1..MaxVersion)
  BY FS_Interval, ConstantsAssumption
<1> QED BY <1>1, FS_Product, ConstantsAssumption DEF Versions

LEMMA HoldersFinite ==
  ASSUME NEW p \in Policies, NEW s
  PROVE  IsFiniteSet(Holders(p, s)) /\ Cardinality(Holders(p, s)) \in Nat
<1>1. Holders(p, s) \subseteq Versions
  BY DEF Holders
<1> QED BY <1>1, VersionsFinite, FS_Subset, FS_CardinalityType

LEMMA PurgeType ==
  ASSUME TypeOK, NEW p \in Policies, PurgePolicy(p)
  PROVE  /\ policy' \in [Policies -> {"live", "trashed", "gone"}]
         /\ inBin' \in [Policies -> BOOLEAN]
         /\ refCount' \in [Snapshots -> Nat]
<1>1. \A s \in Snapshots : Cardinality(Holders(p, s)) \in Nat
  BY HoldersFinite
<1>2. refCount' \in [Snapshots -> Nat]
  <2>1. CASE UNCHANGED refCount
    BY <2>1 DEF TypeOK
  <2>2. CASE ReleaseSnapshotRefsForPolicy(p)
    BY <1>1, <2>2 DEF TypeOK, ReleaseSnapshotRefsForPolicy
  <2> QED BY <2>1, <2>2 DEF PurgePolicy
<1> QED BY <1>2 DEF TypeOK, PurgePolicy

LEMMA TypeStep == TypeOK /\ [Next]_vars => TypeOK'
<1> SUFFICES ASSUME TypeOK, [Next]_vars PROVE TypeOK'
  OBVIOUS
<1> USE DEF Holds, Finish
<1>1. CASE UNCHANGED vars
  BY <1>1 DEF vars, rowVars, verVars, snapVars, TypeOK
<1>2. ASSUME NEW u \in Users, EditVocabulary(u) PROVE TypeOK'
  BY <1>2 DEF EditVocabulary, rowVars, verVars, snapVars, TypeOK
<1>3. ASSUME NEW h \in Handlers,
             \/ BeginCreate(h) \/ BeginSubmit(h) \/ BeginApprove(h) \/ BeginSetDefault(h)
             \/ BeginDeprecate(h) \/ BeginArchive(h) \/ BeginSoftDelete(h)
             \/ BeginRestore(h) \/ BeginPermanentDelete(h) \/ BeginCleanup(h)
      PROVE  TypeOK'
  BY <1>3, ReadPhase, BeginType
<1> DEFINE FinishType(h) == Finish(h) => req' \in [Handlers -> Requests]
<1>4. \A h \in Handlers : FinishType(h)
  BY DEF TypeOK, Requests
<1>5. ASSUME NEW h \in Handlers, InsertVersion(h) PROVE TypeOK'
  BY <1>4, <1>5, RequestFields DEF InsertVersion, TypeOK, rowVars, snapVars, Statuses
<1>6. ASSUME NEW h \in Handlers, SubmitForApproval(h) \/ DeprecateVersion(h) \/ ArchiveVersion(h)
      PROVE  TypeOK'
  BY <1>4, <1>6, RequestFields
     DEF SubmitForApproval, DeprecateVersion, ArchiveVersion, SetStatus, TypeOK, rowVars, snapVars, Statuses
<1>7. ASSUME NEW h \in Handlers, ApproveVersion(h) PROVE TypeOK'
  <2> DEFINE v == req[h].ver
  <2>1. v \in Versions /\ req[h].user \in Users
    BY <1>7, RequestFields DEF ApproveVersion
  <2>2. UNCHANGED <<rowVars, isDefault, author, sealed, vocab>> /\ Finish(h)
    BY <1>7 DEF ApproveVersion
  <2>3. CASE FreezeApprovalVocabulary(v) /\ approvals' = approvals \union {<<v, req[h].user>>}
             /\ SetStatus(v, "APPROVED")
    <3>1. Frozen(v) \in SUBSET Snapshots
      BY <2>1 DEF Frozen, Snapshots, TypeOK
    <3>2. refs' \in [Versions -> SUBSET Snapshots]
      BY <2>3, <3>1 DEF FreezeApprovalVocabulary, TypeOK
    <3>3. refCount' \in [Snapshots -> Nat]
      BY <2>3 DEF FreezeApprovalVocabulary, TypeOK
    <3>4. approvals' \subseteq Versions \X Users
      BY <2>1, <2>3 DEF TypeOK
    <3>5. status' \in [Versions -> Statuses \union {"ABSENT"}]
      BY <2>1, <2>3 DEF TypeOK, SetStatus, Statuses
    <3> QED BY <1>4, <2>2, <3>2, <3>3, <3>4, <3>5 DEF TypeOK, rowVars
  <2>4. CASE UNCHANGED <<refs, snapVars>> /\ (SetStatus(v, "REJECTED") \/ SetStatus(v, "DRAFT"))
    BY <1>4, <2>1, <2>2, <2>4 DEF TypeOK, SetStatus, Statuses, rowVars, snapVars
  <2> QED BY <1>7, <2>3, <2>4 DEF ApproveVersion
<1>8. ASSUME NEW h \in Handlers, ClearDefaults(h) PROVE TypeOK'
  <2>1. req[h].ver \in Versions
    BY <1>8, RequestFields DEF ClearDefaults
  <2>2. {w \in VersionsOf(req[h].ver[1]) : isDefault[w]} \in SUBSET Versions
    BY DEF VersionsOf
  <2>3. [op |-> "clearing", ver |-> req[h].ver,
         old |-> {w \in VersionsOf(req[h].ver[1]) : isDefault[w]}] \in Requests
    BY <2>1, <2>2 DEF Requests
  <2> QED BY <1>8, <2>3 DEF ClearDefaults, TypeOK, rowVars, verVars, snapVars
<1>9. ASSUME NEW h \in Handlers, SetDefaultVersion(h) PROVE TypeOK'
  BY <1>4, <1>9 DEF SetDefaultVersion, TypeOK, rowVars, snapVars
<1>10. ASSUME NEW h \in Handlers, SoftDeletePolicy(h) \/ RestorePolicy(h) PROVE TypeOK'
  BY <1>4, <1>10, RequestFields DEF SoftDeletePolicy, RestorePolicy, TypeOK, verVars, snapVars
<1>11. ASSUME NEW h \in Handlers, PermanentDeletePolicy(h) PROVE TypeOK'
  <2>1. req[h].pol \in Policies
    BY <1>11, RequestFields DEF PermanentDeletePolicy
  <2> QED BY <1>4, <1>11, <2>1, PurgeType DEF PermanentDeletePolicy, TypeOK, verVars
<1>12. ASSUME NEW h \in Handlers, CleanupExpiredTrashItem(h) PROVE TypeOK'
  <2>1. req[h].queue \in SUBSET Policies /\ req[h].op = "cleanup"
    BY <1>12, RequestFields DEF CleanupExpiredTrashItem
  <2>2. PICK p \in req[h].queue :
          /\ PurgePolicy(p)
          /\ req' = [req EXCEPT ![h] =
               IF @.queue = {p} THEN Idle ELSE [op |-> "cleanup", queue |-> @.queue \ {p}]]
    BY <1>12 DEF CleanupExpiredTrashItem
  <2>3. /\ req[h].queue \ {p} \in SUBSET Policies
        /\ [op |-> "cleanup", queue |-> req[h].queue \ {p}] \in Requests
    BY <2>1 DEF Requests
  <2>5. req' \in [Handlers -> Requests]
    BY <2>2, <2>3 DEF TypeOK, Requests
  <2> QED BY <1>12, <2>1, <2>2, <2>5, PurgeType DEF CleanupExpiredTrashItem, TypeOK, verVars
<1>13. ASSUME NEW h \in Handlers, Abandon(h) PROVE TypeOK'
  BY <1>4, <1>13 DEF Abandon, TypeOK, rowVars, verVars, snapVars
<1> QED
  BY <1>1, <1>2, <1>3, <1>5, <1>6, <1>7, <1>8, <1>9, <1>10, <1>11, <1>12, <1>13 DEF Next

LEMMA TypeInit == Init => TypeOK
<1> SUFFICES ASSUME Init PROVE TypeOK
  OBVIOUS
<1>1. \A v \in Versions : v[1] \in Policies
  BY DEF Versions
<1>2. author \in [Versions -> Users] /\ sealed \in [Versions -> SUBSET Contents]
  BY <1>1, ConstantsAssumption DEF Init
<1> QED BY <1>2 DEF Init, TypeOK, Requests, Statuses

(* Every reachable state is well typed. *)
THEOREM TypeCorrect == Spec => []TypeOK
<1> QED BY TypeInit, TypeStep, PTL DEF Spec

-----------------------------------------------------------------------------
(* Review: four eyes, and the vocabulary that was sealed *)

(* The next version of a chain is not there yet. *)
LEMMA NextIsAbsent ==
  ASSUME NEW v \in Versions, IsNextVersion(v)
  PROVE  status[v] = "ABSENT"
<1>1. v[2] \in Nat
  BY DEF Versions
<1>2. ~(v[2] < v[2])
  BY <1>1
<1> QED BY <1>2 DEF IsNextVersion, VersionsOf

(* A step that leaves the versions and the approvals alone keeps the          *)
(* invariant as long as the one request it touches is sound.                  *)
LEMMA ReviewFrame ==
  ASSUME TypeOK, ReviewInv, NEW h \in Handlers, UNCHANGED <<verVars, approvals>>,
         \A k \in Handlers \ {h} : req'[k] = req[k],
         RequestOK(h)'
  PROVE  ReviewInv'
<1>1. UNCHANGED <<status, isDefault, author, sealed, refs, approvals>>
  BY DEF verVars
<1>2. \A v \in Versions : Reviewed(v)' <=> Reviewed(v)
  BY <1>1 DEF Reviewed, DecideVersionApproval, Allowed
<1>3. \A k \in Handlers : RequestOK(k)'
  <2> SUFFICES ASSUME NEW k \in Handlers, k # h PROVE RequestOK(k)'
    OBVIOUS
  <2>1. RequestOK(k) /\ req'[k] = req[k]
    BY DEF ReviewInv
  <2>2. req[k].op \in {"setDefault", "clearing", "deprecate", "archive"} => Reviewed(req[k].ver)'
    BY <1>2, <2>1, RequestFields DEF RequestOK
  <2> QED BY <1>1, <2>1, <2>2 DEF RequestOK, DecideVersionApproval, Allowed
<1> QED BY <1>1, <1>2, <1>3
        DEF ReviewInv, ReviewedBeforeExecutable, FrozenAsSealed, ApprovedExists

(* Ending a request is always sound. *)
LEMMA FinishFrame ==
  ASSUME TypeOK, NEW h \in Handlers, Finish(h)
  PROVE  RequestOK(h)' /\ \A k \in Handlers \ {h} : req'[k] = req[k]
BY DEF Finish, TypeOK, RequestOK, Idle

(* Reviews are never forgotten: approvals only grow, and author and seal of   *)
(* an inserted version never change.                                          *)
LEMMA ReviewKept ==
  ASSUME TypeOK, ReviewInv, approvals \subseteq approvals',
         \A v \in Versions : status[v] # "ABSENT" => author'[v] = author[v]
  PROVE  \A v \in Versions : Reviewed(v) => Reviewed(v)'
BY DEF ReviewInv, ApprovedExists, Reviewed, DecideVersionApproval, Allowed

(* The other requests stay sound when versions change but do not disappear. *)
LEMMA OthersKept ==
  ASSUME TypeOK, ReviewInv, approvals \subseteq approvals',
         \A v \in Versions : status[v] # "ABSENT" => author'[v] = author[v] /\ status'[v] # "ABSENT",
         NEW h \in Handlers, Finish(h)
  PROVE  \A k \in Handlers : RequestOK(k)'
<1> SUFFICES ASSUME NEW k \in Handlers PROVE RequestOK(k)'
  OBVIOUS
<1>1. CASE k = h
  BY <1>1, FinishFrame
<1>2. CASE k # h
  <2>1. RequestOK(k) /\ req'[k] = req[k]
    BY <1>2, FinishFrame DEF ReviewInv
  <2>2. req[k].op \in {"setDefault", "clearing", "deprecate", "archive"} => Reviewed(req[k].ver)'
    BY <2>1, ReviewKept, RequestFields DEF RequestOK
  <2>3. req[k].op = "approve" => DecideVersionApproval(req[k].user, req[k].ver)'
    BY <2>1, RequestFields DEF RequestOK, DecideVersionApproval, Allowed
  <2>4. req[k].op \in {"submit", "approve"} => status'[req[k].ver] # "ABSENT"
    BY <2>1, RequestFields DEF RequestOK
  <2> QED BY <2>1, <2>2, <2>3, <2>4 DEF RequestOK
<1> QED BY <1>1, <1>2

LEMMA ReviewInsert ==
  ASSUME TypeOK, ReviewInv, NEW h \in Handlers, InsertVersion(h)
  PROVE  ReviewInv'
<1>1. PICK v \in Versions :
        /\ IsNextVersion(v)
        /\ status' = [status EXCEPT ![v] = "DRAFT"]
        /\ author' = [author EXCEPT ![v] = req[h].user]
        /\ sealed' = [sealed EXCEPT ![v] = req[h].seal]
  BY DEF InsertVersion
<1>2. UNCHANGED <<isDefault, refs, approvals>> /\ Finish(h)
  BY DEF InsertVersion, snapVars
<1>3. status[v] = "ABSENT"
  BY <1>1, NextIsAbsent
<1>4. \A w \in Versions : w # v =>
        author'[w] = author[w] /\ sealed'[w] = sealed[w] /\ status'[w] = status[w]
  BY <1>1 DEF TypeOK
<1>5. \A u \in Users : <<v, u>> \notin approvals
  BY <1>3 DEF ReviewInv, ApprovedExists
<1>6. ~Reviewed(v) /\ ~Reviewed(v)'
  BY <1>2, <1>5 DEF Reviewed
<1>7. \A w \in Versions : w # v => (Reviewed(w)' <=> Reviewed(w))
  BY <1>2, <1>4 DEF Reviewed, DecideVersionApproval, Allowed
<1>8. status'[v] = "DRAFT"
  BY <1>1 DEF TypeOK
<1>9. ReviewedBeforeExecutable'
  <2> SUFFICES ASSUME NEW w \in Versions,
                      status'[w] \in {"APPROVED", "DEPRECATED", "ARCHIVED"} \/ isDefault'[w] \/ refs'[w] # {}
               PROVE  Reviewed(w)'
    BY DEF ReviewedBeforeExecutable
  <2>1. w # v
    BY <1>2, <1>6, <1>8 DEF ReviewInv, ReviewedBeforeExecutable
  <2> QED BY <1>2, <1>4, <1>7, <2>1 DEF ReviewInv, ReviewedBeforeExecutable
<1>10. FrozenAsSealed'
  BY <1>2, <1>4, <1>6, <1>7 DEF ReviewInv, FrozenAsSealed
<1>11. ApprovedExists'
  BY <1>2, <1>4, <1>5 DEF ReviewInv, ApprovedExists
<1>12. \A k \in Handlers : RequestOK(k)'
  BY <1>2, <1>3, <1>4, <1>8, OthersKept
<1> QED BY <1>9, <1>10, <1>11, <1>12 DEF ReviewInv

(* A status update of an inserted version by a request that finishes: sound   *)
(* if the new status is not an executable one or the version was reviewed.    *)
LEMMA ReviewSetStatus ==
  ASSUME TypeOK, ReviewInv, NEW h \in Handlers, NEW v \in Versions,
         NEW st \in Statuses, SetStatus(v, st), status[v] # "ABSENT",
         st \in {"APPROVED", "DEPRECATED", "ARCHIVED"} => Reviewed(v),
         UNCHANGED <<isDefault, author, sealed, refs, approvals>>, Finish(h)
  PROVE  ReviewInv'
<1>1. \A w \in Versions : status'[w] = IF w = v THEN st ELSE status[w]
  BY DEF SetStatus, TypeOK
<1>2. \A w \in Versions : Reviewed(w)' <=> Reviewed(w)
  BY DEF Reviewed, DecideVersionApproval, Allowed
<1>3. ReviewedBeforeExecutable'
  BY <1>1, <1>2 DEF ReviewInv, ReviewedBeforeExecutable
<1>4. FrozenAsSealed'
  BY <1>2 DEF ReviewInv, FrozenAsSealed
<1>5. ApprovedExists'
  BY <1>1 DEF ReviewInv, ApprovedExists, Statuses
<1>6. \A k \in Handlers : RequestOK(k)'
  BY <1>1, OthersKept DEF Statuses
<1> QED BY <1>3, <1>4, <1>5, <1>6 DEF ReviewInv

LEMMA ReviewApprove ==
  ASSUME TypeOK, ReviewInv, NEW h \in Handlers, ApproveVersion(h)
  PROVE  ReviewInv'
<1>1. PICK v \in Versions, u \in Users : v = req[h].ver /\ u = req[h].user /\ RequestOK(h)
  BY RequestFields DEF ApproveVersion, Holds, ReviewInv
<1>2. DecideVersionApproval(u, v) /\ status[v] # "ABSENT"
  BY <1>1 DEF RequestOK, ApproveVersion, Holds
<1>3. UNCHANGED <<isDefault, author, sealed>> /\ Finish(h)
  BY DEF ApproveVersion
<1>4. CASE UNCHANGED <<refs, snapVars>> /\ (SetStatus(v, "REJECTED") \/ SetStatus(v, "DRAFT"))
  BY <1>1, <1>2, <1>3, <1>4, ReviewSetStatus DEF snapVars, Statuses
<1>5. CASE /\ FreezeApprovalVocabulary(v)
           /\ approvals' = approvals \union {<<v, u>>}
           /\ SetStatus(v, "APPROVED")
  <2>1. \A w \in Versions : status'[w] = IF w = v THEN "APPROVED" ELSE status[w]
    BY <1>5 DEF SetStatus, TypeOK
  <2>2. \A w \in Versions : refs'[w] = IF w = v THEN {author[v]} \X sealed[v] ELSE refs[w]
    BY <1>5 DEF FreezeApprovalVocabulary, Frozen, TypeOK
  <2>3. Reviewed(v)'
    <3>1. <<v, u>> \in approvals'
      BY <1>5
    <3>2. Allowed(u, v[1], "approve") /\ (v[1] \in TeamPolicies => author'[v] # u)
      BY <1>2, <1>3 DEF DecideVersionApproval
    <3> QED BY <3>1, <3>2 DEF Reviewed, DecideVersionApproval, Allowed
  <2>4. \A w \in Versions : w # v => (Reviewed(w)' <=> Reviewed(w))
    BY <1>3, <1>5 DEF Reviewed, DecideVersionApproval, Allowed
  <2>5. ReviewedBeforeExecutable'
    <3> SUFFICES ASSUME NEW w \in Versions, w # v,
                        status'[w] \in {"APPROVED", "DEPRECATED", "ARCHIVED"} \/ isDefault'[w] \/ refs'[w] # {}
                 PROVE  Reviewed(w)'
      BY <2>3 DEF ReviewedBeforeExecutable
    <3>1. status'[w] = status[w] /\ refs'[w] = refs[w] /\ isDefault'[w] = isDefault[w]
      BY <1>3, <2>1, <2>2
    <3>2. Reviewed(w)
      BY <3>1 DEF ReviewInv, ReviewedBeforeExecutable
    <3> QED BY <2>4, <3>2
  <2>6. FrozenAsSealed'
    BY <1>3, <2>2, <2>4 DEF ReviewInv, FrozenAsSealed
  <2>7. ApprovedExists'
    BY <1>5, <2>1 DEF ReviewInv, ApprovedExists
  <2>8. \A k \in Handlers : RequestOK(k)'
    BY <1>3, <1>5, <2>1, OthersKept
  <2> QED BY <2>5, <2>6, <2>7, <2>8 DEF ReviewInv
<1> QED BY <1>1, <1>4, <1>5 DEF ApproveVersion

LEMMA ReviewSetDefault ==
  ASSUME TypeOK, ReviewInv, NEW h \in Handlers, SetDefaultVersion(h)
  PROVE  ReviewInv'
<1>1. req[h].ver \in Versions /\ Reviewed(req[h].ver)
  BY RequestFields DEF SetDefaultVersion, Holds, ReviewInv, RequestOK
<1>2. UNCHANGED <<status, author, sealed, refs, approvals>> /\ Finish(h)
  BY DEF SetDefaultVersion, snapVars
<1>3. \A w \in Versions : isDefault'[w] => w = req[h].ver \/ isDefault[w]
  BY DEF SetDefaultVersion
<1>4. \A w \in Versions : Reviewed(w)' <=> Reviewed(w)
  BY <1>2 DEF Reviewed, DecideVersionApproval, Allowed
<1>5. ReviewedBeforeExecutable'
  BY <1>1, <1>2, <1>3, <1>4 DEF ReviewInv, ReviewedBeforeExecutable
<1>6. FrozenAsSealed' /\ ApprovedExists'
  BY <1>2, <1>4 DEF ReviewInv, FrozenAsSealed, ApprovedExists
<1>7. \A k \in Handlers : RequestOK(k)'
  BY <1>2, OthersKept DEF ReviewInv, TypeOK
<1> QED BY <1>5, <1>6, <1>7 DEF ReviewInv

(* Reading establishes what the request relies on when it acts. *)
LEMMA ReadOK ==
  ASSUME TypeOK, ReviewInv, NEW h \in Handlers,
         \/ BeginCreate(h) \/ BeginSubmit(h) \/ BeginApprove(h) \/ BeginSetDefault(h)
         \/ BeginDeprecate(h) \/ BeginArchive(h) \/ BeginSoftDelete(h)
         \/ BeginRestore(h) \/ BeginPermanentDelete(h) \/ BeginCleanup(h)
  PROVE  ReviewInv'
<1>1. PICK r \in Requests : Begin(h, r)
  BY ReadPhase
<1>2. UNCHANGED <<verVars, approvals>> /\ req' = [req EXCEPT ![h] = r]
  BY <1>1 DEF Begin, snapVars
<1>3. UNCHANGED <<status, isDefault, author, sealed, refs, approvals>>
  BY <1>2 DEF verVars
<1>4. \A w \in Versions : Reviewed(w)' <=> Reviewed(w)
  BY <1>3 DEF Reviewed, DecideVersionApproval, Allowed
<1>5. /\ r.op \in {"setDefault", "clearing", "deprecate", "archive"} => r.ver \in Versions /\ Reviewed(r.ver)
      /\ r.op = "approve" => DecideVersionApproval(r.user, r.ver)
      /\ r.op \in {"submit", "approve"} => status[r.ver] # "ABSENT"
  <2>1. ASSUME NEW q, Begin(h, q) PROVE r = q
    BY <1>1, <2>1 DEF Begin, TypeOK
  <2>2. CASE BeginCreate(h)
    <3>1. PICK q : Begin(h, q) /\ q.op = "create"
      BY <2>2 DEF BeginCreate
    <3> QED BY <2>1, <3>1
  <2>3. CASE BeginSubmit(h)
    <3>1. PICK q : Begin(h, q) /\ q.op = "submit" /\ status[q.ver] # "ABSENT"
      BY <2>3 DEF BeginSubmit
    <3> QED BY <2>1, <3>1
  <2>4. CASE BeginApprove(h)
    <3>1. PICK w \in Versions, u \in Users, d \in Decisions :
            /\ status[w] = "PENDING_APPROVAL"
            /\ DecideVersionApproval(u, w)
            /\ Begin(h, [op |-> "approve", ver |-> w, user |-> u, decision |-> d])
      BY <2>4 DEF BeginApprove
    <3>2. r = [op |-> "approve", ver |-> w, user |-> u, decision |-> d]
      BY <2>1, <3>1
    <3> QED BY <3>1, <3>2
  <2>5. CASE BeginSetDefault(h) \/ BeginDeprecate(h) \/ BeginArchive(h)
    <3>1. PICK w \in Versions, op \in {"setDefault", "deprecate", "archive"} :
            /\ status[w] \in {"APPROVED", "DEPRECATED"}
            /\ Begin(h, [op |-> op, ver |-> w])
      BY <2>5 DEF BeginSetDefault, BeginDeprecate, BeginArchive
    <3>2. Reviewed(w)
      BY <3>1 DEF ReviewInv, ReviewedBeforeExecutable
    <3>3. r = [op |-> op, ver |-> w]
      BY <2>1, <3>1
    <3> QED BY <3>1, <3>2, <3>3
  <2>6. CASE BeginSoftDelete(h) \/ BeginRestore(h) \/ BeginPermanentDelete(h)
    <3>1. PICK p \in Policies, op \in {"softDelete", "restore", "purge"} :
            Begin(h, [op |-> op, pol |-> p])
      BY <2>6 DEF BeginSoftDelete, BeginRestore, BeginPermanentDelete
    <3>2. r = [op |-> op, pol |-> p]
      BY <2>1, <3>1
    <3> QED BY <3>2
  <2>7. CASE BeginCleanup(h)
    <3>1. PICK queue \in SUBSET Policies : Begin(h, [op |-> "cleanup", queue |-> queue])
      BY <2>7 DEF BeginCleanup
    <3>2. r = [op |-> "cleanup", queue |-> queue]
      BY <2>1, <3>1
    <3> QED BY <3>2
  <2> QED BY <2>2, <2>3, <2>4, <2>5, <2>6, <2>7
<1>6. req'[h] = r /\ \A k \in Handlers \ {h} : req'[k] = req[k]
  BY <1>2 DEF TypeOK
<1>7. RequestOK(h)'
  BY <1>3, <1>4, <1>5, <1>6 DEF RequestOK, DecideVersionApproval, Allowed
<1> QED BY <1>2, <1>6, <1>7, ReviewFrame

LEMMA ReviewInit == Init => ReviewInv
BY DEF Init, ReviewInv, ReviewedBeforeExecutable, FrozenAsSealed, ApprovedExists, RequestOK, Reviewed, Idle

LEMMA ReviewStep == TypeOK /\ ReviewInv /\ [Next]_vars => ReviewInv'
<1> SUFFICES ASSUME TypeOK, ReviewInv, [Next]_vars PROVE ReviewInv'
  OBVIOUS
<1>1. ASSUME UNCHANGED <<verVars, approvals, req>> PROVE ReviewInv'
  BY <1>1 DEF ReviewInv, ReviewedBeforeExecutable, FrozenAsSealed, ApprovedExists,
              RequestOK, Reviewed, DecideVersionApproval, Allowed, verVars
<1>2. CASE UNCHANGED vars
  BY <1>1, <1>2 DEF vars, snapVars
<1>3. ASSUME NEW u \in Users, EditVocabulary(u) PROVE ReviewInv'
  BY <1>1, <1>3 DEF EditVocabulary, snapVars
<1>4. ASSUME NEW h \in Handlers, SubmitForApproval(h) \/ DeprecateVersion(h) \/ ArchiveVersion(h)
      PROVE  ReviewInv'
  <2>1. req[h].ver \in Versions /\ RequestOK(h)
    BY <1>4, RequestFields
       DEF ReviewInv, SubmitForApproval, DeprecateVersion, ArchiveVersion, Holds
  <2>2. UNCHANGED <<isDefault, author, sealed, refs, approvals>> /\ Finish(h)
    BY <1>4 DEF SubmitForApproval, DeprecateVersion, ArchiveVersion, snapVars
  <2>3. CASE SubmitForApproval(h)
    BY <2>1, <2>2, <2>3, ReviewSetStatus DEF SubmitForApproval, Holds, RequestOK, Statuses
  <2>4. CASE DeprecateVersion(h) \/ ArchiveVersion(h)
    <3>1. Reviewed(req[h].ver)
      BY <2>1, <2>4 DEF DeprecateVersion, ArchiveVersion, Holds, RequestOK
    <3>2. status[req[h].ver] # "ABSENT"
      BY <2>1, <3>1 DEF ReviewInv, ApprovedExists, Reviewed
    <3> QED BY <2>1, <2>2, <2>4, <3>1, <3>2, ReviewSetStatus
            DEF DeprecateVersion, ArchiveVersion, Statuses
  <2> QED BY <1>4, <2>3, <2>4
<1>5. ASSUME NEW h \in Handlers, ClearDefaults(h) PROVE ReviewInv'
  <2>1. /\ req'[h].op = "clearing" /\ req'[h].ver = req[h].ver
        /\ \A k \in Handlers \ {h} : req'[k] = req[k]
    BY <1>5 DEF ClearDefaults, TypeOK
  <2>2. Reviewed(req[h].ver)
    BY <1>5 DEF ClearDefaults, Holds, ReviewInv, RequestOK
  <2>3. UNCHANGED <<verVars, approvals>>
    BY <1>5 DEF ClearDefaults, snapVars
  <2>4. RequestOK(h)'
    BY <2>1, <2>2, <2>3 DEF RequestOK, Reviewed, DecideVersionApproval, Allowed, verVars
  <2> QED BY <2>1, <2>3, <2>4, ReviewFrame
<1>6. ASSUME NEW h \in Handlers,
             \/ SoftDeletePolicy(h) \/ RestorePolicy(h) \/ PermanentDeletePolicy(h) \/ Abandon(h)
      PROVE  ReviewInv'
  <2>1. UNCHANGED <<verVars, approvals>> /\ Finish(h)
    BY <1>6 DEF SoftDeletePolicy, RestorePolicy, PermanentDeletePolicy, Abandon, snapVars
  <2> QED BY <2>1, FinishFrame, ReviewFrame
<1>7. ASSUME NEW h \in Handlers, CleanupExpiredTrashItem(h) PROVE ReviewInv'
  <2>1. UNCHANGED <<verVars, approvals>> /\ \A k \in Handlers \ {h} : req'[k] = req[k]
    BY <1>7 DEF CleanupExpiredTrashItem, TypeOK
  <2>2. req'[h].op \in {"idle", "cleanup"}
    BY <1>7 DEF CleanupExpiredTrashItem, TypeOK, Idle
  <2>3. RequestOK(h)'
    BY <2>2 DEF RequestOK
  <2> QED BY <2>1, <2>3, ReviewFrame
<1> QED
  BY <1>2, <1>3, <1>4, <1>5, <1>6, <1>7, ReadOK, ReviewInsert, ReviewApprove, ReviewSetDefault
  DEF Next

(* No version becomes executable without a review by an entitled other        *)
(* person (approveVersion, setDefaultVersion).                                *)
THEOREM ReviewSafety == Spec => []ReviewedBeforeExecutable
<1>1. ReviewInv => ReviewedBeforeExecutable
  BY DEF ReviewInv
<1> QED BY <1>1, TypeCorrect, ReviewInit, ReviewStep, PTL DEF Spec

(* What an approved version runs with is what it was sealed with, however     *)
(* often it is reopened and approved again (freezeApprovalVocabulary).        *)
THEOREM FrozenSafety == Spec => []FrozenAsSealed
<1>1. ReviewInv => FrozenAsSealed
  BY DEF ReviewInv
<1> QED BY <1>1, TypeCorrect, ReviewInit, ReviewStep, PTL DEF Spec

-----------------------------------------------------------------------------
(* Trash and reference counts *)

LEMMA BinInit == Init => BinIffTrashed
BY DEF Init, BinIffTrashed

(* Every write to the policy row writes its bin row in the same transaction. *)
LEMMA BinStep == TypeOK /\ BinIffTrashed /\ [Next]_vars => BinIffTrashed'
<1> SUFFICES ASSUME TypeOK, BinIffTrashed, [Next]_vars PROVE BinIffTrashed'
  OBVIOUS
<1>1. ASSUME UNCHANGED rowVars PROVE BinIffTrashed'
  BY <1>1 DEF rowVars, BinIffTrashed
<1>2. ASSUME NEW p \in Policies, PurgePolicy(p) PROVE BinIffTrashed'
  BY <1>2 DEF PurgePolicy, BinIffTrashed, TypeOK
<1>3. CASE UNCHANGED vars
  BY <1>1, <1>3 DEF vars
<1>4. ASSUME NEW u \in Users, EditVocabulary(u) PROVE BinIffTrashed'
  BY <1>1, <1>4 DEF EditVocabulary
<1>5. ASSUME NEW h \in Handlers,
             \/ BeginCreate(h) \/ BeginSubmit(h) \/ BeginApprove(h) \/ BeginSetDefault(h)
             \/ BeginDeprecate(h) \/ BeginArchive(h) \/ BeginSoftDelete(h)
             \/ BeginRestore(h) \/ BeginPermanentDelete(h) \/ BeginCleanup(h)
      PROVE  UNCHANGED rowVars
  BY <1>5, ReadPhase DEF Begin
<1>6. ASSUME NEW h \in Handlers,
             \/ InsertVersion(h) \/ SubmitForApproval(h) \/ ApproveVersion(h)
             \/ ClearDefaults(h) \/ SetDefaultVersion(h) \/ DeprecateVersion(h)
             \/ ArchiveVersion(h) \/ Abandon(h)
      PROVE  UNCHANGED rowVars
  BY <1>6 DEF InsertVersion, SubmitForApproval, ApproveVersion, ClearDefaults,
              SetDefaultVersion, DeprecateVersion, ArchiveVersion, Abandon
<1>7. ASSUME NEW h \in Handlers, SoftDeletePolicy(h) \/ RestorePolicy(h) PROVE BinIffTrashed'
  BY <1>7 DEF SoftDeletePolicy, RestorePolicy, BinIffTrashed, TypeOK
<1>8. ASSUME NEW h \in Handlers, PermanentDeletePolicy(h) PROVE BinIffTrashed'
  BY <1>2, <1>8, RequestFields DEF PermanentDeletePolicy, Holds
<1>9. ASSUME NEW h \in Handlers, CleanupExpiredTrashItem(h) PROVE BinIffTrashed'
  BY <1>2, <1>9, RequestFields DEF CleanupExpiredTrashItem, Holds
<1> QED BY <1>1, <1>3, <1>4, <1>5, <1>6, <1>7, <1>8, <1>9 DEF Next

(* The recycle bin lists exactly the trashed policies (softDeletePolicy,      *)
(* restorePolicy, purgePolicy).                                               *)
THEOREM BinSafety == Spec => []BinIffTrashed
<1> QED BY TypeCorrect, BinInit, BinStep, PTL DEF Spec

LEMMA LiveHoldersFinite ==
  ASSUME NEW s
  PROVE  IsFiniteSet(LiveHolders(s)) /\ Cardinality(LiveHolders(s)) \in Nat
<1>1. LiveHolders(s) \subseteq Versions
  BY DEF LiveHolders
<1> QED BY <1>1, VersionsFinite, FS_Subset, FS_CardinalityType

(* Purging gives back exactly the references the policy's versions held. *)
LEMMA PurgeCovers ==
  ASSUME TypeOK, RefCountCovers, NEW p \in Policies, PurgePolicy(p), UNCHANGED refs
  PROVE  RefCountCovers'
<1> SUFFICES ASSUME NEW s \in Snapshots PROVE refCount'[s] >= Cardinality(LiveHolders(s)')
  BY DEF RefCountCovers, LiveHolders
<1>1. CASE UNCHANGED <<policy, refCount>>
  BY <1>1 DEF RefCountCovers, LiveHolders
<1>2. CASE /\ policy[p] # "gone"
           /\ policy' = [policy EXCEPT ![p] = "gone"]
           /\ ReleaseSnapshotRefsForPolicy(p)
  <2>1. Holders(p, s) \subseteq LiveHolders(s)
    BY <1>2 DEF Holders, LiveHolders
  <2>2. LiveHolders(s)' = LiveHolders(s) \ Holders(p, s)
    <3>1. \A v \in Versions : v[1] \in Policies
      BY DEF Versions
    <3> QED BY <1>2, <3>1 DEF Holders, LiveHolders, TypeOK
  <2>3. /\ IsFiniteSet(LiveHolders(s)) /\ Cardinality(LiveHolders(s)) \in Nat
        /\ IsFiniteSet(Holders(p, s)) /\ Cardinality(Holders(p, s)) \in Nat
    BY LiveHoldersFinite, HoldersFinite
  <2>4. Cardinality(LiveHolders(s)') = Cardinality(LiveHolders(s)) - Cardinality(Holders(p, s))
    <3>1. LiveHolders(s) \cap Holders(p, s) = Holders(p, s)
      BY <2>1
    <3>2. Cardinality(LiveHolders(s) \ Holders(p, s))
            = Cardinality(LiveHolders(s)) - Cardinality(LiveHolders(s) \cap Holders(p, s))
      BY <2>3, FS_Difference
    <3> QED BY <2>2, <3>1, <3>2
  <2>5. refCount[s] \in Nat /\ refCount[s] >= Cardinality(LiveHolders(s))
    BY DEF TypeOK, RefCountCovers
  <2>6. Cardinality(Holders(p, s)) <= Cardinality(LiveHolders(s))
    BY <2>1, <2>3, FS_Subset
  <2>7. refCount'[s] = refCount[s] - Cardinality(Holders(p, s))
    BY <1>2, <2>3, <2>5, <2>6 DEF ReleaseSnapshotRefsForPolicy
  <2> QED BY <2>3, <2>4, <2>5, <2>7
<1> QED BY <1>1, <1>2 DEF PurgePolicy

(* An approval adds one reference, and counts it, for each frozen snapshot. *)
LEMMA ApproveCovers ==
  ASSUME TypeOK, RefCountCovers, NEW h \in Handlers, ApproveVersion(h)
  PROVE  RefCountCovers'
<1> SUFFICES ASSUME NEW s \in Snapshots PROVE refCount'[s] >= Cardinality(LiveHolders(s)')
  BY DEF RefCountCovers, LiveHolders
<1>1. PICK v \in Versions : v = req[h].ver
  BY RequestFields DEF ApproveVersion, Holds
<1>2. UNCHANGED policy
  BY DEF ApproveVersion, rowVars
<1>3. CASE UNCHANGED <<refs, refCount>>
  BY <1>2, <1>3 DEF RefCountCovers, LiveHolders
<1>4. CASE FreezeApprovalVocabulary(v)
  <2>1. \A w \in Versions : refs'[w] = IF w = v THEN Frozen(v) ELSE refs[w]
    BY <1>4 DEF FreezeApprovalVocabulary, TypeOK
  <2>2. IsFiniteSet(LiveHolders(s)) /\ Cardinality(LiveHolders(s)) \in Nat
    BY LiveHoldersFinite
  <2>3. refCount[s] \in Nat /\ refCount[s] >= Cardinality(LiveHolders(s))
    BY DEF TypeOK, RefCountCovers
  <2>4. CASE s \in Frozen(v)
    <3>1. LiveHolders(s)' \subseteq LiveHolders(s) \union {v}
      BY <1>2, <2>1 DEF LiveHolders
    <3>2. /\ IsFiniteSet(LiveHolders(s) \union {v})
          /\ Cardinality(LiveHolders(s) \union {v}) <= Cardinality(LiveHolders(s)) + 1
      <4>1. Cardinality(LiveHolders(s) \union {v})
              = IF v \in LiveHolders(s) THEN Cardinality(LiveHolders(s)) ELSE Cardinality(LiveHolders(s)) + 1
        BY <2>2, FS_AddElement, Zenon
      <4>2. IsFiniteSet(LiveHolders(s) \union {v})
        BY <2>2, FS_AddElement, Zenon
      <4> QED BY <2>2, <4>1, <4>2
    <3>3. /\ Cardinality(LiveHolders(s)') <= Cardinality(LiveHolders(s) \union {v})
          /\ Cardinality(LiveHolders(s)') \in Nat /\ Cardinality(LiveHolders(s) \union {v}) \in Nat
      BY <3>1, <3>2, FS_Subset, FS_CardinalityType
    <3>4. refCount'[s] = refCount[s] + 1
      BY <1>4, <2>4 DEF FreezeApprovalVocabulary
    <3> QED BY <2>2, <2>3, <3>2, <3>3, <3>4
  <2>5. CASE s \notin Frozen(v)
    <3>1. LiveHolders(s)' \subseteq LiveHolders(s)
      BY <1>2, <2>1, <2>5 DEF LiveHolders
    <3>2. /\ Cardinality(LiveHolders(s)') <= Cardinality(LiveHolders(s))
          /\ Cardinality(LiveHolders(s)') \in Nat
      BY <2>2, <3>1, FS_Subset, FS_CardinalityType
    <3>3. refCount'[s] = refCount[s]
      BY <1>4, <2>5 DEF FreezeApprovalVocabulary
    <3> QED BY <2>2, <2>3, <3>2, <3>3
  <2> QED BY <2>4, <2>5
<1> QED BY <1>1, <1>3, <1>4 DEF ApproveVersion, snapVars

LEMMA CoversInit == Init => RefCountCovers
<1> SUFFICES ASSUME Init, NEW s \in Snapshots PROVE refCount[s] >= Cardinality(LiveHolders(s))
  BY DEF RefCountCovers
<1>1. LiveHolders(s) = {} /\ refCount[s] = 0
  BY DEF Init, LiveHolders
<1> QED BY <1>1, FS_EmptySet

LEMMA CoversStep == TypeOK /\ RefCountCovers /\ [Next]_vars => RefCountCovers'
<1> SUFFICES ASSUME TypeOK, RefCountCovers, [Next]_vars PROVE RefCountCovers'
  OBVIOUS
<1>1. ASSUME UNCHANGED <<refs, refCount>>,
             \A p \in Policies : policy'[p] = "gone" <=> policy[p] = "gone"
      PROVE  RefCountCovers'
  <2>1. \A s : LiveHolders(s)' = LiveHolders(s)
    BY <1>1 DEF LiveHolders, Versions
  <2> QED BY <1>1, <2>1 DEF RefCountCovers
<1>2. CASE UNCHANGED vars
  BY <1>1, <1>2 DEF vars, verVars, snapVars, rowVars
<1>3. ASSUME NEW u \in Users, EditVocabulary(u) PROVE RefCountCovers'
  BY <1>1, <1>3 DEF EditVocabulary, verVars, snapVars, rowVars
<1>4. ASSUME NEW h \in Handlers,
             \/ BeginCreate(h) \/ BeginSubmit(h) \/ BeginApprove(h) \/ BeginSetDefault(h)
             \/ BeginDeprecate(h) \/ BeginArchive(h) \/ BeginSoftDelete(h)
             \/ BeginRestore(h) \/ BeginPermanentDelete(h) \/ BeginCleanup(h)
      PROVE  RefCountCovers'
  BY <1>1, <1>4, ReadPhase DEF Begin, verVars, snapVars, rowVars
<1>5. ASSUME NEW h \in Handlers,
             \/ InsertVersion(h) \/ SubmitForApproval(h) \/ ClearDefaults(h)
             \/ SetDefaultVersion(h) \/ DeprecateVersion(h) \/ ArchiveVersion(h) \/ Abandon(h)
      PROVE  RefCountCovers'
  <2>1. UNCHANGED <<policy, refs, refCount>>
    BY <1>5 DEF InsertVersion, SubmitForApproval, ClearDefaults, SetDefaultVersion,
                DeprecateVersion, ArchiveVersion, Abandon, verVars, snapVars, rowVars
  <2> QED BY <1>1, <2>1
<1>6. ASSUME NEW h \in Handlers, SoftDeletePolicy(h) \/ RestorePolicy(h) PROVE RefCountCovers'
  BY <1>1, <1>6 DEF SoftDeletePolicy, RestorePolicy, TypeOK, verVars, snapVars
<1>7. ASSUME NEW h \in Handlers, PermanentDeletePolicy(h) PROVE RefCountCovers'
  BY <1>7, PurgeCovers, RequestFields DEF PermanentDeletePolicy, Holds, verVars
<1>8. ASSUME NEW h \in Handlers, CleanupExpiredTrashItem(h) PROVE RefCountCovers'
  BY <1>8, PurgeCovers, RequestFields DEF CleanupExpiredTrashItem, Holds, verVars
<1> QED BY <1>2, <1>3, <1>4, <1>5, <1>6, <1>7, <1>8, ApproveCovers DEF Next

(* No snapshot is counted less than existing policies' versions reference it  *)
(* (freezeApprovalVocabulary, releaseSnapshotRefsForPolicy).                  *)
THEOREM RefCountSafety == Spec => []RefCountCovers
<1> QED BY TypeCorrect, CoversInit, CoversStep, PTL DEF Spec

-----------------------------------------------------------------------------
(* Counting: a count rises only where a pending version becomes approved *)

LEMMA PurgeCountsNothing ==
  ASSUME TypeOK, NEW p \in Policies, PurgePolicy(p), NEW s \in Snapshots
  PROVE  ~(refCount'[s] > refCount[s])
<1>1. CASE UNCHANGED refCount
  BY <1>1 DEF TypeOK
<1>2. CASE ReleaseSnapshotRefsForPolicy(p)
  <2>1. refCount[s] \in Nat /\ Cardinality(Holders(p, s)) \in Nat
    BY HoldersFinite DEF TypeOK
  <2>2. refCount'[s] = IF refCount[s] >= Cardinality(Holders(p, s))
                       THEN refCount[s] - Cardinality(Holders(p, s)) ELSE 0
    BY <1>2 DEF ReleaseSnapshotRefsForPolicy
  <2> QED BY <2>1, <2>2
<1> QED BY <1>1, <1>2 DEF PurgePolicy

(* lockPolicyForSnapshotRefs, lockPendingVersion: a snapshot is counted again *)
(* only for a version that leaves PENDING_APPROVAL in that very transaction,  *)
(* on a policy that nobody has thrown away.                                   *)
THEOREM CountedOnce == Spec => CountedOncePerSubmission
<1>1. ASSUME TypeOK, [Next]_vars, NEW s \in Snapshots, refCount'[s] > refCount[s]
      PROVE  \E v \in Versions : /\ status[v] = "PENDING_APPROVAL" /\ status'[v] = "APPROVED"
                                 /\ policy[v[1]] = "live"
  <2>1. CASE UNCHANGED refCount
    BY <1>1, <2>1 DEF TypeOK
  <2>2. CASE \E h \in Handlers : ApproveVersion(h)
    <3>1. PICK h \in Handlers : ApproveVersion(h)
      BY <2>2
    <3>2. PICK v \in Versions : v = req[h].ver
      BY <1>1, <3>1, RequestFields DEF ApproveVersion, Holds
    <3>3. policy[v[1]] = "live" /\ status[v] = "PENDING_APPROVAL"
      BY <3>1, <3>2 DEF ApproveVersion, LockPolicyForSnapshotRefs, LockPendingVersion
    <3>4. CASE SetStatus(v, "APPROVED")
      BY <1>1, <3>3, <3>4 DEF SetStatus, TypeOK
    <3>5. CASE UNCHANGED <<refs, snapVars>>
      BY <2>1, <3>5 DEF snapVars
    <3> QED BY <3>1, <3>2, <3>4, <3>5 DEF ApproveVersion
  <2>3. CASE \E h \in Handlers : PermanentDeletePolicy(h) \/ CleanupExpiredTrashItem(h)
    <3>1. PICK h \in Handlers : PermanentDeletePolicy(h) \/ CleanupExpiredTrashItem(h)
      BY <2>3
    <3>2. PICK p \in Policies : PurgePolicy(p)
      BY <1>1, <3>1, RequestFields DEF PermanentDeletePolicy, CleanupExpiredTrashItem, Holds
    <3> QED BY <1>1, <3>2, PurgeCountsNothing
  <2>4. ASSUME NEW h \in Handlers,
               \/ BeginCreate(h) \/ BeginSubmit(h) \/ BeginApprove(h) \/ BeginSetDefault(h)
               \/ BeginDeprecate(h) \/ BeginArchive(h) \/ BeginSoftDelete(h)
               \/ BeginRestore(h) \/ BeginPermanentDelete(h) \/ BeginCleanup(h)
        PROVE  UNCHANGED refCount
    BY <1>1, <2>4, ReadPhase DEF Begin, snapVars
  <2>5. ASSUME NEW h \in Handlers,
               \/ InsertVersion(h) \/ SubmitForApproval(h) \/ ClearDefaults(h)
               \/ SetDefaultVersion(h) \/ DeprecateVersion(h) \/ ArchiveVersion(h)
               \/ SoftDeletePolicy(h) \/ RestorePolicy(h) \/ Abandon(h)
        PROVE  UNCHANGED refCount
    BY <2>5 DEF InsertVersion, SubmitForApproval, ClearDefaults, SetDefaultVersion,
                DeprecateVersion, ArchiveVersion, SoftDeletePolicy, RestorePolicy, Abandon, snapVars
  <2>6. ASSUME NEW u \in Users, EditVocabulary(u) PROVE UNCHANGED refCount
    BY <2>6 DEF EditVocabulary, snapVars
  <2>7. ASSUME UNCHANGED vars PROVE UNCHANGED refCount
    BY <2>7 DEF vars, snapVars
  <2> QED BY <1>1, <2>1, <2>2, <2>3, <2>4, <2>5, <2>6, <2>7 DEF Next
<1>2. TypeOK /\ [Next]_vars =>
        ((\E s \in Snapshots : refCount'[s] > refCount[s]) =>
           \E v \in Versions : /\ status[v] = "PENDING_APPROVAL" /\ status'[v] = "APPROVED"
                               /\ policy[v[1]] = "live")
  BY <1>1
<1> QED BY <1>2, TypeCorrect, PTL DEF Spec, CountedOncePerSubmission

-----------------------------------------------------------------------------
(* Requests that do not overlap *)

OneAtATime == \A h, k \in Handlers : h = k

(* What the request under way read is still so: nothing runs in between. *)
SerialRequest(h) ==
  /\ req[h].op = "submit" => status[req[h].ver] \in {"DRAFT", "REJECTED"}
  /\ req[h].op \in {"setDefault", "clearing"} => status[req[h].ver] = "APPROVED"
  /\ req[h].op = "clearing" =>
       \A w \in Versions : isDefault[w] /\ w[1] = req[h].ver[1] => w \in req[h].old
  /\ req[h].op \in {"deprecate", "archive"} =>
       ~isDefault[req[h].ver] /\ status[req[h].ver] \in {"APPROVED", "DEPRECATED"}

OneApprovedDefault ==
  /\ \A v \in Versions : isDefault[v] => status[v] = "APPROVED"
  /\ \A v, w \in Versions : isDefault[v] /\ isDefault[w] /\ v[1] = w[1] => v = w

(* A version that waits for approval holds no snapshot yet. *)
FrozenOnce ==
  \A v \in Versions : refs[v] # {} => status[v] \in {"APPROVED", "DEPRECATED", "ARCHIVED"}

SerialInv ==
  /\ OneApprovedDefault /\ FrozenOnce /\ RefCountExact
  /\ \A h \in Handlers : SerialRequest(h)

LEMMA SerialEnds ==
  ASSUME OneAtATime, TypeOK, NEW h \in Handlers, req'[h].op \in {"idle", "cleanup"}
  PROVE  \A k \in Handlers : SerialRequest(k)'
<1>1. SerialRequest(h)'
  BY DEF SerialRequest
<1> QED BY <1>1 DEF OneAtATime

LEMMA FinishedIsIdle ==
  ASSUME TypeOK, NEW h \in Handlers, Finish(h)
  PROVE  req'[h].op = "idle"
BY DEF TypeOK, Finish, Idle

LEMMA CountsSame ==
  ASSUME RefCountExact, UNCHANGED <<policy, refs, refCount>>
  PROVE  RefCountExact'
BY DEF RefCountExact, LiveHolders

(* A request sets a status and ends: no default loses its approval, and no    *)
(* version that holds a snapshot becomes pending again.                       *)
LEMMA SerialSetStatus ==
  ASSUME OneAtATime, TypeOK, SerialInv, NEW h \in Handlers, NEW v \in Versions, NEW st,
         status' = [status EXCEPT ![v] = st], Finish(h),
         UNCHANGED <<policy, isDefault, refs, refCount>>,
         ~isDefault[v],
         refs[v] = {} \/ st \in {"APPROVED", "DEPRECATED", "ARCHIVED"}
  PROVE  SerialInv'
<1>1. \A w \in Versions : status'[w] = IF w = v THEN st ELSE status[w]
  BY DEF TypeOK
<1>2. OneApprovedDefault'
  BY <1>1 DEF SerialInv, OneApprovedDefault
<1>3. FrozenOnce'
  BY <1>1 DEF SerialInv, FrozenOnce
<1> QED BY <1>2, <1>3, CountsSame, FinishedIsIdle, SerialEnds DEF SerialInv

(* A request that names no version, or none that has changed. *)
LEMMA SerialFrame ==
  ASSUME OneAtATime, TypeOK, SerialInv, NEW h \in Handlers,
         UNCHANGED <<policy, status, isDefault, refs, refCount>>, SerialRequest(h)'
  PROVE  SerialInv'
<1>1. OneApprovedDefault' /\ FrozenOnce'
  BY DEF SerialInv, OneApprovedDefault, FrozenOnce
<1>2. \A k \in Handlers : SerialRequest(k)'
  BY DEF OneAtATime
<1> QED BY <1>1, <1>2, CountsSame DEF SerialInv

LEMMA SerialRead ==
  ASSUME OneAtATime, TypeOK, SerialInv, NEW h \in Handlers,
         \/ BeginCreate(h) \/ BeginSubmit(h) \/ BeginApprove(h) \/ BeginSetDefault(h)
         \/ BeginDeprecate(h) \/ BeginArchive(h) \/ BeginSoftDelete(h)
         \/ BeginRestore(h) \/ BeginPermanentDelete(h) \/ BeginCleanup(h)
  PROVE  SerialInv'
<1>1. PICK r \in Requests : Begin(h, r)
  BY ReadPhase
<1>2. /\ UNCHANGED <<policy, status, isDefault, refs, refCount>>
      /\ req' = [req EXCEPT ![h] = r] /\ req'[h] = r
  BY <1>1 DEF Begin, rowVars, verVars, snapVars, TypeOK
<1>3. ASSUME NEW q, Begin(h, q) PROVE r = q
  BY <1>1, <1>3 DEF Begin, TypeOK
<1>4. /\ r.op = "submit" => status[r.ver] \in {"DRAFT", "REJECTED"}
      /\ r.op = "setDefault" => status[r.ver] = "APPROVED"
      /\ r.op # "clearing"
      /\ r.op \in {"deprecate", "archive"} =>
           ~isDefault[r.ver] /\ status[r.ver] \in {"APPROVED", "DEPRECATED"}
  <2>1. CASE BeginCreate(h)
    <3>1. PICK q : Begin(h, q) /\ q.op = "create"
      BY <2>1 DEF BeginCreate
    <3> QED BY <1>3, <3>1
  <2>2. CASE BeginSubmit(h)
    <3>1. PICK q : Begin(h, q) /\ q.op = "submit" /\ status[q.ver] \in {"DRAFT", "REJECTED"}
      BY <2>2 DEF BeginSubmit
    <3> QED BY <1>3, <3>1
  <2>3. CASE BeginApprove(h)
    <3>1. PICK q : Begin(h, q) /\ q.op = "approve"
      BY <2>3 DEF BeginApprove
    <3> QED BY <1>3, <3>1
  <2>4. CASE BeginSetDefault(h)
    <3>1. PICK q : Begin(h, q) /\ q.op = "setDefault" /\ status[q.ver] = "APPROVED"
      BY <2>4 DEF BeginSetDefault
    <3> QED BY <1>3, <3>1
  <2>5. CASE BeginDeprecate(h)
    <3>1. PICK q : Begin(h, q) /\ q.op = "deprecate" /\ status[q.ver] = "APPROVED" /\ ~isDefault[q.ver]
      BY <2>5 DEF BeginDeprecate
    <3> QED BY <1>3, <3>1
  <2>6. CASE BeginArchive(h)
    <3>1. PICK q : /\ Begin(h, q) /\ q.op = "archive" /\ ~isDefault[q.ver]
                   /\ status[q.ver] \in {"APPROVED", "DEPRECATED"}
      BY <2>6 DEF BeginArchive
    <3> QED BY <1>3, <3>1
  <2>7. CASE BeginSoftDelete(h) \/ BeginRestore(h) \/ BeginPermanentDelete(h)
    <3>1. PICK p \in Policies, op \in {"softDelete", "restore", "purge"} :
            Begin(h, [op |-> op, pol |-> p])
      BY <2>7 DEF BeginSoftDelete, BeginRestore, BeginPermanentDelete
    <3>2. r = [op |-> op, pol |-> p]
      BY <1>3, <3>1
    <3> QED BY <3>2
  <2>8. CASE BeginCleanup(h)
    <3>1. PICK q : Begin(h, q) /\ q.op = "cleanup"
      BY <2>8 DEF BeginCleanup
    <3> QED BY <1>3, <3>1
  <2> QED BY <2>1, <2>2, <2>3, <2>4, <2>5, <2>6, <2>7, <2>8
<1>5. SerialRequest(h)'
  BY <1>2, <1>4 DEF SerialRequest
<1> QED BY <1>2, <1>5, SerialFrame

(* Purging takes away the references of one policy, and as many counts. *)
LEMMA PurgeExact ==
  ASSUME TypeOK, RefCountExact, NEW p \in Policies, PurgePolicy(p), UNCHANGED refs
  PROVE  RefCountExact'
<1> SUFFICES ASSUME NEW s \in Snapshots PROVE refCount'[s] = Cardinality(LiveHolders(s)')
  BY DEF RefCountExact, LiveHolders
<1>1. CASE UNCHANGED <<policy, refCount>>
  BY <1>1 DEF RefCountExact, LiveHolders
<1>2. CASE /\ policy[p] # "gone"
           /\ policy' = [policy EXCEPT ![p] = "gone"]
           /\ ReleaseSnapshotRefsForPolicy(p)
  <2>1. PICK live, held : live = LiveHolders(s) /\ held = Holders(p, s)
    OBVIOUS
  <2>2. held \subseteq live
    BY <1>2, <2>1 DEF Holders, LiveHolders
  <2>3. LiveHolders(s)' = live \ held
    <3>1. \A v \in Versions : v[1] \in Policies
      BY DEF Versions
    <3> QED BY <1>2, <2>1, <3>1 DEF Holders, LiveHolders, TypeOK
  <2>4. IsFiniteSet(live) /\ Cardinality(live) \in Nat /\ Cardinality(held) \in Nat
    BY <2>1, LiveHoldersFinite, HoldersFinite
  <2>5. Cardinality(live \ held) = Cardinality(live) - Cardinality(held)
    <3>1. live \cap held = held
      BY <2>2
    <3>2. Cardinality(live \ held) = Cardinality(live) - Cardinality(live \cap held)
      BY <2>4, FS_Difference
    <3> QED BY <3>1, <3>2
  <2>6. refCount[s] = Cardinality(live) /\ Cardinality(held) <= Cardinality(live)
    BY <2>1, <2>2, <2>4, FS_Subset DEF RefCountExact
  <2>7. refCount'[s] = refCount[s] - Cardinality(held)
    BY <1>2, <2>1, <2>4, <2>6 DEF ReleaseSnapshotRefsForPolicy
  <2> QED BY <2>3, <2>5, <2>6, <2>7
<1> QED BY <1>1, <1>2 DEF PurgePolicy

LEMMA SerialApprove ==
  ASSUME OneAtATime, TypeOK, SerialInv, NEW h \in Handlers, ApproveVersion(h)
  PROVE  SerialInv'
<1>1. PICK v \in Versions : v = req[h].ver
  BY RequestFields DEF ApproveVersion, Holds
<1>2. status[v] = "PENDING_APPROVAL" /\ policy[v[1]] = "live"
  BY <1>1 DEF ApproveVersion, LockPolicyForSnapshotRefs, LockPendingVersion
<1>3. ~isDefault[v] /\ refs[v] = {}
  BY <1>2 DEF SerialInv, OneApprovedDefault, FrozenOnce
<1>4. Finish(h) /\ UNCHANGED <<policy, isDefault>>
  BY DEF ApproveVersion, rowVars
<1>5. CASE UNCHANGED <<refs, snapVars>> /\ (SetStatus(v, "REJECTED") \/ SetStatus(v, "DRAFT"))
  BY <1>3, <1>4, <1>5, SerialSetStatus DEF SetStatus, snapVars
<1>6. CASE FreezeApprovalVocabulary(v) /\ SetStatus(v, "APPROVED")
  <2>1. \A w \in Versions : status'[w] = IF w = v THEN "APPROVED" ELSE status[w]
    BY <1>6 DEF SetStatus, TypeOK
  <2>2. \A w \in Versions : refs'[w] = IF w = v THEN Frozen(v) ELSE refs[w]
    BY <1>6 DEF FreezeApprovalVocabulary, TypeOK
  <2>3. OneApprovedDefault'
    BY <1>3, <1>4, <2>1 DEF SerialInv, OneApprovedDefault
  <2>4. FrozenOnce'
    BY <2>1, <2>2 DEF SerialInv, FrozenOnce
  <2>5. RefCountExact'
    <3> SUFFICES ASSUME NEW s \in Snapshots PROVE refCount'[s] = Cardinality(LiveHolders(s)')
      BY DEF RefCountExact, LiveHolders
    <3>1. PICK live : live = LiveHolders(s)
      OBVIOUS
    <3>2. refCount[s] = Cardinality(live) /\ v \notin live
      BY <1>3, <3>1 DEF SerialInv, RefCountExact, LiveHolders
    <3>3. CASE s \in Frozen(v)
      <4>1. LiveHolders(s)' = live \union {v}
        BY <1>2, <1>4, <2>2, <3>1, <3>3 DEF LiveHolders
      <4>2. Cardinality(live \union {v}) = Cardinality(live) + 1
        BY <3>1, <3>2, LiveHoldersFinite, FS_AddElement
      <4>3. refCount'[s] = refCount[s] + 1
        BY <1>6, <3>3 DEF FreezeApprovalVocabulary
      <4> QED BY <3>2, <4>1, <4>2, <4>3
    <3>4. CASE s \notin Frozen(v)
      <4>1. LiveHolders(s)' = live
        BY <1>3, <1>4, <2>2, <3>1, <3>4 DEF LiveHolders
      <4>2. refCount'[s] = refCount[s]
        BY <1>6, <3>4 DEF FreezeApprovalVocabulary
      <4> QED BY <3>2, <4>1, <4>2
    <3> QED BY <3>3, <3>4
  <2> QED BY <1>4, <2>3, <2>4, <2>5, FinishedIsIdle, SerialEnds DEF SerialInv
<1> QED BY <1>1, <1>5, <1>6 DEF ApproveVersion

LEMMA SerialSetDefault ==
  ASSUME OneAtATime, TypeOK, SerialInv, NEW h \in Handlers, SetDefaultVersion(h)
  PROVE  SerialInv'
<1>1. /\ req[h].ver \in Versions /\ status[req[h].ver] = "APPROVED"
      /\ \A w \in Versions : isDefault[w] /\ w[1] = req[h].ver[1] => w \in req[h].old
  BY RequestFields DEF SetDefaultVersion, Holds, SerialInv, SerialRequest
<1>2. /\ Finish(h) /\ UNCHANGED <<policy, status, refs, refCount>>
      /\ \A w \in Versions : isDefault'[w] <=> w = req[h].ver \/ (isDefault[w] /\ w \notin req[h].old)
  BY DEF SetDefaultVersion, rowVars, snapVars
<1>3. OneApprovedDefault'
  <2>1. \A w \in Versions : isDefault'[w] => status'[w] = "APPROVED"
    BY <1>1, <1>2 DEF SerialInv, OneApprovedDefault
  <2>2. ASSUME NEW w \in Versions, NEW x \in Versions, isDefault'[w], isDefault'[x], w[1] = x[1]
        PROVE  w = x
    BY <1>1, <1>2, <2>2 DEF SerialInv, OneApprovedDefault
  <2> QED BY <2>1, <2>2 DEF OneApprovedDefault
<1>4. FrozenOnce'
  BY <1>2 DEF SerialInv, FrozenOnce
<1> QED BY <1>2, <1>3, <1>4, CountsSame, FinishedIsIdle, SerialEnds DEF SerialInv

LEMMA SerialPurge ==
  ASSUME OneAtATime, TypeOK, SerialInv, NEW h \in Handlers,
         PermanentDeletePolicy(h) \/ CleanupExpiredTrashItem(h)
  PROVE  SerialInv'
<1>1. PICK p \in Policies : PurgePolicy(p)
  BY RequestFields DEF PermanentDeletePolicy, CleanupExpiredTrashItem, Holds
<1>2. UNCHANGED <<status, isDefault, refs>>
  BY DEF PermanentDeletePolicy, CleanupExpiredTrashItem, verVars
<1>3. req'[h].op \in {"idle", "cleanup"}
  BY FinishedIsIdle DEF PermanentDeletePolicy, CleanupExpiredTrashItem, TypeOK, Idle
<1>4. OneApprovedDefault' /\ FrozenOnce'
  BY <1>2 DEF SerialInv, OneApprovedDefault, FrozenOnce
<1> QED BY <1>1, <1>2, <1>3, <1>4, PurgeExact, SerialEnds DEF SerialInv

LEMMA SerialInit == Init => SerialInv
<1> SUFFICES ASSUME Init PROVE SerialInv
  OBVIOUS
<1>1. \A s \in Snapshots : LiveHolders(s) = {} /\ refCount[s] = 0
  BY DEF Init, LiveHolders
<1>2. RefCountExact
  BY <1>1, FS_EmptySet DEF RefCountExact
<1>3. OneApprovedDefault /\ FrozenOnce
  BY DEF Init, OneApprovedDefault, FrozenOnce
<1>4. \A h \in Handlers : SerialRequest(h)
  BY DEF Init, SerialRequest, Idle
<1> QED BY <1>2, <1>3, <1>4 DEF SerialInv

LEMMA SerialStep ==
  ASSUME OneAtATime, TypeOK, SerialInv, [Next]_vars
  PROVE  SerialInv'
<1>1. ASSUME UNCHANGED <<rowVars, verVars, snapVars, req>> PROVE SerialInv'
  <2>1. UNCHANGED <<policy, status, isDefault, refs, refCount, req>>
    BY <1>1 DEF rowVars, verVars, snapVars
  <2>2. OneApprovedDefault' /\ FrozenOnce'
    BY <2>1 DEF SerialInv, OneApprovedDefault, FrozenOnce
  <2>3. \A k \in Handlers : SerialRequest(k)'
    BY <2>1 DEF SerialInv, SerialRequest
  <2> QED BY <2>1, <2>2, <2>3, CountsSame DEF SerialInv
<1>2. CASE UNCHANGED vars
  BY <1>1, <1>2 DEF vars
<1>3. ASSUME NEW u \in Users, EditVocabulary(u) PROVE SerialInv'
  BY <1>1, <1>3 DEF EditVocabulary
<1>4. ASSUME NEW h \in Handlers, InsertVersion(h) PROVE SerialInv'
  <2>1. PICK v \in Versions : IsNextVersion(v) /\ status' = [status EXCEPT ![v] = "DRAFT"]
    BY <1>4 DEF InsertVersion
  <2>2. ~isDefault[v] /\ refs[v] = {}
    BY <2>1, NextIsAbsent DEF SerialInv, OneApprovedDefault, FrozenOnce
  <2>3. Finish(h) /\ UNCHANGED <<policy, isDefault, refs, refCount>>
    BY <1>4 DEF InsertVersion, rowVars, snapVars
  <2> QED BY <2>1, <2>2, <2>3, SerialSetStatus
<1>5. ASSUME NEW h \in Handlers, SubmitForApproval(h) \/ DeprecateVersion(h) \/ ArchiveVersion(h)
      PROVE  SerialInv'
  <2>1. PICK v \in Versions : v = req[h].ver
    BY <1>5, RequestFields DEF SubmitForApproval, DeprecateVersion, ArchiveVersion, Holds
  <2>2. Finish(h) /\ UNCHANGED <<policy, isDefault, refs, refCount>>
    BY <1>5 DEF SubmitForApproval, DeprecateVersion, ArchiveVersion, rowVars, snapVars
  <2>3. CASE SubmitForApproval(h)
    <3>1. status[v] \in {"DRAFT", "REJECTED"}
      BY <2>1, <2>3 DEF SubmitForApproval, Holds, SerialInv, SerialRequest
    <3>2. ~isDefault[v] /\ refs[v] = {}
      BY <3>1 DEF SerialInv, OneApprovedDefault, FrozenOnce
    <3> QED BY <2>1, <2>2, <2>3, <3>2, SerialSetStatus DEF SubmitForApproval, SetStatus
  <2>4. CASE DeprecateVersion(h) \/ ArchiveVersion(h)
    <3>1. ~isDefault[v]
      BY <2>1, <2>4 DEF DeprecateVersion, ArchiveVersion, Holds, SerialInv, SerialRequest
    <3> QED BY <2>1, <2>2, <2>4, <3>1, SerialSetStatus DEF DeprecateVersion, ArchiveVersion, SetStatus
  <2> QED BY <1>5, <2>3, <2>4
<1>6. ASSUME NEW h \in Handlers, ClearDefaults(h) PROVE SerialInv'
  <2>1. /\ req'[h] = [op |-> "clearing", ver |-> req[h].ver,
                      old |-> {w \in VersionsOf(req[h].ver[1]) : isDefault[w]}]
        /\ UNCHANGED <<policy, status, isDefault, refs, refCount>>
    BY <1>6 DEF ClearDefaults, TypeOK, rowVars, verVars, snapVars
  <2>2. status[req[h].ver] = "APPROVED"
    BY <1>6 DEF ClearDefaults, Holds, SerialInv, SerialRequest
  <2>3. \A w \in Versions : isDefault[w] /\ w[1] = req[h].ver[1] =>
          w \in {x \in VersionsOf(req[h].ver[1]) : isDefault[x]}
    BY DEF VersionsOf, SerialInv, OneApprovedDefault
  <2>4. SerialRequest(h)'
    BY <2>1, <2>2, <2>3 DEF SerialRequest
  <2> QED BY <2>1, <2>4, SerialFrame
<1>7. ASSUME NEW h \in Handlers, SoftDeletePolicy(h) \/ RestorePolicy(h) PROVE SerialInv'
  <2>1. /\ Finish(h) /\ UNCHANGED <<status, isDefault, refs, refCount>>
        /\ \A p \in Policies : policy'[p] = "gone" <=> policy[p] = "gone"
    BY <1>7 DEF SoftDeletePolicy, RestorePolicy, TypeOK, verVars, snapVars
  <2>2. \A s : LiveHolders(s)' = LiveHolders(s)
    BY <2>1 DEF LiveHolders, Versions
  <2>3. RefCountExact' /\ OneApprovedDefault' /\ FrozenOnce'
    BY <2>1, <2>2 DEF SerialInv, RefCountExact, OneApprovedDefault, FrozenOnce
  <2> QED BY <2>1, <2>3, FinishedIsIdle, SerialEnds DEF SerialInv
<1>8. ASSUME NEW h \in Handlers, Abandon(h) PROVE SerialInv'
  <2>1. Finish(h) /\ UNCHANGED <<policy, status, isDefault, refs, refCount>>
    BY <1>8 DEF Abandon, rowVars, verVars, snapVars
  <2>2. SerialRequest(h)'
    BY <2>1, FinishedIsIdle, SerialEnds
  <2> QED BY <2>1, <2>2, SerialFrame
<1> QED BY <1>2, <1>3, <1>4, <1>5, <1>6, <1>7, <1>8,
           SerialRead, SerialApprove, SerialSetDefault, SerialPurge DEF Next

(* setDefaultVersion, resolveExecutableVersion: of requests that do not       *)
(* overlap, each leaves a policy with one version to run, an approved one if  *)
(* there is any.                                                              *)
THEOREM SerialSelection ==
  ASSUME OneAtATime
  PROVE  Spec => []RunsOneApproved
<1>1. SerialInv => RunsOneApproved
  <2> SUFFICES ASSUME SerialInv, NEW p \in Policies,
                      NEW v \in ResolveExecutableVersion(p), NEW w \in ResolveExecutableVersion(p)
               PROVE  /\ v = w
                      /\ (\E u \in VersionsOf(p) : status[u] = "APPROVED") => status[v] = "APPROVED"
    BY DEF RunsOneApproved
  <2>1. \A x, y \in VersionsOf(p) : x[2] <= y[2] /\ y[2] <= x[2] => x = y
    <3>1. \A x, y \in Versions : x[2] \in Nat /\ y[2] \in Nat /\ (x[1] = y[1] /\ x[2] = y[2] => x = y)
      BY DEF Versions
    <3>2. \A i, j \in Nat : i <= j /\ j <= i => i = j
      OBVIOUS
    <3> QED BY <3>1, <3>2 DEF VersionsOf
  <2>2. CASE {x \in VersionsOf(p) : isDefault[x]} # {}
    <3>1. isDefault[v] /\ isDefault[w] /\ v \in VersionsOf(p) /\ w \in VersionsOf(p)
      BY <2>2 DEF ResolveExecutableVersion
    <3> QED BY <3>1 DEF SerialInv, OneApprovedDefault, VersionsOf
  <2>3. CASE /\ {x \in VersionsOf(p) : isDefault[x]} = {}
             /\ {x \in VersionsOf(p) : status[x] = "APPROVED"} # {}
    <3>1. /\ v \in Latest({x \in VersionsOf(p) : status[x] = "APPROVED"})
          /\ w \in Latest({x \in VersionsOf(p) : status[x] = "APPROVED"})
      BY <2>3 DEF ResolveExecutableVersion
    <3> QED BY <2>1, <3>1 DEF Latest
  <2>4. CASE /\ {x \in VersionsOf(p) : isDefault[x]} = {}
             /\ {x \in VersionsOf(p) : status[x] = "APPROVED"} = {}
    <3>1. v \in Latest(VersionsOf(p)) /\ w \in Latest(VersionsOf(p))
      BY <2>4 DEF ResolveExecutableVersion
    <3> QED BY <2>1, <2>4, <3>1 DEF Latest
  <2> QED BY <2>2, <2>3, <2>4
<1>2. TypeOK /\ SerialInv /\ [Next]_vars => SerialInv'
  BY SerialStep
<1> QED BY <1>1, <1>2, TypeCorrect, SerialInit, PTL DEF Spec

(* countSnapshotRefs: of requests that do not overlap, none makes a snapshot  *)
(* count more than the versions that hold it.                                 *)
THEOREM SerialCount ==
  ASSUME OneAtATime
  PROVE  Spec => []RefCountExact
<1>1. TypeOK /\ SerialInv /\ [Next]_vars => SerialInv'
  BY SerialStep
<1>2. SerialInv => RefCountExact
  BY DEF SerialInv
<1> QED BY <1>1, <1>2, TypeCorrect, SerialInit, PTL DEF Spec
=============================================================================
