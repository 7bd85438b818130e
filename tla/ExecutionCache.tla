---------------------------- MODULE ExecutionCache ----------------------------
(* The read-through cache in front of policy execution, for one policy:       *)
(*   src/src/app/api/policies/[id]/execute/route.ts  (the execute request)    *)
(*   src/src/lib/cache.ts                            (the KV entry)           *)
(*   src/src/services/policy/executable-version.ts   (which version runs)     *)
(*   src/src/services/policy/version-manager.ts      (commit, then invalidate)*)
(*                                                                            *)
(* An execute request reads the version rows, then the KV entry, and on a     *)
(* miss the policy row and perhaps one more version row; it writes the entry  *)
(* back in the background.  A writer commits and invalidates afterwards.  KV  *)
(* is one atomic cell here: its own propagation delay only adds staleness.    *)
EXTENDS Naturals

CONSTANTS
  Executors,    \* concurrent execute requests
  MaxVersion,   \* bound: versions of the policy
  MaxPending    \* bound: writers between their commit and their invalidation

ASSUME CacheAssumption == MaxVersion \in Nat \ {0} /\ MaxPending \in Nat \ {0}

Vers == 1..MaxVersion
Statuses == {"ABSENT", "DRAFT", "APPROVED", "DEPRECATED", "ARCHIVED"}
Metas == [ver: Vers, frozen: BOOLEAN]

VARIABLES
  row,          \* the policy row: "live" | "trashed" | "gone"
  current,      \* Policy.version
  status,       \* PolicyVersion.status; DRAFT stands for every unreviewed one
  default,      \* the version with isDefault, 0 for none
  frozen,       \* PolicyVersion.vocabularySnapshotIds is set
  purging,      \* a purge has found the policy in the trash, and has not deleted it yet
  cache,        \* the KV entry (CachedPolicyMeta): a set of at most one Meta
  invalidating, \* writers that have committed and not yet invalidated
  exec,         \* the execute requests
  stale         \* history: an invalidation was lost, an overtaken write-back landed,
                \* or a purge deleted a policy restored since it was found in the trash

dbVars == <<row, current, status, default, frozen, purging>>
vars == <<dbVars, cache, invalidating, exec, stale>>

Idle == [pc |-> "idle"]

Rows == [status: [Vers -> Statuses], default: 0..MaxVersion]

(* seen: what would have been selected at each moment of the request so far;  *)
(* overtaken: the database changed since the request began.  Both are history. *)
History == [seen: SUBSET ((0..MaxVersion) \X {"default", "approved", "latest"}),
            overtaken: BOOLEAN]

Requests ==
  {Idle}
  \union [pc: {"rows", "query"}, rows: Rows, hist: History]
  \union [pc: {"hydrate"}, ver: Vers, hist: History]
  \union [pc: {"loaded"}, meta: Metas, hist: History, put: BOOLEAN]

TypeOK ==
  /\ row \in {"live", "trashed", "gone"}
  /\ current \in Vers
  /\ status \in [Vers -> Statuses]
  /\ default \in 0..MaxVersion
  /\ frozen \in [Vers -> BOOLEAN]
  /\ purging \in BOOLEAN
  /\ cache \in SUBSET Metas /\ \A m, n \in cache : m = n
  /\ invalidating \in 0..MaxPending
  /\ exec \in [Executors -> Requests]
  /\ stale \in BOOLEAN

Init ==
  /\ row = "live" /\ current = 1 /\ default = 0
  /\ status = [v \in Vers |-> IF v = 1 THEN "DRAFT" ELSE "ABSENT"]
  /\ frozen = [v \in Vers |-> FALSE] /\ purging = FALSE
  /\ cache = {} /\ invalidating = 0
  /\ exec = [e \in Executors |-> Idle]
  /\ stale = FALSE

-----------------------------------------------------------------------------
(* resolveExecutableVersion *)

Greatest(S) == CHOOSE v \in S : \A w \in S : w <= v

(* fallback is the version of the policy row, or of the cached entry *)
ResolveExecutableVersion(rows, fallback) ==
  LET approved == {v \in Vers : rows.status[v] = "APPROVED"}
      existing == {v \in Vers : rows.status[v] # "ABSENT"}
  IN  IF rows.default # 0 THEN <<rows.default, "default">>
      ELSE IF approved # {} THEN <<Greatest(approved), "approved">>
      ELSE <<Greatest(existing \union {fallback}), "latest">>

CurrentRows == [status |-> status, default |-> default]

-----------------------------------------------------------------------------
(* Writers: the commit, and the invalidation that follows it *)

InFlight(e) == exec[e].pc # "idle"

(* What a commit means to the requests in flight (history only). *)
Overtake ==
  LET selection == ResolveExecutableVersion([status |-> status', default |-> default'], current')
  IN  exec' = [e \in Executors |->
        IF ~InFlight(e) THEN exec[e]
        ELSE [exec[e] EXCEPT !.hist =
                [seen |-> exec[e].hist.seen
                            \union (IF exec[e].pc = "loaded" THEN {} ELSE {selection}),
                 overtaken |-> TRUE]]]

(* Mutant: the writer commits and forgets the cache. *)
CommitOnly ==
  /\ invalidating < MaxPending
  /\ Overtake
  /\ UNCHANGED <<purging, cache, invalidating, stale>>

Commit ==
  /\ invalidating < MaxPending                                  \* bound
  /\ invalidating' = invalidating + 1
  /\ Overtake
  /\ UNCHANGED <<purging, cache, stale>>

(* PUT /api/policies/[id]: the version and the policy row in one transaction. *)
SaveVersion ==
  /\ row = "live"
  /\ \E v \in Vers :
       /\ status[v] = "ABSENT"
       /\ \A w \in Vers : w < v => status[w] # "ABSENT"
       /\ status' = [status EXCEPT ![v] = "DRAFT"]
       /\ current' = v
  /\ UNCHANGED <<row, default, frozen>>
  /\ Commit

(* submitForApproval and approveVersion, as one change *)
ApproveVersion(v) ==
  /\ row = "live" /\ status[v] = "DRAFT"
  /\ status' = [status EXCEPT ![v] = "APPROVED"]
  /\ frozen' = [frozen EXCEPT ![v] = TRUE]
  /\ UNCHANGED <<row, current, default>>
  /\ Commit

SetDefaultVersion(v) ==
  /\ row = "live" /\ status[v] = "APPROVED" /\ default # v
  /\ default' = v
  /\ UNCHANGED <<row, current, status, frozen>>
  /\ Commit

(* deprecateVersion, archiveVersion *)
RetireVersion(v) ==
  /\ row = "live" /\ default # v
  /\ \E st \in {"DEPRECATED", "ARCHIVED"} :
       /\ status[v] \in {"APPROVED", "DEPRECATED"} \ {st}
       /\ st = "DEPRECATED" => status[v] = "APPROVED"
       /\ status' = [status EXCEPT ![v] = st]
  /\ UNCHANGED <<row, current, default, frozen>>
  /\ Commit

(* DELETE /api/policies/[id], POST /api/policies/trash/[id] *)
TrashOrRestore ==
  /\ \/ row = "live" /\ row' = "trashed"
     \/ row = "trashed" /\ row' = "live"
  /\ UNCHANGED <<current, status, default, frozen>>
  /\ Commit

(* permanentDeletePolicy, emptyTrash and cleanupExpiredTrashItems look for the *)
(* policy in the trash first.                                                 *)
FindTrashed ==
  /\ row = "trashed" /\ ~purging
  /\ purging' = TRUE
  /\ UNCHANGED <<row, current, status, default, frozen, cache, invalidating, exec, stale>>

(* purgePolicy deletes by id, whether or not the policy has been restored     *)
(* since, and invalidates nothing; the version rows stay.                     *)
PurgePolicy ==
  /\ purging /\ purging' = FALSE
  /\ row # "gone" /\ row' = "gone"
  /\ stale' = (stale \/ row = "live")
  /\ UNCHANGED <<current, status, default, frozen, cache, invalidating>>
  /\ Overtake

InvalidatePolicyCache ==
  /\ invalidating > 0
  /\ invalidating' = invalidating - 1
  /\ cache' = {}
  /\ stale' = FALSE
  /\ UNCHANGED <<dbVars, exec>>

(* KV refuses the delete (logged only), or the Worker dies before it. *)
LoseInvalidation ==
  /\ invalidating > 0
  /\ invalidating' = invalidating - 1
  /\ stale' = TRUE
  /\ UNCHANGED <<dbVars, cache, exec>>

(* The entry's TTL runs out. *)
Expire ==
  /\ cache # {}
  /\ cache' = {}
  /\ stale' = FALSE
  /\ UNCHANGED <<dbVars, invalidating, exec>>

-----------------------------------------------------------------------------
(* Execute requests *)

Become(e, r) == exec' = [exec EXCEPT ![e] = r]

ReadVersions(e) ==
  /\ exec[e] = Idle
  /\ Become(e, [pc |-> "rows", rows |-> CurrentRows,
                hist |-> [seen |-> {ResolveExecutableVersion(CurrentRows, current)},
                          overtaken |-> FALSE]])
  /\ UNCHANGED <<dbVars, cache, invalidating, stale>>

(* Mutant: a cached entry is used whatever version it holds. *)
AnyCachedVersionCurrent(m, rows) == TRUE

IsCachedVersionCurrent(m, rows) == ResolveExecutableVersion(rows, m.ver)[1] = m.ver

Loaded(e, m, put) ==
  Become(e, [pc |-> "loaded", meta |-> m, hist |-> exec[e].hist, put |-> put])

GetCachedPolicyMeta(e) ==
  /\ exec[e].pc = "rows"
  /\ \/ \E m \in cache : IsCachedVersionCurrent(m, exec[e].rows) /\ Loaded(e, m, FALSE)
     \/ /\ \A m \in cache : ~IsCachedVersionCurrent(m, exec[e].rows)
        /\ Become(e, [exec[e] EXCEPT !.pc = "query"])
  /\ UNCHANGED <<dbVars, cache, invalidating, stale>>

(* One query for the policy row and its current version; a deleted policy is  *)
(* a 404.  The selection still goes by the version rows read at the start.    *)
QueryPolicy(e) ==
  /\ exec[e].pc = "query"
  /\ LET v == ResolveExecutableVersion(exec[e].rows, current)[1]
     IN  \/ row # "live" /\ Become(e, Idle)
         \/ row = "live" /\ v = current /\ Loaded(e, [ver |-> v, frozen |-> frozen[v]], TRUE)
         \/ /\ row = "live" /\ v # current
            /\ Become(e, [pc |-> "hydrate", ver |-> v, hist |-> exec[e].hist])
  /\ UNCHANGED <<dbVars, cache, invalidating, stale>>

HydrateExecutableVersion(e) ==
  /\ exec[e].pc = "hydrate"
  /\ LET v == exec[e].ver
     IN  Loaded(e, [ver |-> v, frozen |-> frozen[v]], TRUE)
  /\ UNCHANGED <<dbVars, cache, invalidating, stale>>

(* Mutant: the write is keyed by version and leaves other versions' entries.  *)
CachePolicyMetaBeside(e) ==
  /\ exec[e].pc = "loaded" /\ exec[e].put
  /\ cache' = {m \in cache : m.ver # exec[e].meta.ver} \union {exec[e].meta}
  /\ stale' = (stale \/ exec[e].hist.overtaken)
  /\ exec' = [exec EXCEPT ![e].put = FALSE]
  /\ UNCHANGED <<dbVars, invalidating>>

(* The background write, at any time after the meta was built. *)
CachePolicyMeta(e) ==
  /\ exec[e].pc = "loaded" /\ exec[e].put
  /\ cache' = {exec[e].meta}
  /\ stale' = (stale \/ exec[e].hist.overtaken)
  /\ exec' = [exec EXCEPT ![e].put = FALSE]
  /\ UNCHANGED <<dbVars, invalidating>>

(* The request ends; a background write still outstanding is lost. *)
Finish(e) ==
  /\ InFlight(e)
  /\ Become(e, Idle)
  /\ UNCHANGED <<dbVars, cache, invalidating, stale>>

-----------------------------------------------------------------------------
Next ==
  \/ SaveVersion \/ TrashOrRestore \/ FindTrashed \/ PurgePolicy
  \/ \E v \in Vers : ApproveVersion(v) \/ SetDefaultVersion(v) \/ RetireVersion(v)
  \/ InvalidatePolicyCache \/ LoseInvalidation \/ Expire
  \/ \E e \in Executors :
       \/ ReadVersions(e) \/ GetCachedPolicyMeta(e) \/ QueryPolicy(e)
       \/ HydrateExecutableVersion(e) \/ CachePolicyMeta(e) \/ Finish(e)

Spec == Init /\ [][Next]_vars

-----------------------------------------------------------------------------
(* Safety *)

Running(e) == exec[e].pc = "loaded"

(* resolveExecutableVersion and isCachedVersionCurrent: when one version was  *)
(* selected throughout the request, that version runs, whatever stale entry   *)
(* the cache held and whatever was committed, invalidated or lost meanwhile.  *)
StableSelectionRuns ==
  \A e \in Executors : Running(e) =>
    \A s \in exec[e].hist.seen : exec[e].hist.seen = {s} => exec[e].meta.ver = s[1]

(* invalidatePolicyCache and its callers: an entry may differ from the row it  *)
(* stands for, or outlive it, only while a committed writer still owes its     *)
(* invalidation, or after a lost invalidation, an overtaken write-back or the  *)
(* purge of a restored policy, and then only until the next invalidation or    *)
(* the TTL.  So a policy in the trash leaves no entry behind when the purge,   *)
(* which invalidates nothing, removes it.                                      *)
FreshWhenInvalidated ==
  \A m \in cache : invalidating = 0 /\ ~stale =>
    row = "live" /\ m.frozen = frozen[m.ver]
=============================================================================
