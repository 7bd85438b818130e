------------------------ MODULE ExecutionCache_proofs ------------------------
(* Proofs about ExecutionCache, for any number of execute requests, versions  *)
(* and writers between their commit and their invalidation.                   *)
EXTENDS ExecutionCache, WellFoundedInduction, TLAPS

Selection == ResolveExecutableVersion(CurrentRows, current)

(* Version numbers are dense: SaveVersion takes the next one and makes it the *)
(* current one.                                                               *)
VersionsInOrder ==
  /\ \A v \in Vers : status[v] # "ABSENT" <=> v <= current
  /\ default <= current

(* The version a request runs, when one selection was seen throughout.        *)
RunsTheOneSeen(ver, seen) == \A s \in seen : seen = {s} => ver = s[1]

(* Rows read by a request are the rows of an earlier moment, whose selection  *)
(* it has seen.                                                               *)
RowsOnceCurrent(rows, seen) ==
  \E k \in Vers :
    /\ k <= current
    /\ rows.default <= k
    /\ \A v \in Vers : rows.status[v] # "ABSENT" <=> v <= k
    /\ ResolveExecutableVersion(rows, k) \in seen

ReadingInv(r) ==
  r.pc \in {"rows", "query"} =>
    /\ Selection \in r.hist.seen
    /\ RowsOnceCurrent(r.rows, r.hist.seen)

HydratingInv(r) ==
  r.pc = "hydrate" =>
    /\ r.ver <= current
    /\ r.hist.seen # {}
    /\ RunsTheOneSeen(r.ver, r.hist.seen)
    /\ ~r.hist.overtaken => row = "live"

(* The meta about to be written back is the row as it is, unless the database *)
(* changed after the request began.                                           *)
LoadedInv(r) ==
  r.pc = "loaded" =>
    /\ r.meta.ver <= current
    /\ RunsTheOneSeen(r.meta.ver, r.hist.seen)
    /\ r.put /\ ~r.hist.overtaken => row = "live" /\ r.meta.frozen = frozen[r.meta.ver]

RequestInv(r) == ReadingInv(r) /\ HydratingInv(r) /\ LoadedInv(r)

CacheInv ==
  /\ \A m \in cache : m.ver <= current
  /\ FreshWhenInvalidated

ServingInv ==
  /\ TypeOK
  /\ VersionsInOrder
  /\ \A e \in Executors : RequestInv(exec[e])
  /\ CacheInv

-----------------------------------------------------------------------------
(* The selection *)

(* CHOOSE finds the greatest version of any non-empty set of them.            *)
LEMMA GreatestIsOne ==
  ASSUME NEW S \in SUBSET Vers, S # {}
  PROVE  Greatest(S) \in S /\ \A w \in S : w <= Greatest(S)
<1> DEFINE Below == {MaxVersion - v : v \in S}
<1> MaxVersion \in Nat
  BY CacheAssumption
<1>0. \A v \in S : v \in Nat /\ v <= MaxVersion /\ MaxVersion - v \in Nat
  BY DEF Vers
<1>1. Below \subseteq Nat /\ Below # {}
  BY <1>0
<1>2. PICK x \in Below : \A y \in Below : ~ (<<y, x>> \in OpToRel(<, Nat))
  BY <1>1, NatLessThanWellFounded, WFMin
<1>3. \A y \in Below : ~ (y < x)
  BY <1>1, <1>2 DEF OpToRel
<1>4. PICK v \in S : x = MaxVersion - v
  BY <1>2
<1>5. \A w \in S : w <= v
  <2> TAKE w \in S
  <2>1. ~ (MaxVersion - w < MaxVersion - v)
    BY <1>3, <1>4
  <2> QED BY <2>1, <1>0
<1> QED BY <1>5 DEF Greatest

(* The fallback counts only when no version was made default or approved:     *)
(* whatever it is, it changes the selection only to itself, and upwards.      *)
LEMMA SelectionOfRows ==
  ASSUME NEW rows \in Rows, NEW k \in Vers, NEW f \in Vers,
         \A v \in Vers : rows.status[v] # "ABSENT" <=> v <= k,
         rows.default <= k
  PROVE  LET s == ResolveExecutableVersion(rows, k)
             t == ResolveExecutableVersion(rows, f)
         IN  /\ s \in Vers \X {"default", "approved", "latest"}
             /\ t \in Vers \X {"default", "approved", "latest"}
             /\ s[1] <= k
             /\ t[1] <= k \/ t[1] = f
             /\ s[2] = "latest" => s[1] = k /\ t[1] = IF f <= k THEN k ELSE f
             /\ s[2] # "latest" => t = s
<1> DEFINE approved == {v \in Vers : rows.status[v] = "APPROVED"}
           existing == {v \in Vers : rows.status[v] # "ABSENT"}
<1>0. /\ rows.default \in 0..MaxVersion
      /\ MaxVersion \in Nat /\ k \in Nat /\ f \in Nat
      /\ \A v \in Vers : v \in Nat
  BY CacheAssumption DEF Rows, Vers
<1>1. CASE rows.default # 0
  <2>1. rows.default \in Vers
    BY <1>0, <1>1 DEF Vers
  <2> QED BY <1>1, <2>1 DEF ResolveExecutableVersion
<1>2. CASE rows.default = 0 /\ approved # {}
  <2>1. Greatest(approved) \in approved
    BY <1>2, GreatestIsOne
  <2>2. ResolveExecutableVersion(rows, k) = <<Greatest(approved), "approved">>
    BY <1>2 DEF ResolveExecutableVersion
  <2>3. ResolveExecutableVersion(rows, f) = <<Greatest(approved), "approved">>
    BY <1>2 DEF ResolveExecutableVersion
  <2>4. Greatest(approved) \in Vers /\ Greatest(approved) <= k
    BY <2>1
  <2> HIDE DEF approved
  <2> QED BY <2>2, <2>3, <2>4
<1>3. CASE rows.default = 0 /\ approved = {}
  <2> DEFINE mine == existing \union {k}
             other == existing \union {f}
  <2>1. ResolveExecutableVersion(rows, k) = <<Greatest(mine), "latest">>
    BY <1>3 DEF ResolveExecutableVersion
  <2>2. ResolveExecutableVersion(rows, f) = <<Greatest(other), "latest">>
    BY <1>3 DEF ResolveExecutableVersion
  <2>3. Greatest(mine) \in mine /\ \A w \in mine : w <= Greatest(mine)
    <3>1. mine \in SUBSET Vers /\ mine # {}
      OBVIOUS
    <3> HIDE DEF mine
    <3> QED BY <3>1, GreatestIsOne
  <2>4. Greatest(other) \in other /\ \A w \in other : w <= Greatest(other)
    <3>1. other \in SUBSET Vers /\ other # {}
      OBVIOUS
    <3> HIDE DEF other
    <3> QED BY <3>1, GreatestIsOne
  <2>5. Greatest(mine) \in Vers /\ Greatest(mine) = k
    <3>1. ASSUME NEW w \in mine PROVE w \in Nat /\ w \in Vers /\ w <= k
      <4>1. CASE w = k
        BY <1>0, <4>1
      <4>2. CASE w \in existing
        BY <1>0, <4>2
      <4> QED BY <4>1, <4>2
    <3>2. k \in mine
      OBVIOUS
    <3> HIDE DEF mine
    <3>3. PICK g : g = Greatest(mine)
      OBVIOUS
    <3>4. g \in Nat /\ g \in Vers /\ g <= k /\ k <= g
      BY <3>1, <3>2, <3>3, <2>3
    <3> QED BY <3>3, <3>4, <1>0
  <2>6. Greatest(other) \in Vers /\ Greatest(other) = IF f <= k THEN k ELSE f
    <3>1. ASSUME NEW w \in other PROVE w \in Nat /\ w \in Vers /\ (w <= k \/ w = f)
      <4>1. CASE w = f
        BY <1>0, <4>1
      <4>2. CASE w \in existing
        BY <1>0, <4>2
      <4> QED BY <4>1, <4>2
    <3>2. f \in other /\ k \in other
      BY <1>0
    <3> HIDE DEF other
    <3>3. PICK g : g = Greatest(other)
      OBVIOUS
    <3>4. g \in Nat /\ g \in Vers /\ (g <= k \/ g = f) /\ k <= g /\ f <= g
      BY <3>1, <3>2, <3>3, <2>4
    <3> QED BY <3>3, <3>4, <1>0
  <2> HIDE DEF mine, other
  <2> QED BY <2>1, <2>2, <2>5, <2>6, <1>0
<1> QED BY <1>1, <1>2, <1>3

LEMMA SelectionNow ==
  ASSUME TypeOK, VersionsInOrder
  PROVE  /\ Selection \in Vers \X {"default", "approved", "latest"}
         /\ Selection[2] = "latest" => Selection[1] = current
         /\ RowsOnceCurrent(CurrentRows, {Selection})
<1>1. CurrentRows \in Rows /\ current \in Vers
  BY DEF TypeOK, CurrentRows, Rows
<1>2. /\ \A v \in Vers : CurrentRows.status[v] # "ABSENT" <=> v <= current
      /\ CurrentRows.default <= current
  BY DEF VersionsInOrder, CurrentRows
<1>3. /\ Selection \in Vers \X {"default", "approved", "latest"}
      /\ Selection[2] = "latest" => Selection[1] = current
  BY <1>1, <1>2, SelectionOfRows DEF Selection
<1>4. RowsOnceCurrent(CurrentRows, {Selection})
  BY <1>1, <1>2, CacheAssumption DEF RowsOnceCurrent, Selection, Vers
<1> QED BY <1>3, <1>4

(* Whatever existing version the cache or the policy row falls back to, it is *)
(* the selection the request saw when it saw only one.                        *)
LEMMA SelectionSeen ==
  ASSUME TypeOK, VersionsInOrder,
         NEW rows \in Rows, NEW seen, RowsOnceCurrent(rows, seen), Selection \in seen,
         NEW f \in Vers, f <= current
  PROVE  LET v == ResolveExecutableVersion(rows, f)[1]
         IN  v \in Vers /\ v <= current /\ RunsTheOneSeen(v, seen)
<1> DEFINE t == ResolveExecutableVersion(rows, f)
<1>0. current \in Nat /\ \A v \in Vers : v \in Nat
  BY CacheAssumption DEF TypeOK, Vers
<1>1. PICK k \in Vers :
        /\ k <= current
        /\ rows.default <= k
        /\ \A v \in Vers : rows.status[v] # "ABSENT" <=> v <= k
        /\ ResolveExecutableVersion(rows, k) \in seen
  BY DEF RowsOnceCurrent
<1> DEFINE s == ResolveExecutableVersion(rows, k)
<1>3. /\ s \in Vers \X {"default", "approved", "latest"}
      /\ t \in Vers \X {"default", "approved", "latest"}
      /\ t[1] <= k \/ t[1] = f
      /\ s[2] = "latest" => s[1] = k /\ t[1] = IF f <= k THEN k ELSE f
      /\ s[2] # "latest" => t = s
  BY <1>1, SelectionOfRows
<1>4. t[1] \in Vers /\ t[1] <= current
  BY <1>0, <1>1, <1>3
<1>5. ASSUME NEW u \in seen, seen = {u} PROVE t[1] = u[1]
  <2>1. s = u /\ Selection = u
    BY <1>1, <1>5
  <2>2. CASE s[2] = "latest"
    BY <2>1, <2>2, <1>0, <1>3, SelectionNow
  <2>3. CASE s[2] # "latest"
    BY <2>1, <2>3, <1>3
  <2> QED BY <2>2, <2>3
<1> QED BY <1>4, <1>5 DEF RunsTheOneSeen

-----------------------------------------------------------------------------
(* Steps of one request *)

LEMMA Shapes ==
  ASSUME NEW r \in Requests
  PROVE  /\ r.pc \in {"idle", "rows", "query", "hydrate", "loaded"}
         /\ r.pc = "idle" => r = Idle
         /\ r.pc \in {"rows", "query"} =>
              r \in [pc: {"rows", "query"}, rows: Rows, hist: History]
         /\ r.pc = "hydrate" => r \in [pc: {"hydrate"}, ver: Vers, hist: History]
         /\ r.pc = "loaded" => r \in [pc: {"loaded"}, meta: Metas, hist: History, put: BOOLEAN]
BY DEF Requests, Idle

LEMMA MoveKeeps ==
  ASSUME ServingInv, NEW e \in Executors, NEW r \in Requests, RequestInv(r),
         Become(e, r), UNCHANGED dbVars
  PROVE  /\ exec' \in [Executors -> Requests]
         /\ VersionsInOrder'
         /\ \A x \in Executors : RequestInv(exec[x])'
<1> USE DEF ServingInv, Become, dbVars
<1>1. exec' \in [Executors -> Requests]
  BY DEF TypeOK
<1>2. VersionsInOrder'
  BY DEF VersionsInOrder
<1>3. \A x \in Executors : RequestInv(exec'[x])
  BY DEF TypeOK
<1>4. Selection' = Selection
  BY DEF Selection, CurrentRows
<1>5. \A x \in Executors : RequestInv(exec[x])'
  BY <1>3, <1>4 DEF RequestInv, ReadingInv, HydratingInv, LoadedInv, RowsOnceCurrent
<1> QED BY <1>1, <1>2, <1>5

(* A request moves on and leaves the cache alone. *)
LEMMA QuietKeeps ==
  ASSUME ServingInv, NEW e \in Executors, NEW r \in Requests, RequestInv(r),
         Become(e, r), UNCHANGED <<dbVars, cache, invalidating, stale>>
  PROVE  ServingInv'
<1>1. /\ exec' \in [Executors -> Requests]
      /\ VersionsInOrder'
      /\ \A x \in Executors : RequestInv(exec[x])'
  BY MoveKeeps
<1>2. TypeOK'
  BY <1>1 DEF ServingInv, TypeOK, dbVars
<1>3. CacheInv'
  BY DEF ServingInv, CacheInv, FreshWhenInvalidated, dbVars
<1> QED BY <1>1, <1>2, <1>3 DEF ServingInv

LEMMA ReadVersionsKeeps ==
  ASSUME ServingInv, NEW e \in Executors, ReadVersions(e)
  PROVE  ServingInv'
<1> DEFINE h == [seen |-> {Selection}, overtaken |-> FALSE]
           r == [pc |-> "rows", rows |-> CurrentRows, hist |-> h]
<1>1. Selection \in Vers \X {"default", "approved", "latest"} /\ RowsOnceCurrent(CurrentRows, {Selection})
  BY SelectionNow DEF ServingInv
<1>2. h \in History
  BY <1>1, CacheAssumption DEF History, Vers
<1>3. CurrentRows \in Rows
  BY DEF ServingInv, TypeOK, CurrentRows, Rows
<1>4. r \in Requests
  BY <1>2, <1>3 DEF Requests
<1>5. RequestInv(r)
  BY <1>1 DEF RequestInv, ReadingInv, HydratingInv, LoadedInv
<1>6. Become(e, r) /\ UNCHANGED <<dbVars, cache, invalidating, stale>>
  BY DEF ReadVersions, Selection
<1> HIDE DEF r
<1> QED BY <1>4, <1>5, <1>6, QuietKeeps

LEMMA GetCachedKeeps ==
  ASSUME ServingInv, NEW e \in Executors, GetCachedPolicyMeta(e)
  PROVE  ServingInv'
<1> DEFINE old == exec[e]
<1>0. UNCHANGED <<dbVars, cache, invalidating, stale>> /\ old.pc = "rows"
  BY DEF GetCachedPolicyMeta
<1>1. /\ old \in Requests
      /\ old \in [pc: {"rows", "query"}, rows: Rows, hist: History]
      /\ RequestInv(old)
  BY <1>0, Shapes DEF ServingInv, TypeOK
<1>2. ASSUME NEW m \in cache, IsCachedVersionCurrent(m, old.rows), Loaded(e, m, FALSE)
      PROVE  ServingInv'
  <2> DEFINE r == [pc |-> "loaded", meta |-> m, hist |-> old.hist, put |-> FALSE]
  <2>1. m \in Metas /\ m.ver \in Vers /\ m.ver <= current
    BY DEF ServingInv, TypeOK, CacheInv, Metas
  <2>2. RunsTheOneSeen(m.ver, old.hist.seen)
    <3>1. RowsOnceCurrent(old.rows, old.hist.seen) /\ Selection \in old.hist.seen
      BY <1>0, <1>1 DEF RequestInv, ReadingInv
    <3>2. RunsTheOneSeen(ResolveExecutableVersion(old.rows, m.ver)[1], old.hist.seen)
      BY <1>1, <2>1, <3>1, SelectionSeen DEF ServingInv
    <3> QED BY <1>2, <3>2 DEF IsCachedVersionCurrent
  <2>3. r \in Requests
    BY <1>1, <2>1 DEF Requests
  <2>4. RequestInv(r)
    BY <2>1, <2>2 DEF RequestInv, ReadingInv, HydratingInv, LoadedInv
  <2>5. Become(e, r)
    BY <1>2 DEF Loaded
  <2> HIDE DEF r
  <2> QED BY <1>0, <2>3, <2>4, <2>5, QuietKeeps
<1>3. ASSUME Become(e, [old EXCEPT !.pc = "query"])
      PROVE  ServingInv'
  <2> DEFINE r == [old EXCEPT !.pc = "query"]
  <2>1. /\ r \in [pc: {"rows", "query"}, rows: Rows, hist: History]
        /\ r.pc = "query" /\ r.rows = old.rows /\ r.hist = old.hist
    BY <1>1
  <2>2. r \in Requests
    BY <2>1 DEF Requests
  <2>3. RequestInv(r)
    BY <1>0, <1>1, <2>1 DEF RequestInv, ReadingInv, HydratingInv, LoadedInv
  <2>4. Become(e, r)
    BY <1>3
  <2> HIDE DEF r
  <2> QED BY <1>0, <2>2, <2>3, <2>4, QuietKeeps
<1> QED BY <1>2, <1>3 DEF GetCachedPolicyMeta

LEMMA FinishKeeps ==
  ASSUME ServingInv, NEW e \in Executors, Become(e, Idle),
         UNCHANGED <<dbVars, cache, invalidating, stale>>
  PROVE  ServingInv'
<1>1. Idle \in Requests
  BY DEF Requests
<1>2. RequestInv(Idle)
  BY DEF Idle, RequestInv, ReadingInv, HydratingInv, LoadedInv
<1> QED BY <1>1, <1>2, QuietKeeps

LEMMA QueryPolicyKeeps ==
  ASSUME ServingInv, NEW e \in Executors, QueryPolicy(e)
  PROVE  ServingInv'
<1> DEFINE old == exec[e]
           v == ResolveExecutableVersion(old.rows, current)[1]
<1>0. UNCHANGED <<dbVars, cache, invalidating, stale>> /\ old.pc = "query"
  BY DEF QueryPolicy
<1>1. /\ old \in [pc: {"rows", "query"}, rows: Rows, hist: History]
      /\ RequestInv(old)
  BY <1>0, Shapes DEF ServingInv, TypeOK
<1>2. old.hist.seen # {} /\ v \in Vers /\ v <= current /\ RunsTheOneSeen(v, old.hist.seen)
  <2>1. RowsOnceCurrent(old.rows, old.hist.seen) /\ Selection \in old.hist.seen
    BY <1>0, <1>1 DEF RequestInv, ReadingInv
  <2>2. current \in Vers /\ current <= current
    BY CacheAssumption DEF ServingInv, TypeOK, Vers
  <2>3. TypeOK /\ VersionsInOrder
    BY DEF ServingInv
  <2> QED BY <1>1, <2>1, <2>2, <2>3, SelectionSeen
<1> HIDE DEF v
<1>3. CASE row # "live" /\ Become(e, Idle)
  BY <1>0, <1>3, FinishKeeps
<1>4. CASE row = "live" /\ Loaded(e, [ver |-> v, frozen |-> frozen[v]], TRUE)
  <2> DEFINE m == [ver |-> v, frozen |-> frozen[v]]
             r == [pc |-> "loaded", meta |-> m, hist |-> old.hist, put |-> TRUE]
  <2>1. m \in Metas
    BY <1>2 DEF Metas, ServingInv, TypeOK
  <2>2. r \in Requests
    BY <1>1, <2>1 DEF Requests
  <2>3. RequestInv(r)
    BY <1>2, <1>4 DEF RequestInv, ReadingInv, HydratingInv, LoadedInv
  <2>4. Become(e, r)
    BY <1>4 DEF Loaded
  <2> HIDE DEF r
  <2> QED BY <1>0, <2>2, <2>3, <2>4, QuietKeeps
<1>5. CASE row = "live" /\ Become(e, [pc |-> "hydrate", ver |-> v, hist |-> old.hist])
  <2> DEFINE r == [pc |-> "hydrate", ver |-> v, hist |-> old.hist]
  <2>1. r \in Requests
    BY <1>1, <1>2 DEF Requests
  <2>2. RequestInv(r)
    BY <1>2, <1>5 DEF RequestInv, ReadingInv, HydratingInv, LoadedInv
  <2> HIDE DEF r
  <2> QED BY <1>0, <1>5, <2>1, <2>2, QuietKeeps DEF r
<1> QED BY <1>3, <1>4, <1>5 DEF QueryPolicy, v

LEMMA HydrateKeeps ==
  ASSUME ServingInv, NEW e \in Executors, HydrateExecutableVersion(e)
  PROVE  ServingInv'
<1> DEFINE old == exec[e]
           m == [ver |-> old.ver, frozen |-> frozen[old.ver]]
           r == [pc |-> "loaded", meta |-> m, hist |-> old.hist, put |-> TRUE]
<1>0. UNCHANGED <<dbVars, cache, invalidating, stale>> /\ old.pc = "hydrate"
  BY DEF HydrateExecutableVersion
<1>1. old \in [pc: {"hydrate"}, ver: Vers, hist: History] /\ RequestInv(old)
  BY <1>0, Shapes DEF ServingInv, TypeOK
<1>2. m \in Metas
  BY <1>1 DEF Metas, ServingInv, TypeOK
<1>3. r \in Requests
  BY <1>1, <1>2 DEF Requests
<1>4. RequestInv(r)
  BY <1>0, <1>1 DEF RequestInv, ReadingInv, HydratingInv, LoadedInv
<1>5. Become(e, r)
  BY DEF HydrateExecutableVersion, Loaded
<1> HIDE DEF r
<1> QED BY <1>0, <1>3, <1>4, <1>5, QuietKeeps

(* The background write: an entry of a request nobody overtook is fresh, and  *)
(* one that was overtaken is marked stale.                                    *)
LEMMA CachePolicyMetaKeeps ==
  ASSUME ServingInv, NEW e \in Executors, CachePolicyMeta(e)
  PROVE  ServingInv'
<1> DEFINE old == exec[e]
           r == [old EXCEPT !.put = FALSE]
<1>0. UNCHANGED dbVars /\ old.pc = "loaded" /\ old.put
  BY DEF CachePolicyMeta
<1>1. /\ old \in [pc: {"loaded"}, meta: Metas, hist: History, put: BOOLEAN]
      /\ RequestInv(old)
  BY <1>0, Shapes DEF ServingInv, TypeOK
<1>2. /\ r \in [pc: {"loaded"}, meta: Metas, hist: History, put: BOOLEAN]
      /\ r.pc = "loaded" /\ r.put = FALSE /\ r.meta = old.meta /\ r.hist = old.hist
  BY <1>1
<1>3. r \in Requests
  BY <1>2 DEF Requests
<1>4. RequestInv(r)
  BY <1>0, <1>1, <1>2 DEF RequestInv, ReadingInv, HydratingInv, LoadedInv
<1>5. Become(e, r)
  BY DEF CachePolicyMeta, Become
<1> HIDE DEF r
<1>6. /\ exec' \in [Executors -> Requests]
      /\ VersionsInOrder'
      /\ \A x \in Executors : RequestInv(exec[x])'
  BY <1>0, <1>3, <1>4, <1>5, MoveKeeps
<1>7. old.meta \in Metas /\ old.hist.overtaken \in BOOLEAN /\ cache' = {old.meta}
  BY <1>1 DEF History, CachePolicyMeta
<1>8. invalidating' = invalidating /\ stale' = (stale \/ old.hist.overtaken)
  BY DEF CachePolicyMeta
<1>9. TypeOK'
  BY <1>0, <1>6, <1>7, <1>8 DEF ServingInv, TypeOK, dbVars
<1>10. old.meta.ver <= current /\ (~old.hist.overtaken => row = "live" /\ old.meta.frozen = frozen[old.meta.ver])
  BY <1>0, <1>1 DEF RequestInv, LoadedInv
<1>11. CacheInv'
  BY <1>0, <1>7, <1>8, <1>10 DEF CacheInv, FreshWhenInvalidated, dbVars
<1> QED BY <1>6, <1>9, <1>11 DEF ServingInv

-----------------------------------------------------------------------------
(* Steps of the writers *)

DbTyped ==
  /\ row \in {"live", "trashed", "gone"}
  /\ current \in Vers
  /\ status \in [Vers -> Statuses]
  /\ default \in 0..MaxVersion
  /\ frozen \in [Vers -> BOOLEAN]
  /\ purging \in BOOLEAN

(* Every request in flight has the new selection in its history, unless it    *)
(* has its version already; the versions it read about still exist.           *)
LEMMA OvertakeKeeps ==
  ASSUME ServingInv, Overtake, DbTyped', VersionsInOrder', current <= current'
  PROVE  /\ exec' \in [Executors -> Requests]
         /\ \A e \in Executors : RequestInv(exec[e])'
<1> DEFINE Later(r) == [seen |-> r.hist.seen \union (IF r.pc = "loaded" THEN {} ELSE {Selection'}),
                        overtaken |-> TRUE]
<1>1. Selection' \in Vers \X {"default", "approved", "latest"}
  <2> DEFINE rows == [status |-> status', default |-> default']
  <2>1. rows \in Rows /\ current' \in Vers
    BY DEF DbTyped, Rows
  <2>2. (\A v \in Vers : rows.status[v] # "ABSENT" <=> v <= current') /\ rows.default <= current'
    BY DEF VersionsInOrder
  <2>3. ResolveExecutableVersion(rows, current') \in Vers \X {"default", "approved", "latest"}
    <3> HIDE DEF rows
    <3> QED BY <2>1, <2>2, SelectionOfRows
  <2> QED BY <2>3 DEF Selection, CurrentRows
<1>2. current \in Nat /\ current' \in Nat /\ \A v \in Vers : v \in Nat
  BY CacheAssumption DEF ServingInv, TypeOK, DbTyped, Vers
<1>3. ASSUME NEW e \in Executors
      PROVE  exec'[e] = IF exec[e].pc = "idle" THEN exec[e]
                        ELSE [exec[e] EXCEPT !.hist = Later(exec[e])]
  BY DEF Overtake, InFlight, Selection, CurrentRows
<1>4. ASSUME NEW e \in Executors
      PROVE  exec'[e] \in Requests /\ RequestInv(exec[e])'
  <2> DEFINE old == exec[e]
             new == exec'[e]
             now == Selection'
  <2>1. old \in Requests /\ RequestInv(old)
    BY DEF ServingInv, TypeOK
  <2>2. CASE old.pc = "idle"
    <3>1. new = Idle
      BY <1>3, <2>1, <2>2, Shapes
    <3> QED BY <3>1, <2>1 DEF Idle, Requests, RequestInv, ReadingInv, HydratingInv, LoadedInv
  <2>3. CASE old.pc \in {"rows", "query"}
    <3>1. old \in [pc: {"rows", "query"}, rows: Rows, hist: History]
      BY <2>1, <2>3, Shapes
    <3>2. new = [old EXCEPT !.hist = [seen |-> old.hist.seen \union {now}, overtaken |-> TRUE]]
      BY <1>3, <2>3
    <3>3. [seen |-> old.hist.seen \union {now}, overtaken |-> TRUE] \in History
      BY <3>1, <1>1, CacheAssumption DEF History, Vers
    <3>4. /\ new \in [pc: {"rows", "query"}, rows: Rows, hist: History]
          /\ new.pc = old.pc /\ new.rows = old.rows /\ new.hist.seen = old.hist.seen \union {now}
      <4> HIDE DEF new, now
      <4> QED BY <3>1, <3>2, <3>3
    <3>5. RowsOnceCurrent(old.rows, old.hist.seen)
      BY <2>1, <2>3 DEF RequestInv, ReadingInv
    <3>6. RowsOnceCurrent(old.rows, old.hist.seen)'
      BY <1>2, <3>4, <3>5 DEF RowsOnceCurrent
    <3>7. RequestInv(old)'
      BY <2>3, <3>4, <3>6 DEF RequestInv, ReadingInv, HydratingInv, LoadedInv
    <3> QED BY <3>4, <3>7 DEF Requests
  <2>4. CASE old.pc = "hydrate"
    <3>1. old \in [pc: {"hydrate"}, ver: Vers, hist: History]
      BY <2>1, <2>4, Shapes
    <3>2. new = [old EXCEPT !.hist = [seen |-> old.hist.seen \union {now}, overtaken |-> TRUE]]
      BY <1>3, <2>4
    <3>3. [seen |-> old.hist.seen \union {now}, overtaken |-> TRUE] \in History
      BY <3>1, <1>1, CacheAssumption DEF History, Vers
    <3>4. /\ new \in [pc: {"hydrate"}, ver: Vers, hist: History]
          /\ new.ver = old.ver /\ new.hist.seen = old.hist.seen \union {now} /\ new.hist.overtaken
      <4> HIDE DEF new, now
      <4> QED BY <3>1, <3>2, <3>3
    <3>5. /\ old.ver <= current /\ old.hist.seen # {} /\ RunsTheOneSeen(old.ver, old.hist.seen)
      BY <2>1, <2>4 DEF RequestInv, HydratingInv
    <3>6. RunsTheOneSeen(new.ver, new.hist.seen)
      BY <3>4, <3>5 DEF RunsTheOneSeen
    <3>7. new.ver <= current' /\ new.hist.seen # {}
      BY <1>2, <3>1, <3>4, <3>5
    <3>8. RequestInv(old)'
      BY <3>4, <3>6, <3>7 DEF RequestInv, ReadingInv, HydratingInv, LoadedInv, RunsTheOneSeen
    <3> QED BY <3>4, <3>8 DEF Requests
  <2>5. CASE old.pc = "loaded"
    <3>1. old \in [pc: {"loaded"}, meta: Metas, hist: History, put: BOOLEAN]
      BY <2>1, <2>5, Shapes
    <3>2. new = [old EXCEPT !.hist = [seen |-> old.hist.seen, overtaken |-> TRUE]]
      BY <1>3, <2>5
    <3>3. [seen |-> old.hist.seen, overtaken |-> TRUE] \in History
      BY <3>1 DEF History
    <3>4. /\ new \in [pc: {"loaded"}, meta: Metas, hist: History, put: BOOLEAN]
          /\ new.meta = old.meta /\ new.hist.seen = old.hist.seen /\ new.hist.overtaken
      <4> HIDE DEF new
      <4> QED BY <3>1, <3>2, <3>3
    <3>5. old.meta.ver <= current /\ RunsTheOneSeen(old.meta.ver, old.hist.seen)
      BY <2>1, <2>5 DEF RequestInv, LoadedInv
    <3>6. new.meta.ver <= current' /\ RunsTheOneSeen(new.meta.ver, new.hist.seen)
      BY <1>2, <3>1, <3>4, <3>5 DEF Metas
    <3>7. RequestInv(old)'
      BY <3>4, <3>6 DEF RequestInv, ReadingInv, HydratingInv, LoadedInv, RunsTheOneSeen
    <3> QED BY <3>4, <3>7 DEF Requests
  <2> QED BY <2>1, <2>2, <2>3, <2>4, <2>5, Shapes
<1>5. exec' \in [Executors -> Requests]
  BY <1>4 DEF Overtake
<1> QED BY <1>4, <1>5

(* A committed writer owes an invalidation: no entry needs to be fresh.       *)
LEMMA CommitKeeps ==
  ASSUME ServingInv, Commit, DbTyped', VersionsInOrder', current <= current'
  PROVE  ServingInv'
<1>1. exec' \in [Executors -> Requests] /\ \A e \in Executors : RequestInv(exec[e])'
  BY OvertakeKeeps DEF Commit
<1>2. invalidating' \in 0..MaxPending /\ invalidating' # 0
  BY CacheAssumption DEF ServingInv, TypeOK, Commit
<1>3. TypeOK'
  BY <1>1, <1>2 DEF ServingInv, TypeOK, DbTyped, Commit
<1>4. current \in Nat /\ current' \in Nat /\ \A m \in cache : m.ver \in Nat
  BY CacheAssumption DEF ServingInv, TypeOK, DbTyped, Vers, Metas
<1>5. CacheInv'
  BY <1>2, <1>4 DEF ServingInv, CacheInv, FreshWhenInvalidated, Commit
<1> QED BY <1>1, <1>3, <1>5 DEF ServingInv

LEMMA SaveVersionKeeps ==
  ASSUME ServingInv, SaveVersion
  PROVE  ServingInv'
<1>1. TypeOK /\ VersionsInOrder
  BY DEF ServingInv
<1>2. PICK v \in Vers :
        /\ status[v] = "ABSENT"
        /\ \A w \in Vers : w < v => status[w] # "ABSENT"
        /\ status' = [status EXCEPT ![v] = "DRAFT"]
        /\ current' = v
  BY DEF SaveVersion
<1>3. Commit /\ UNCHANGED <<row, default, frozen>>
  BY DEF SaveVersion
<1>4. current \in Nat /\ v \in Nat /\ default \in Nat /\ \A w \in Vers : w \in Nat
  BY <1>1, CacheAssumption DEF TypeOK, Vers
<1>5. DbTyped'
  BY <1>1, <1>2, <1>3 DEF DbTyped, TypeOK, Statuses, Commit
<1>6. current < v /\ \A w \in Vers : w < v => w <= current
  BY <1>1, <1>2, <1>4 DEF VersionsInOrder
<1>7. status' = [w \in Vers |-> IF w = v THEN "DRAFT" ELSE status[w]]
  BY <1>1, <1>2 DEF TypeOK
<1>8. ASSUME NEW w \in Vers PROVE status'[w] # "ABSENT" <=> w <= v
  BY <1>1, <1>2, <1>4, <1>6, <1>7 DEF VersionsInOrder
<1>9. VersionsInOrder'
  BY <1>1, <1>2, <1>3, <1>4, <1>6, <1>8 DEF VersionsInOrder
<1>10. current <= current'
  BY <1>2, <1>4, <1>6
<1> QED BY <1>3, <1>5, <1>9, <1>10, CommitKeeps

(* A writer that leaves the set of versions as it is. *)
LEMMA ReviewKeeps ==
  ASSUME ServingInv, Commit, UNCHANGED current,
         row' \in {"live", "trashed", "gone"}, frozen' \in [Vers -> BOOLEAN],
         NEW v \in Vers, NEW st \in Statuses \ {"ABSENT"},
         status' \in {status, [status EXCEPT ![v] = st]}, status[v] # "ABSENT",
         default' \in {default, v}
  PROVE  ServingInv'
<1>1. TypeOK /\ VersionsInOrder
  BY DEF ServingInv
<1>2. status' \in [Vers -> Statuses] /\ \A w \in Vers : status'[w] # "ABSENT" <=> status[w] # "ABSENT"
  BY <1>1 DEF TypeOK
<1>3. default' \in 0..MaxVersion
  BY <1>1, CacheAssumption DEF TypeOK, Vers
<1>4. DbTyped'
  BY <1>1, <1>2, <1>3 DEF DbTyped, TypeOK, Commit
<1>5. default' <= current
  BY <1>1 DEF VersionsInOrder
<1>6. VersionsInOrder'
  BY <1>1, <1>2, <1>5 DEF VersionsInOrder
<1>7. current <= current'
  BY <1>1, CacheAssumption DEF TypeOK, Vers
<1> QED BY <1>4, <1>6, <1>7, CommitKeeps

LEMMA ReviewersKeep ==
  ASSUME ServingInv, NEW v \in Vers,
         ApproveVersion(v) \/ SetDefaultVersion(v) \/ RetireVersion(v)
  PROVE  ServingInv'
<1>1. TypeOK
  BY DEF ServingInv
<1>2. CASE ApproveVersion(v)
  <2>1. frozen' \in [Vers -> BOOLEAN] /\ row' \in {"live", "trashed", "gone"}
    BY <1>1, <1>2 DEF ApproveVersion, TypeOK
  <2>2. "APPROVED" \in Statuses \ {"ABSENT"}
    BY DEF Statuses
  <2>3. /\ Commit /\ UNCHANGED current /\ status[v] # "ABSENT"
        /\ status' \in {status, [status EXCEPT ![v] = "APPROVED"]} /\ default' \in {default, v}
    BY <1>2 DEF ApproveVersion
  <2> QED BY <2>1, <2>2, <2>3, ReviewKeeps
<1>3. CASE SetDefaultVersion(v)
  <2>1. frozen' \in [Vers -> BOOLEAN] /\ row' \in {"live", "trashed", "gone"}
    BY <1>1, <1>3 DEF SetDefaultVersion, TypeOK
  <2>2. "APPROVED" \in Statuses \ {"ABSENT"}
    BY DEF Statuses
  <2>3. /\ Commit /\ UNCHANGED current /\ status[v] # "ABSENT"
        /\ status' \in {status, [status EXCEPT ![v] = "APPROVED"]} /\ default' \in {default, v}
    BY <1>3 DEF SetDefaultVersion
  <2> QED BY <2>1, <2>2, <2>3, ReviewKeeps
<1>4. CASE RetireVersion(v)
  <2>1. frozen' \in [Vers -> BOOLEAN] /\ row' \in {"live", "trashed", "gone"}
    BY <1>1, <1>4 DEF RetireVersion, TypeOK
  <2>2. PICK st \in {"DEPRECATED", "ARCHIVED"} :
          /\ status[v] \in {"APPROVED", "DEPRECATED"} \ {st}
          /\ status' = [status EXCEPT ![v] = st]
    BY <1>4 DEF RetireVersion
  <2>3. st \in Statuses \ {"ABSENT"}
    BY DEF Statuses
  <2>4. /\ Commit /\ UNCHANGED current /\ status[v] # "ABSENT"
        /\ status' \in {status, [status EXCEPT ![v] = st]} /\ default' \in {default, v}
    BY <1>4, <2>2 DEF RetireVersion
  <2> QED BY <2>1, <2>3, <2>4, ReviewKeeps
<1> QED BY <1>2, <1>3, <1>4

LEMMA TrashOrRestoreKeeps ==
  ASSUME ServingInv, TrashOrRestore
  PROVE  ServingInv'
<1>1. TypeOK /\ VersionsInOrder
  BY DEF ServingInv
<1>2. DbTyped' /\ VersionsInOrder'
  BY <1>1 DEF TrashOrRestore, DbTyped, TypeOK, VersionsInOrder, Commit
<1>3. current <= current'
  BY <1>1, CacheAssumption DEF TrashOrRestore, TypeOK, Vers
<1> QED BY <1>2, <1>3, CommitKeeps DEF TrashOrRestore

(* The purge invalidates nothing: in the trash, once the writers have         *)
(* invalidated, there is no entry left to go stale; out of it, the entry is   *)
(* known to be stale.                                                         *)
LEMMA PurgeKeeps ==
  ASSUME ServingInv, PurgePolicy
  PROVE  ServingInv'
<1>1. TypeOK /\ VersionsInOrder /\ CacheInv
  BY DEF ServingInv
<1>2. DbTyped' /\ VersionsInOrder'
  BY <1>1 DEF PurgePolicy, DbTyped, TypeOK, VersionsInOrder
<1>3. current <= current'
  BY <1>1, CacheAssumption DEF PurgePolicy, TypeOK, Vers
<1>4. exec' \in [Executors -> Requests] /\ \A e \in Executors : RequestInv(exec[e])'
  BY <1>2, <1>3, OvertakeKeeps DEF PurgePolicy
<1>5. TypeOK'
  BY <1>1, <1>2, <1>4 DEF PurgePolicy, TypeOK, DbTyped
<1>6. ASSUME NEW m \in cache, invalidating = 0, ~stale' PROVE FALSE
  <2>1. ~stale /\ row = "trashed"
    BY <1>1, <1>6 DEF PurgePolicy, TypeOK
  <2>2. row = "live"
    BY <1>1, <1>6, <2>1 DEF CacheInv, FreshWhenInvalidated
  <2> QED BY <2>1, <2>2
<1>7. CacheInv'
  BY <1>1, <1>6 DEF PurgePolicy, CacheInv, FreshWhenInvalidated
<1> QED BY <1>2, <1>4, <1>5, <1>7 DEF ServingInv

(* The entry goes, is known to be stale, or stays as it is. *)
LEMMA EntryLossKeeps ==
  ASSUME ServingInv, UNCHANGED <<row, current, status, default, frozen, exec>>,
         purging' \in BOOLEAN, invalidating' \in 0..MaxPending,
         \/ cache' = {} /\ stale' = FALSE
         \/ cache' = cache /\ stale' = TRUE
         \/ UNCHANGED <<cache, invalidating, stale>>
  PROVE  ServingInv'
<1>1. TypeOK'
  BY DEF ServingInv, TypeOK
<1>2. VersionsInOrder'
  BY DEF ServingInv, VersionsInOrder
<1>3. Selection' = Selection
  BY DEF Selection, CurrentRows
<1>4. \A e \in Executors : RequestInv(exec[e])'
  BY <1>3 DEF ServingInv, RequestInv, ReadingInv, HydratingInv, LoadedInv, RowsOnceCurrent
<1>5. CacheInv'
  BY DEF ServingInv, CacheInv, FreshWhenInvalidated
<1> QED BY <1>1, <1>2, <1>4, <1>5 DEF ServingInv

LEMMA ServingStarts == Init => ServingInv
<1> SUFFICES ASSUME Init PROVE ServingInv
  OBVIOUS
<1>0. 1 \in Vers /\ MaxVersion \in Nat /\ MaxPending \in Nat /\ \A v \in Vers : v \in Nat /\ 1 <= v
  BY CacheAssumption DEF Vers
<1>1. TypeOK
  <2>1. status \in [Vers -> Statuses]
    BY DEF Init, Statuses
  <2>2. frozen \in [Vers -> BOOLEAN]
    BY DEF Init
  <2>3. exec \in [Executors -> Requests]
    BY DEF Init, Requests
  <2>4. default \in 0..MaxVersion /\ invalidating \in 0..MaxPending
    BY <1>0 DEF Init
  <2>5. cache \in SUBSET Metas /\ \A m, n \in cache : m = n
    BY DEF Init
  <2> QED BY <1>0, <2>1, <2>2, <2>3, <2>4, <2>5 DEF Init, TypeOK
<1>2. VersionsInOrder
  BY <1>0 DEF Init, VersionsInOrder
<1>3. \A e \in Executors : RequestInv(exec[e])
  BY DEF Init, Idle, RequestInv, ReadingInv, HydratingInv, LoadedInv
<1>4. CacheInv
  BY DEF Init, CacheInv, FreshWhenInvalidated
<1> QED BY <1>1, <1>2, <1>3, <1>4 DEF ServingInv

LEMMA ServingKept == ServingInv /\ [Next]_vars => ServingInv'
<1> SUFFICES ASSUME ServingInv, [Next]_vars PROVE ServingInv'
  OBVIOUS
<1>0. TypeOK
  BY DEF ServingInv
<1>1. CASE SaveVersion
  BY <1>1, SaveVersionKeeps
<1>2. CASE TrashOrRestore
  BY <1>2, TrashOrRestoreKeeps
<1>3. CASE PurgePolicy
  BY <1>3, PurgeKeeps
<1>4. ASSUME NEW v \in Vers, ApproveVersion(v) \/ SetDefaultVersion(v) \/ RetireVersion(v)
      PROVE  ServingInv'
  BY <1>4, ReviewersKeep
<1>5. CASE InvalidatePolicyCache
  <2>1. invalidating' \in 0..MaxPending
    BY <1>0, <1>5, CacheAssumption DEF InvalidatePolicyCache, TypeOK
  <2> QED BY <1>0, <1>5, <2>1, EntryLossKeeps DEF InvalidatePolicyCache, dbVars, TypeOK
<1>6. CASE LoseInvalidation
  <2>1. invalidating' \in 0..MaxPending
    BY <1>0, <1>6, CacheAssumption DEF LoseInvalidation, TypeOK
  <2> QED BY <1>0, <1>6, <2>1, EntryLossKeeps DEF LoseInvalidation, dbVars, TypeOK
<1>7. CASE Expire
  BY <1>0, <1>7, EntryLossKeeps DEF Expire, dbVars, TypeOK
<1>8. ASSUME NEW e \in Executors,
             \/ ReadVersions(e) \/ GetCachedPolicyMeta(e) \/ QueryPolicy(e)
             \/ HydrateExecutableVersion(e) \/ CachePolicyMeta(e) \/ Finish(e)
      PROVE  ServingInv'
  BY <1>8, ReadVersionsKeeps, GetCachedKeeps, QueryPolicyKeeps, HydrateKeeps,
     CachePolicyMetaKeeps, FinishKeeps DEF Finish
<1>9. CASE UNCHANGED vars
  BY <1>0, <1>9, EntryLossKeeps DEF vars, dbVars, TypeOK
<1>10. CASE FindTrashed
  BY <1>0, <1>10, EntryLossKeeps DEF FindTrashed, TypeOK
<1> QED BY <1>1, <1>2, <1>3, <1>4, <1>5, <1>6, <1>7, <1>8, <1>9, <1>10 DEF Next

LEMMA Serving == Spec => []ServingInv
  BY ServingStarts, ServingKept, PTL DEF Spec

-----------------------------------------------------------------------------
(* The execute requests, the KV entry and the rows they are read from stay of *)
(* their types, for any number of versions and writers: in particular the     *)
(* entry is never two metas at once.                                          *)
THEOREM TypeCorrect == Spec => []TypeOK
<1>1. ServingInv => TypeOK
  BY DEF ServingInv
<1> QED BY <1>1, Serving, PTL

(* resolveExecutableVersion and isCachedVersionCurrent: a request during      *)
(* which one version was selected throughout runs that version, although the  *)
(* rows, the entry and the policy row it goes by were read at three moments.  *)
THEOREM SelectionIsServed == Spec => []StableSelectionRuns
<1>1. ServingInv => StableSelectionRuns
  BY DEF ServingInv, RequestInv, LoadedInv, RunsTheOneSeen, StableSelectionRuns, Running
<1> QED BY <1>1, Serving, PTL

(* invalidatePolicyCache after every commit: with no invalidation owed or     *)
(* lost, no overtaken write-back and no restored policy purged, the entry is  *)
(* the row of a live policy; also when a purge is under way.                  *)
THEOREM EntryIsFresh == Spec => []FreshWhenInvalidated
<1>1. ServingInv => FreshWhenInvalidated
  BY DEF ServingInv, CacheInv
<1> QED BY <1>1, Serving, PTL
=============================================================================
