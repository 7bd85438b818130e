----------------------- MODULE VocabularyTerms_proofs -----------------------
(* Proofs about VocabularyTerms, for any terms and conflicts between them,    *)
(* any quotas, any imports and any number of requests and sweeps.             *)
EXTENDS VocabularyTerms, FiniteSetTheorems, WellFoundedInduction, SequenceTheorems, TLAPS

(* The links the quota and the conflict check answer for: those that nobody   *)
(* brought back.                                                              *)
Own == Active \ returned

Agree(t, u) == <<t, u>> \notin Conflicts

OwnAgree == \A k, l \in Own : Agree(term[k], term[l])

RowsOK ==
  /\ term \in Seq(Terms) /\ Len(term) <= MaxLinks
  /\ deleted \subseteq Rows /\ archived \subseteq Rows /\ returned \subseteq Active
  /\ DOMAIN archiveSnap = archived
  /\ \A l \in archived : archiveSnap[l] \in snapshots
  /\ \A s \in snapshots : s \subseteq Terms /\ s # {} /\ IsFiniteSet(s)
  /\ maxTerms \in Quotas \union {0}

(* What a request that holds the lock found still holds when it writes: until *)
(* then nobody adds to the links it answers for.                              *)
AddingInv(r) ==
  r.op = "adding" =>
    Cardinality(Own) < r.quota /\ \A l \in Own : Agree(r.term, term[l])

ModifyingInv(r) ==
  r.op = "modifying" => \A l \in Own \ {r.link} : Agree(r.term, term[l])

LandingInv(r) ==
  r.op = "landing" =>
    /\ Cardinality(Own) + r.left <= r.quota \/ r.left = 0
    /\ r.accepted \subseteq 1..Len(r.rows)
    /\ \A i \in r.accepted : \A l \in Own : Agree(r.rows[i], term[l])
    /\ \A i, j \in r.accepted : Agree(r.rows[i], r.rows[j])

RollbackInv(r) ==
  r.op = "rollback" => IsFiniteSet(r.wanted) /\ \A x \in r.seen : x[1] \in Rows

RequestInv(h) ==
  /\ req[h] \in Requests
  /\ req[h].op \in {"adding", "modifying", "restoring", "landing"} => lock = h
  /\ AddingInv(req[h]) /\ ModifyingInv(req[h]) /\ LandingInv(req[h]) /\ RollbackInv(req[h])

(* A sweep that holds the archive lock has links nobody archives meanwhile. *)
PassInv(s) ==
  /\ sweep[s] \in Passes
  /\ sweep[s].op = "archiving" =>
       /\ sweepLock = s
       /\ IsFiniteSet(sweep[s].seen) /\ sweep[s].seen # {}
       /\ \A x \in sweep[s].seen : x[1] \in Rows \ archived

VocabularyInv ==
  /\ RowsOK /\ OwnAgree
  /\ DOMAIN req = Handlers /\ lock \in Handlers \union {NoOne}
  /\ \A h \in Handlers : RequestInv(h)
  /\ DOMAIN sweep = Sweeps /\ sweepLock \in Sweeps \union {NoOne}
  /\ \A s \in Sweeps : PassInv(s)

-----------------------------------------------------------------------------
(* Links *)

LEMMA RowFacts ==
  ASSUME RowsOK
  PROVE  /\ Rows = 1..Len(term) /\ Len(term) \in 0..MaxLinks /\ MaxLinks \in Nat
         /\ IsFiniteSet(Rows) /\ IsFiniteSet(Active) /\ IsFiniteSet(Own)
         /\ Cardinality(Active) \in Nat /\ Cardinality(Own) \in Nat
         /\ Cardinality(Own) <= Cardinality(Active)
         /\ Own \subseteq Active /\ Active \subseteq Rows
         /\ \A l \in Rows : l \in Links /\ l \in Nat /\ l # 0 /\ term[l] \in Terms
         /\ Quotas \subseteq Nat
<1>1. /\ Len(term) \in Nat /\ Rows = 1..Len(term) /\ Len(term) <= MaxLinks
      /\ \A l \in Rows : term[l] \in Terms
  <2>1. term \in Seq(Terms) /\ Len(term) <= MaxLinks
    BY DEF RowsOK
  <2>2. Len(term) \in Nat /\ DOMAIN term = 1..Len(term) /\ term \in [1..Len(term) -> Terms]
    BY <2>1, LenProperties
  <2> QED BY <2>1, <2>2 DEF Rows
<1>2. MaxLinks \in Nat /\ Quotas \subseteq Nat
  BY ConstantsAssumption
<1>3. IsFiniteSet(Rows)
  <2>1. 1 \in Int /\ Len(term) \in Int
    BY <1>1
  <2> QED BY <1>1, <2>1, FS_Interval
<1>4. Active \subseteq Rows /\ Own \subseteq Active
  BY DEF Active, Own
<1>5. IsFiniteSet(Active) /\ IsFiniteSet(Own) /\ Cardinality(Own) <= Cardinality(Active)
  BY <1>3, <1>4, FS_Subset
<1>6. Cardinality(Active) \in Nat /\ Cardinality(Own) \in Nat
  BY <1>5, FS_CardinalityType
<1>7. \A l \in Rows : l \in Links /\ l \in Nat /\ l # 0
  BY <1>1, <1>2 DEF Links
<1> QED BY <1>1, <1>2, <1>3, <1>4, <1>5, <1>6, <1>7

(* New rows come after those there are. *)
LEMMA Inserted ==
  ASSUME RowsOK, NEW ts \in Seq(Terms), Insert(ts)
  PROVE  /\ term' \in Seq(Terms) /\ Len(term') = Len(term) + Len(ts) /\ Len(term') <= MaxLinks
         /\ Len(ts) \in Nat
         /\ Rows' = Rows \union (Len(term) + 1)..(Len(term) + Len(ts))
         /\ Rows \intersect (Len(term) + 1)..(Len(term) + Len(ts)) = {}
         /\ \A l \in Rows : l \in Rows' /\ term'[l] = term[l]
         /\ \A l \in (Len(term) + 1)..(Len(term) + Len(ts)) :
              \E i \in 1..Len(ts) : term'[l] = ts[i]
<1>1. /\ term \in Seq(Terms) /\ Rows = 1..Len(term) /\ Len(term) \in Nat
      /\ Len(ts) \in Nat /\ DOMAIN ts = 1..Len(ts)
  BY RowFacts, LenProperties DEF RowsOK
<1>2. term' = term \o ts /\ Len(term) + Len(ts) <= MaxLinks
  BY DEF Insert
<1>3. /\ term' \in Seq(Terms) /\ Len(term') = Len(term) + Len(ts)
      /\ \A l \in 1..(Len(term) + Len(ts)) :
           term'[l] = IF l <= Len(term) THEN term[l] ELSE ts[l - Len(term)]
  BY <1>1, <1>2, ConcatProperties
<1>4. Rows' = 1..(Len(term) + Len(ts))
  BY <1>3, LenProperties DEF Rows
<1>5. PICK n, k : n = Len(term) /\ k = Len(ts)
  OBVIOUS
<1>6. n \in Nat /\ k \in Nat
  BY <1>1, <1>5
<1>7. /\ 1..(n + k) = 1..n \union (n + 1)..(n + k)
      /\ 1..n \intersect (n + 1)..(n + k) = {}
  BY <1>6
<1>8. \A l \in 1..n : l \in 1..(n + k) /\ l <= n
  BY <1>6
<1>9. \A l \in (n + 1)..(n + k) : l \in 1..(n + k) /\ ~(l <= n) /\ l - n \in 1..k
  BY <1>6
<1>10. \A l \in Rows : l \in Rows' /\ term'[l] = term[l]
  BY <1>1, <1>3, <1>4, <1>5, <1>8
<1>11. \A l \in (n + 1)..(n + k) : \E i \in 1..k : term'[l] = ts[i]
  BY <1>3, <1>5, <1>9
<1> QED BY <1>1, <1>2, <1>3, <1>4, <1>5, <1>7, <1>10, <1>11

(* Rows that a locked writer adds count against the quota, all of them.        *)
LEMMA OwnInserted ==
  ASSUME RowsOK, NEW ts \in Seq(Terms), Insert(ts),
         UNCHANGED <<deleted, archived, archiveSnap, returned, snapshots, maxTerms>>
  PROVE  /\ RowsOK'
         /\ \A l \in Rows : l \in Rows'
         /\ IsFiniteSet(Own') /\ Cardinality(Own') <= Cardinality(Own) + Len(ts)
         /\ \A l \in Own : l \in Rows /\ term'[l] = term[l]
         /\ \A l \in Own' : l \in Own \/ \E i \in 1..Len(ts) : term'[l] = ts[i]
<1>1. PICK more : more = (Len(term) + 1)..(Len(term) + Len(ts))
  OBVIOUS
<1>2. /\ term' \in Seq(Terms) /\ Len(term') <= MaxLinks
      /\ Len(ts) \in Nat /\ Rows' = Rows \union more /\ Rows \intersect more = {}
      /\ \A l \in Rows : l \in Rows' /\ term'[l] = term[l]
      /\ \A l \in more : \E i \in 1..Len(ts) : term'[l] = ts[i]
  BY <1>1, Inserted
<1>3. /\ deleted' = deleted /\ archived' = archived /\ archiveSnap' = archiveSnap
      /\ returned' = returned /\ snapshots' = snapshots /\ maxTerms' = maxTerms
  OBVIOUS
<1>4. deleted \subseteq Rows /\ archived \subseteq Rows /\ returned \subseteq Active
  BY DEF RowsOK
<1>5. Active' = Active \union more /\ Own' = Own \union more
  BY <1>2, <1>3, <1>4 DEF Active, Own
<1>6. RowsOK'
  BY <1>2, <1>3, <1>4, <1>5 DEF RowsOK
<1>7. IsFiniteSet(more) /\ Cardinality(more) = Len(ts)
  <2>1. Len(term) \in Nat
    BY RowFacts
  <2>2. PICK n, k : n = Len(term) /\ k = Len(ts)
    OBVIOUS
  <2>3. n + 1 \in Int /\ n + k \in Int /\ n \in Nat /\ k \in Nat
    BY <1>2, <2>1, <2>2
  <2>4. IsFiniteSet((n + 1)..(n + k)) /\
        Cardinality((n + 1)..(n + k)) = IF n + 1 > n + k THEN 0 ELSE n + k - (n + 1) + 1
    BY <2>3, FS_Interval
  <2>5. Cardinality((n + 1)..(n + k)) = k
    BY <2>3, <2>4
  <2> QED BY <1>1, <2>2, <2>4, <2>5
<1>8. IsFiniteSet(Own) /\ Cardinality(Own) \in Nat
  BY RowFacts
<1>9. IsFiniteSet(Own') /\ Cardinality(Own') <= Cardinality(Own) + Len(ts)
  <2>1. PICK S : S = Own
    OBVIOUS
  <2>2. IsFiniteSet(S \union more)
    BY <1>7, <1>8, <2>1, FS_Union
  <2>3. Cardinality(S \union more) =
          Cardinality(S) + Cardinality(more) - Cardinality(S \intersect more)
    BY <1>7, <1>8, <2>1, FS_Union
  <2>4. S \intersect more \subseteq S
    OBVIOUS
  <2>5. Cardinality(S \intersect more) \in Nat
    BY <1>8, <2>1, <2>4, FS_Subset, FS_CardinalityType
  <2>6. Cardinality(S \union more) <= Cardinality(S) + Len(ts)
    BY <1>2, <1>7, <1>8, <2>1, <2>3, <2>5
  <2> QED BY <1>5, <2>1, <2>2, <2>6
<1>10. Own \subseteq Rows
  BY RowFacts
<1> QED BY <1>2, <1>5, <1>6, <1>9, <1>10

-----------------------------------------------------------------------------
(* What a bulk chunk lands *)

(* The first k of a finite set of numbers are at most k. *)
LEMMA FirstFew ==
  ASSUME NEW F \in SUBSET Nat, IsFiniteSet(F), NEW k \in Nat,
         NEW first, first = {r \in F : Cardinality({q \in F : q <= r}) <= k}
  PROVE  IsFiniteSet(first) /\ Cardinality(first) <= k
<1> DEFINE UpTo(r) == {q \in F : q <= r}
           rank == [r \in first |-> Cardinality(UpTo(r))]
<1>0. first \subseteq F /\ \A r \in first : Cardinality(UpTo(r)) <= k
  OBVIOUS
<1>1. ASSUME NEW r \in F PROVE IsFiniteSet(UpTo(r)) /\ Cardinality(UpTo(r)) \in Nat \ {0}
  <2>1. UpTo(r) \in SUBSET F /\ r \in UpTo(r)
    OBVIOUS
  <2> HIDE DEF UpTo
  <2>2. IsFiniteSet(UpTo(r))
    BY <2>1, FS_Subset
  <2> QED BY <2>1, <2>2, FS_CardinalityType, FS_EmptySet
<1>2. ASSUME NEW r \in F, NEW s \in F, r < s
      PROVE  Cardinality(UpTo(r)) # Cardinality(UpTo(s))
  <2>0. \A q \in F : q \in Nat
    OBVIOUS
  <2>1. UpTo(r) \in SUBSET UpTo(s)
    <3>1. \A q \in F : q <= r => q <= s
      BY <2>0, <1>2
    <3> QED BY <3>1
  <2>2. s \in UpTo(s) /\ s \notin UpTo(r)
    BY <1>2, <2>0
  <2> HIDE DEF UpTo
  <2> QED BY <1>1, <2>1, <2>2, FS_Subset
<1>3. rank \in [first -> 1..k]
  <2> HIDE DEF UpTo
  <2>1. ASSUME NEW r \in first PROVE Cardinality(UpTo(r)) \in 1..k
    BY <1>0, <1>1
  <2> QED BY <2>1
<1>4. \A r, s \in first : r # s => rank[r] # rank[s]
  <2>1. \A r, s \in first : r \in Nat /\ s \in Nat /\ (r # s => r < s \/ s < r)
    BY <1>0
  <2> HIDE DEF UpTo
  <2> QED BY <1>0, <1>2, <2>1
<1>5. rank \in Injection(first, 1..k)
  BY <1>3, <1>4 DEF Injection, IsInjective
<1>6. IsFiniteSet(1..k) /\ Cardinality(1..k) = k
  <2>1. 1 \in Int /\ k \in Int
    OBVIOUS
  <2> QED BY <2>1, FS_Interval
<1> HIDE DEF rank
<1> QED BY <1>5, <1>6, FS_Injection

(* Induction, about a set: had it a gap, it would have a first gap. *)
LEMMA FromZeroUp ==
  ASSUME NEW n \in Nat, NEW G, 0 \in G, \A i \in 1..n : i - 1 \in G => i \in G
  PROVE  \A i \in 0..n : i \in G
<1> DEFINE Gaps == {i \in 0..n : i \notin G}
<1> SUFFICES ASSUME Gaps # {} PROVE FALSE
  OBVIOUS
<1>1. Gaps \subseteq Nat
  OBVIOUS
<1>2. PICK i \in Gaps : \A k \in Gaps : ~ (<<k, i>> \in OpToRel(<, Nat))
  BY <1>1, NatLessThanWellFounded, WFMin
<1>3. i \in 1..n /\ i \notin G
  <2>1. i \in 0..n /\ i \notin G
    OBVIOUS
  <2>2. i # 0
    BY <2>1
  <2> QED BY <2>1, <2>2
<1>4. i - 1 \in 0..n /\ i - 1 \in Nat /\ i - 1 < i /\ i \in Nat
  BY <1>3
<1>5. i - 1 \notin Gaps
  <2>1. <<i - 1, i>> \in OpToRel(<, Nat)
    BY <1>4 DEF OpToRel
  <2> QED BY <1>2, <2>1
<1> QED BY <1>3, <1>4, <1>5

(* A function on the first numbers may be defined step by step. *)
Steps(n, S) == [(1..n) \X S -> S]

Follows(f, n, S, base, step) ==
  /\ f \in [0..n -> S]
  /\ f[0] = base /\ \A i \in 1..n : f[i] = step[<<i, f[i - 1]>>]

LEMMA StepByStep ==
  ASSUME NEW n \in Nat, NEW S, NEW base \in S, NEW step \in Steps(n, S)
  PROVE  \E f : Follows(f, n, S, base, step)
<1> DEFINE Long(m) == \E f \in [0..m -> S] :
                         f[0] = base /\ \A i \in 1..m : f[i] = step[<<i, f[i - 1]>>]
           G == {m \in 0..n : Long(m)}
<1>1. Long(0)
  <2>1. PICK f : f = [i \in 0..0 |-> base]
    OBVIOUS
  <2>2. f \in [0..0 -> S] /\ f[0] = base /\ 1..0 = {}
    BY <2>1
  <2> QED BY <2>2
<1>2. ASSUME NEW m \in 1..n, Long(m - 1)
      PROVE  Long(m)
  <2>1. PICK f \in [0..(m - 1) -> S] :
          f[0] = base /\ \A i \in 1..(m - 1) : f[i] = step[<<i, f[i - 1]>>]
    BY <1>2
  <2>2. PICK last : last = step[<<m, f[m - 1]>>]
    OBVIOUS
  <2>3. last \in S
    <3>1. f[m - 1] \in S
      <4>1. m - 1 \in 0..(m - 1)
        OBVIOUS
      <4> QED BY <4>1
    <3> QED BY <2>2, <3>1 DEF Steps
  <2>4. PICK g : g = [i \in 0..m |-> IF i = m THEN last ELSE f[i]]
    OBVIOUS
  <2>5. /\ \A i \in 0..m : i # m => i \in 0..(m - 1)
        /\ \A i \in 1..m : i - 1 \in 0..(m - 1) /\ i - 1 \in 0..m /\ i - 1 # m /\ i \in 0..m
        /\ \A i \in 1..m : i # m => i \in 1..(m - 1)
        /\ 0 \in 0..m /\ 0 # m
    OBVIOUS
  <2>6. g \in [0..m -> S]
    BY <2>3, <2>4, <2>5
  <2>7. g[0] = base
    BY <2>1, <2>4, <2>5
  <2>8. ASSUME NEW i \in 1..m PROVE g[i] = step[<<i, g[i - 1]>>]
    <3>1. g[i - 1] = f[i - 1]
      BY <2>4, <2>5
    <3>2. CASE i = m
      BY <2>2, <2>4, <2>5, <3>1, <3>2
    <3>3. CASE i # m
      <4>1. g[i] = f[i]
        BY <2>4, <2>5, <3>3
      <4> QED BY <2>1, <2>5, <3>1, <3>3, <4>1
    <3> QED BY <3>2, <3>3
  <2> QED BY <2>6, <2>7, <2>8
<1>3. 0 \in G
  BY <1>1
<1>4. \A m \in 1..n : m - 1 \in G => m \in G
  <2> HIDE DEF Long
  <2> QED BY <1>2
<1>5. n \in G
  <2> HIDE DEF G
  <2>1. n \in 0..n
    OBVIOUS
  <2> QED BY <1>3, <1>4, <2>1, FromZeroUp
<1> QED BY <1>5 DEF Follows

(* Each row is screened after the rows before it. *)
ScreenedUpTo(rows, ok, i) ==
  IF i = 0 THEN {}
  ELSE IF /\ NoScopeConflict(rows[i], 0)
          /\ \A j \in ok[i - 1] : <<rows[i], rows[j]>> \notin Conflicts
       THEN ok[i - 1] \union {i}
       ELSE ok[i - 1]

LEMMA ScreeningUnfolds ==
  ASSUME NEW rows, NEW n \in Nat
  PROVE  \E ok : ok = [i \in 0..n |-> ScreenedUpTo(rows, ok, i)]
<1> DEFINE Fits(i, S) == NoScopeConflict(rows[i], 0) /\ \A j \in S : <<rows[i], rows[j]>> \notin Conflicts
           step == [x \in (1..n) \X SUBSET Nat |->
                      IF Fits(x[1], x[2]) THEN x[2] \union {x[1]} ELSE x[2]]
<1>1. step \in [(1..n) \X SUBSET Nat -> SUBSET Nat]
  <2> HIDE DEF Fits
  <2> QED OBVIOUS
<1>2. {} \in SUBSET Nat
  OBVIOUS
<1>3. \A i \in 1..n, S \in SUBSET Nat :
        step[<<i, S>>] = IF Fits(i, S) THEN S \union {i} ELSE S
  <2> HIDE DEF Fits
  <2> QED OBVIOUS
<1>4. PICK ok : Follows(ok, n, SUBSET Nat, {}, step)
  <2> HIDE DEF step
  <2>1. step \in Steps(n, SUBSET Nat)
    BY <1>1 DEF Steps
  <2> QED BY <1>2, <2>1, StepByStep
<1> HIDE DEF step
<1>5. /\ ok \in [0..n -> SUBSET Nat]
      /\ ok[0] = {} /\ \A i \in 1..n : ok[i] = step[<<i, ok[i - 1]>>]
  BY <1>4 DEF Follows
<1>6. ASSUME NEW i \in 0..n PROVE ok[i] = ScreenedUpTo(rows, ok, i)
  <2>1. CASE i = 0
    BY <1>5, <2>1 DEF ScreenedUpTo
  <2>2. CASE i # 0
    <3>1. i \in 1..n /\ i - 1 \in 0..n
      BY <2>2
    <3>2. ok[i - 1] \in SUBSET Nat
      BY <1>5, <3>1
    <3>3. ok[i] = IF Fits(i, ok[i - 1]) THEN ok[i - 1] \union {i} ELSE ok[i - 1]
      <4> HIDE DEF Fits
      <4> QED BY <1>3, <1>5, <3>1, <3>2
    <3> QED BY <2>2, <3>3 DEF ScreenedUpTo
  <2> QED BY <2>1, <2>2
<1> QED BY <1>5, <1>6

(* The rows screened conflict with no active link and with none another. *)
LEMMA ScreenedAgree ==
  ASSUME RowsOK, NEW rows \in Seq(Terms)
  PROVE  /\ Screened(rows) \subseteq 1..Len(rows)
         /\ \A i \in Screened(rows) : \A l \in Active : Agree(rows[i], term[l])
         /\ \A i, j \in Screened(rows) : Agree(rows[i], rows[j])
<1> DEFINE n == Len(rows)
<1>1. n \in Nat /\ \A i \in 1..n : rows[i] \in Terms
  BY LenProperties
<1>2. PICK ok : ok = [i \in 0..n |-> ScreenedUpTo(rows, ok, i)] /\ Screened(rows) = ok[n]
  <2>1. Screened(rows) =
          (CHOOSE ok : ok = [i \in 0..n |-> ScreenedUpTo(rows, ok, i)])[n]
    BY DEF Screened, ScreenedUpTo
  <2> HIDE DEF n
  <2> QED BY <1>1, <2>1, ScreeningUnfolds
<1> HIDE DEF n
<1> DEFINE Good(S, i) ==
             /\ S \subseteq 1..i
             /\ \A j \in S : \A l \in Active : Agree(rows[j], term[l])
             /\ \A j, k \in S : Agree(rows[j], rows[k])
           G == {i \in 0..n : Good(ok[i], i)}
<1>3. ASSUME NEW i \in 1..n, Good(ok[i - 1], i - 1)
      PROVE  Good(ok[i], i)
  <2>1. i \in 0..n /\ i # 0 /\ i \in Nat /\ rows[i] \in Terms
    BY <1>1
  <2>2. ok[i] = ScreenedUpTo(rows, ok, i)
    BY <1>2, <2>1
  <2>3. PICK S : S = ok[i - 1]
    OBVIOUS
  <2>4. S \subseteq 1..i /\ i \in 1..i
    BY <1>3, <2>1, <2>3
  <2>5. CASE NoScopeConflict(rows[i], 0) /\ \A j \in S : <<rows[i], rows[j]>> \notin Conflicts
    <3>1. ok[i] = S \union {i}
      BY <2>1, <2>2, <2>3, <2>5 DEF ScreenedUpTo
    <3>2. \A l \in Active : Agree(rows[i], term[l])
      BY <2>5, RowFacts DEF NoScopeConflict, Agree
    <3>3. \A j \in S : rows[j] \in Terms
      <4>1. \A j \in 1..(i - 1) : j \in 1..n
        BY <1>1, <2>1
      <4> QED BY <1>1, <1>3, <2>3, <4>1
    <3>4. \A j \in S : Agree(rows[i], rows[j]) /\ Agree(rows[j], rows[i])
      BY <2>1, <2>5, <3>3, ConstantsAssumption DEF Agree
    <3>5. Agree(rows[i], rows[i])
      BY <2>1, ConstantsAssumption DEF Agree
    <3> QED BY <1>3, <2>3, <2>4, <3>1, <3>2, <3>4, <3>5
  <2>6. CASE ~(NoScopeConflict(rows[i], 0) /\ \A j \in S : <<rows[i], rows[j]>> \notin Conflicts)
    <3>1. ok[i] = S
      BY <2>1, <2>2, <2>3, <2>6 DEF ScreenedUpTo
    <3> QED BY <1>3, <2>3, <2>4, <3>1
  <2> QED BY <2>5, <2>6
<1>4. Good(ok[0], 0)
  <2>1. ok[0] = {}
    BY <1>1, <1>2 DEF ScreenedUpTo
  <2> QED BY <2>1
<1> HIDE DEF Good
<1>5. 0 \in G /\ \A i \in 1..n : i - 1 \in G => i \in G
  BY <1>1, <1>3, <1>4
<1>6. n \in G
  <2> HIDE DEF G
  <2>1. n \in 0..n
    BY <1>1
  <2> QED BY <1>1, <1>5, <2>1, FromZeroUp
<1>7. Good(ok[n], n)
  BY <1>6
<1> QED BY <1>2, <1>7 DEF n, Good

(* The rows at some of the indices of a batch, one for each. *)
InOrderUpTo(rows, S, upTo, i) ==
  IF i = 0 THEN <<>>
  ELSE IF i \in S THEN Append(upTo[i - 1], rows[i]) ELSE upTo[i - 1]

LEMMA OrderingUnfolds ==
  ASSUME NEW rows, NEW n \in Nat, \A i \in 1..n : rows[i] \in Terms, NEW S
  PROVE  \E upTo : upTo = [i \in 0..n |-> InOrderUpTo(rows, S, upTo, i)]
<1> DEFINE step == [x \in (1..n) \X Seq(Terms) |->
                      IF x[1] \in S THEN Append(x[2], rows[x[1]]) ELSE x[2]]
<1>1. step \in [(1..n) \X Seq(Terms) -> Seq(Terms)]
  <2>1. \A x \in (1..n) \X Seq(Terms) : Append(x[2], rows[x[1]]) \in Seq(Terms)
    BY AppendProperties
  <2> QED BY <2>1
<1>2. <<>> \in Seq(Terms)
  BY EmptySeq
<1>3. \A i \in 1..n, ts \in Seq(Terms) :
        step[<<i, ts>>] = IF i \in S THEN Append(ts, rows[i]) ELSE ts
  OBVIOUS
<1>4. PICK upTo : Follows(upTo, n, Seq(Terms), <<>>, step)
  <2> HIDE DEF step
  <2>1. step \in Steps(n, Seq(Terms))
    BY <1>1 DEF Steps
  <2> QED BY <1>2, <2>1, StepByStep
<1> HIDE DEF step
<1>5. /\ upTo \in [0..n -> Seq(Terms)]
      /\ upTo[0] = <<>> /\ \A i \in 1..n : upTo[i] = step[<<i, upTo[i - 1]>>]
  BY <1>4 DEF Follows
<1>6. ASSUME NEW i \in 0..n PROVE upTo[i] = InOrderUpTo(rows, S, upTo, i)
  <2>1. CASE i = 0
    BY <1>5, <2>1 DEF InOrderUpTo
  <2>2. CASE i # 0
    <3>1. i \in 1..n /\ i - 1 \in 0..n
      BY <2>2
    <3>2. upTo[i - 1] \in Seq(Terms)
      BY <1>5, <3>1
    <3>3. upTo[i] = IF i \in S THEN Append(upTo[i - 1], rows[i]) ELSE upTo[i - 1]
      BY <1>3, <1>5, <3>1, <3>2
    <3> QED BY <2>2, <3>3 DEF InOrderUpTo
  <2> QED BY <2>1, <2>2
<1> QED BY <1>5, <1>6

LEMMA InOrderRows ==
  ASSUME NEW rows \in Seq(Terms), NEW S \in SUBSET (1..Len(rows))
  PROVE  /\ InOrder(rows, S) \in Seq(Terms)
         /\ IsFiniteSet(S) /\ Len(InOrder(rows, S)) = Cardinality(S)
         /\ \A k \in 1..Len(InOrder(rows, S)) : \E i \in S : InOrder(rows, S)[k] = rows[i]
<1> DEFINE n == Len(rows)
<1>1. n \in Nat /\ \A i \in 1..n : rows[i] \in Terms
  BY LenProperties
<1>2. PICK upTo : upTo = [i \in 0..n |-> InOrderUpTo(rows, S, upTo, i)] /\ InOrder(rows, S) = upTo[n]
  <2>1. InOrder(rows, S) =
          (CHOOSE upTo : upTo = [i \in 0..n |-> InOrderUpTo(rows, S, upTo, i)])[n]
    BY DEF InOrder, InOrderUpTo
  <2> HIDE DEF n
  <2>2. \E upTo : upTo = [i \in 0..n |-> InOrderUpTo(rows, S, upTo, i)]
    BY <1>1, OrderingUnfolds
  <2> QED BY <2>1, <2>2
<1>3. S \subseteq 1..n
  OBVIOUS
<1> HIDE DEF n
<1> DEFINE Good(ts, i) ==
             /\ ts \in Seq(Terms)
             /\ IsFiniteSet(S \intersect 1..i) /\ Len(ts) = Cardinality(S \intersect 1..i)
             /\ \A k \in 1..Len(ts) : \E j \in S : ts[k] = rows[j]
           G == {i \in 0..n : Good(upTo[i], i)}
<1>4. ASSUME NEW i \in 1..n, Good(upTo[i - 1], i - 1)
      PROVE  Good(upTo[i], i)
  <2>1. i \in 0..n /\ i # 0 /\ i \in Nat /\ rows[i] \in Terms
    BY <1>1
  <2>2. upTo[i] = InOrderUpTo(rows, S, upTo, i)
    BY <1>2, <2>1
  <2>3. PICK ts, T : ts = upTo[i - 1] /\ T = S \intersect 1..(i - 1)
    OBVIOUS
  <2>4. /\ ts \in Seq(Terms) /\ IsFiniteSet(T) /\ Len(ts) = Cardinality(T)
        /\ \A k \in 1..Len(ts) : \E j \in S : ts[k] = rows[j]
    BY <1>4, <2>3
  <2>5. Len(ts) \in Nat
    BY <2>4, LenProperties
  <2>6. CASE i \in S
    <3>1. upTo[i] = Append(ts, rows[i])
      BY <2>1, <2>2, <2>3, <2>6 DEF InOrderUpTo
    <3>2. /\ Append(ts, rows[i]) \in Seq(Terms)
          /\ Len(Append(ts, rows[i])) = Len(ts) + 1
          /\ \A k \in 1..Len(ts) : Append(ts, rows[i])[k] = ts[k]
          /\ Append(ts, rows[i])[Len(ts) + 1] = rows[i]
      BY <2>1, <2>4, AppendProperties
    <3>3. S \intersect 1..i = T \union {i} /\ i \notin T
      BY <2>1, <2>3, <2>6
    <3>4. IsFiniteSet(T \union {i}) /\ Cardinality(T \union {i}) = Cardinality(T) + 1
      BY <2>4, <3>3, FS_AddElement
    <3>5. \A k \in 1..(Len(ts) + 1) : k \in 1..Len(ts) \/ k = Len(ts) + 1
      BY <2>5
    <3> QED BY <2>4, <2>6, <3>1, <3>2, <3>3, <3>4, <3>5
  <2>7. CASE i \notin S
    <3>1. upTo[i] = ts
      BY <2>1, <2>2, <2>3, <2>7 DEF InOrderUpTo
    <3>2. S \intersect 1..i = T
      BY <2>1, <2>3, <2>7
    <3> QED BY <2>4, <3>1, <3>2
  <2> QED BY <2>6, <2>7
<1>5. Good(upTo[0], 0)
  <2>1. upTo[0] = <<>>
    BY <1>1, <1>2 DEF InOrderUpTo
  <2>2. S \intersect 1..0 = {}
    OBVIOUS
  <2>3. IsFiniteSet({}) /\ Cardinality({}) = 0
    BY FS_EmptySet
  <2>4. <<>> \in Seq(Terms) /\ Len(<<>>) = 0 /\ 1..0 = {}
    BY EmptySeq
  <2> QED BY <2>1, <2>2, <2>3, <2>4
<1> HIDE DEF Good
<1>6. 0 \in G /\ \A i \in 1..n : i - 1 \in G => i \in G
  BY <1>1, <1>4, <1>5
<1>7. n \in G
  <2> HIDE DEF G
  <2>1. n \in 0..n
    BY <1>1
  <2> QED BY <1>1, <1>6, <2>1, FromZeroUp
<1>8. Good(upTo[n], n)
  BY <1>7
<1>9. S \intersect 1..n = S
  BY <1>3
<1> QED BY <1>2, <1>8, <1>9 DEF Good

(* A chunk lands accepted rows, and no more than the quota it counted. *)
LEMMA LandsWithinQuota ==
  ASSUME NEW r, r.accepted \subseteq 1..Len(r.rows), r.rows \in Seq(Terms), r.left \in Nat
  PROVE  /\ Landing(r) \subseteq r.accepted
         /\ InOrder(r.rows, Landing(r)) \in Seq(Terms)
         /\ Len(InOrder(r.rows, Landing(r))) \in Nat
         /\ Len(InOrder(r.rows, Landing(r))) <= r.left
         /\ \A k \in 1..Len(InOrder(r.rows, Landing(r))) :
              \E i \in r.accepted : InOrder(r.rows, Landing(r))[k] = r.rows[i]
<1>1. PICK F, k, first : F = Fresh(r) /\ k = r.left /\ first = Landing(r)
  OBVIOUS
<1>2. Len(r.rows) \in Nat
  BY LenProperties
<1>3. F \subseteq r.accepted /\ first \subseteq F
  BY <1>1 DEF Fresh, Landing
<1>4. F \in SUBSET Nat
  BY <1>2, <1>3
<1>5. IsFiniteSet(F)
  <2>1. 1 \in Int /\ Len(r.rows) \in Int
    BY <1>2
  <2>2. IsFiniteSet(1..Len(r.rows))
    BY <2>1, FS_Interval
  <2> QED BY <1>3, <2>2, FS_Subset
<1>6. first = {i \in F : Cardinality({j \in F : j <= i}) <= k}
  BY <1>1 DEF Landing
<1>7. IsFiniteSet(first) /\ Cardinality(first) <= k
  BY <1>1, <1>4, <1>5, <1>6, FirstFew
<1>8. first \in SUBSET (1..Len(r.rows))
  BY <1>3
<1>9. /\ InOrder(r.rows, first) \in Seq(Terms)
      /\ Len(InOrder(r.rows, first)) = Cardinality(first)
      /\ \A j \in 1..Len(InOrder(r.rows, first)) : \E i \in first : InOrder(r.rows, first)[j] = r.rows[i]
  BY <1>8, InOrderRows
<1>10. Len(InOrder(r.rows, first)) \in Nat
  BY <1>9, LenProperties
<1> QED BY <1>1, <1>3, <1>7, <1>9, <1>10

-----------------------------------------------------------------------------
(* What a step leaves to the others *)

LEMMA RequestShapes ==
  ASSUME NEW r \in Requests
  PROVE  /\ r.op \in {"idle", "add", "adding", "modify", "modifying", "restore", "restoring",
                      "bulk", "landing", "rollback"}
         /\ r.op \in {"add", "adding"} =>
              r \in [op: {"add", "adding"}, term: Terms, quota: Quotas]
         /\ r.op \in {"modify", "modifying", "restore", "restoring"} =>
              r \in [op: {"modify", "modifying", "restore", "restoring"}, link: Links, term: Terms]
         /\ r.op = "bulk" => r \in [op: {"bulk"}, rows: Batches, quota: Quotas]
         /\ r.op = "landing" =>
              r \in [op: {"landing"}, rows: Batches, quota: Quotas, accepted: SUBSET Nat, left: Nat]
         /\ r.op = "rollback" =>
              r \in [op: {"rollback"}, wanted: SUBSET Terms, seen: SUBSET (Links \X Terms)]
BY DEF Requests, Idle

(* Nobody adds to the links that count, or changes their terms. *)
OwnShrinks == Own' \subseteq Own /\ \A l \in Own' : term'[l] = term[l]

LEMMA RequestKept ==
  ASSUME VocabularyInv, NEW h \in Handlers, req'[h] = req[h], lock = h => lock' = h,
         \A l \in Rows : l \in Rows', OwnShrinks \/ lock # h
  PROVE  RequestInv(h)'
<1>1. PICK r : r = req[h]
  OBVIOUS
<1>2. /\ RequestInv(h) /\ r \in Requests
      /\ r.op \in {"adding", "modifying", "restoring", "landing"} => lock = h
      /\ AddingInv(r) /\ ModifyingInv(r) /\ LandingInv(r) /\ RollbackInv(r)
  BY <1>1 DEF VocabularyInv, RequestInv
<1>3. RollbackInv(r)'
  BY <1>2 DEF RollbackInv
<1>4. CASE r.op \notin {"adding", "modifying", "restoring", "landing"}
  <2>1. AddingInv(r)' /\ ModifyingInv(r)' /\ LandingInv(r)'
    BY <1>4 DEF AddingInv, ModifyingInv, LandingInv
  <2> QED BY <1>1, <1>2, <1>3, <1>4, <2>1 DEF RequestInv
<1>5. CASE r.op \in {"adding", "modifying", "restoring", "landing"}
  <2>1. OwnShrinks /\ lock' = h
    BY <1>2, <1>5
  <2>2. IsFiniteSet(Own) /\ Cardinality(Own) \in Nat /\ Quotas \subseteq Nat
    BY RowFacts DEF VocabularyInv
  <2>3. IsFiniteSet(Own') /\ Cardinality(Own') <= Cardinality(Own) /\ Cardinality(Own') \in Nat
    <3>1. Own' \subseteq Own
      BY <2>1 DEF OwnShrinks
    <3>2. PICK S, T : S = Own /\ T = Own'
      OBVIOUS
    <3>3. IsFiniteSet(T) /\ Cardinality(T) <= Cardinality(S)
      BY <2>2, <3>1, <3>2, FS_Subset
    <3> QED BY <3>2, <3>3, FS_CardinalityType
  <2>4. \A l \in Own' : l \in Own /\ term'[l] = term[l]
    BY <2>1 DEF OwnShrinks
  <2>5. AddingInv(r)'
    <3>1. CASE r.op = "adding"
      <4>1. r.quota \in Nat
        BY <1>2, <2>2, <3>1, RequestShapes
      <4> QED BY <1>2, <2>2, <2>3, <2>4, <3>1, <4>1 DEF AddingInv
    <3>2. CASE r.op # "adding"
      BY <3>2 DEF AddingInv
    <3> QED BY <3>1, <3>2
  <2>6. ModifyingInv(r)'
    BY <1>2, <2>4 DEF ModifyingInv
  <2>7. LandingInv(r)'
    <3>1. CASE r.op = "landing"
      <4>1. r.left \in Nat /\ r.quota \in Nat
        BY <1>2, <2>2, <3>1, RequestShapes
      <4> QED BY <1>2, <2>2, <2>3, <2>4, <3>1, <4>1 DEF LandingInv
    <3>2. CASE r.op # "landing"
      BY <3>2 DEF LandingInv
    <3> QED BY <3>1, <3>2
  <2> QED BY <1>1, <1>2, <1>3, <2>1, <2>5, <2>6, <2>7 DEF RequestInv
<1> QED BY <1>4, <1>5

LEMMA PassKept ==
  ASSUME VocabularyInv, NEW s \in Sweeps, sweep'[s] = sweep[s], sweepLock = s => sweepLock' = s,
         \A l \in Rows : l \in Rows', archived' = archived \/ sweepLock # s
  PROVE  PassInv(s)'
<1>1. PassInv(s)
  BY DEF VocabularyInv
<1>2. CASE sweep[s].op = "archiving"
  <2>1. sweepLock = s /\ archived' = archived
    BY <1>1, <1>2 DEF PassInv
  <2> QED BY <1>1, <1>2, <2>1 DEF PassInv
<1>3. CASE sweep[s].op # "archiving"
  BY <1>1, <1>3 DEF PassInv
<1> QED BY <1>2, <1>3

(* One request acts. *)
LEMMA RequestActs ==
  ASSUME VocabularyInv, NEW h \in Handlers,
         DOMAIN req' = Handlers, \A q \in Handlers \ {h} : req'[q] = req[q],
         lock' \in Handlers \union {NoOne}, \A q \in Handlers \ {h} : lock = q => lock' = q,
         RequestInv(h)',
         RowsOK', OwnAgree',
         \A l \in Rows : l \in Rows', archived' = archived,
         OwnShrinks \/ lock = h,
         UNCHANGED sweepVars
  PROVE  VocabularyInv'
<1>1. sweepLock' = sweepLock /\ sweep' = sweep
  BY DEF sweepVars
<1>2. \A q \in Handlers : RequestInv(q)'
  <2>1. ASSUME NEW q \in Handlers \ {h} PROVE RequestInv(q)'
    BY RequestKept
  <2> QED BY <2>1
<1>3. \A s \in Sweeps : PassInv(s)'
  BY <1>1, PassKept
<1> QED BY <1>1, <1>2, <1>3 DEF VocabularyInv

LEMMA RowsSame ==
  ASSUME VocabularyInv, UNCHANGED <<rowVars, snapshots, maxTerms>>
  PROVE  /\ RowsOK' /\ OwnAgree'
         /\ Rows' = Rows /\ Active' = Active /\ Own' = Own /\ OwnShrinks
         /\ term' = term /\ archived' = archived
<1>1. /\ term' = term /\ deleted' = deleted /\ archived' = archived /\ returned' = returned
      /\ archiveSnap' = archiveSnap /\ snapshots' = snapshots
      /\ maxTerms' = maxTerms
  BY DEF rowVars
<1>2. Rows' = Rows /\ Active' = Active /\ Own' = Own
  BY <1>1 DEF Rows, Active, Own
<1>3. RowsOK' /\ OwnAgree'
  BY <1>1, <1>2 DEF VocabularyInv, RowsOK, OwnAgree
<1> QED BY <1>1, <1>2, <1>3 DEF OwnShrinks

(* A request ends. *)
LEMMA RequestEnds ==
  ASSUME VocabularyInv, NEW h \in Handlers, End(h),
         RowsOK', OwnAgree',
         \A l \in Rows : l \in Rows', archived' = archived,
         OwnShrinks \/ lock = h,
         UNCHANGED sweepVars
  PROVE  VocabularyInv'
<1>1. /\ req' = [req EXCEPT ![h] = Idle]
      /\ lock' = IF lock = h THEN NoOne ELSE lock
  BY DEF End
<1>2. DOMAIN req = Handlers /\ lock \in Handlers \union {NoOne}
  BY DEF VocabularyInv
<1>3. /\ DOMAIN req' = Handlers /\ req'[h] = Idle
      /\ \A q \in Handlers \ {h} : req'[q] = req[q]
      /\ lock' \in Handlers \union {NoOne}
      /\ \A q \in Handlers \ {h} : lock = q => lock' = q
  BY <1>1, <1>2
<1>4. RequestInv(h)'
  <2>1. req'[h] \in Requests /\ req'[h].op = "idle"
    BY <1>3 DEF Requests, Idle
  <2> QED BY <2>1 DEF RequestInv, AddingInv, ModifyingInv, LandingInv, RollbackInv
<1> QED BY <1>3, <1>4, RequestActs

(* A request moves on and no row changes. *)
LEMMA RequestMoves ==
  ASSUME VocabularyInv, NEW h \in Handlers, NEW r \in Requests,
         req' = [req EXCEPT ![h] = r],
         UNCHANGED <<rowVars, snapshots, maxTerms, sweepVars>>,
         lock' = lock \/ (lock = NoOne /\ lock' = h),
         r.op \in {"adding", "modifying", "restoring", "landing"} => lock' = h,
         AddingInv(r), ModifyingInv(r), LandingInv(r), RollbackInv(r)
  PROVE  VocabularyInv'
<1>1. /\ RowsOK' /\ OwnAgree'
      /\ Rows' = Rows /\ Own' = Own /\ OwnShrinks
      /\ term' = term /\ archived' = archived
  BY RowsSame
<1>2. DOMAIN req = Handlers /\ lock \in Handlers \union {NoOne}
  BY DEF VocabularyInv
<1>3. /\ DOMAIN req' = Handlers /\ req'[h] = r
      /\ \A q \in Handlers \ {h} : req'[q] = req[q]
      /\ lock' \in Handlers \union {NoOne}
      /\ \A q \in Handlers \ {h} : lock = q => lock' = q
  <2>1. NoOne \notin Handlers
    BY ConstantsAssumption
  <2> QED BY <1>2, <2>1
<1>4. AddingInv(r)' /\ ModifyingInv(r)' /\ LandingInv(r)' /\ RollbackInv(r)'
  BY <1>1 DEF AddingInv, ModifyingInv, LandingInv, RollbackInv
<1>5. RequestInv(h)'
  BY <1>3, <1>4 DEF RequestInv
<1> QED BY <1>1, <1>3, <1>5, RequestActs

-----------------------------------------------------------------------------
(* What requests read, and check *)

LEMMA BeginningKeepsAll ==
  ASSUME VocabularyInv, NEW h \in Handlers, NEW r \in Requests, Begin(h, r),
         r.op \in {"add", "modify", "restore", "bulk", "rollback"}, RollbackInv(r)
  PROVE  VocabularyInv'
<1>1. AddingInv(r) /\ ModifyingInv(r) /\ LandingInv(r)
  BY DEF AddingInv, ModifyingInv, LandingInv
<1> QED BY <1>1, RequestMoves DEF Begin

LEMMA BeginsKeep ==
  ASSUME VocabularyInv, NEW h \in Handlers,
         \/ BeginAdd(h) \/ BeginModify(h) \/ BeginRestore(h) \/ BeginBulk(h) \/ BeginRollback(h)
  PROVE  VocabularyInv'
<1>1. RowsOK
  BY DEF VocabularyInv
<1>2. \A l \in Rows : l \in Links /\ term[l] \in Terms
  BY <1>1, RowFacts
<1>3. Active \subseteq Rows
  BY <1>1, RowFacts
<1>4. CASE BeginAdd(h)
  <2>1. PICK t \in Terms : Begin(h, [op |-> "add", term |-> t, quota |-> maxTerms])
    BY <1>4 DEF BeginAdd
  <2>2. PICK r : r = [op |-> "add", term |-> t, quota |-> maxTerms]
    OBVIOUS
  <2>3. maxTerms \in Quotas
    BY <1>1, <1>4 DEF RowsOK, BeginAdd
  <2>4. r \in Requests /\ r.op = "add"
    BY <2>2, <2>3 DEF Requests
  <2> QED BY <2>1, <2>2, <2>4, BeginningKeepsAll DEF RollbackInv
<1>5. CASE BeginModify(h)
  <2>1. PICK l \in Active, t \in Terms : Begin(h, [op |-> "modify", link |-> l, term |-> t])
    BY <1>5 DEF BeginModify
  <2>2. PICK r : r = [op |-> "modify", link |-> l, term |-> t]
    OBVIOUS
  <2>3. r \in Requests /\ r.op = "modify"
    BY <1>2, <1>3, <2>2 DEF Requests
  <2> QED BY <2>1, <2>2, <2>3, BeginningKeepsAll DEF RollbackInv
<1>6. CASE BeginRestore(h)
  <2>1. PICK l \in Rows : Begin(h, [op |-> "restore", link |-> l, term |-> term[l]])
    BY <1>6 DEF BeginRestore
  <2>2. PICK r : r = [op |-> "restore", link |-> l, term |-> term[l]]
    OBVIOUS
  <2>3. r \in Requests /\ r.op = "restore"
    BY <1>2, <2>2 DEF Requests
  <2> QED BY <2>1, <2>2, <2>3, BeginningKeepsAll DEF RollbackInv
<1>7. CASE BeginBulk(h)
  <2>1. PICK b \in Batches : Begin(h, [op |-> "bulk", rows |-> b, quota |-> maxTerms])
    BY <1>7 DEF BeginBulk
  <2>2. PICK r : r = [op |-> "bulk", rows |-> b, quota |-> maxTerms]
    OBVIOUS
  <2>3. maxTerms \in Quotas
    BY <1>1, <1>7 DEF RowsOK, BeginBulk
  <2>4. r \in Requests /\ r.op = "bulk"
    BY <2>2, <2>3 DEF Requests
  <2> QED BY <2>1, <2>2, <2>4, BeginningKeepsAll DEF RollbackInv
<1>8. CASE BeginRollback(h)
  <2>1. PICK s \in snapshots :
          Begin(h, [op |-> "rollback", wanted |-> s, seen |-> {<<l, term[l]>> : l \in Active}])
    BY <1>8 DEF BeginRollback
  <2>2. PICK seen : seen = {<<l, term[l]>> : l \in Active}
    OBVIOUS
  <2>3. PICK r : r = [op |-> "rollback", wanted |-> s, seen |-> seen]
    OBVIOUS
  <2>4. s \subseteq Terms /\ IsFiniteSet(s)
    BY <1>1 DEF RowsOK
  <2>5. seen \in SUBSET (Links \X Terms) /\ \A x \in seen : x[1] \in Rows
    BY <1>2, <1>3, <2>2
  <2>6. r \in Requests /\ r.op = "rollback"
    BY <2>3, <2>4, <2>5 DEF Requests
  <2>7. RollbackInv(r)
    BY <2>3, <2>4, <2>5 DEF RollbackInv
  <2> QED BY <2>1, <2>2, <2>3, <2>6, <2>7, BeginningKeepsAll
<1> QED BY <1>4, <1>5, <1>6, <1>7, <1>8

LEMMA RefusalKeeps ==
  ASSUME VocabularyInv, NEW h \in Handlers, End(h),
         UNCHANGED <<rowVars, snapshots, maxTerms, sweepVars>>
  PROVE  VocabularyInv'
<1>1. /\ RowsOK' /\ OwnAgree'
      /\ Rows' = Rows /\ OwnShrinks /\ archived' = archived
  BY RowsSame
<1> QED BY <1>1, RequestEnds

LEMMA AgreementIsMutual ==
  ASSUME NEW t \in Terms, NEW u \in Terms
  PROVE  Agree(t, t) /\ (Agree(t, u) => Agree(u, t))
BY ConstantsAssumption DEF Agree

LEMMA AddCheckedKeeps ==
  ASSUME VocabularyInv, NEW h \in Handlers, CheckAdd(h)
  PROVE  VocabularyInv'
<1>1. PICK q : q = req[h]
  OBVIOUS
<1>2. q \in [op: {"add", "adding"}, term: Terms, quota: Quotas]
  <2>1. q \in Requests /\ q.op = "add"
    BY <1>1 DEF VocabularyInv, RequestInv, CheckAdd, Holds
  <2> QED BY <2>1, RequestShapes
<1>3. CASE Remaining(q.quota) > 0 /\ NoScopeConflict(q.term, 0)
  <2>1. PICK r : r = [q EXCEPT !.op = "adding"]
    OBVIOUS
  <2>2. LockVocabularyWrites(h, r)
    BY <1>1, <1>3, <2>1 DEF CheckAdd
  <2>3. r \in Requests /\ r.op = "adding" /\ r.term = q.term /\ r.quota = q.quota
    BY <1>2, <2>1 DEF Requests
  <2>4. /\ Cardinality(Active) \in Nat /\ Cardinality(Own) \in Nat /\ q.quota \in Nat
        /\ Cardinality(Own) <= Cardinality(Active) /\ Own \subseteq Active
        /\ \A l \in Active : l # 0
    BY <1>2, RowFacts DEF VocabularyInv
  <2>5. Cardinality(Own) < q.quota
    BY <1>3, <2>4 DEF Remaining
  <2>6. AddingInv(r)
    BY <1>3, <2>3, <2>4, <2>5 DEF AddingInv, NoScopeConflict, Agree
  <2>7. ModifyingInv(r) /\ LandingInv(r) /\ RollbackInv(r)
    BY <2>3 DEF ModifyingInv, LandingInv, RollbackInv
  <2> QED BY <2>2, <2>3, <2>6, <2>7, RequestMoves DEF LockVocabularyWrites
<1>4. CASE ~(Remaining(q.quota) > 0 /\ NoScopeConflict(q.term, 0))
  <2>1. Refuse(h)
    BY <1>1, <1>4 DEF CheckAdd
  <2> QED BY <2>1, RefusalKeeps DEF Refuse
<1> QED BY <1>3, <1>4

LEMMA ModifyCheckedKeeps ==
  ASSUME VocabularyInv, NEW h \in Handlers, CheckModify(h)
  PROVE  VocabularyInv'
<1>1. PICK q : q = req[h]
  OBVIOUS
<1>2. q \in [op: {"modify", "modifying", "restore", "restoring"}, link: Links, term: Terms]
  <2>1. q \in Requests /\ q.op = "modify"
    BY <1>1 DEF VocabularyInv, RequestInv, CheckModify, Holds
  <2> QED BY <2>1, RequestShapes
<1>3. CASE NoScopeConflict(q.term, q.link)
  <2>1. PICK r : r = [q EXCEPT !.op = "modifying"]
    OBVIOUS
  <2>2. LockVocabularyWrites(h, r)
    BY <1>1, <1>3, <2>1 DEF CheckModify
  <2>3. r \in Requests /\ r.op = "modifying" /\ r.term = q.term /\ r.link = q.link
    BY <1>2, <2>1 DEF Requests
  <2>4. Own \subseteq Active
    BY DEF Own
  <2>5. ModifyingInv(r)
    BY <1>3, <2>3, <2>4 DEF ModifyingInv, NoScopeConflict, Agree
  <2>6. AddingInv(r) /\ LandingInv(r) /\ RollbackInv(r)
    BY <2>3 DEF AddingInv, LandingInv, RollbackInv
  <2> QED BY <2>2, <2>3, <2>5, <2>6, RequestMoves DEF LockVocabularyWrites
<1>4. CASE ~NoScopeConflict(q.term, q.link)
  <2>1. Refuse(h)
    BY <1>1, <1>4 DEF CheckModify
  <2> QED BY <2>1, RefusalKeeps DEF Refuse
<1> QED BY <1>3, <1>4

LEMMA RestoreCheckedKeeps ==
  ASSUME VocabularyInv, NEW h \in Handlers, CheckRestore(h)
  PROVE  VocabularyInv'
<1>1. PICK q : q = req[h]
  OBVIOUS
<1>2. q \in [op: {"modify", "modifying", "restore", "restoring"}, link: Links, term: Terms]
  <2>1. q \in Requests /\ q.op = "restore"
    BY <1>1 DEF VocabularyInv, RequestInv, CheckRestore, Holds
  <2> QED BY <2>1, RequestShapes
<1>3. CASE NoScopeConflict(q.term, q.link)
  <2>1. PICK r : r = [q EXCEPT !.op = "restoring"]
    OBVIOUS
  <2>2. LockVocabularyWrites(h, r)
    BY <1>1, <1>3, <2>1 DEF CheckRestore
  <2>3. r \in Requests /\ r.op = "restoring"
    BY <1>2, <2>1 DEF Requests
  <2>4. AddingInv(r) /\ ModifyingInv(r) /\ LandingInv(r) /\ RollbackInv(r)
    BY <2>3 DEF AddingInv, ModifyingInv, LandingInv, RollbackInv
  <2> QED BY <2>2, <2>3, <2>4, RequestMoves DEF LockVocabularyWrites
<1>4. CASE ~NoScopeConflict(q.term, q.link)
  <2>1. Refuse(h)
    BY <1>1, <1>4 DEF CheckRestore
  <2> QED BY <2>1, RefusalKeeps DEF Refuse
<1> QED BY <1>3, <1>4

LEMMA BulkCheckedKeeps ==
  ASSUME VocabularyInv, NEW h \in Handlers, CheckBulk(h)
  PROVE  VocabularyInv'
<1>1. PICK b, q : b = req[h].rows /\ q = req[h].quota
  OBVIOUS
<1>2. b \in Batches /\ q \in Quotas
  <2>1. req[h] \in Requests /\ req[h].op = "bulk"
    BY DEF VocabularyInv, RequestInv, CheckBulk, Holds
  <2> QED BY <1>1, <2>1, RequestShapes
<1>3. b \in Seq(Terms) /\ Len(b) \in Nat
  BY <1>2, ConstantsAssumption, LenProperties
<1>4. PICK ok, left : ok = Screened(b) /\ left = Remaining(q)
  OBVIOUS
<1>5. /\ ok \subseteq 1..Len(b)
      /\ \A i \in ok : \A l \in Active : Agree(b[i], term[l])
      /\ \A i, j \in ok : Agree(b[i], b[j])
  BY <1>3, <1>4, ScreenedAgree DEF VocabularyInv
<1>6. /\ Cardinality(Active) \in Nat /\ Cardinality(Own) \in Nat /\ q \in Nat
      /\ Cardinality(Own) <= Cardinality(Active) /\ Own \subseteq Active
  BY <1>2, RowFacts DEF VocabularyInv
<1>7. left \in Nat /\ (Cardinality(Own) + left <= q \/ left = 0)
  BY <1>4, <1>6 DEF Remaining
<1>8. PICK r : r = [op |-> "landing", rows |-> b, quota |-> q, accepted |-> ok, left |-> left]
  OBVIOUS
<1>9. LockVocabularyWrites(h, r)
  BY <1>1, <1>4, <1>8 DEF CheckBulk
<1>10. ok \in SUBSET Nat
  BY <1>3, <1>5
<1>11. /\ r \in Requests
       /\ r.op = "landing" /\ r.rows = b /\ r.quota = q /\ r.accepted = ok /\ r.left = left
  BY <1>2, <1>7, <1>8, <1>10 DEF Requests
<1>12. LandingInv(r)
  BY <1>5, <1>6, <1>7, <1>11 DEF LandingInv
<1>13. AddingInv(r) /\ ModifyingInv(r) /\ RollbackInv(r)
  BY <1>11 DEF AddingInv, ModifyingInv, RollbackInv
<1> QED BY <1>9, <1>11, <1>12, <1>13, RequestMoves DEF LockVocabularyWrites

-----------------------------------------------------------------------------
(* What requests write *)

LEMMA InsertionKeeps ==
  ASSUME VocabularyInv, NEW h \in Handlers, InsertLink(h)
  PROVE  VocabularyInv'
<1>1. PICK r : r = req[h]
  OBVIOUS
<1>2. /\ r.op = "adding" /\ r \in Requests /\ lock = h /\ AddingInv(r)
      /\ r.term \in Terms
  <2>1. r.op = "adding" /\ RequestInv(h)
    BY <1>1 DEF VocabularyInv, InsertLink, Holds
  <2> QED BY <1>1, <2>1, RequestShapes DEF RequestInv
<1>3. CASE r.term \in TermsOf(Active)
  <2>1. End(h) /\ UNCHANGED <<rowVars, snapshots, maxTerms, sweepVars>>
    BY <1>1, <1>3 DEF InsertLink, rowVars
  <2> QED BY <2>1, RefusalKeeps
<1>4. CASE r.term \notin TermsOf(Active)
  <2>1. PICK ts : ts = <<r.term>>
    OBVIOUS
  <2>2. ts \in Seq(Terms) /\ Len(ts) = 1 /\ ts[1] = r.term
    BY <1>2, <2>1
  <2>3. /\ Insert(ts) /\ End(h)
        /\ UNCHANGED <<deleted, archived, archiveSnap, returned, snapshots, maxTerms>>
        /\ UNCHANGED sweepVars
    BY <1>1, <1>4, <2>1 DEF InsertLink
  <2>4. /\ RowsOK' /\ \A l \in Rows : l \in Rows'
        /\ IsFiniteSet(Own') /\ Cardinality(Own') <= Cardinality(Own) + 1
        /\ \A l \in Own : l \in Rows /\ term'[l] = term[l]
        /\ \A l \in Own' : l \in Own \/ term'[l] = r.term
    <3>1. \A i \in 1..1 : i = 1
      OBVIOUS
    <3>2. RowsOK
      BY DEF VocabularyInv
    <3> QED BY <2>2, <2>3, <3>1, <3>2, OwnInserted
  <2>5. archived' = archived
    BY <2>3
  <2>7. OwnAgree'
    <3>1. \A l \in Own : term[l] \in Terms
      BY RowFacts DEF VocabularyInv
    <3>2. \A k, l \in Own : Agree(term[k], term[l])
      BY DEF VocabularyInv, OwnAgree
    <3>3. \A l \in Own : Agree(r.term, term[l]) /\ Agree(term[l], r.term)
      BY <1>2, <3>1, AgreementIsMutual DEF AddingInv
    <3>4. Agree(r.term, r.term)
      BY <1>2, AgreementIsMutual
    <3>5. \A k, l \in Own' : Agree(term'[k], term'[l])
      BY <2>4, <3>2, <3>3, <3>4
    <3> QED BY <3>5 DEF OwnAgree, Agree
  <2> QED BY <1>2, <2>3, <2>4, <2>5, <2>7, RequestEnds
<1> QED BY <1>3, <1>4

LEMMA LandingKeeps ==
  ASSUME VocabularyInv, NEW h \in Handlers, LandBulkChunk(h)
  PROVE  VocabularyInv'
<1>1. PICK r : r = req[h]
  OBVIOUS
<1>2. /\ r.op = "landing" /\ lock = h /\ LandingInv(r)
      /\ r.rows \in Batches /\ r.left \in Nat
  <2>1. r.op = "landing" /\ RequestInv(h)
    BY <1>1 DEF VocabularyInv, LandBulkChunk, Holds
  <2> QED BY <1>1, <2>1, RequestShapes DEF RequestInv
<1>3. /\ r.rows \in Seq(Terms)
      /\ r.accepted \subseteq 1..Len(r.rows)
      /\ \A i \in r.accepted : \A l \in Own : Agree(r.rows[i], term[l])
      /\ \A i, j \in r.accepted : Agree(r.rows[i], r.rows[j])
  BY <1>2, ConstantsAssumption DEF LandingInv
<1>4. PICK ts : ts = InOrder(r.rows, Landing(r))
  OBVIOUS
<1>5. /\ ts \in Seq(Terms) /\ Len(ts) \in Nat /\ Len(ts) <= r.left
      /\ \A k \in 1..Len(ts) : \E i \in r.accepted : ts[k] = r.rows[i]
  BY <1>2, <1>3, <1>4, LandsWithinQuota
<1>6. /\ Insert(ts) /\ End(h)
      /\ UNCHANGED <<deleted, archived, archiveSnap, returned, snapshots, maxTerms>>
      /\ UNCHANGED sweepVars
  BY <1>1, <1>4 DEF LandBulkChunk
<1>7. /\ RowsOK' /\ \A l \in Rows : l \in Rows'
      /\ IsFiniteSet(Own') /\ Cardinality(Own') <= Cardinality(Own) + Len(ts)
      /\ \A l \in Own : l \in Rows /\ term'[l] = term[l]
      /\ \A l \in Own' : l \in Own \/ \E k \in 1..Len(ts) : term'[l] = ts[k]
  <2>1. RowsOK
    BY DEF VocabularyInv
  <2> QED BY <1>5, <1>6, <2>1, OwnInserted
<1>8. \A l \in Own' : l \in Own \/ \E i \in r.accepted : term'[l] = r.rows[i]
  BY <1>5, <1>7
<1>9. archived' = archived
  BY <1>6
<1>11. OwnAgree'
  <2>1. \A l \in Own : term[l] \in Terms
    BY RowFacts DEF VocabularyInv
  <2>2. \A k, l \in Own : Agree(term[k], term[l])
    BY DEF VocabularyInv, OwnAgree
  <2>3. \A i \in r.accepted : r.rows[i] \in Terms
    BY <1>3, LenProperties
  <2>4. \A i \in r.accepted : \A l \in Own :
          Agree(r.rows[i], term[l]) /\ Agree(term[l], r.rows[i])
    BY <1>3, <2>1, <2>3, AgreementIsMutual
  <2>5. ASSUME NEW k \in Own', NEW l \in Own' PROVE Agree(term'[k], term'[l])
    <3>1. CASE k \in Own /\ l \in Own
      BY <1>7, <2>2, <3>1
    <3>2. CASE k \in Own /\ l \notin Own
      BY <1>7, <1>8, <2>4, <2>5, <3>2
    <3>3. CASE k \notin Own /\ l \in Own
      BY <1>7, <1>8, <2>4, <2>5, <3>3
    <3>4. CASE k \notin Own /\ l \notin Own
      BY <1>3, <1>8, <2>5, <3>4
    <3> QED BY <3>1, <3>2, <3>3, <3>4
  <2> QED BY <2>5 DEF OwnAgree, Agree
<1> QED BY <1>2, <1>6, <1>7, <1>9, <1>11, RequestEnds

LEMMA RepointKeeps ==
  ASSUME VocabularyInv, NEW h \in Handlers, RepointLink(h)
  PROVE  VocabularyInv'
<1>1. PICK r, l : r = req[h] /\ l = r.link
  OBVIOUS
<1>2. /\ r.op = "modifying" /\ lock = h /\ ModifyingInv(r) /\ r.term \in Terms
  <2>1. r.op = "modifying" /\ RequestInv(h)
    BY <1>1 DEF VocabularyInv, RepointLink, Holds
  <2> QED BY <1>1, <2>1, RequestShapes DEF RequestInv
<1>3. /\ End(h) /\ UNCHANGED sweepVars
      /\ UNCHANGED <<deleted, archived, archiveSnap, returned, snapshots, maxTerms>>
  BY DEF RepointLink
<1>4. CASE UNCHANGED term
  <2>1. UNCHANGED <<rowVars, snapshots, maxTerms, sweepVars>>
    BY <1>3, <1>4 DEF rowVars
  <2> QED BY <1>3, <2>1, RefusalKeeps
<1>5. CASE l \in Active /\ term' = [term EXCEPT ![l] = r.term]
  <2>1. RowsOK /\ OwnAgree
    BY DEF VocabularyInv
  <2>2. /\ Rows = 1..Len(term) /\ Len(term) \in Nat /\ l \in Rows
        /\ term \in Seq(Terms) /\ term \in [1..Len(term) -> Terms]
    BY <1>5, <2>1, RowFacts, LenProperties DEF RowsOK
  <2>3. /\ term' \in Seq(Terms) /\ Len(term') = Len(term) /\ Rows' = Rows
        /\ term'[l] = r.term /\ \A k \in Rows \ {l} : term'[k] = term[k]
    <3>1. /\ term' \in Seq(Terms) /\ Len(term') = Len(term)
          /\ term'[l] = r.term /\ \A k \in Rows \ {l} : term'[k] = term[k]
      BY <1>2, <1>5, <2>2, ExceptSeq
    <3> QED BY <2>2, <3>1, LenProperties DEF Rows
  <2>4. /\ deleted' = deleted /\ archived' = archived /\ archiveSnap' = archiveSnap
        /\ returned' = returned /\ snapshots' = snapshots
        /\ maxTerms' = maxTerms
    BY <1>3
  <2>5. Active' = Active /\ Own' = Own
    BY <2>3, <2>4 DEF Active, Own
  <2>6. RowsOK'
    BY <2>1, <2>3, <2>4, <2>5 DEF RowsOK
  <2>8. OwnAgree'
    <3>1. Own \subseteq Rows /\ \A k \in Own : term[k] \in Terms
      BY <2>1, RowFacts
    <3>2. \A j, k \in Own : Agree(term[j], term[k])
      BY <2>1 DEF OwnAgree
    <3>3. \A k \in Own \ {l} : Agree(r.term, term[k]) /\ Agree(term[k], r.term)
      BY <1>1, <1>2, <3>1, AgreementIsMutual DEF ModifyingInv
    <3>4. Agree(r.term, r.term)
      BY <1>2, AgreementIsMutual
    <3>5. \A k \in Own : term'[k] = IF k = l THEN r.term ELSE term[k]
      BY <2>3, <3>1
    <3>6. \A j, k \in Own : Agree(term'[j], term'[k])
      BY <3>2, <3>3, <3>4, <3>5
    <3> QED BY <2>5, <3>6 DEF OwnAgree, Agree
  <2> QED BY <1>2, <1>3, <2>3, <2>4, <2>6, <2>8, RequestEnds
<1> QED BY <1>1, <1>4, <1>5 DEF RepointLink

LEMMA ReactivationKeeps ==
  ASSUME VocabularyInv, NEW h \in Handlers, ReactivateLink(h)
  PROVE  VocabularyInv'
<1>1. PICK l : l = req[h].link
  OBVIOUS
<1>2. lock = h
  BY DEF VocabularyInv, RequestInv, ReactivateLink, Holds
<1>3. /\ End(h) /\ UNCHANGED sweepVars
      /\ UNCHANGED <<term, archived, archiveSnap, snapshots, maxTerms>>
  BY DEF ReactivateLink
<1>4. CASE UNCHANGED <<deleted, returned>>
  <2>1. UNCHANGED <<rowVars, snapshots, maxTerms, sweepVars>>
    BY <1>3, <1>4 DEF rowVars
  <2> QED BY <1>3, <2>1, RefusalKeeps
<1>5. CASE /\ l \in deleted \ archived
           /\ deleted' = deleted \ {l} /\ returned' = returned \union {l}
  <2>1. RowsOK /\ OwnAgree
    BY DEF VocabularyInv
  <2>2. /\ term' = term /\ archived' = archived /\ archiveSnap' = archiveSnap
        /\ snapshots' = snapshots /\ maxTerms' = maxTerms
    BY <1>3
  <2>3. Rows' = Rows
    BY <2>2 DEF Rows
  <2>4. l \in Rows
    BY <1>5, <2>1 DEF RowsOK
  <2>5. Active' = Active \union {l} /\ Own' = Own
    BY <1>5, <2>2, <2>3, <2>4 DEF Active, Own
  <2>6. RowsOK'
    BY <1>5, <2>1, <2>2, <2>3, <2>5 DEF RowsOK
  <2>7. OwnAgree'
    BY <2>1, <2>2, <2>5 DEF OwnAgree
  <2> QED BY <1>2, <1>3, <2>2, <2>3, <2>6, <2>7, RequestEnds
<1> QED BY <1>1, <1>4, <1>5 DEF ReactivateLink

(* What takes no lock may only shrink the links that count. *)
LEMMA ShrinkingKeeps ==
  ASSUME VocabularyInv, OwnShrinks
  PROVE  OwnAgree'
<1>1. PICK S, T : S = Own /\ T = Own'
  OBVIOUS
<1>2. T \subseteq S /\ \A l \in T : term'[l] = term[l]
  BY <1>1 DEF OwnShrinks
<1>3. \A k, l \in S : Agree(term[k], term[l])
  BY <1>1 DEF VocabularyInv, OwnAgree
<1> QED BY <1>1, <1>2, <1>3 DEF OwnAgree, Agree

LEMMA RequestsStay ==
  ASSUME VocabularyInv, UNCHANGED reqVars, \A l \in Rows : l \in Rows',
         OwnShrinks
  PROVE  /\ DOMAIN req' = Handlers /\ lock' \in Handlers \union {NoOne}
         /\ \A h \in Handlers : RequestInv(h)'
<1>1. req' = req /\ lock' = lock
  BY DEF reqVars
<1> QED BY <1>1, RequestKept DEF VocabularyInv

LEMMA PassesStay ==
  ASSUME VocabularyInv, UNCHANGED sweepVars, \A l \in Rows : l \in Rows', archived' = archived
  PROVE  /\ DOMAIN sweep' = Sweeps /\ sweepLock' \in Sweeps \union {NoOne}
         /\ \A s \in Sweeps : PassInv(s)'
<1>1. sweep' = sweep /\ sweepLock' = sweepLock
  BY DEF sweepVars
<1> QED BY <1>1, PassKept DEF VocabularyInv

LEMMA DeletionKeeps ==
  ASSUME VocabularyInv, NEW l \in Links, SoftDelete(l)
  PROVE  VocabularyInv'
<1>1. /\ l \in Active /\ deleted' = deleted \union {l} /\ returned' = returned \ {l}
      /\ term' = term /\ archived' = archived /\ archiveSnap' = archiveSnap
      /\ snapshots' = snapshots /\ maxTerms' = maxTerms
      /\ UNCHANGED reqVars /\ UNCHANGED sweepVars
  BY DEF SoftDelete
<1>2. RowsOK
  BY DEF VocabularyInv
<1>3. Rows' = Rows
  BY <1>1 DEF Rows
<1>4. Active' = Active \ {l} /\ Own' \subseteq Own
  BY <1>1, <1>3 DEF Active, Own
<1>5. RowsOK'
  <2>1. Active \subseteq Rows
    BY DEF Active
  <2> QED BY <1>1, <1>2, <1>3, <1>4, <2>1 DEF RowsOK
<1>6. OwnShrinks
  BY <1>1, <1>4 DEF OwnShrinks
<1> QED BY <1>1, <1>3, <1>5, <1>6, ShrinkingKeeps, RequestsStay, PassesStay DEF VocabularyInv

LEMMA RollbackKeeps ==
  ASSUME VocabularyInv, NEW h \in Handlers, RollbackToSnapshot(h)
  PROVE  VocabularyInv'
<1>1. PICK r : r = req[h]
  OBVIOUS
<1>2. /\ r.op = "rollback"
      /\ r.wanted \subseteq Terms /\ IsFiniteSet(r.wanted) /\ \A x \in r.seen : x[1] \in Rows
  <2>1. r.op = "rollback" /\ RequestInv(h)
    BY <1>1 DEF VocabularyInv, RollbackToSnapshot, Holds
  <2> QED BY <1>1, <2>1, RequestShapes DEF RequestInv, RollbackInv
<1>3. PICK reuse, fresh :
        reuse = {t \in Missing(r) : RowsWith(t) # {}} /\ fresh = Missing(r) \ reuse
  OBVIOUS
<1>4. PICK picks \in SUBSET UNION {RowsWith(t) : t \in reuse} :
      \E new \in [1..Cardinality(fresh) -> fresh] :
        /\ Insert(new)
        /\ deleted' = (deleted \union Dropped(r)) \ picks
        /\ archived' = archived
        /\ returned' = (returned \union (Active' \ Active)) \intersect Active'
  BY <1>1, <1>3 DEF RollbackToSnapshot
<1>5. PICK new \in [1..Cardinality(fresh) -> fresh] : Insert(new)
  BY <1>4
<1>6. new \in Seq(Terms)
  <2>1. fresh \subseteq r.wanted
    BY <1>3 DEF Missing
  <2>2. Cardinality(fresh) \in Nat /\ fresh \subseteq Terms
    BY <1>2, <2>1, FS_Subset, FS_CardinalityType
  <2>3. PICK n : n = Cardinality(fresh)
    OBVIOUS
  <2>4. n \in Nat /\ new \in [1..n -> Terms]
    BY <1>5, <2>2, <2>3
  <2> QED BY <2>4
<1>7. /\ End(h) /\ UNCHANGED sweepVars
      /\ archiveSnap' = archiveSnap /\ snapshots' = snapshots
      /\ maxTerms' = maxTerms
  BY DEF RollbackToSnapshot
<1>8. RowsOK
  BY DEF VocabularyInv
<1>9. /\ term' \in Seq(Terms) /\ Len(term') <= MaxLinks
      /\ \A l \in Rows : l \in Rows' /\ term'[l] = term[l]
  BY <1>5, <1>6, <1>8, Inserted
<1>10. deleted' \subseteq Rows'
  <2>1. Dropped(r) \subseteq Rows
    BY <1>2 DEF Dropped
  <2>2. deleted \subseteq Rows /\ Rows \subseteq Rows'
    BY <1>8, <1>9 DEF RowsOK
  <2> QED BY <1>4, <2>1, <2>2
<1>11. RowsOK'
  <2>1. archived \subseteq Rows'
    BY <1>8, <1>9 DEF RowsOK
  <2>2. returned' \subseteq Active'
    BY <1>4
  <2> QED BY <1>4, <1>7, <1>8, <1>9, <1>10, <2>1, <2>2 DEF RowsOK
<1>12. OwnShrinks
  <2>1. Own' \subseteq Own
    BY <1>4 DEF Own
  <2>2. Own \subseteq Rows
    BY DEF Own, Active
  <2> QED BY <1>9, <2>1, <2>2 DEF OwnShrinks
<1> QED BY <1>4, <1>7, <1>9, <1>11, <1>12, ShrinkingKeeps, RequestEnds

-----------------------------------------------------------------------------
(* What is added is within the quota read *)

LEMMA InsertionInQuota ==
  ASSUME VocabularyInv, NEW h \in Handlers, InsertLink(h), Active' # Active
  PROVE  Cardinality(Active' \ returned') <= req[h].quota
<1>1. PICK r, ts : r = req[h] /\ ts = <<r.term>>
  OBVIOUS
<1>2. r \in Requests /\ r.op = "adding" /\ AddingInv(r)
  BY <1>1 DEF VocabularyInv, RequestInv, InsertLink, Holds
<1>3. r.term \in Terms /\ r.quota \in Quotas
  BY <1>2, RequestShapes
<1>4. ts \in Seq(Terms) /\ Len(ts) = 1
  BY <1>1, <1>3
<1>5. UNCHANGED <<deleted, archived, archiveSnap, returned, snapshots, maxTerms>>
  BY DEF InsertLink
<1>6. Insert(ts)
  <2>1. Insert(ts) \/ UNCHANGED term
    BY <1>1 DEF InsertLink
  <2>2. UNCHANGED term => Active' = Active
    BY <1>5 DEF Active, Rows
  <2> QED BY <2>1, <2>2
<1>7. IsFiniteSet(Own') /\ Cardinality(Own') <= Cardinality(Own) + 1
  BY <1>4, <1>5, <1>6, OwnInserted DEF VocabularyInv
<1>8. Cardinality(Own) \in Nat /\ r.quota \in Nat /\ Cardinality(Own') \in Nat
  BY <1>3, <1>7, RowFacts, FS_CardinalityType DEF VocabularyInv
<1>9. Cardinality(Own) < r.quota
  BY <1>2 DEF AddingInv
<1> QED BY <1>1, <1>7, <1>8, <1>9 DEF Own

LEMMA LandingInQuota ==
  ASSUME VocabularyInv, NEW h \in Handlers, LandBulkChunk(h), Active' # Active
  PROVE  Cardinality(Active' \ returned') <= req[h].quota
<1>1. PICK r, ts : r = req[h] /\ ts = InOrder(r.rows, Landing(r))
  OBVIOUS
<1>2. r \in Requests /\ r.op = "landing" /\ LandingInv(r)
  BY <1>1 DEF VocabularyInv, RequestInv, LandBulkChunk, Holds
<1>3. r.rows \in Seq(Terms) /\ r.quota \in Quotas /\ r.left \in Nat
  BY <1>2, RequestShapes, ConstantsAssumption
<1>4. ts \in Seq(Terms) /\ Len(ts) \in Nat /\ Len(ts) <= r.left
  BY <1>1, <1>2, <1>3, LandsWithinQuota DEF LandingInv
<1>5. Insert(ts) /\ UNCHANGED <<deleted, archived, archiveSnap, returned, snapshots, maxTerms>>
  BY <1>1 DEF LandBulkChunk
<1>6. r.left # 0
  <2>1. ASSUME r.left = 0 PROVE Active' = Active
    <3>1. Len(ts) = 0
      BY <1>4, <2>1
    <3>2. ts = <<>>
      BY <1>4, <3>1, EmptySeq
    <3>3. term' = term
      BY <1>5, <3>2, ConcatEmptySeq DEF Insert, VocabularyInv, RowsOK
    <3> QED BY <1>5, <3>3 DEF Active, Rows
  <2> QED BY <2>1
<1>7. IsFiniteSet(Own') /\ Cardinality(Own') <= Cardinality(Own) + Len(ts)
  BY <1>4, <1>5, OwnInserted DEF VocabularyInv
<1>8. Cardinality(Own) \in Nat /\ r.quota \in Nat /\ Cardinality(Own') \in Nat
  BY <1>3, <1>7, RowFacts, FS_CardinalityType DEF VocabularyInv
<1>9. Cardinality(Own) + r.left <= r.quota
  BY <1>2, <1>6 DEF LandingInv
<1> QED BY <1>1, <1>3, <1>4, <1>7, <1>8, <1>9 DEF Own

-----------------------------------------------------------------------------
(* Snapshots, plans and sweeps *)

(* The values of a function on a finite set. *)
LEMMA FiniteImage ==
  ASSUME NEW S, IsFiniteSet(S), NEW T, NEW f, DOMAIN f = S, T = {f[x] : x \in S}
  PROVE  IsFiniteSet(T)
<1>1. PICK g : g = [x \in S |-> f[x]]
  OBVIOUS
<1>2. g \in Surjection(S, T)
  BY <1>1 DEF Surjection
<1> QED BY <1>2, FS_Surjection

LEMMA SnapshotKeeps ==
  ASSUME VocabularyInv, CreateSnapshot
  PROVE  VocabularyInv'
<1>1. /\ snapshots' = snapshots \union {TermsOf(Active)} /\ Active # {}
      /\ term' = term /\ deleted' = deleted /\ archived' = archived
      /\ archiveSnap' = archiveSnap /\ returned' = returned
      /\ maxTerms' = maxTerms
      /\ UNCHANGED reqVars /\ UNCHANGED sweepVars
  BY DEF CreateSnapshot, Store, rowVars
<1>2. RowsOK
  BY DEF VocabularyInv
<1>3. Rows' = Rows /\ Active' = Active /\ Own' = Own
  BY <1>1 DEF Rows, Active, Own
<1>4. /\ TermsOf(Active) \subseteq Terms /\ TermsOf(Active) # {}
      /\ IsFiniteSet(TermsOf(Active))
  <2>1. IsFiniteSet(Active) /\ \A l \in Active : term[l] \in Terms
    BY <1>2, RowFacts
  <2>2. IsFiniteSet({term[l] : l \in Active})
    <3>1. PICK f : f = [l \in Active |-> term[l]]
      OBVIOUS
    <3>2. DOMAIN f = Active /\ {term[l] : l \in Active} = {f[l] : l \in Active}
      BY <3>1
    <3> QED BY <2>1, <3>2, FiniteImage
  <2> QED BY <1>1, <2>1, <2>2 DEF TermsOf
<1>5. RowsOK'
  BY <1>1, <1>2, <1>3, <1>4 DEF RowsOK
<1>6. OwnShrinks
  BY <1>1, <1>3 DEF OwnShrinks
<1> QED BY <1>1, <1>3, <1>5, <1>6, ShrinkingKeeps, RequestsStay, PassesStay DEF VocabularyInv

LEMMA PlanKeeps ==
  ASSUME VocabularyInv, ChangePlan
  PROVE  VocabularyInv'
<1>1. /\ term' = term /\ deleted' = deleted /\ archived' = archived
      /\ archiveSnap' = archiveSnap /\ returned' = returned /\ snapshots' = snapshots
      /\ maxTerms' \in Quotas \union {0}
      /\ UNCHANGED reqVars /\ UNCHANGED sweepVars
  BY DEF ChangePlan, rowVars
<1>2. Rows' = Rows /\ Active' = Active /\ Own' = Own
  BY <1>1 DEF Rows, Active, Own
<1>3. RowsOK'
  BY <1>1, <1>2 DEF VocabularyInv, RowsOK
<1>4. OwnShrinks
  BY <1>1, <1>2 DEF OwnShrinks
<1> QED BY <1>1, <1>2, <1>3, <1>4, ShrinkingKeeps, RequestsStay, PassesStay DEF VocabularyInv

(* One sweep acts. *)
LEMMA PassActs ==
  ASSUME VocabularyInv, NEW s \in Sweeps,
         DOMAIN sweep' = Sweeps, \A q \in Sweeps \ {s} : sweep'[q] = sweep[q],
         sweepLock' \in Sweeps \union {NoOne},
         \A q \in Sweeps \ {s} : sweepLock = q => sweepLock' = q,
         PassInv(s)', RowsOK', OwnShrinks,
         \A l \in Rows : l \in Rows',
         archived' = archived \/ sweepLock = s,
         UNCHANGED reqVars
  PROVE  VocabularyInv'
<1>1. sweepLock = s => \A q \in Sweeps \ {s} : sweepLock # q
  OBVIOUS
<1>2. \A q \in Sweeps : PassInv(q)'
  <2>1. ASSUME NEW q \in Sweeps \ {s} PROVE PassInv(q)'
    BY <1>1, PassKept
  <2> QED BY <2>1
<1> QED BY <1>2, ShrinkingKeeps, RequestsStay DEF VocabularyInv

LEMMA PassEnds ==
  ASSUME VocabularyInv, NEW s \in Sweeps, EndPass(s), RowsOK', OwnShrinks,
         \A l \in Rows : l \in Rows',
         archived' = archived \/ sweepLock = s,
         UNCHANGED reqVars
  PROVE  VocabularyInv'
<1>1. /\ sweep' = [sweep EXCEPT ![s] = Idle]
      /\ sweepLock' = IF sweepLock = s THEN NoOne ELSE sweepLock
  BY DEF EndPass
<1>2. DOMAIN sweep = Sweeps /\ sweepLock \in Sweeps \union {NoOne}
  BY DEF VocabularyInv
<1>3. /\ DOMAIN sweep' = Sweeps /\ sweep'[s] = Idle
      /\ \A q \in Sweeps \ {s} : sweep'[q] = sweep[q]
      /\ sweepLock' \in Sweeps \union {NoOne}
      /\ \A q \in Sweeps \ {s} : sweepLock = q => sweepLock' = q
  BY <1>1, <1>2
<1>4. PassInv(s)'
  BY <1>3 DEF PassInv, Passes, Idle
<1> QED BY <1>3, <1>4, PassActs

LEMMA DueKeeps ==
  ASSUME VocabularyInv, NEW s \in Sweeps, FindDowngraded(s)
  PROVE  VocabularyInv'
<1>1. /\ sweep' = [sweep EXCEPT ![s] = [op |-> "due"]] /\ sweepLock' = sweepLock
      /\ UNCHANGED <<rowVars, snapshots, maxTerms>> /\ UNCHANGED reqVars
  BY DEF FindDowngraded
<1>2. DOMAIN sweep = Sweeps /\ sweepLock \in Sweeps \union {NoOne}
  BY DEF VocabularyInv
<1>3. /\ DOMAIN sweep' = Sweeps /\ sweep'[s] = [op |-> "due"]
      /\ \A q \in Sweeps \ {s} : sweep'[q] = sweep[q]
  BY <1>1, <1>2
<1>4. PassInv(s)'
  BY <1>3 DEF PassInv, Passes
<1> QED BY <1>1, <1>2, <1>3, <1>4, RowsSame, PassActs

LEMMA PinningKeeps ==
  ASSUME VocabularyInv, NEW s \in Sweeps, PinLinks(s)
  PROVE  VocabularyInv'
<1>1. /\ sweepLock = NoOne /\ UNCHANGED <<rowVars, snapshots, maxTerms>> /\ UNCHANGED reqVars
  BY DEF PinLinks
<1>2. /\ RowsOK' /\ Rows' = Rows /\ OwnShrinks
      /\ archived' = archived
  BY <1>1, RowsSame
<1>3. CASE EndPass(s)
  BY <1>1, <1>2, <1>3, PassEnds
<1>4. CASE /\ Active # {}
           /\ sweep' = [sweep EXCEPT ![s] =
                          [op |-> "archiving", seen |-> {<<l, term[l]>> : l \in Active}]]
           /\ sweepLock' = s
  <2>1. PICK seen : seen = {<<l, term[l]>> : l \in Active}
    OBVIOUS
  <2>2. /\ IsFiniteSet(Active) /\ Active \subseteq Rows
        /\ \A l \in Active : l \in Links /\ term[l] \in Terms
    BY RowFacts DEF VocabularyInv
  <2>3. IsFiniteSet(seen) /\ seen # {} /\ seen \in SUBSET (Links \X Terms)
    <3>1. PICK f : f = [l \in Active |-> <<l, term[l]>>]
      OBVIOUS
    <3>2. DOMAIN f = Active /\ seen = {f[l] : l \in Active}
      BY <2>1, <3>1
    <3>3. IsFiniteSet(seen)
      BY <2>2, <3>2, FiniteImage
    <3>4. seen # {}
      BY <1>4, <2>1
    <3>5. \A l \in Active : <<l, term[l]>> \in Links \X Terms
      BY <2>2
    <3>6. seen \in SUBSET (Links \X Terms)
      BY <2>1, <3>5
    <3> QED BY <3>3, <3>4, <3>6
  <2>4. \A x \in seen : x[1] \in Rows \ archived
    <3>1. Active \subseteq Rows \ archived
      BY DEF Active
    <3> QED BY <2>1, <3>1
  <2>5. DOMAIN sweep = Sweeps /\ NoOne \notin Sweeps
    BY ConstantsAssumption DEF VocabularyInv
  <2>6. /\ DOMAIN sweep' = Sweeps /\ \A q \in Sweeps \ {s} : sweep'[q] = sweep[q]
        /\ sweep'[s] = [op |-> "archiving", seen |-> seen]
    BY <1>4, <2>1, <2>5
  <2>7. PassInv(s)'
    <3>1. sweep'[s] \in Passes
      BY <2>3, <2>6 DEF Passes
    <3>2. sweep'[s].seen = seen
      BY <2>6
    <3> QED BY <1>2, <1>4, <2>3, <2>4, <3>1, <3>2 DEF PassInv
  <2> QED BY <1>1, <1>2, <1>4, <2>5, <2>6, <2>7, PassActs
<1> QED BY <1>3, <1>4 DEF PinLinks

LEMMA ArchivingKeeps ==
  ASSUME VocabularyInv, NEW s \in Sweeps, ArchiveLinks(s)
  PROVE  VocabularyInv'
<1>1. PICK seen, pinned, snap :
        /\ seen = sweep[s].seen
        /\ pinned = {x[1] : x \in seen} /\ snap = {x[2] : x \in seen}
  OBVIOUS
<1>2. /\ sweep[s].op = "archiving"
      /\ snapshots' = snapshots \union {snap}
      /\ archived' = archived \union pinned
      /\ archiveSnap' = [l \in archived' |-> IF l \in pinned THEN snap ELSE archiveSnap[l]]
      /\ returned' = returned \ pinned
      /\ term' = term /\ deleted' = deleted /\ maxTerms' = maxTerms
      /\ EndPass(s) /\ UNCHANGED reqVars
  BY <1>1 DEF ArchiveLinks, Pinned, Store
<1>3. /\ sweepLock = s /\ IsFiniteSet(seen) /\ seen # {} /\ seen \subseteq Links \X Terms
      /\ \A x \in seen : x[1] \in Rows \ archived
  <2>1. PassInv(s)
    BY DEF VocabularyInv
  <2> QED BY <1>1, <1>2, <2>1 DEF PassInv, Passes, Idle
<1>4. /\ pinned \subseteq Rows
      /\ snap \subseteq Terms /\ snap # {} /\ IsFiniteSet(snap)
  <2>1. IsFiniteSet(snap)
    <3>1. PICK f : f = [x \in seen |-> x[2]]
      OBVIOUS
    <3>2. DOMAIN f = seen /\ snap = {f[x] : x \in seen}
      BY <1>1, <3>1
    <3> QED BY <1>3, <3>2, FiniteImage
  <2> QED BY <1>1, <1>3, <2>1
<1>5. RowsOK
  BY DEF VocabularyInv
<1>6. Rows' = Rows
  BY <1>2 DEF Rows
<1>7. Active' = Active \ pinned /\ Own' \subseteq Own
  BY <1>2, <1>6 DEF Active, Own
<1>8. RowsOK'
  <2>1. DOMAIN archiveSnap' = archived' /\ \A l \in archived' : archiveSnap'[l] \in snapshots'
    BY <1>2, <1>5 DEF RowsOK
  <2>2. archived' \subseteq Rows' /\ deleted' \subseteq Rows' /\ returned' \subseteq Active'
    BY <1>2, <1>4, <1>5, <1>6, <1>7 DEF RowsOK
  <2>3. \A x \in snapshots' : x \subseteq Terms /\ x # {} /\ IsFiniteSet(x)
    BY <1>2, <1>4, <1>5 DEF RowsOK
  <2> QED BY <1>2, <1>5, <2>1, <2>2, <2>3 DEF RowsOK
<1>9. OwnShrinks
  BY <1>2, <1>7 DEF OwnShrinks
<1> QED BY <1>2, <1>3, <1>6, <1>8, <1>9, PassEnds

LEMMA AbandonedPassKeeps ==
  ASSUME VocabularyInv, NEW s \in Sweeps, AbandonPass(s)
  PROVE  VocabularyInv'
BY RowsSame, PassEnds DEF AbandonPass

-----------------------------------------------------------------------------
(* The invariant *)

LEMMA VocabularyInit == Init => VocabularyInv
<1> SUFFICES ASSUME Init PROVE VocabularyInv
  OBVIOUS
<1>1. Rows = {} /\ Active = {} /\ Own = {}
  BY DEF Init, Rows, Active, Own
<1>3. maxTerms \in Quotas /\ MaxLinks \in Nat /\ NoOne \notin Handlers \union Sweeps
  BY ConstantsAssumption DEF Init
<1>4. RowsOK
  <2>1. term \in Seq(Terms) /\ Len(term) = 0
    BY EmptySeq DEF Init
  <2> QED BY <1>1, <1>3, <2>1 DEF Init, RowsOK
<1>5. OwnAgree
  BY <1>1 DEF OwnAgree
<1>6. ASSUME NEW h \in Handlers PROVE RequestInv(h)
  <2>1. req[h] \in Requests /\ req[h].op = "idle"
    BY DEF Init, Requests, Idle
  <2> QED BY <2>1 DEF RequestInv, AddingInv, ModifyingInv, LandingInv, RollbackInv
<1>7. ASSUME NEW s \in Sweeps PROVE PassInv(s)
  BY DEF Init, PassInv, Passes, Idle
<1> QED BY <1>4, <1>5, <1>6, <1>7 DEF Init, VocabularyInv

LEMMA VocabularyNext == VocabularyInv /\ [Next]_vars => VocabularyInv'
<1> SUFFICES ASSUME VocabularyInv, [Next]_vars PROVE VocabularyInv'
  OBVIOUS
<1>1. ASSUME NEW h \in Handlers,
             \/ BeginAdd(h) \/ BeginModify(h) \/ BeginRestore(h) \/ BeginBulk(h) \/ BeginRollback(h)
      PROVE  VocabularyInv'
  BY <1>1, BeginsKeep
<1>2. ASSUME NEW h \in Handlers, CheckAdd(h) \/ CheckModify(h) \/ CheckRestore(h) \/ CheckBulk(h)
      PROVE  VocabularyInv'
  BY <1>2, AddCheckedKeeps, ModifyCheckedKeeps, RestoreCheckedKeeps, BulkCheckedKeeps
<1>3. ASSUME NEW h \in Handlers,
             InsertLink(h) \/ RepointLink(h) \/ ReactivateLink(h) \/ LandBulkChunk(h)
      PROVE  VocabularyInv'
  BY <1>3, InsertionKeeps, RepointKeeps, ReactivationKeeps, LandingKeeps
<1>4. ASSUME NEW h \in Handlers, RollbackToSnapshot(h)
      PROVE  VocabularyInv'
  BY <1>4, RollbackKeeps
<1>5. ASSUME NEW h \in Handlers, Abandon(h)
      PROVE  VocabularyInv'
  BY <1>5, RefusalKeeps DEF Abandon
<1>6. ASSUME NEW l \in Links, SoftDelete(l)
      PROVE  VocabularyInv'
  BY <1>6, DeletionKeeps
<1>7. ASSUME CreateSnapshot \/ ChangePlan
      PROVE  VocabularyInv'
  BY <1>7, SnapshotKeeps, PlanKeeps
<1>8. ASSUME NEW s \in Sweeps, FindDowngraded(s) \/ PinLinks(s) \/ ArchiveLinks(s) \/ AbandonPass(s)
      PROVE  VocabularyInv'
  BY <1>8, DueKeeps, PinningKeeps, ArchivingKeeps, AbandonedPassKeeps
<1>9. ASSUME UNCHANGED vars
      PROVE  VocabularyInv'
  <2>1. /\ UNCHANGED <<rowVars, snapshots, maxTerms>>
        /\ UNCHANGED reqVars /\ UNCHANGED sweepVars
    BY <1>9 DEF vars
  <2> QED BY <2>1, RowsSame, RequestsStay, PassesStay DEF VocabularyInv
<1> QED BY <1>1, <1>2, <1>3, <1>4, <1>5, <1>6, <1>7, <1>8, <1>9 DEF Next

(* domain-vocabulary.ts: what a request found under the lock stays true until *)
(* it writes, whatever deletes, rollbacks and sweeps do without the lock.     *)
THEOREM VocabularyInvariant == Spec => []VocabularyInv
<1>1. Init => VocabularyInv
  BY VocabularyInit
<1>2. VocabularyInv /\ [Next]_vars => VocabularyInv'
  BY VocabularyNext
<1> QED BY <1>1, <1>2, PTL DEF Spec

(* The rows of the vocabulary tables: an archived link is pinned to a snapshot *)
(* that was stored, and no link is both active and deleted or archived.        *)
THEOREM TypeCorrect == Spec => []TypeOK
<1>1. VocabularyInv => TypeOK
  <2> SUFFICES ASSUME VocabularyInv PROVE TypeOK
    OBVIOUS
  <2>1. RowsOK
    BY DEF VocabularyInv
  <2>2. Rows \in {1..n : n \in 0..MaxLinks} /\ TermsOf(Rows) \subseteq Terms
    <3>1. Rows = 1..Len(term) /\ Len(term) \in 0..MaxLinks /\ \A l \in Rows : term[l] \in Terms
      BY <2>1, RowFacts
    <3> QED BY <3>1 DEF TermsOf
  <2>3. /\ deleted \subseteq Rows /\ archived \subseteq Rows
        /\ DOMAIN archiveSnap = archived
        /\ \A l \in archived : archiveSnap[l] \in snapshots
        /\ maxTerms \in Quotas \union {0}
        /\ returned \subseteq Active
    BY <2>1 DEF RowsOK
  <2>4. snapshots \subseteq (SUBSET Terms) \ {{}}
    BY <2>1 DEF RowsOK
  <2>5. lock \in Handlers \union {NoOne} /\ sweepLock \in Sweeps \union {NoOne}
    BY DEF VocabularyInv
  <2>6. \A h \in Handlers : req[h] \in Requests
    BY DEF VocabularyInv, RequestInv
  <2>7. \A s \in Sweeps : sweep[s] \in Passes
    BY DEF VocabularyInv, PassInv
  <2> QED BY <2>2, <2>3, <2>4, <2>5, <2>6, <2>7 DEF TypeOK
<1> QED BY <1>1, VocabularyInvariant, PTL

(* lockUserQuotaAndCountRemaining: however many requests overlap, and whatever *)
(* becomes of the plan, what an add or a bulk chunk adds is within the quota   *)
(* its own request read.                                                       *)
THEOREM AddsHoldQuota == Spec => AddsWithinQuotaRead
<1>1. VocabularyInv =>
        (Active' # Active =>
           \A h \in Handlers : InsertLink(h) \/ LandBulkChunk(h)
             => Cardinality(Active' \ returned') <= req[h].quota)
  BY InsertionInQuota, LandingInQuota
<1> QED BY <1>1, VocabularyInvariant, PTL DEF AddsWithinQuotaRead

(* assertNoScopeConflict, screenBulkScopeConflicts: two active links conflict *)
(* only when a restore or a rollback brought one of them back.                *)
THEOREM ConflictsNeedReturn == Spec => []ConflictsOnlyByReturn
<1>1. VocabularyInv => ConflictsOnlyByReturn
  BY DEF VocabularyInv, OwnAgree, Agree, Own, ConflictsOnlyByReturn
<1> QED BY <1>1, VocabularyInvariant, PTL

(* archiveLinksForUser: the archive lock makes one sweep archive a link, and  *)
(* count its snapshot, once.                                                  *)
THEOREM ArchivedByOne == Spec => ArchivedOnce
<1>1. VocabularyInv => \A s \in Sweeps : ArchiveLinks(s) => Pinned(s) \intersect archived = {}
  <2> SUFFICES ASSUME VocabularyInv, NEW s \in Sweeps, ArchiveLinks(s)
               PROVE  Pinned(s) \intersect archived = {}
    OBVIOUS
  <2>1. \A x \in sweep[s].seen : x[1] \notin archived
    BY DEF VocabularyInv, PassInv, ArchiveLinks
  <2> QED BY <2>1 DEF Pinned
<1> QED BY <1>1, VocabularyInvariant, PTL DEF ArchivedOnce
=============================================================================
