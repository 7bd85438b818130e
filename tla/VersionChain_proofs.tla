------------------------- MODULE VersionChain_proofs -------------------------
(* Proofs about VersionChain, for any chain a migration may find, any number  *)
(* of overlapping jobs, creations and status changes.                         *)
EXTENDS VersionChain, WellFoundedInduction, SequenceTheorems, TLAPS

(* What a row holds.  Its source hash is its own or visibly forged. *)
Fields(row) ==
  row = [env |-> row.env, hash |-> row.hash, prev |-> row.prev, resolved |-> row.resolved,
         status |-> row.status, flagged |-> row.flagged, before |-> row.before]

IsRow(v, row) ==
  /\ Fields(row)
  /\ row.env \in {None, Forged("envelope", v), Envelope(v, 0), Envelope(v, 1)}
  /\ row.hash \in {Forged("hash", v), ChainedHash(v, row.prev)}
  /\ row.resolved \in BOOLEAN /\ row.flagged \in BOOLEAN
  /\ row.status \in {"DRAFT", "PENDING", "APPROVED", "REJECTED", "ARCHIVED"}
  /\ row.before \in {"none", "DRAFT", "PENDING", "APPROVED", "REJECTED"}
  /\ row.flagged <=> row.before # "none"
  /\ row.resolved => ~row.flagged /\ row.env = Envelope(v, 1)

(* A version that is not linked to its predecessor visibly is not. *)
IsLinked(chain, v) == chain[v].prev = Before(chain, v)
BrokenVisibly(chain, v) == v # 1 /\ chain[v].prev = Forged("link", v)

IsChain(chain) ==
  /\ chain = [v \in DOMAIN chain |-> chain[v]]
  /\ \E n \in 0..MaxVersion : DOMAIN chain = 1..n
  /\ \A v \in DOMAIN chain :
        IsRow(v, chain[v]) /\ (IsLinked(chain, v) \/ BrokenVisibly(chain, v))

(* A row is archived by the migration, which flags it, or by a person. *)
ArchivedBySomeone ==
  \A v \in DOMAIN rows : rows[v].status = "ARCHIVED" => rows[v].flagged \/ v \in manual

-----------------------------------------------------------------------------
(* What a job knows of the rows it has locked *)

PickedInv(job) ==
  job.op = "picked" => job = [op |-> "picked", row |-> job.row] /\ job.row \in DOMAIN rows

Sealable(v) == ~rows[v].resolved /\ SealIntact(v, rows[v])

CompilingInv(r, job) ==
  job.op = "compiling" =>
    /\ job = [op |-> "compiling", row |-> job.row]
    /\ job.row \in DOMAIN rows
    /\ rowLock[job.row] = r
    /\ Sealable(job.row)

(* It has written the rows from the one it resealed up to the one it is at,   *)
(* all of them linked, before and after, each to the one before.              *)
Rewritten(r, wrote, first, at) ==
  /\ first \in DOMAIN rows /\ at \in DOMAIN rows /\ first <= at
  /\ DOMAIN wrote = first..at /\ wrote = [v \in first..at |-> wrote[v]]
  /\ \A v \in first..at : rowLock[v] = r
  /\ Sealable(first)
  /\ wrote[first] = Resealed(first, rows[first])
  /\ \A v \in (first + 1)..at :
        /\ IsLinked(rows, v)
        /\ wrote[v] = Relinked(v, rows[v], [old |-> Link(rows[v - 1]), new |-> Link(wrote[v - 1])])

(* The link that follows is the one to rewrite, or there is none to rewrite. *)
WritingInv(r, job) ==
  job.op \in {"relinking", "committing"} =>
    /\ job = [op |-> job.op, wrote |-> job.wrote, at |-> job.at, old |-> job.old, new |-> job.new]
    /\ \E first \in DOMAIN rows : Rewritten(r, job.wrote, first, job.at)
    /\ job.op = "relinking" => job.old = Link(rows[job.at]) /\ job.new = Link(job.wrote[job.at])
    /\ job.op = "committing" /\ job.at + 1 \in DOMAIN rows =>
         Link(job.wrote[job.at]) = Link(rows[job.at]) \/ ~IsLinked(rows, job.at + 1)

JobInv(r) ==
  /\ run[r].op \in {"idle", "picked", "compiling", "relinking", "committing"}
  /\ PickedInv(run[r]) /\ CompilingInv(r, run[r]) /\ WritingInv(r, run[r])

(* Who holds the advisory lock is alone in lengthening the chain, and who has *)
(* read the tail holds it.                                                    *)
CreationInv(a) ==
  /\ append[a].op \in {"idle", "chained", "inserting"}
  /\ append[a].op = "chained" => append[a] = [op |-> "chained"]
  /\ append[a].op # "idle" => chainLock = a /\ Len(rows) < MaxVersion
  /\ append[a].op = "inserting" =>
       \E n \in 0..MaxVersion :
         /\ DOMAIN rows = 1..n
         /\ append[a] = [op |-> "inserting", version |-> n + 1, link |-> Before(rows, n + 1)]
         /\ n # 0 => rowLock[n] = a

(* A lock is held by a transaction that is under way. *)
LocksHeld ==
  /\ DOMAIN rowLock = Versions
  /\ \A v \in Versions : rowLock[v] \in
        {NoOne} \union {r \in Runs : run[r] # Idle} \union {a \in Appenders : append[a] # Idle}
  /\ chainLock \in {NoOne} \union {a \in Appenders : append[a] # Idle}
  /\ DOMAIN run = Runs /\ DOMAIN tried = Runs /\ DOMAIN append = Appenders
  /\ \A r \in Runs : tried[r] \subseteq DOMAIN rows

MigrationInv ==
  /\ IsChain(rows)
  /\ LocksHeld
  /\ ArchivedBySomeone
  /\ \A r \in Runs : JobInv(r)
  /\ \A a \in Appenders : CreationInv(a)

-----------------------------------------------------------------------------
(* Hashes and rows *)

(* Hashes of different kinds are different. *)
LEMMA Kinds ==
  /\ None.kind = "none"
  /\ \A what, v : Forged(what, v).kind = "forged" /\ Forged(what, v).what = what
  /\ \A v, prev : ChainedHash(v, prev).kind = "hash"
  /\ \A v, n : Envelope(v, n).kind = "envelope"
BY DEF None, Forged, ChainedHash, Envelope

(* A link is never taken for a broken one. *)
LEMMA LinkIsReal ==
  ASSUME NEW w, NEW row, IsRow(w, row), NEW v
  PROVE  Link(row) # Forged("link", v)
<1>1. row.env \in {None, Forged("envelope", w), Envelope(w, 0), Envelope(w, 1)}
  BY DEF IsRow
<1>2. row.hash \in {Forged("hash", w), ChainedHash(w, row.prev)}
  BY DEF IsRow
<1>3. CASE row.env # None
  <2>1. Link(row) = row.env
    BY <1>3 DEF Link
  <2> QED BY <1>1, <1>3, <2>1, Kinds
<1>4. CASE row.env = None
  <2>1. Link(row) = row.hash
    BY <1>4 DEF Link
  <2> QED BY <1>2, <2>1, Kinds
<1> QED BY <1>3, <1>4

(* The new seal, and what writeSuccess leaves alone. *)
LEMMA ResealedRow ==
  ASSUME NEW v, NEW row, IsRow(v, row), ~row.resolved, NEW new, new = Resealed(v, row)
  PROVE  /\ IsRow(v, new)
         /\ new.hash = row.hash /\ new.prev = row.prev
         /\ new.status = "ARCHIVED" => row.status = "ARCHIVED" /\ ~row.flagged
<1>1. new = [env |-> Envelope(v, 1), hash |-> row.hash, prev |-> row.prev, resolved |-> TRUE,
             status |-> Restored(row), flagged |-> FALSE,
             before |-> IF row.flagged THEN "none" ELSE row.before]
  BY DEF IsRow, Fields, Resealed
<1>2. row.flagged => row.before \in {"DRAFT", "PENDING", "APPROVED", "REJECTED"}
  BY DEF IsRow
<1>3. ~row.flagged => row.before = "none"
  BY DEF IsRow
<1>4. /\ Restored(row) \in {"DRAFT", "PENDING", "APPROVED", "REJECTED", "ARCHIVED"}
      /\ Restored(row) = "ARCHIVED" => row.status = "ARCHIVED" /\ ~row.flagged
  BY <1>2 DEF IsRow, Restored
<1>5. /\ new.env = Envelope(v, 1) /\ new.hash = row.hash /\ new.prev = row.prev
      /\ new.resolved = TRUE /\ new.flagged = FALSE /\ new.status = Restored(row)
      /\ new.before = "none"
  BY <1>1, <1>3
<1>6. Fields(new)
  BY <1>1, <1>5 DEF Fields
<1>7. row.hash \in {Forged("hash", v), ChainedHash(v, row.prev)}
  BY DEF IsRow
<1>8. IsRow(v, new)
  BY <1>4, <1>5, <1>6, <1>7 DEF IsRow
<1> QED BY <1>4, <1>5, <1>8

(* A rewritten link: the source hash matches its version if it did before. *)
LEMMA RelinkedRow ==
  ASSUME NEW v, NEW row, IsRow(v, row), NEW change, row.prev = change.old,
         NEW new, new = Relinked(v, row, change)
  PROVE  /\ IsRow(v, new)
         /\ new.prev = change.new
         /\ SelfConsistent(v, new) <=> SelfConsistent(v, row)
         /\ new.env = row.env /\ new.resolved = row.resolved
         /\ new.status = row.status /\ new.flagged = row.flagged
<1> DEFINE hash == IF row.hash = ChainedHash(v, change.old)
                   THEN ChainedHash(v, change.new) ELSE row.hash
<1>1. new = [env |-> row.env, hash |-> hash, prev |-> change.new, resolved |-> row.resolved,
             status |-> row.status, flagged |-> row.flagged, before |-> row.before]
  BY DEF IsRow, Fields, Relinked
<1> HIDE DEF hash
<1>2. /\ new.env = row.env /\ new.hash = hash /\ new.prev = change.new
      /\ new.resolved = row.resolved /\ new.status = row.status
      /\ new.flagged = row.flagged /\ new.before = row.before
  BY <1>1
<1>3. Fields(new)
  BY <1>1, <1>2 DEF Fields
<1>4. row.hash \in {Forged("hash", v), ChainedHash(v, change.old)}
  BY DEF IsRow
<1>5. \A p, q : Forged("hash", p) # ChainedHash(v, q)
  BY Kinds
<1>6. \/ row.hash = ChainedHash(v, change.old) /\ hash = ChainedHash(v, change.new)
      \/ row.hash = Forged("hash", v) /\ hash = Forged("hash", v)
  BY <1>4, <1>5 DEF hash
<1>7. IsRow(v, new)
  BY <1>2, <1>3, <1>6 DEF IsRow
<1>8. SelfConsistent(v, new) <=> SelfConsistent(v, row)
  BY <1>2, <1>5, <1>6 DEF SelfConsistent
<1> QED BY <1>2, <1>7, <1>8

(* A new status is no matter of the seal. *)
LEMMA RestatedRow ==
  ASSUME NEW v, NEW row, IsRow(v, row), NEW status,
         status \in {"DRAFT", "PENDING", "APPROVED", "REJECTED", "ARCHIVED"},
         NEW new, new = [row EXCEPT !.status = status]
  PROVE  /\ IsRow(v, new)
         /\ new.env = row.env /\ new.hash = row.hash /\ new.prev = row.prev
         /\ new.resolved = row.resolved /\ new.status = status /\ new.flagged = row.flagged
<1>1. new = [env |-> row.env, hash |-> row.hash, prev |-> row.prev, resolved |-> row.resolved,
             status |-> status, flagged |-> row.flagged, before |-> row.before]
  BY DEF IsRow, Fields
<1>2. /\ new.env = row.env /\ new.hash = row.hash /\ new.prev = row.prev
      /\ new.resolved = row.resolved /\ new.status = status
      /\ new.flagged = row.flagged /\ new.before = row.before
  BY <1>1
<1>3. Fields(new)
  BY <1>1, <1>2 DEF Fields
<1> QED BY <1>2, <1>3 DEF IsRow

-----------------------------------------------------------------------------
(* Chains *)

LEMMA LenOfChain ==
  ASSUME NEW chain, IsChain(chain)
  PROVE  Len(chain) \in 0..MaxVersion /\ DOMAIN chain = 1..Len(chain)
<1> DEFINE S == {chain[v] : v \in DOMAIN chain}
<1>1. PICK n \in 0..MaxVersion : DOMAIN chain = 1..n
  BY DEF IsChain
<1>2. n \in Nat
  BY <1>1, ChainAssumption
<1>3. chain \in [1..n -> S]
  <2>1. chain = [v \in 1..n |-> chain[v]]
    BY <1>1 DEF IsChain
  <2> QED BY <1>1, <2>1
<1> HIDE DEF S
<1>4. chain \in Seq(S)
  BY <1>2, <1>3, SeqDef
<1>5. Len(chain) \in Nat /\ DOMAIN chain = 1..Len(chain)
  BY <1>4, LenProperties
<1>6. Len(chain) = n
  BY <1>1, <1>2, <1>5
<1> QED BY <1>1, <1>6

LEMMA ChainNumbers ==
  ASSUME NEW chain, IsChain(chain), NEW v \in DOMAIN chain
  PROVE  /\ v \in Nat /\ v >= 1 /\ v <= MaxVersion /\ v \in Versions
         /\ \A w \in Nat : 1 <= w /\ w <= v => w \in DOMAIN chain
<1>1. PICK n \in 0..MaxVersion : DOMAIN chain = 1..n
  BY DEF IsChain
<1> QED BY <1>1, ChainAssumption DEF Versions

(* What a step of anybody may do to the rows. *)
ChainStep(new) ==
  /\ IsChain(new)
  /\ DOMAIN rows \subseteq DOMAIN new
  /\ \A v \in DOMAIN rows :
       /\ IsLinked(new, v) <=> IsLinked(rows, v)
       /\ SelfConsistent(v, new[v]) <=> SelfConsistent(v, rows[v])
       /\ new[v].resolved /\ ~rows[v].resolved => SealIntact(v, rows[v])
  /\ \A v \in DOMAIN new \ DOMAIN rows : IsLinked(new, v)

LEMMA SameRows == IsChain(rows) => ChainStep(rows)
BY DEF ChainStep

(* One row changes and neither its link nor its hashes do. *)
LEMMA OneRowRestated ==
  ASSUME IsChain(rows), NEW u \in DOMAIN rows, NEW row,
         IsRow(u, row),
         row.env = rows[u].env, row.hash = rows[u].hash, row.prev = rows[u].prev,
         row.resolved = rows[u].resolved,
         NEW new, new = [rows EXCEPT ![u] = row]
  PROVE  ChainStep(new)
<1>1. DOMAIN new = DOMAIN rows
  OBVIOUS
<1>2. new = [v \in DOMAIN rows |-> IF v = u THEN row ELSE rows[v]]
  BY DEF IsChain
<1>3. \A v \in DOMAIN rows :
        /\ new[v].env = rows[v].env /\ new[v].hash = rows[v].hash /\ new[v].prev = rows[v].prev
        /\ new[v].resolved = rows[v].resolved
        /\ IsRow(v, new[v])
  BY <1>2 DEF IsChain
<1>4. ASSUME NEW v \in DOMAIN rows
      PROVE  /\ IsLinked(new, v) <=> IsLinked(rows, v)
             /\ BrokenVisibly(new, v) <=> BrokenVisibly(rows, v)
             /\ SelfConsistent(v, new[v]) <=> SelfConsistent(v, rows[v])
  <2>1. v # 1 => v - 1 \in DOMAIN rows
    BY ChainNumbers
  <2>2. Before(new, v) = Before(rows, v)
    BY <1>3, <2>1 DEF Before, Link
  <2> QED BY <1>3, <2>2 DEF IsLinked, BrokenVisibly, SelfConsistent
<1>5. IsChain(new)
  <2>1. new = [v \in DOMAIN new |-> new[v]]
    BY <1>1, <1>2
  <2>2. \E n \in 0..MaxVersion : DOMAIN new = 1..n
    BY <1>1 DEF IsChain
  <2>3. \A v \in DOMAIN new : IsLinked(new, v) \/ BrokenVisibly(new, v)
    BY <1>1, <1>4 DEF IsChain
  <2> QED BY <1>1, <1>3, <2>1, <2>2, <2>3 DEF IsChain
<1> QED BY <1>1, <1>3, <1>4, <1>5 DEF ChainStep

(* A new version is linked to the tail. *)
LEMMA OneRowMore ==
  ASSUME IsChain(rows), NEW n \in 0..MaxVersion, DOMAIN rows = 1..n, n < MaxVersion,
         NEW row,
         row = [env |-> Envelope(n + 1, 1), hash |-> ChainedHash(n + 1, Before(rows, n + 1)),
                prev |-> Before(rows, n + 1), resolved |-> TRUE, status |-> "DRAFT",
                flagged |-> FALSE, before |-> "none"],
         NEW new, new = Written(Only(n + 1, row), rows)
  PROVE  /\ ChainStep(new)
         /\ DOMAIN new = 1..(n + 1) /\ new[n + 1] = row
         /\ \A v \in DOMAIN rows : new[v] = rows[v]
<1>0. n \in Nat /\ MaxVersion \in Nat /\ n + 1 \in 0..MaxVersion
  BY ChainAssumption
<1>1. new = [v \in 1..(n + 1) |-> IF v = n + 1 THEN row ELSE rows[v]]
  <2>1. new = [v \in {n + 1} \union 1..n |-> IF v \in {n + 1} THEN row ELSE rows[v]]
    BY DEF Written, Only
  <2>2. {n + 1} \union 1..n = 1..(n + 1)
    BY <1>0
  <2> QED BY <2>1, <2>2
<1>a. /\ n + 1 \in 1..(n + 1)
      /\ \A v \in 1..n : v \in 1..(n + 1) /\ v # n + 1
      /\ \A v \in 1..(n + 1) : v \in 1..n \/ v = n + 1
      /\ \A v \in 1..(n + 1) : v # 1 => v - 1 \in 1..n
  BY <1>0
<1>2. /\ DOMAIN new = 1..(n + 1)
      /\ new[n + 1] = row
      /\ \A v \in DOMAIN rows : new[v] = rows[v]
  <2>1. DOMAIN new = 1..(n + 1)
    BY <1>1
  <2>2. new[n + 1] = row
    BY <1>1, <1>a
  <2>3. \A v \in 1..n : new[v] = rows[v]
    BY <1>1, <1>a
  <2> QED BY <2>1, <2>2, <2>3
<1>3. \A v \in 1..(n + 1) : Before(new, v) = Before(rows, v)
  BY <1>a, <1>2 DEF Before
<1>4. /\ \A v \in DOMAIN rows : IsLinked(new, v) <=> IsLinked(rows, v)
      /\ \A v \in DOMAIN rows : BrokenVisibly(new, v) <=> BrokenVisibly(rows, v)
      /\ IsLinked(new, n + 1)
  <2>1. \A v \in DOMAIN rows : v \in 1..(n + 1)
    BY <1>a
  <2>2. n + 1 \in 1..(n + 1)
    BY <1>a
  <2>3. new[n + 1].prev = Before(rows, n + 1)
    BY <1>2
  <2> QED BY <1>2, <1>3, <2>1, <2>2, <2>3 DEF IsLinked, BrokenVisibly
<1>5. IsRow(n + 1, row)
  <2>1. /\ row.env = Envelope(n + 1, 1) /\ row.hash = ChainedHash(n + 1, row.prev)
        /\ row.resolved = TRUE /\ row.status = "DRAFT" /\ row.flagged = FALSE
        /\ row.before = "none"
    OBVIOUS
  <2>2. Fields(row)
    BY <2>1 DEF Fields
  <2> QED BY <2>1, <2>2 DEF IsRow
<1>6. IsChain(new)
  <2>1. new = [v \in DOMAIN new |-> new[v]]
    BY <1>1
  <2>2. \E m \in 0..MaxVersion : DOMAIN new = 1..m
    BY <1>0, <1>2
  <2>3. ASSUME NEW v \in DOMAIN new
        PROVE  IsRow(v, new[v]) /\ (IsLinked(new, v) \/ BrokenVisibly(new, v))
    <3>1. v \in DOMAIN rows \/ v = n + 1
      BY <1>a, <1>2
    <3> QED BY <1>2, <1>4, <1>5, <3>1 DEF IsChain
  <2> QED BY <2>1, <2>2, <2>3 DEF IsChain
<1>7. DOMAIN rows \subseteq DOMAIN new /\ \A v \in DOMAIN new \ DOMAIN rows : v = n + 1
  BY <1>a, <1>2
<1>8. ChainStep(new)
  BY <1>2, <1>4, <1>6, <1>7 DEF ChainStep
<1> QED BY <1>2, <1>8

(* What a job has written, row by row. *)
LEMMA WrittenRows ==
  ASSUME IsChain(rows), NEW r, NEW wrote, NEW first, NEW at, Rewritten(r, wrote, first, at),
         NEW v \in first..at
  PROVE  /\ v \in DOMAIN rows /\ v \in DOMAIN wrote
         /\ v # first => v - 1 \in first..at /\ v - 1 \in DOMAIN rows
         /\ IsRow(v, wrote[v])
         /\ SelfConsistent(v, wrote[v]) <=> SelfConsistent(v, rows[v])
         /\ v = first => wrote[v].prev = rows[v].prev
         /\ v # first => IsLinked(rows, v) /\ wrote[v].prev = Link(wrote[v - 1])
         /\ wrote[v].resolved /\ ~rows[v].resolved => SealIntact(v, rows[v])
         /\ wrote[v].status = "ARCHIVED" /\ ~wrote[v].flagged =>
              rows[v].status = "ARCHIVED" /\ ~rows[v].flagged
<1>0. first \in Nat /\ at \in Nat /\ v \in Nat /\ first >= 1 /\ v >= first /\ v <= at
  BY ChainNumbers DEF Rewritten
<1>1. v \in DOMAIN rows /\ v \in DOMAIN wrote
  BY <1>0, ChainNumbers DEF Rewritten
<1>2. v # first => v \in (first + 1)..at /\ v - 1 \in first..at /\ v - 1 \in DOMAIN rows /\ v # 1
  BY <1>0, ChainNumbers DEF Rewritten
<1>3. IsRow(v, rows[v])
  BY <1>1 DEF IsChain
<1>4. CASE v = first
  <2>1. wrote[v] = Resealed(v, rows[v]) /\ Sealable(v)
    BY <1>4 DEF Rewritten
  <2>2. /\ IsRow(v, wrote[v])
        /\ wrote[v].hash = rows[v].hash /\ wrote[v].prev = rows[v].prev
        /\ wrote[v].status = "ARCHIVED" => rows[v].status = "ARCHIVED" /\ ~rows[v].flagged
    BY <1>3, <2>1, ResealedRow DEF Sealable
  <2> QED BY <1>1, <1>4, <2>1, <2>2 DEF SelfConsistent, Sealable
<1>5. CASE v # first
  <2> DEFINE change == [old |-> Link(rows[v - 1]), new |-> Link(wrote[v - 1])]
  <2>1. IsLinked(rows, v) /\ wrote[v] = Relinked(v, rows[v], change)
    BY <1>2, <1>5 DEF Rewritten
  <2>2. change.old = Link(rows[v - 1]) /\ change.new = Link(wrote[v - 1])
    OBVIOUS
  <2> HIDE DEF change
  <2>3. rows[v].prev = change.old
    BY <1>2, <1>5, <2>1, <2>2 DEF IsLinked, Before
  <2>4. /\ IsRow(v, wrote[v])
        /\ wrote[v].prev = change.new
        /\ SelfConsistent(v, wrote[v]) <=> SelfConsistent(v, rows[v])
        /\ wrote[v].resolved = rows[v].resolved
        /\ wrote[v].status = rows[v].status /\ wrote[v].flagged = rows[v].flagged
    BY <1>3, <2>1, <2>3, RelinkedRow
  <2> QED BY <1>1, <1>2, <1>5, <2>1, <2>2, <2>4
<1> QED BY <1>4, <1>5

(* A job commits: the rows it has written are linked as they were, and what   *)
(* follows them too.                                                          *)
LEMMA RowsCommitted ==
  ASSUME IsChain(rows), NEW r, NEW wrote, NEW first, NEW at, Rewritten(r, wrote, first, at),
         at + 1 \in DOMAIN rows => Link(wrote[at]) = Link(rows[at]) \/ ~IsLinked(rows, at + 1),
         NEW new, new = Written(wrote, rows)
  PROVE  /\ ChainStep(new)
         /\ DOMAIN new = DOMAIN rows
         /\ \A v \in DOMAIN rows : new[v] = IF v \in first..at THEN wrote[v] ELSE rows[v]
<1>0. /\ first \in Nat /\ at \in Nat /\ first >= 1 /\ at >= first
      /\ DOMAIN wrote = first..at
      /\ \A v \in first..at : v \in DOMAIN rows
  BY ChainNumbers, WrittenRows DEF Rewritten
<1>1. /\ new = [v \in DOMAIN rows |-> IF v \in first..at THEN wrote[v] ELSE rows[v]]
      /\ DOMAIN new = DOMAIN rows
  <2>1. DOMAIN wrote \union DOMAIN rows = DOMAIN rows
    BY <1>0
  <2> QED BY <1>0, <2>1 DEF Written
<1>2. \A v \in DOMAIN rows : new[v] = IF v \in first..at THEN wrote[v] ELSE rows[v]
  BY <1>1
<1>3. ASSUME NEW v \in DOMAIN rows
      PROVE  /\ IsRow(v, new[v])
             /\ SelfConsistent(v, new[v]) <=> SelfConsistent(v, rows[v])
             /\ new[v].resolved /\ ~rows[v].resolved => SealIntact(v, rows[v])
  <2>1. CASE v \in first..at
    BY <1>2, <2>1, WrittenRows
  <2>2. CASE v \notin first..at
    BY <1>2, <2>2 DEF IsChain
  <2> QED BY <2>1, <2>2
<1>4. ASSUME NEW v \in DOMAIN rows
      PROVE  /\ IsLinked(new, v) <=> IsLinked(rows, v)
             /\ BrokenVisibly(rows, v) => IsLinked(new, v) \/ BrokenVisibly(new, v)
  <2>0. v \in Nat /\ v >= 1 /\ (v # 1 => v - 1 \in DOMAIN rows)
    BY ChainNumbers
  <2>1. CASE v \in (first + 1)..at
    <3>1. v \in first..at /\ v # first /\ v # 1 /\ v - 1 \in first..at
      BY <1>0, <2>1
    <3>2. IsLinked(rows, v) /\ wrote[v].prev = Link(wrote[v - 1])
      BY <3>1, WrittenRows
    <3>3. new[v] = wrote[v] /\ new[v - 1] = wrote[v - 1]
      BY <1>0, <1>2, <3>1
    <3>4. IsLinked(new, v)
      BY <3>1, <3>2, <3>3 DEF IsLinked, Before
    <3> QED BY <3>2, <3>4
  <2>2. CASE v = at + 1
    <3>1. v # 1 /\ v - 1 = at /\ v \notin first..at /\ at \in first..at /\ at \in DOMAIN rows
      BY <1>0, <2>2
    <3>2. new[v] = rows[v] /\ new[at] = wrote[at]
      BY <1>2, <3>1
    <3>3. /\ Before(new, v) = Link(wrote[at])
          /\ Before(rows, v) = Link(rows[at])
      BY <3>1, <3>2 DEF Before
    <3>4. BrokenVisibly(rows, v) <=> BrokenVisibly(new, v)
      BY <3>2 DEF BrokenVisibly
    <3>5. CASE Link(wrote[at]) = Link(rows[at])
      BY <3>2, <3>3, <3>4, <3>5 DEF IsLinked
    <3>6. CASE ~IsLinked(rows, v)
      <4>1. rows[v].prev = Forged("link", v)
        BY <3>6 DEF IsChain, BrokenVisibly
      <4>2. Link(wrote[at]) # Forged("link", v)
        <5>1. IsRow(at, wrote[at])
          BY <3>1, WrittenRows
        <5> QED BY <5>1, LinkIsReal
      <4>3. ~IsLinked(new, v)
        BY <3>2, <3>3, <4>1, <4>2 DEF IsLinked
      <4> QED BY <3>4, <3>6, <4>3
    <3> QED BY <2>2, <3>5, <3>6
  <2>3. CASE v \notin (first + 1)..at /\ v # at + 1
    <3>1. new[v].prev = rows[v].prev
      <4>1. CASE v = first
        <5>1. v \in first..at
          BY <1>0, <4>1
        <5> QED BY <1>2, <4>1, <5>1, WrittenRows
      <4>2. CASE v # first
        <5>1. v \notin first..at
          BY <1>0, <2>0, <2>3, <4>2
        <5> QED BY <1>2, <5>1
      <4> QED BY <4>1, <4>2
    <3>2. Before(new, v) = Before(rows, v)
      <4>1. CASE v = 1
        BY <4>1 DEF Before
      <4>2. CASE v # 1
        <5>1. v - 1 \in DOMAIN rows /\ v - 1 \notin first..at
          BY <1>0, <2>0, <2>3, <4>2
        <5> QED BY <1>2, <4>2, <5>1 DEF Before
      <4> QED BY <4>1, <4>2
    <3> QED BY <3>1, <3>2 DEF IsLinked, BrokenVisibly
  <2> QED BY <2>1, <2>2, <2>3
<1>5. IsChain(new)
  <2>1. new = [v \in DOMAIN new |-> new[v]]
    BY <1>1
  <2>2. \E n \in 0..MaxVersion : DOMAIN new = 1..n
    BY <1>1 DEF IsChain
  <2>3. \A v \in DOMAIN new : IsLinked(new, v) \/ BrokenVisibly(new, v)
    BY <1>1, <1>4 DEF IsChain
  <2> QED BY <1>1, <1>3, <2>1, <2>2, <2>3 DEF IsChain
<1>6. ChainStep(new)
  BY <1>1, <1>3, <1>4, <1>5 DEF ChainStep
<1> QED BY <1>1, <1>2, <1>6

-----------------------------------------------------------------------------
(* What a step leaves to those who hold locks *)

(* A step of somebody else: the rows p has locked stay as they are and locked, *)
(* and none is appended to them.                                              *)
Kept(p) ==
  \A v \in DOMAIN rows : rowLock[v] = p =>
    /\ rows'[v] = rows[v]
    /\ rowLock'[v] = p
    /\ v + 1 \in DOMAIN rows' => v + 1 \in DOMAIN rows

LEMMA JobKept ==
  ASSUME IsChain(rows), ChainStep(rows'), NEW r \in Runs, JobInv(r), Kept(r), run'[r] = run[r]
  PROVE  JobInv(r)'
<1> DEFINE job == run[r]
<1>0. DOMAIN rows \subseteq DOMAIN rows'
  BY DEF ChainStep
<1>1. PickedInv(job)'
  BY <1>0 DEF JobInv, PickedInv
<1>2. CompilingInv(r, job)'
  BY <1>0 DEF JobInv, CompilingInv, Kept, Sealable
<1>3. ASSUME job.op \in {"relinking", "committing"}
      PROVE  WritingInv(r, job)'
  <2>1. /\ job = [op |-> job.op, wrote |-> job.wrote, at |-> job.at, old |-> job.old, new |-> job.new]
        /\ job.op = "relinking" =>
             job.old = Link(rows[job.at]) /\ job.new = Link(job.wrote[job.at])
        /\ job.op = "committing" /\ job.at + 1 \in DOMAIN rows =>
             Link(job.wrote[job.at]) = Link(rows[job.at]) \/ ~IsLinked(rows, job.at + 1)
    BY <1>3 DEF JobInv, WritingInv
  <2>2. PICK first \in DOMAIN rows : Rewritten(r, job.wrote, first, job.at)
    BY <1>3 DEF JobInv, WritingInv
  <2> DEFINE at == job.at  wrote == job.wrote
  <2> HIDE DEF job, at, wrote
  <2>3. Rewritten(r, wrote, first, at)
    BY <2>2 DEF at, wrote
  <2>4. /\ first \in Nat /\ at \in Nat /\ first >= 1 /\ at >= first
        /\ first \in first..at /\ at \in first..at
        /\ \A v \in first..at : v \in DOMAIN rows /\ (v # first => v - 1 \in first..at)
    <3>1. first \in Nat /\ at \in Nat /\ first >= 1 /\ at >= first
      BY <2>3, ChainNumbers DEF Rewritten
    <3>2. \A v \in first..at : v \in DOMAIN rows /\ (v # first => v - 1 \in first..at)
      BY <2>3, WrittenRows
    <3> QED BY <3>1, <3>2
  <2>5. \A v \in first..at : rows'[v] = rows[v] /\ rowLock'[v] = r
    BY <2>3, <2>4 DEF Rewritten, Kept
  <2>6. Rewritten(r, wrote, first, at)'
    <3>1. /\ first \in DOMAIN rows' /\ at \in DOMAIN rows' /\ first <= at
          /\ DOMAIN wrote = first..at /\ wrote = [v \in first..at |-> wrote[v]]
          /\ \A v \in first..at : rowLock'[v] = r
      BY <1>0, <2>3, <2>4, <2>5 DEF Rewritten
    <3>2. Sealable(first)' /\ wrote[first] = Resealed(first, rows'[first])
      BY <2>3, <2>4, <2>5 DEF Rewritten, Sealable
    <3>3. ASSUME NEW v \in (first + 1)..at
          PROVE  /\ IsLinked(rows', v)
                 /\ wrote[v] = Relinked(v, rows'[v],
                                 [old |-> Link(rows'[v - 1]), new |-> Link(wrote[v - 1])])
      <4>1. v \in first..at /\ v - 1 \in first..at /\ v \in DOMAIN rows
        BY <2>4
      <4>2. IsLinked(rows, v) /\ wrote[v] = Relinked(v, rows[v],
                                 [old |-> Link(rows[v - 1]), new |-> Link(wrote[v - 1])])
        BY <2>3 DEF Rewritten
      <4>3. IsLinked(rows', v)
        BY <4>1, <4>2 DEF ChainStep
      <4> QED BY <2>5, <4>1, <4>2, <4>3
    <3>4. wrote' = wrote /\ at' = at
      BY DEF wrote, at, job
    <3> QED BY <3>1, <3>2, <3>3, <3>4 DEF Rewritten, IsLinked, Before
  <2>7. job'.op = "relinking" =>
          job.old = Link(rows'[at]) /\ job.new = Link(wrote[at])
    BY <2>1, <2>4, <2>5 DEF at, wrote, job
  <2>8. ASSUME job.op = "committing", at + 1 \in DOMAIN rows'
        PROVE  Link(wrote[at]) = Link(rows'[at]) \/ ~IsLinked(rows', at + 1)
    <3>1. at + 1 \in DOMAIN rows
      BY <2>3, <2>4, <2>8 DEF Rewritten, Kept
    <3>2. Link(wrote[at]) = Link(rows[at]) \/ ~IsLinked(rows, at + 1)
      BY <2>1, <2>8, <3>1 DEF at, wrote
    <3> QED BY <2>4, <2>5, <3>1, <3>2 DEF ChainStep
  <2>9. first \in DOMAIN rows'
    BY <1>0
  <2>10. job' = job
    BY DEF job
  <2> QED BY <2>1, <2>6, <2>7, <2>8, <2>9, <2>10 DEF WritingInv, at, wrote
<1>4. job' = job
  OBVIOUS
<1>5. WritingInv(r, job)'
  <2>1. CASE job.op \in {"relinking", "committing"}
    BY <1>3, <2>1
  <2>2. CASE job.op \notin {"relinking", "committing"}
    BY <1>4, <2>2 DEF WritingInv
  <2> QED BY <2>1, <2>2
<1> QED BY <1>1, <1>2, <1>4, <1>5 DEF JobInv

LEMMA CreationKept ==
  ASSUME IsChain(rows), NEW a \in Appenders, CreationInv(a), Kept(a), append'[a] = append[a],
         chainLock = a => chainLock' = a /\ DOMAIN rows' = DOMAIN rows /\ IsChain(rows')
  PROVE  CreationInv(a)'
<1>1. CASE append[a].op = "idle"
  BY <1>1 DEF CreationInv
<1>2. CASE append[a].op # "idle"
  <2>1. chainLock = a /\ Len(rows) < MaxVersion
    BY <1>2 DEF CreationInv
  <2>2. chainLock' = a /\ DOMAIN rows' = DOMAIN rows /\ IsChain(rows')
    BY <2>1
  <2>3. Len(rows') = Len(rows)
    <3>1. DOMAIN rows = 1..Len(rows) /\ Len(rows) \in 0..MaxVersion
      BY LenOfChain
    <3>2. DOMAIN rows' = 1..Len(rows') /\ Len(rows') \in 0..MaxVersion
      BY <2>2, LenOfChain
    <3> QED BY <2>2, <3>1, <3>2
  <2>4. ASSUME append[a].op = "inserting"
        PROVE  \E n \in 0..MaxVersion :
                 /\ DOMAIN rows' = 1..n
                 /\ append[a] = [op |-> "inserting", version |-> n + 1, link |-> Before(rows', n + 1)]
                 /\ n # 0 => rowLock'[n] = a
    <3>1. PICK n \in 0..MaxVersion :
            /\ DOMAIN rows = 1..n
            /\ append[a] = [op |-> "inserting", version |-> n + 1, link |-> Before(rows, n + 1)]
            /\ n # 0 => rowLock[n] = a
      BY <2>4 DEF CreationInv
    <3>2. n \in Nat
      BY <3>1, ChainAssumption
    <3>3. n # 0 => rows'[n] = rows[n] /\ rowLock'[n] = a
      BY <3>1, <3>2 DEF Kept
    <3>4. Before(rows', n + 1) = Before(rows, n + 1)
      BY <3>2, <3>3 DEF Before
    <3> QED BY <2>2, <3>1, <3>3, <3>4
  <2> QED BY <2>1, <2>2, <2>3, <2>4 DEF CreationInv
<1> QED BY <1>1, <1>2

(* It is enough to look at the actor of a step, if it touches only rows it has *)
(* locked or found unlocked.                                                  *)
LEMMA StepOf ==
  ASSUME MigrationInv, ChainStep(rows'), ArchivedBySomeone', LocksHeld',
         NEW p,
         \A q \in (Runs \union Appenders) \ {p} : Kept(q),
         \A r \in Runs : JobInv(r)' \/ (r # p /\ run'[r] = run[r]),
         \A a \in Appenders :
           \/ CreationInv(a)'
           \/ /\ a # p /\ append'[a] = append[a]
              /\ chainLock = a => chainLock' = a /\ DOMAIN rows' = DOMAIN rows
  PROVE  MigrationInv'
<1>1. ASSUME NEW r \in Runs PROVE JobInv(r)'
  <2>1. CASE r # p /\ run'[r] = run[r]
    BY <2>1, JobKept DEF MigrationInv
  <2> QED BY <2>1
<1>2. ASSUME NEW a \in Appenders PROVE CreationInv(a)'
  <2>1. CASE /\ a # p /\ append'[a] = append[a]
             /\ chainLock = a => chainLock' = a /\ DOMAIN rows' = DOMAIN rows
    <3>1. IsChain(rows')
      BY DEF ChainStep
    <3> QED BY <2>1, <3>1, CreationKept DEF MigrationInv
  <2> QED BY <2>1
<1>3. IsChain(rows)'
  BY DEF ChainStep
<1> QED BY <1>1, <1>2, <1>3 DEF MigrationInv

LEMMA JobAlone ==
  ASSUME MigrationInv, NEW r \in Runs,
         ChainStep(rows'), DOMAIN rows' = DOMAIN rows, ArchivedBySomeone',
         \A v \in DOMAIN rows : rowLock[v] # r => rows'[v] = rows[v],
         DOMAIN rowLock' = Versions,
         \A v \in Versions :
           rowLock'[v] = rowLock[v] \/ (rowLock[v] \in {r, NoOne} /\ rowLock'[v] \in {r, NoOne}),
         (\E v \in Versions : rowLock'[v] = r) => run'[r] # Idle,
         chainLock' = chainLock, append' = append,
         DOMAIN run' = Runs, \A q \in Runs \ {r} : run'[q] = run[q],
         DOMAIN tried' = Runs, \A q \in Runs : tried'[q] \subseteq DOMAIN rows,
         JobInv(r)'
  PROVE  MigrationInv'
<1>1. NoOne \notin Runs \union Appenders /\ r \notin Appenders
  BY ChainAssumption
<1>2. \A v \in DOMAIN rows : v \in Versions
  BY ChainNumbers DEF MigrationInv
<1>3. ASSUME NEW v \in Versions
      PROVE  rowLock'[v] \in
               {NoOne} \union {q \in Runs : run'[q] # Idle} \union {a \in Appenders : append[a] # Idle}
  <2>1. rowLock[v] \in
          {NoOne} \union {q \in Runs : run[q] # Idle} \union {a \in Appenders : append[a] # Idle}
    BY DEF MigrationInv, LocksHeld
  <2> QED BY <1>1, <2>1
<1>4. LocksHeld'
  BY <1>3 DEF MigrationInv, LocksHeld
<1>5. ASSUME NEW q \in (Runs \union Appenders) \ {r} PROVE Kept(q)
  BY <1>1, <1>2 DEF Kept
<1> QED BY <1>1, <1>4, <1>5, StepOf

(* Rows stay as they are. *)
LEMMA RowsStay ==
  ASSUME MigrationInv, rows' = rows, manual' = manual
  PROVE  ChainStep(rows') /\ ArchivedBySomeone' /\ DOMAIN rows' = DOMAIN rows
BY SameRows DEF MigrationInv, ArchivedBySomeone

LEMMA JobEnds ==
  ASSUME MigrationInv, NEW r \in Runs, EndRun(r),
         ChainStep(rows'), DOMAIN rows' = DOMAIN rows, ArchivedBySomeone',
         \A v \in DOMAIN rows : rowLock[v] # r => rows'[v] = rows[v]
  PROVE  MigrationInv'
<1>1. DOMAIN run = Runs /\ DOMAIN tried = Runs /\ \A q \in Runs : tried[q] \subseteq DOMAIN rows
  BY DEF MigrationInv, LocksHeld
<1>2. /\ run' = [run EXCEPT ![r] = Idle] /\ tried' = tried
      /\ chainLock' = chainLock /\ append' = append
      /\ rowLock' = [v \in Versions |-> IF rowLock[v] = r THEN NoOne ELSE rowLock[v]]
  BY DEF EndRun, Unlocked
<1>3. run'[r] = Idle /\ DOMAIN run' = Runs /\ \A q \in Runs \ {r} : run'[q] = run[q]
  BY <1>1, <1>2
<1>4. DOMAIN rowLock' = Versions
  BY <1>2
<1>5. \A v \in Versions :
        rowLock'[v] = rowLock[v] \/ (rowLock[v] \in {r, NoOne} /\ rowLock'[v] \in {r, NoOne})
  BY <1>2
<1>6. \A v \in Versions : rowLock'[v] # r
  <2>1. NoOne # r
    BY ChainAssumption
  <2> QED BY <1>2, <2>1
<1>7. JobInv(r)'
  <2>1. run'[r].op = "idle"
    BY <1>3 DEF Idle
  <2> QED BY <2>1 DEF JobInv, PickedInv, CompilingInv, WritingInv
<1>8. DOMAIN tried' = Runs /\ \A q \in Runs : tried'[q] \subseteq DOMAIN rows
  BY <1>1, <1>2
<1> QED BY <1>2, <1>3, <1>4, <1>5, <1>6, <1>7, <1>8, JobAlone

-----------------------------------------------------------------------------
(* The steps of a job *)

LEMMA PickStep ==
  ASSUME MigrationInv, NEW r \in Runs, PickRow(r)
  PROVE  MigrationInv' /\ ChainStep(rows')
<1>1. DOMAIN run = Runs /\ DOMAIN tried = Runs /\ \A q \in Runs : tried[q] \subseteq DOMAIN rows
  BY DEF MigrationInv, LocksHeld
<1>2. PICK v \in DOMAIN rows \ tried[r] :
        /\ run' = [run EXCEPT ![r] = [op |-> "picked", row |-> v]]
        /\ tried' = [tried EXCEPT ![r] = @ \union {v}]
  BY DEF PickRow
<1>3. /\ run[r] = Idle
      /\ rows' = rows /\ rowLock' = rowLock /\ chainLock' = chainLock
      /\ append' = append /\ manual' = manual
  BY DEF PickRow, lockVars
<1>4. /\ run'[r] = [op |-> "picked", row |-> v] /\ DOMAIN run' = Runs
      /\ \A q \in Runs \ {r} : run'[q] = run[q]
  BY <1>1, <1>2
<1>5. DOMAIN tried' = Runs /\ \A q \in Runs : tried'[q] \subseteq DOMAIN rows
  BY <1>1, <1>2
<1>6. run'[r].op = "picked" /\ run'[r].row = v
  BY <1>4
<1>7. JobInv(r)'
  BY <1>2, <1>3, <1>4, <1>6 DEF JobInv, PickedInv, CompilingInv, WritingInv
<1>8. run'[r] # Idle
  BY <1>6 DEF Idle
<1>9. ChainStep(rows') /\ ArchivedBySomeone' /\ DOMAIN rows' = DOMAIN rows
  BY <1>3, RowsStay
<1>10. DOMAIN rowLock = Versions
  BY DEF MigrationInv, LocksHeld
<1> QED BY <1>3, <1>4, <1>5, <1>7, <1>8, <1>9, <1>10, JobAlone

LEMMA PassOverStep ==
  ASSUME MigrationInv, NEW r \in Runs, EndRun(r), UNCHANGED rows
  PROVE  MigrationInv' /\ ChainStep(rows')
<1>1. manual' = manual /\ rows' = rows
  BY DEF EndRun
<1>2. ChainStep(rows') /\ ArchivedBySomeone' /\ DOMAIN rows' = DOMAIN rows
  BY <1>1, RowsStay
<1> QED BY <1>1, <1>2, JobEnds

LEMMA LockRowStep ==
  ASSUME MigrationInv, NEW r \in Runs, LockRow(r)
  PROVE  MigrationInv' /\ ChainStep(rows')
<1>1. /\ DOMAIN run = Runs /\ DOMAIN rowLock = Versions
      /\ DOMAIN tried = Runs /\ \A q \in Runs : tried[q] \subseteq DOMAIN rows
  BY DEF MigrationInv, LocksHeld
<1>2. PICK v : v = run[r].row
  OBVIOUS
<1>3. run[r] = [op |-> "picked", row |-> v] /\ v \in DOMAIN rows /\ v \in Versions
  <2>1. run[r] = [op |-> "picked", row |-> v] /\ v \in DOMAIN rows
    BY <1>2 DEF LockRow, MigrationInv, JobInv, PickedInv
  <2> QED BY <2>1, ChainNumbers DEF MigrationInv
<1>4. /\ rowLock[v] = NoOne /\ Sealable(v)
      /\ rowLock' = [rowLock EXCEPT ![v] = r]
      /\ run' = [run EXCEPT ![r] = [run[r] EXCEPT !.op = "compiling"]]
      /\ rows' = rows /\ chainLock' = chainLock /\ tried' = tried
      /\ append' = append /\ manual' = manual
  BY <1>2 DEF LockRow, Free, Sealable
<1>5. /\ run'[r] = [op |-> "compiling", row |-> v] /\ DOMAIN run' = Runs
      /\ \A q \in Runs \ {r} : run'[q] = run[q]
  BY <1>1, <1>3, <1>4
<1>6. run'[r].op = "compiling" /\ run'[r].row = v
  BY <1>5
<1>7. /\ DOMAIN rowLock' = Versions /\ rowLock'[v] = r
      /\ \A w \in Versions :
           rowLock'[w] = rowLock[w] \/ (rowLock[w] \in {r, NoOne} /\ rowLock'[w] \in {r, NoOne})
  BY <1>1, <1>3, <1>4
<1>8. JobInv(r)'
  BY <1>3, <1>4, <1>5, <1>6, <1>7 DEF JobInv, PickedInv, CompilingInv, WritingInv, Sealable
<1>9. run'[r] # Idle
  BY <1>6 DEF Idle
<1>10. ChainStep(rows') /\ ArchivedBySomeone' /\ DOMAIN rows' = DOMAIN rows
  BY <1>4, RowsStay
<1> QED BY <1>1, <1>4, <1>5, <1>7, <1>8, <1>9, <1>10, JobAlone

LEMMA ResealStep ==
  ASSUME MigrationInv, NEW r \in Runs, Reseal(r)
  PROVE  MigrationInv' /\ ChainStep(rows')
<1>1. /\ DOMAIN run = Runs /\ DOMAIN rowLock = Versions
      /\ DOMAIN tried = Runs /\ \A q \in Runs : tried[q] \subseteq DOMAIN rows
  BY DEF MigrationInv, LocksHeld
<1>2. PICK v : v = run[r].row
  OBVIOUS
<1>3. v \in DOMAIN rows /\ rowLock[v] = r /\ Sealable(v)
  BY <1>2 DEF Reseal, MigrationInv, JobInv, CompilingInv
<1>4. PICK wrote : wrote = Only(v, Resealed(v, rows[v]))
  OBVIOUS
<1>5. /\ run' = [run EXCEPT ![r] =
                   [op |-> "relinking", wrote |-> wrote,
                    at |-> v, old |-> Link(rows[v]), new |-> Envelope(v, 1)]]
      /\ rows' = rows /\ rowLock' = rowLock /\ chainLock' = chainLock
      /\ tried' = tried /\ append' = append /\ manual' = manual
  BY <1>2, <1>4 DEF Reseal, lockVars
<1>6. /\ run'[r] = [op |-> "relinking", wrote |-> wrote,
                    at |-> v, old |-> Link(rows[v]), new |-> Envelope(v, 1)]
      /\ DOMAIN run' = Runs
      /\ \A q \in Runs \ {r} : run'[q] = run[q]
  BY <1>1, <1>5
<1>7. /\ run'[r].op = "relinking" /\ run'[r].wrote = wrote /\ run'[r].at = v
      /\ run'[r].old = Link(rows[v]) /\ run'[r].new = Envelope(v, 1)
  BY <1>6
<1>8. Rewritten(r, wrote, v, v)
  <2>1. v \in Nat /\ v..v = {v} /\ (v + 1)..v = {}
    <3>1. v \in Nat
      BY <1>3, ChainNumbers DEF MigrationInv
    <3> QED BY <3>1
  <2>2. DOMAIN wrote = {v} /\ wrote = [w \in {v} |-> wrote[w]] /\ wrote[v] = Resealed(v, rows[v])
    BY <1>4 DEF Only
  <2> QED BY <1>3, <2>1, <2>2 DEF Rewritten
<1>9. Link(wrote[v]) = Envelope(v, 1)
  <2>1. wrote[v] = Resealed(v, rows[v])
    BY <1>4 DEF Only
  <2>2. wrote[v].env = Envelope(v, 1)
    <3>1. Fields(rows[v])
      BY <1>3 DEF MigrationInv, IsChain, IsRow
    <3> QED BY <2>1, <3>1 DEF Fields, Resealed
  <2>3. Envelope(v, 1) # None
    BY Kinds
  <2> QED BY <2>2, <2>3 DEF Link
<1>10. Rewritten(r, wrote, v, v)'
  <2>1. (wrote = wrote)' /\ rows' = rows /\ rowLock' = rowLock
    BY <1>5
  <2> QED BY <1>8, <2>1 DEF Rewritten, IsLinked, Before, Sealable
<1>11. WritingInv(r, run[r])'
  BY <1>3, <1>5, <1>6, <1>7, <1>9, <1>10 DEF WritingInv
<1>12. JobInv(r)'
  BY <1>7, <1>11 DEF JobInv, PickedInv, CompilingInv
<1>13. run'[r] # Idle
  BY <1>7 DEF Idle
<1>14. ChainStep(rows') /\ ArchivedBySomeone' /\ DOMAIN rows' = DOMAIN rows
  BY <1>5, RowsStay
<1> QED BY <1>1, <1>5, <1>6, <1>12, <1>13, <1>14, JobAlone

LEMMA RecompileFailsStep ==
  ASSUME MigrationInv, NEW r \in Runs, RecompileFails(r)
  PROVE  MigrationInv' /\ ChainStep(rows')
<1>1. PICK v : v = run[r].row
  OBVIOUS
<1>2. v \in DOMAIN rows /\ rowLock[v] = r /\ ~rows[v].resolved /\ IsRow(v, rows[v])
  BY <1>1 DEF RecompileFails, MigrationInv, JobInv, CompilingInv, Sealable, IsChain
<1>3. EndRun(r) /\ manual' = manual
  BY DEF RecompileFails, EndRun
<1>4. CASE rows[v].status = "ARCHIVED"
  <2>1. rows' = rows
    BY <1>1, <1>4 DEF RecompileFails
  <2> QED BY <1>3, <2>1, PassOverStep
<1>5. CASE rows[v].status # "ARCHIVED"
  <2>1. PICK row : row = [rows[v] EXCEPT !.status = "ARCHIVED", !.before = rows[v].status,
                                         !.flagged = TRUE]
    OBVIOUS
  <2>2. rows' = [rows EXCEPT ![v] = row]
    BY <1>1, <1>5, <2>1 DEF RecompileFails
  <2>3. row = [env |-> rows[v].env, hash |-> rows[v].hash, prev |-> rows[v].prev,
               resolved |-> rows[v].resolved, status |-> "ARCHIVED", flagged |-> TRUE,
               before |-> rows[v].status]
    BY <1>2, <2>1 DEF IsRow, Fields
  <2>4. rows[v].status \in {"DRAFT", "PENDING", "APPROVED", "REJECTED"}
    BY <1>2, <1>5 DEF IsRow
  <2>5. /\ IsRow(v, row)
        /\ row.env = rows[v].env /\ row.hash = rows[v].hash /\ row.prev = rows[v].prev
        /\ row.resolved = rows[v].resolved /\ row.flagged = TRUE
    <3>1. /\ row.env = rows[v].env /\ row.hash = rows[v].hash /\ row.prev = rows[v].prev
          /\ row.resolved = rows[v].resolved /\ row.status = "ARCHIVED"
          /\ row.flagged = TRUE /\ row.before = rows[v].status
      BY <2>3
    <3>2. Fields(row)
      BY <2>3, <3>1 DEF Fields
    <3>3. row.hash \in {Forged("hash", v), ChainedHash(v, row.prev)}
      BY <1>2, <3>1 DEF IsRow
    <3>4. row.env \in {None, Forged("envelope", v), Envelope(v, 0), Envelope(v, 1)}
      BY <1>2, <3>1 DEF IsRow
    <3> QED BY <1>2, <2>4, <3>1, <3>2, <3>3, <3>4 DEF IsRow
  <2>6. ChainStep(rows')
    BY <1>2, <2>2, <2>5, OneRowRestated DEF MigrationInv
  <2>7. /\ DOMAIN rows' = DOMAIN rows /\ rows'[v] = row
        /\ \A w \in DOMAIN rows : w # v => rows'[w] = rows[w]
    BY <1>2, <2>2
  <2>8. ArchivedBySomeone'
    BY <1>3, <2>5, <2>7 DEF ArchivedBySomeone, MigrationInv
  <2> QED BY <1>2, <1>3, <2>6, <2>7, <2>8, JobEnds
<1> QED BY <1>4, <1>5

LEMMA CommitRunStep ==
  ASSUME MigrationInv, NEW r \in Runs, CommitRun(r)
  PROVE  MigrationInv' /\ ChainStep(rows')
<1>1. PICK wrote, at : wrote = run[r].wrote /\ at = run[r].at
  OBVIOUS
<1>2. PICK first \in DOMAIN rows : Rewritten(r, wrote, first, at)
  BY <1>1 DEF CommitRun, MigrationInv, JobInv, WritingInv
<1>3. at + 1 \in DOMAIN rows => Link(wrote[at]) = Link(rows[at]) \/ ~IsLinked(rows, at + 1)
  BY <1>1 DEF CommitRun, MigrationInv, JobInv, WritingInv
<1>4. rows' = Written(wrote, rows) /\ EndRun(r) /\ manual' = manual
  BY <1>1 DEF CommitRun, EndRun
<1>5. /\ ChainStep(rows')
      /\ DOMAIN rows' = DOMAIN rows
      /\ \A v \in DOMAIN rows : rows'[v] = IF v \in first..at THEN wrote[v] ELSE rows[v]
  BY <1>2, <1>3, <1>4, RowsCommitted DEF MigrationInv
<1>6. ASSUME NEW v \in DOMAIN rows
      PROVE  /\ rowLock[v] # r => rows'[v] = rows[v]
             /\ rows'[v].status = "ARCHIVED" => rows'[v].flagged \/ v \in manual
  <2>1. CASE v \in first..at
    <3>1. rowLock[v] = r
      BY <1>2, <2>1 DEF Rewritten
    <3>2. rows'[v] = wrote[v]
      BY <1>5, <2>1
    <3>3. wrote[v].status = "ARCHIVED" /\ ~wrote[v].flagged =>
            rows[v].status = "ARCHIVED" /\ ~rows[v].flagged
      BY <1>2, <2>1, WrittenRows DEF MigrationInv
    <3> QED BY <3>1, <3>2, <3>3 DEF MigrationInv, ArchivedBySomeone
  <2>2. CASE v \notin first..at
    BY <1>5, <2>2 DEF MigrationInv, ArchivedBySomeone
  <2> QED BY <2>1, <2>2
<1>7. ArchivedBySomeone'
  BY <1>4, <1>5, <1>6 DEF ArchivedBySomeone
<1> QED BY <1>4, <1>5, <1>6, <1>7, JobEnds

(* What a relinking job knows, taken apart. *)
LEMMA RelinkingJob ==
  ASSUME MigrationInv, NEW r \in Runs, run[r].op = "relinking",
         NEW job, job = run[r]
  PROVE  /\ job = [op |-> "relinking", wrote |-> job.wrote, at |-> job.at,
                   old |-> job.old, new |-> job.new]
         /\ \E first \in DOMAIN rows : Rewritten(r, job.wrote, first, job.at)
         /\ job.old = Link(rows[job.at]) /\ job.new = Link(job.wrote[job.at])
         /\ job.at \in DOMAIN rows /\ job.at \in Nat /\ job.at >= 1
<1>1. WritingInv(r, job) /\ job.op = "relinking"
  BY DEF MigrationInv, JobInv
<1>2. PICK first \in DOMAIN rows : Rewritten(r, job.wrote, first, job.at)
  BY <1>1 DEF WritingInv
<1>3. job.at \in DOMAIN rows /\ job.at \in Nat /\ job.at >= 1
  BY <1>2, ChainNumbers DEF Rewritten, MigrationInv
<1> QED BY <1>1, <1>2, <1>3 DEF WritingInv

LEMMA RelinkStopsStep ==
  ASSUME MigrationInv, NEW r \in Runs, RelinkStops(r)
  PROVE  MigrationInv' /\ ChainStep(rows')
<1>1. /\ DOMAIN run = Runs /\ DOMAIN rowLock = Versions
      /\ DOMAIN tried = Runs /\ \A q \in Runs : tried[q] \subseteq DOMAIN rows
  BY DEF MigrationInv, LocksHeld
<1>2. PICK job : job = run[r]
  OBVIOUS
<1>3. /\ job = [op |-> "relinking", wrote |-> job.wrote, at |-> job.at,
                old |-> job.old, new |-> job.new]
      /\ \E first \in DOMAIN rows : Rewritten(r, job.wrote, first, job.at)
      /\ job.old = Link(rows[job.at]) /\ job.new = Link(job.wrote[job.at])
      /\ job.at \in DOMAIN rows /\ job.at \in Nat /\ job.at >= 1
  BY <1>2, RelinkingJob DEF RelinkStops
<1>4. /\ run' = [run EXCEPT ![r] = [run[r] EXCEPT !.op = "committing"]]
      /\ rows' = rows /\ rowLock' = rowLock /\ chainLock' = chainLock
      /\ tried' = tried /\ append' = append /\ manual' = manual
  BY DEF RelinkStops, lockVars
<1>5. /\ run'[r] = [op |-> "committing", wrote |-> job.wrote, at |-> job.at,
                    old |-> job.old, new |-> job.new]
      /\ DOMAIN run' = Runs /\ \A q \in Runs \ {r} : run'[q] = run[q]
  BY <1>1, <1>2, <1>3, <1>4
<1>6. /\ run'[r].op = "committing" /\ run'[r].wrote = job.wrote /\ run'[r].at = job.at
      /\ run'[r].old = job.old /\ run'[r].new = job.new
  BY <1>5
<1>7. job.at + 1 \in DOMAIN rows => ~IsLinked(rows, job.at + 1)
  <2>1. ASSUME job.at + 1 \in DOMAIN rows PROVE rows[job.at + 1].prev # job.old
    BY <1>2, <2>1 DEF RelinkStops, HasSuccessor, FollowsLink
  <2>2. Before(rows, job.at + 1) = Link(rows[job.at])
    BY <1>3 DEF Before
  <2> QED BY <1>3, <2>1, <2>2 DEF IsLinked
<1>8. \E first \in DOMAIN rows' : Rewritten(r, job.wrote, first, job.at)'
  <2>1. PICK first \in DOMAIN rows : Rewritten(r, job.wrote, first, job.at)
    BY <1>3
  <2>2. PICK wrote, at : wrote = job.wrote /\ at = job.at
    OBVIOUS
  <2>3. Rewritten(r, wrote, first, at)'
    BY <1>4, <2>1, <2>2 DEF Rewritten, IsLinked, Before, Sealable
  <2> QED BY <1>4, <2>2, <2>3
<1>9. WritingInv(r, run[r])'
  BY <1>4, <1>5, <1>6, <1>7, <1>8 DEF WritingInv, IsLinked, Before
<1>10. JobInv(r)'
  BY <1>6, <1>9 DEF JobInv, PickedInv, CompilingInv
<1>11. run'[r] # Idle
  BY <1>6 DEF Idle
<1>12. ChainStep(rows') /\ ArchivedBySomeone' /\ DOMAIN rows' = DOMAIN rows
  BY <1>4, RowsStay
<1> QED BY <1>1, <1>4, <1>5, <1>10, <1>11, <1>12, JobAlone

LEMMA RelinkSuccessorStep ==
  ASSUME MigrationInv, NEW r \in Runs, RelinkSuccessor(r)
  PROVE  MigrationInv' /\ ChainStep(rows')
<1>1. /\ DOMAIN run = Runs /\ DOMAIN rowLock = Versions
      /\ DOMAIN tried = Runs /\ \A q \in Runs : tried[q] \subseteq DOMAIN rows
  BY DEF MigrationInv, LocksHeld
<1>2. PICK job : job = run[r]
  OBVIOUS
<1>3. /\ \E first \in DOMAIN rows : Rewritten(r, job.wrote, first, job.at)
      /\ job.old = Link(rows[job.at]) /\ job.new = Link(job.wrote[job.at])
      /\ job.at \in DOMAIN rows /\ job.at \in Nat /\ job.at >= 1
  BY <1>2, RelinkingJob DEF RelinkSuccessor
<1>4. PICK at, wrote : at = job.at /\ wrote = job.wrote
  OBVIOUS
<1>5. PICK first \in DOMAIN rows : Rewritten(r, wrote, first, at)
  BY <1>3, <1>4
<1>6. PICK v : v = at + 1
  OBVIOUS
<1>7. /\ v \in DOMAIN rows /\ v \in Versions /\ IsRow(v, rows[v]) /\ rowLock[v] = NoOne
      /\ rows[v].prev = job.old
  BY <1>2, <1>4, <1>6, ChainNumbers
     DEF RelinkSuccessor, HasSuccessor, FollowsLink, Free, MigrationInv, IsChain
<1>8. PICK next : next = Relinked(v, rows[v], job)
  OBVIOUS
<1>9. PICK op : op = IF next.env = None /\ next.hash # rows[v].hash
                     THEN "relinking" ELSE "committing"
  OBVIOUS
<1>10. PICK more : more = Written(Only(v, next), wrote)
  OBVIOUS
<1>11. /\ rowLock' = [rowLock EXCEPT ![v] = r]
       /\ run' = [run EXCEPT ![r] = [op |-> op, wrote |-> more, at |-> v,
                                     old |-> rows[v].hash, new |-> next.hash]]
       /\ rows' = rows /\ chainLock' = chainLock
       /\ tried' = tried /\ append' = append /\ manual' = manual
  BY <1>2, <1>4, <1>6, <1>8, <1>9, <1>10 DEF RelinkSuccessor
<1>12. /\ run'[r] = [op |-> op, wrote |-> more, at |-> v,
                     old |-> rows[v].hash, new |-> next.hash]
       /\ DOMAIN run' = Runs /\ \A q \in Runs \ {r} : run'[q] = run[q]
  BY <1>1, <1>11
<1>13. /\ run'[r].op = op /\ run'[r].wrote = more /\ run'[r].at = v
       /\ run'[r].old = rows[v].hash /\ run'[r].new = next.hash
  BY <1>12
<1>14. /\ DOMAIN rowLock' = Versions /\ rowLock'[v] = r
       /\ \A w \in Versions : w # v => rowLock'[w] = rowLock[w]
       /\ \A w \in Versions :
            rowLock'[w] = rowLock[w] \/ (rowLock[w] \in {r, NoOne} /\ rowLock'[w] \in {r, NoOne})
  BY <1>1, <1>7, <1>11
<1>15. /\ first \in Nat /\ at \in Nat /\ first >= 1 /\ at >= first /\ v = at + 1
       /\ DOMAIN wrote = first..at
       /\ \A w \in first..at : w \in DOMAIN rows /\ w \in Versions /\ w # v
       /\ first..v = {v} \union first..at /\ first \in first..at /\ at \in first..at
       /\ \A w \in (first + 1)..v :
            w - 1 \in first..at /\ (w # v => w \in (first + 1)..at /\ w \in first..at)
  <2>1. first \in Nat /\ at \in Nat /\ first >= 1 /\ at >= first /\ DOMAIN wrote = first..at
    BY <1>3, <1>4, <1>5, ChainNumbers DEF Rewritten, MigrationInv
  <2>2. \A w \in first..at : w \in DOMAIN rows /\ w \in Versions
    BY <1>5, WrittenRows, ChainNumbers DEF MigrationInv
  <2> QED BY <1>6, <2>1, <2>2
<1>16. /\ DOMAIN more = first..v /\ more = [w \in first..v |-> more[w]]
       /\ more[v] = next
       /\ \A w \in first..at : more[w] = wrote[w]
  <2>1. more = [w \in {v} \union first..at |-> IF w \in {v} THEN next ELSE wrote[w]]
    BY <1>10, <1>15 DEF Written, Only
  <2>2. more = [w \in first..v |-> IF w = v THEN next ELSE wrote[w]]
    BY <1>15, <2>1
  <2>3. v \in first..v /\ \A w \in first..at : w \in first..v
    BY <1>15
  <2> QED BY <1>15, <2>2, <2>3
<1>17. IsLinked(rows, v) /\ v # 1 /\ v - 1 = at
  <2>1. v # 1 /\ v - 1 = at
    BY <1>15
  <2>2. Before(rows, v) = Link(rows[at])
    BY <2>1 DEF Before
  <2> QED BY <1>3, <1>4, <1>7, <2>1, <2>2 DEF IsLinked
<1>18. next = Relinked(v, rows[v], [old |-> Link(rows[v - 1]), new |-> Link(more[v - 1])])
  <2>1. job.old = Link(rows[v - 1]) /\ job.new = Link(more[v - 1])
    BY <1>3, <1>4, <1>15, <1>16, <1>17
  <2> QED BY <1>8, <2>1 DEF Relinked
<1>19. next.env = rows[v].env
  <2>1. Fields(rows[v])
    BY <1>7 DEF IsRow
  <2> QED BY <1>8, <2>1 DEF Fields, Relinked
<1>20. /\ op = "relinking" => rows[v].hash = Link(rows[v]) /\ next.hash = Link(more[v])
       /\ op = "committing" => Link(more[v]) = Link(rows[v])
       /\ op \in {"relinking", "committing"}
  BY <1>9, <1>16, <1>19 DEF Link
<1>21. Rewritten(r, more, first, v)'
  <2>1. /\ first \in DOMAIN rows' /\ v \in DOMAIN rows' /\ first <= v
        /\ DOMAIN more = first..v /\ more = [w \in first..v |-> more[w]]
    BY <1>7, <1>11, <1>15, <1>16
  <2>2. \A w \in first..v : rowLock'[w] = r
    BY <1>5, <1>14, <1>15 DEF Rewritten
  <2>3. Sealable(first)' /\ more[first] = Resealed(first, rows'[first])
    BY <1>5, <1>11, <1>15, <1>16 DEF Rewritten, Sealable
  <2>4. ASSUME NEW w \in (first + 1)..v
        PROVE  /\ IsLinked(rows', w)
               /\ more[w] = Relinked(w, rows'[w],
                              [old |-> Link(rows'[w - 1]), new |-> Link(more[w - 1])])
    <3>1. CASE w = v
      BY <1>11, <1>16, <1>17, <1>18, <3>1
    <3>2. CASE w # v
      <4>1. w \in (first + 1)..at /\ w \in first..at /\ w - 1 \in first..at
        BY <1>15, <3>2
      <4>2. more[w] = wrote[w] /\ more[w - 1] = wrote[w - 1]
        BY <1>16, <4>1
      <4>3. /\ IsLinked(rows, w)
            /\ wrote[w] = Relinked(w, rows[w],
                            [old |-> Link(rows[w - 1]), new |-> Link(wrote[w - 1])])
        BY <1>5, <4>1 DEF Rewritten
      <4> QED BY <1>11, <4>2, <4>3
    <3> QED BY <3>1, <3>2
  <2> QED BY <2>1, <2>2, <2>3, <2>4 DEF Rewritten
<1>22. WritingInv(r, run[r])'
  <2>1. /\ run'[r] = [op |-> run'[r].op, wrote |-> run'[r].wrote, at |-> run'[r].at,
                      old |-> run'[r].old, new |-> run'[r].new]
        /\ \E f \in DOMAIN rows' : Rewritten(r, more, f, v)'
    BY <1>11, <1>12, <1>13, <1>21
  <2>2. /\ op = "relinking" => rows[v].hash = Link(rows'[v]) /\ next.hash = Link(more[v])
        /\ op = "committing" => Link(more[v]) = Link(rows'[v])
    BY <1>11, <1>20
  <2> QED BY <1>13, <2>1, <2>2 DEF WritingInv
<1>23. JobInv(r)'
  BY <1>13, <1>20, <1>22 DEF JobInv, PickedInv, CompilingInv
<1>24. run'[r] # Idle
  BY <1>13, <1>20 DEF Idle
<1>25. ChainStep(rows') /\ ArchivedBySomeone' /\ DOMAIN rows' = DOMAIN rows
  BY <1>11, RowsStay
<1>26. /\ DOMAIN tried' = Runs /\ \A q \in Runs : tried'[q] \subseteq DOMAIN rows
       /\ \A w \in DOMAIN rows : rowLock[w] # r => rows'[w] = rows[w]
  BY <1>1, <1>11
<1> QED BY <1>11, <1>12, <1>14, <1>23, <1>24, <1>25, <1>26, JobAlone

-----------------------------------------------------------------------------
(* The steps of a creation *)

LEMMA CreationAlone ==
  ASSUME MigrationInv, NEW a \in Appenders,
         ChainStep(rows'), ArchivedBySomeone',
         \A q \in (Runs \union Appenders) \ {a} : Kept(q),
         DOMAIN rowLock' = Versions,
         \A v \in Versions : rowLock'[v] \in {rowLock[v], NoOne, a},
         \A v \in Versions : rowLock'[v] = a => append'[a] # Idle,
         chainLock' \in {chainLock, NoOne, a}, chainLock' = a => append'[a] # Idle,
         chainLock = a \/ (chainLock = NoOne /\ DOMAIN rows' = DOMAIN rows),
         run' = run, tried' = tried,
         DOMAIN append' = Appenders, \A b \in Appenders \ {a} : append'[b] = append[b],
         CreationInv(a)'
  PROVE  MigrationInv'
<1>1. NoOne \notin Runs \union Appenders /\ a \notin Runs
  BY ChainAssumption
<1>2. LocksHeld
  BY DEF MigrationInv
<1>3. ASSUME NEW v \in Versions
      PROVE  rowLock'[v] \in
               {NoOne} \union {q \in Runs : run[q] # Idle} \union {b \in Appenders : append'[b] # Idle}
  <2>1. rowLock[v] \in
          {NoOne} \union {q \in Runs : run[q] # Idle} \union {b \in Appenders : append[b] # Idle}
    BY <1>2 DEF LocksHeld
  <2>2. rowLock'[v] \in {rowLock[v], NoOne, a} /\ (rowLock'[v] = a => append'[a] # Idle)
    OBVIOUS
  <2> QED BY <1>1, <2>1, <2>2
<1>4. chainLock' \in {NoOne} \union {b \in Appenders : append'[b] # Idle}
  <2>1. chainLock \in {NoOne} \union {b \in Appenders : append[b] # Idle}
    BY <1>2 DEF LocksHeld
  <2> QED BY <2>1
<1>5. \A r \in Runs : tried'[r] \subseteq DOMAIN rows'
  BY <1>2 DEF LocksHeld, ChainStep
<1>6. LocksHeld'
  BY <1>2, <1>3, <1>4, <1>5 DEF LocksHeld
<1>7. ASSUME NEW b \in Appenders, b # a
      PROVE  append'[b] = append[b] /\ chainLock # b
  BY <1>1, <1>7
<1>8. \A r \in Runs : r # a /\ run'[r] = run[r]
  BY <1>1
<1> QED BY <1>6, <1>7, <1>8, StepOf

LEMMA LockChainStep ==
  ASSUME MigrationInv, NEW a \in Appenders, LockChain(a)
  PROVE  MigrationInv' /\ ChainStep(rows')
<1>1. DOMAIN append = Appenders /\ DOMAIN rowLock = Versions
  BY DEF MigrationInv, LocksHeld
<1>2. /\ chainLock = NoOne /\ Len(rows) < MaxVersion /\ chainLock' = a
      /\ append' = [append EXCEPT ![a] = [op |-> "chained"]]
      /\ rows' = rows /\ rowLock' = rowLock /\ run' = run /\ tried' = tried /\ manual' = manual
  BY DEF LockChain, jobVars
<1>3. /\ append'[a] = [op |-> "chained"] /\ DOMAIN append' = Appenders
      /\ \A b \in Appenders \ {a} : append'[b] = append[b]
  BY <1>1, <1>2
<1>4. append'[a].op = "chained" /\ append'[a] # Idle
  BY <1>3 DEF Idle
<1>5. CreationInv(a)'
  BY <1>2, <1>3, <1>4 DEF CreationInv
<1>6. ChainStep(rows') /\ ArchivedBySomeone' /\ DOMAIN rows' = DOMAIN rows
  BY <1>2, RowsStay
<1>7. \A q : Kept(q)
  BY <1>2 DEF Kept
<1> QED BY <1>1, <1>2, <1>3, <1>4, <1>5, <1>6, <1>7, CreationAlone

LEMMA LockTailStep ==
  ASSUME MigrationInv, NEW a \in Appenders, LockTail(a)
  PROVE  MigrationInv' /\ ChainStep(rows')
<1>1. DOMAIN append = Appenders /\ DOMAIN rowLock = Versions /\ NoOne \notin Runs \union Appenders
  BY ChainAssumption DEF MigrationInv, LocksHeld
<1>2. PICK n : n = Len(rows)
  OBVIOUS
<1>3. n \in 0..MaxVersion /\ DOMAIN rows = 1..n /\ n \in Nat /\ MaxVersion \in Nat
  BY <1>2, LenOfChain, ChainAssumption DEF MigrationInv
<1>4. chainLock = a /\ n < MaxVersion
  BY <1>2 DEF LockTail, MigrationInv, CreationInv
<1>5. /\ n > 0 => rowLock[n] = NoOne
      /\ append' = [append EXCEPT ![a] =
                      [op |-> "inserting", version |-> n + 1, link |-> Before(rows, n + 1)]]
      /\ rowLock' = [v \in Versions |-> IF v = n THEN a ELSE rowLock[v]]
      /\ rows' = rows /\ chainLock' = chainLock /\ run' = run /\ tried' = tried
      /\ manual' = manual
  BY <1>2 DEF LockTail, Free, jobVars
<1>6. /\ append'[a] = [op |-> "inserting", version |-> n + 1, link |-> Before(rows, n + 1)]
      /\ DOMAIN append' = Appenders
      /\ \A b \in Appenders \ {a} : append'[b] = append[b]
  BY <1>1, <1>5
<1>7. append'[a].op = "inserting" /\ append'[a] # Idle
  BY <1>6 DEF Idle
<1>8. n # 0 => n \in Versions /\ rowLock'[n] = a
  <2>1. n # 0 => n \in Versions
    BY <1>3 DEF Versions
  <2> QED BY <1>5, <2>1
<1>9. CreationInv(a)'
  <2>1. Len(rows') < MaxVersion
    BY <1>2, <1>4, <1>5
  <2> QED BY <1>3, <1>4, <1>5, <1>6, <1>7, <1>8, <2>1 DEF CreationInv
<1>10. \A v \in Versions : rowLock'[v] \in {rowLock[v], NoOne, a}
  BY <1>5
<1>11. ASSUME NEW q \in (Runs \union Appenders) \ {a} PROVE Kept(q)
  <2>1. ASSUME NEW v \in DOMAIN rows, rowLock[v] = q PROVE rowLock'[v] = q
    <3>1. v \in Versions
      BY ChainNumbers DEF MigrationInv
    <3>2. v # n
      <4>1. v >= 1
        BY <1>3
      <4>2. q # NoOne
        BY <1>1
      <4> QED BY <1>3, <1>5, <2>1, <4>1, <4>2
    <3> QED BY <1>5, <2>1, <3>1, <3>2
  <2> QED BY <1>5, <2>1 DEF Kept
<1>12. ChainStep(rows') /\ ArchivedBySomeone' /\ DOMAIN rows' = DOMAIN rows
  BY <1>5, RowsStay
<1>13. DOMAIN rowLock' = Versions
  BY <1>5
<1> QED BY <1>4, <1>5, <1>6, <1>7, <1>9, <1>10, <1>11, <1>12, <1>13, CreationAlone

LEMMA CreationEnds ==
  ASSUME MigrationInv, NEW a \in Appenders, EndAppend(a),
         ChainStep(rows'), ArchivedBySomeone',
         \A v \in DOMAIN rows : rows'[v] = rows[v],
         DOMAIN rows' # DOMAIN rows =>
           /\ chainLock = a
           /\ \A v \in DOMAIN rows : v + 1 \in DOMAIN rows' \ DOMAIN rows => rowLock[v] = a
  PROVE  MigrationInv'
<1>1. DOMAIN append = Appenders /\ NoOne \notin Runs \union Appenders
  BY ChainAssumption DEF MigrationInv, LocksHeld
<1>2. /\ append' = [append EXCEPT ![a] = Idle]
      /\ rowLock' = [v \in Versions |-> IF rowLock[v] = a THEN NoOne ELSE rowLock[v]]
      /\ chainLock' = IF chainLock = a THEN NoOne ELSE chainLock
      /\ run' = run /\ tried' = tried
  BY DEF EndAppend, Unlocked, jobVars
<1>3. /\ append'[a] = Idle /\ DOMAIN append' = Appenders
      /\ \A b \in Appenders \ {a} : append'[b] = append[b]
  BY <1>1, <1>2
<1>4. CreationInv(a)'
  <2>1. append'[a].op = "idle"
    BY <1>3 DEF Idle
  <2> QED BY <2>1 DEF CreationInv
<1>5. /\ \A v \in Versions : rowLock'[v] \in {rowLock[v], NoOne, a} /\ rowLock'[v] # a
      /\ chainLock' \in {chainLock, NoOne, a} /\ chainLock' # a
      /\ DOMAIN rowLock' = Versions
  <2>1. NoOne # a
    BY <1>1
  <2> QED BY <1>2, <2>1
<1>6. ASSUME NEW q \in (Runs \union Appenders) \ {a} PROVE Kept(q)
  <2>1. ASSUME NEW v \in DOMAIN rows, rowLock[v] = q
        PROVE  /\ rowLock'[v] = q
               /\ v + 1 \in DOMAIN rows' => v + 1 \in DOMAIN rows
    <3>1. v \in Versions
      BY ChainNumbers DEF MigrationInv
    <3> QED BY <1>2, <2>1, <3>1
  <2> QED BY <2>1 DEF Kept
<1>7. LocksHeld /\ LocksHeld'
  <2>1. LocksHeld
    BY DEF MigrationInv
  <2>2. ASSUME NEW v \in Versions
        PROVE  rowLock'[v] \in
                 {NoOne} \union {q \in Runs : run[q] # Idle} \union {b \in Appenders : append'[b] # Idle}
    <3>1. rowLock[v] \in
            {NoOne} \union {q \in Runs : run[q] # Idle} \union {b \in Appenders : append[b] # Idle}
      BY <2>1 DEF LocksHeld
    <3> QED BY <1>2, <1>3, <3>1
  <2>3. chainLock' \in {NoOne} \union {b \in Appenders : append'[b] # Idle}
    <3>1. chainLock \in {NoOne} \union {b \in Appenders : append[b] # Idle}
      BY <2>1 DEF LocksHeld
    <3> QED BY <1>2, <1>3, <3>1
  <2>4. \A r \in Runs : tried'[r] \subseteq DOMAIN rows'
    BY <1>2, <2>1 DEF LocksHeld, ChainStep
  <2> QED BY <1>2, <1>3, <1>5, <2>1, <2>2, <2>3, <2>4 DEF LocksHeld
<1>8. ASSUME NEW b \in Appenders, b # a, chainLock = b
      PROVE  chainLock' = b /\ DOMAIN rows' = DOMAIN rows
  BY <1>2, <1>8
<1>9. \A r \in Runs : r # a /\ run'[r] = run[r]
  <2>1. a \notin Runs
    BY ChainAssumption
  <2> QED BY <1>2, <2>1
<1> QED BY <1>3, <1>4, <1>6, <1>7, <1>8, <1>9, StepOf

LEMMA InsertVersionStep ==
  ASSUME MigrationInv, NEW a \in Appenders, InsertVersion(a)
  PROVE  MigrationInv' /\ ChainStep(rows')
<1>1. PICK n \in 0..MaxVersion :
        /\ DOMAIN rows = 1..n
        /\ append[a] = [op |-> "inserting", version |-> n + 1, link |-> Before(rows, n + 1)]
        /\ n # 0 => rowLock[n] = a
  BY DEF InsertVersion, MigrationInv, CreationInv
<1>2. chainLock = a /\ n < MaxVersion /\ n \in Nat
  <2>1. chainLock = a /\ Len(rows) < MaxVersion
    BY DEF InsertVersion, MigrationInv, CreationInv
  <2>2. Len(rows) \in 0..MaxVersion /\ DOMAIN rows = 1..Len(rows)
    BY LenOfChain DEF MigrationInv
  <2> QED BY <1>1, <2>1, <2>2, ChainAssumption
<1>3. PICK row :
        row = [env |-> Envelope(n + 1, 1), hash |-> ChainedHash(n + 1, Before(rows, n + 1)),
               prev |-> Before(rows, n + 1), resolved |-> TRUE, status |-> "DRAFT",
               flagged |-> FALSE, before |-> "none"]
  OBVIOUS
<1>4. append[a].version = n + 1 /\ append[a].link = Before(rows, n + 1)
  BY <1>1
<1>5. rows' = Written(Only(n + 1, row), rows) /\ EndAppend(a) /\ manual' = manual
  BY <1>3, <1>4 DEF InsertVersion, EndAppend
<1>6. /\ ChainStep(rows')
      /\ DOMAIN rows' = 1..(n + 1) /\ rows'[n + 1] = row
      /\ \A v \in DOMAIN rows : rows'[v] = rows[v]
  BY <1>1, <1>2, <1>3, <1>5, OneRowMore DEF MigrationInv
<1>7. ArchivedBySomeone'
  <2>1. rows'[n + 1].status = "DRAFT"
    BY <1>3, <1>6
  <2>2. \A v \in DOMAIN rows' : v \in DOMAIN rows \/ v = n + 1
    BY <1>1, <1>2, <1>6
  <2> QED BY <1>5, <1>6, <2>1, <2>2 DEF ArchivedBySomeone, MigrationInv
<1>8. ASSUME NEW v \in DOMAIN rows, v + 1 \in DOMAIN rows' \ DOMAIN rows
      PROVE  rowLock[v] = a
  <2>1. v = n /\ n # 0
    BY <1>1, <1>2, <1>6, <1>8
  <2> QED BY <1>1, <2>1
<1>9. MigrationInv'
  BY <1>2, <1>5, <1>6, <1>7, <1>8, CreationEnds
<1> QED BY <1>6, <1>9

LEMMA AppendFaultStep ==
  ASSUME MigrationInv, NEW a \in Appenders, AppendFault(a)
  PROVE  MigrationInv' /\ ChainStep(rows')
<1>1. EndAppend(a) /\ rows' = rows /\ manual' = manual
  BY DEF AppendFault, EndAppend
<1>2. ChainStep(rows') /\ ArchivedBySomeone' /\ DOMAIN rows' = DOMAIN rows
  BY <1>1, RowsStay
<1> QED BY <1>1, <1>2, CreationEnds

-----------------------------------------------------------------------------
(* Status changes, of rows nobody has locked *)

LEMMA StatusStep ==
  ASSUME MigrationInv, NEW v, v \in DOMAIN rows => rowLock[v] = NoOne,
         NEW status \in {"DRAFT", "PENDING", "APPROVED", "REJECTED", "ARCHIVED"},
         rows' = [rows EXCEPT ![v].status = status],
         manual' = manual \/ manual' = manual \union {v},
         status = "ARCHIVED" => v \in manual',
         UNCHANGED <<lockVars, jobVars, append>>
  PROVE  MigrationInv' /\ ChainStep(rows')
<1>0. /\ rowLock' = rowLock /\ chainLock' = chainLock
      /\ run' = run /\ tried' = tried /\ append' = append
  BY DEF lockVars, jobVars
<1>1. /\ ChainStep(rows') /\ DOMAIN rows' = DOMAIN rows
      /\ \A w \in DOMAIN rows : w # v => rows'[w] = rows[w]
      /\ v \in DOMAIN rows => rows'[v].status = status
  <2>1. CASE v \in DOMAIN rows
    <3>1. PICK row : row = [rows[v] EXCEPT !.status = status]
      OBVIOUS
    <3>2. IsRow(v, rows[v])
      BY <2>1 DEF MigrationInv, IsChain
    <3>3. /\ IsRow(v, row)
          /\ row.env = rows[v].env /\ row.hash = rows[v].hash /\ row.prev = rows[v].prev
          /\ row.resolved = rows[v].resolved /\ row.status = status
      BY <3>1, <3>2, RestatedRow
    <3>4. rows' = [rows EXCEPT ![v] = row]
      BY <3>1
    <3>5. ChainStep(rows')
      BY <2>1, <3>3, <3>4, OneRowRestated DEF MigrationInv
    <3> QED BY <2>1, <3>3, <3>4, <3>5
  <2>2. CASE v \notin DOMAIN rows
    <3>1. rows = [w \in DOMAIN rows |-> rows[w]]
      BY DEF MigrationInv, IsChain
    <3>2. rows' = rows
      BY <2>2, <3>1
    <3> QED BY <2>2, <3>2, SameRows DEF MigrationInv
  <2> QED BY <2>1, <2>2
<1>2. ArchivedBySomeone'
  <2>1. ASSUME NEW w \in DOMAIN rows, rows'[w].status = "ARCHIVED"
        PROVE  rows'[w].flagged \/ w \in manual'
    <3>1. CASE w = v
      BY <1>1, <2>1, <3>1
    <3>2. CASE w # v
      BY <1>1, <2>1, <3>2 DEF MigrationInv, ArchivedBySomeone
    <3> QED BY <3>1, <3>2
  <2> QED BY <1>1, <2>1 DEF ArchivedBySomeone
<1>3. NoOne \notin Runs \union Appenders
  BY ChainAssumption
<1>4. \A q \in Runs \union Appenders : Kept(q)
  BY <1>0, <1>1, <1>3 DEF Kept
<1>5. LocksHeld'
  <2>1. LocksHeld
    BY DEF MigrationInv
  <2> QED BY <1>0, <1>1, <2>1 DEF LocksHeld
<1>6. MigrationInv'
  BY <1>0, <1>1, <1>2, <1>3, <1>4, <1>5, StepOf
<1> QED BY <1>1, <1>6

LEMMA ChangeStep ==
  ASSUME MigrationInv, NEW e, NEW op, NEW from, Change(e, op, from)
  PROVE  MigrationInv' /\ ChainStep(rows')
<1>1. /\ rows' = rows /\ rowLock' = rowLock /\ chainLock' = chainLock
      /\ run' = run /\ tried' = tried /\ append' = append /\ manual' = manual
  BY DEF Change, lockVars, jobVars
<1>2. ChainStep(rows') /\ ArchivedBySomeone' /\ DOMAIN rows' = DOMAIN rows
  BY <1>1, RowsStay
<1>3. NoOne \notin Runs \union Appenders /\ \A q : Kept(q)
  BY <1>1, ChainAssumption DEF Kept
<1>4. LocksHeld'
  <2>1. LocksHeld
    BY DEF MigrationInv
  <2> QED BY <1>1, <2>1 DEF LocksHeld
<1>5. MigrationInv'
  BY <1>1, <1>2, <1>3, <1>4, StepOf
<1> QED BY <1>2, <1>5

LEMMA SubmitStep ==
  ASSUME MigrationInv, NEW e, SubmitForApproval(e)
  PROVE  MigrationInv' /\ ChainStep(rows')
<1>1. PICK v : v = edit[e].row
  OBVIOUS
<1>2. /\ rowLock[v] = NoOne /\ rows' = [rows EXCEPT ![v].status = "PENDING"]
      /\ manual' = manual /\ UNCHANGED <<lockVars, jobVars, append>>
  BY <1>1 DEF SubmitForApproval, Update, Free
<1> QED BY <1>2, StatusStep

LEMMA ArchiveStep ==
  ASSUME MigrationInv, NEW e, ArchiveVersion(e)
  PROVE  MigrationInv' /\ ChainStep(rows')
<1>1. PICK v : v = edit[e].row
  OBVIOUS
<1>2. /\ rowLock[v] = NoOne /\ rows' = [rows EXCEPT ![v].status = "ARCHIVED"]
      /\ manual' = manual \union {v} /\ UNCHANGED <<lockVars, jobVars, append>>
  BY <1>1 DEF ArchiveVersion, Update, Free
<1> QED BY <1>2, StatusStep

LEMMA ReviewStep ==
  ASSUME MigrationInv, NEW v, Review(v)
  PROVE  MigrationInv' /\ ChainStep(rows')
<1>1. PICK status \in {"APPROVED", "REJECTED", "DRAFT"} :
        rows' = [rows EXCEPT ![v].status = status]
  BY DEF Review
<1>2. rowLock[v] = NoOne /\ manual' = manual /\ UNCHANGED <<lockVars, jobVars, append>>
  BY DEF Review, Free
<1> QED BY <1>1, <1>2, StatusStep

-----------------------------------------------------------------------------
(* The chain a migration finds *)

OldRow(shape, chain, v) ==
  LET prev == IF shape[v].linked THEN Before(chain, v) ELSE Forged("link", v)
  IN  [env |-> OldEnvelope(v, shape[v].env),
       hash |-> IF shape[v].sound THEN ChainedHash(v, prev) ELSE Forged("hash", v),
       prev |-> prev, resolved |-> FALSE, status |-> shape[v].status,
       flagged |-> FALSE, before |-> "none"]

(* Each row is made from the one before it, so there is such a chain: were     *)
(* there none of some length, there would be a least such length.             *)
LEMMA OldChainUnfolds ==
  ASSUME NEW n \in Nat, NEW shape, DOMAIN shape = 1..n
  PROVE  OldChain(shape) = [v \in 1..n |-> OldRow(shape, OldChain(shape), v)]
<1> DEFINE Long(m) == \E g : g = [v \in 1..m |-> OldRow(shape, g, v)]
           Short == {m \in Nat : ~Long(m)}
<1>1. Long(0)
  <2>1. 1..0 = {}
    OBVIOUS
  <2>2. [v \in {} |-> v] = [v \in {} |-> OldRow(shape, [w \in {} |-> w], v)]
    OBVIOUS
  <2> QED BY <2>1, <2>2
<1>2. ASSUME NEW m \in Nat, m # 0, Long(m - 1)
      PROVE  Long(m)
  <2>1. PICK g : g = [v \in 1..(m - 1) |-> OldRow(shape, g, v)]
    BY <1>2
  <2>2. PICK h : h = [v \in 1..m |-> IF v = m THEN OldRow(shape, g, m) ELSE g[v]]
    OBVIOUS
  <2>3. ASSUME NEW v \in 1..m PROVE h[v] = OldRow(shape, h, v)
    <3>1. v # 1 => v - 1 \in 1..m /\ v - 1 # m
      OBVIOUS
    <3>2. Before(h, v) = Before(g, v)
      BY <2>2, <3>1 DEF Before
    <3>3. OldRow(shape, h, v) = OldRow(shape, g, v)
      BY <3>2 DEF OldRow
    <3>4. h[v] = OldRow(shape, g, v)
      <4>1. CASE v = m
        BY <2>2, <4>1
      <4>2. CASE v # m
        <5>1. v \in 1..(m - 1)
          BY <4>2
        <5>2. g[v] = OldRow(shape, g, v)
          BY <2>1, <5>1
        <5> QED BY <2>2, <4>2, <5>2
      <4> QED BY <4>1, <4>2
    <3> QED BY <3>3, <3>4
  <2>4. h = [v \in 1..m |-> OldRow(shape, h, v)]
    BY <2>2, <2>3
  <2> QED BY <2>4
<1>3. Short = {}
  <2>1. SUFFICES ASSUME Short # {} PROVE FALSE
    OBVIOUS
  <2>2. Short \subseteq Nat
    OBVIOUS
  <2> HIDE DEF Long
  <2>3. PICK m \in Short : \A k \in Short : ~ (<<k, m>> \in OpToRel(<, Nat))
    BY <2>1, <2>2, NatLessThanWellFounded, WFMin
  <2>4. m \in Nat /\ ~Long(m)
    BY <2>3
  <2>5. m # 0
    BY <1>1, <2>4
  <2>6. m - 1 \in Nat /\ m - 1 < m
    BY <2>4, <2>5
  <2>7. m - 1 \notin Short
    <3>1. <<m - 1, m>> \in OpToRel(<, Nat)
      BY <2>4, <2>6 DEF OpToRel
    <3> QED BY <2>3, <3>1
  <2>8. Long(m - 1)
    BY <2>6, <2>7
  <2> QED BY <1>2, <2>4, <2>5, <2>8
<1>4. Long(n)
  BY <1>3
<1>5. OldChain(shape) = CHOOSE c : c = [v \in DOMAIN shape |-> OldRow(shape, c, v)]
  BY DEF OldChain, OldRow
<1> QED BY <1>4, <1>5

LEMMA OldChainIsChain ==
  ASSUME NEW n \in 0..MaxVersion, NEW chain \in OldChains(n)
  PROVE  /\ IsChain(chain)
         /\ DOMAIN chain = 1..n
<1>1. n \in Nat
  BY ChainAssumption
<1>2. PICK shape \in [1..n -> Shapes] : (n > 0 => shape[1].linked) /\ chain = OldChain(shape)
  BY DEF OldChains
<1>3. chain = [v \in 1..n |-> OldRow(shape, chain, v)]
  BY <1>1, <1>2, OldChainUnfolds
<1>4. ASSUME NEW v \in 1..n
      PROVE  IsRow(v, chain[v]) /\ (IsLinked(chain, v) \/ BrokenVisibly(chain, v))
  <2>1. /\ shape[v].env \in {"none", "old", "forged"} /\ shape[v].linked \in BOOLEAN
        /\ shape[v].sound \in BOOLEAN /\ shape[v].status \in Statuses
    BY <1>2 DEF Shapes
  <2>2. PICK prev : prev = IF shape[v].linked THEN Before(chain, v) ELSE Forged("link", v)
    OBVIOUS
  <2>3. chain[v] = [env |-> OldEnvelope(v, shape[v].env),
                    hash |-> IF shape[v].sound THEN ChainedHash(v, prev) ELSE Forged("hash", v),
                    prev |-> prev, resolved |-> FALSE, status |-> shape[v].status,
                    flagged |-> FALSE, before |-> "none"]
    BY <1>3, <2>2 DEF OldRow
  <2>4. /\ chain[v].env = OldEnvelope(v, shape[v].env)
        /\ chain[v].hash = IF shape[v].sound THEN ChainedHash(v, prev) ELSE Forged("hash", v)
        /\ chain[v].prev = prev /\ chain[v].resolved = FALSE
        /\ chain[v].status = shape[v].status
        /\ chain[v].flagged = FALSE /\ chain[v].before = "none"
    BY <2>3
  <2>5. Fields(chain[v])
    BY <2>3, <2>4 DEF Fields
  <2>6. chain[v].env \in {None, Forged("envelope", v), Envelope(v, 0), Envelope(v, 1)}
    BY <2>1, <2>4 DEF OldEnvelope
  <2>7. chain[v].hash \in {Forged("hash", v), ChainedHash(v, chain[v].prev)}
    BY <2>4
  <2>8. chain[v].status \in {"DRAFT", "PENDING", "APPROVED", "REJECTED", "ARCHIVED"}
    BY <2>1, <2>4, ChainAssumption
  <2>9. IsRow(v, chain[v])
    BY <2>4, <2>5, <2>6, <2>7, <2>8 DEF IsRow
  <2>10. IsLinked(chain, v) \/ BrokenVisibly(chain, v)
    <3>1. CASE shape[v].linked
      BY <2>2, <2>4, <3>1 DEF IsLinked
    <3>2. CASE ~shape[v].linked
      <4>1. v # 1
        BY <1>1, <1>2, <3>2
      <4> QED BY <2>2, <2>4, <3>2, <4>1 DEF BrokenVisibly
    <3> QED BY <3>1, <3>2
  <2> QED BY <2>9, <2>10
<1>5. DOMAIN chain = 1..n
  BY <1>3
<1>6. chain = [v \in DOMAIN chain |-> chain[v]]
  BY <1>3, <1>5
<1> QED BY <1>4, <1>5, <1>6 DEF IsChain

LEMMA MigrationInit == Init => MigrationInv
<1> SUFFICES ASSUME Init PROVE MigrationInv
  OBVIOUS
<1>1. PICK n \in Legacies : rows \in OldChains(n)
  BY DEF Init
<1>2. IsChain(rows)
  BY <1>1, OldChainIsChain, ChainAssumption
<1>3. LocksHeld
  BY DEF Init, LocksHeld
<1>4. ArchivedBySomeone
  BY DEF Init, ArchivedBySomeone
<1>5. \A r \in Runs : JobInv(r)
  BY DEF Init, Idle, JobInv, PickedInv, CompilingInv, WritingInv
<1>6. \A a \in Appenders : CreationInv(a)
  BY DEF Init, Idle, CreationInv
<1> QED BY <1>2, <1>3, <1>4, <1>5, <1>6 DEF MigrationInv

-----------------------------------------------------------------------------
(* The invariant, and what follows from it *)

LEMMA MigrationNext ==
  ASSUME MigrationInv, [Next]_vars
  PROVE  MigrationInv' /\ ChainStep(rows')
<1>1. ASSUME NEW r \in Runs, PickRow(r) PROVE MigrationInv' /\ ChainStep(rows')
  BY <1>1, PickStep
<1>2. ASSUME NEW r \in Runs, Migrate(r) PROVE MigrationInv' /\ ChainStep(rows')
  <2>1. CASE PassOver(r)
    BY <2>1, PassOverStep DEF PassOver
  <2>2. CASE LockRow(r)
    BY <2>2, LockRowStep
  <2>3. CASE Reseal(r)
    BY <2>3, ResealStep
  <2>4. CASE RecompileFails(r)
    BY <2>4, RecompileFailsStep
  <2>5. CASE RelinkSuccessor(r)
    BY <2>5, RelinkSuccessorStep
  <2>6. CASE RelinkStops(r)
    BY <2>6, RelinkStopsStep
  <2>7. CASE CommitRun(r)
    BY <2>7, CommitRunStep
  <2> QED BY <1>2, <2>1, <2>2, <2>3, <2>4, <2>5, <2>6, <2>7 DEF Migrate
<1>3. ASSUME NEW r \in Runs, RunFault(r) PROVE MigrationInv' /\ ChainStep(rows')
  BY <1>3, PassOverStep DEF RunFault
<1>4. ASSUME NEW a \in Appenders, LockChain(a) \/ Create(a) \/ AppendFault(a)
      PROVE  MigrationInv' /\ ChainStep(rows')
  BY <1>4, LockChainStep, LockTailStep, InsertVersionStep, AppendFaultStep DEF Create
<1>5. ASSUME NEW e \in Editors,
             \/ BeginSubmit(e) \/ SubmitForApproval(e) \/ BeginArchive(e) \/ ArchiveVersion(e)
      PROVE  MigrationInv' /\ ChainStep(rows')
  BY <1>5, ChangeStep, SubmitStep, ArchiveStep DEF BeginSubmit, BeginArchive
<1>6. ASSUME NEW v \in DOMAIN rows, Review(v) PROVE MigrationInv' /\ ChainStep(rows')
  BY <1>6, ReviewStep
<1>7. CASE UNCHANGED vars
  <2>1. /\ rows' = rows /\ rowLock' = rowLock /\ chainLock' = chainLock
        /\ run' = run /\ tried' = tried /\ append' = append /\ manual' = manual
    BY <1>7 DEF vars, lockVars, jobVars
  <2>2. ChainStep(rows') /\ ArchivedBySomeone' /\ DOMAIN rows' = DOMAIN rows
    BY <2>1, RowsStay
  <2>3. NoOne \notin Runs \union Appenders /\ \A q : Kept(q)
    BY <2>1, ChainAssumption DEF Kept
  <2>4. LocksHeld'
    <3>1. LocksHeld
      BY DEF MigrationInv
    <3> QED BY <2>1, <3>1 DEF LocksHeld
  <2>5. MigrationInv'
    BY <2>1, <2>2, <2>3, <2>4, StepOf
  <2> QED BY <2>2, <2>5
<1> QED BY <1>1, <1>2, <1>3, <1>4, <1>5, <1>6, <1>7 DEF Next

(* relinkSuccessors, insertChainedVersion: what a job is about to commit are   *)
(* the rows it locked, as the job knows them, linked anew from the resealed    *)
(* one on; and who has read the tail is alone in lengthening the chain.        *)
THEOREM MigrationInvariant == Spec => []MigrationInv
<1>1. Init => MigrationInv
  BY MigrationInit
<1>2. MigrationInv /\ [Next]_vars => MigrationInv'
  BY MigrationNext
<1> QED BY <1>1, <1>2, PTL DEF Spec

(* Rows are numbered without gaps and hold what a row may hold, and only a     *)
(* transaction that is under way holds a lock.                                 *)
THEOREM TypeCorrect == Spec => []TypeOK
<1>1. MigrationInv => TypeOK
  <2> SUFFICES ASSUME MigrationInv PROVE TypeOK
    OBVIOUS
  <2>1. DOMAIN rows \in {1..n : n \in 0..MaxVersion}
    BY DEF MigrationInv, IsChain
  <2>2. ASSUME NEW v \in DOMAIN rows
        PROVE  /\ [f \in {"resolved", "flagged", "status", "before"} |-> rows[v][f]] \in Rows
               /\ rows[v].flagged <=> rows[v].before # "none"
               /\ rows[v].resolved => ~rows[v].flagged /\ rows[v].env = Envelope(v, 1)
    <3>1. PICK row : row = rows[v]
      OBVIOUS
    <3>2. IsRow(v, row)
      BY <3>1 DEF MigrationInv, IsChain
    <3>3. [f \in {"resolved", "flagged", "status", "before"} |-> row[f]] \in Rows
      BY <3>2 DEF IsRow, Rows
    <3> QED BY <3>1, <3>2, <3>3 DEF IsRow
  <2>3. /\ \A v \in Versions : rowLock[v] \in
             {NoOne} \union {r \in Runs : run[r] # Idle} \union {a \in Appenders : append[a] # Idle}
        /\ chainLock \in {NoOne} \union {a \in Appenders : append[a] # Idle}
        /\ \A r \in Runs : tried[r] \subseteq DOMAIN rows
    BY DEF MigrationInv, LocksHeld
  <2> QED BY <2>1, <2>2, <2>3 DEF TypeOK
<1> QED BY <1>1, MigrationInvariant, PTL

(* However often a row fails to recompile, and whatever people do meanwhile:   *)
(* of the migrated versions only those a person archived are archived.         *)
THEOREM StatusComesBack == Spec => []ArchivingIsUndone
<1>1. MigrationInv => ArchivingIsUndone
  BY DEF MigrationInv, IsChain, IsRow, ArchivedBySomeone, ArchivingIsUndone
<1> QED BY <1>1, MigrationInvariant, PTL

(* A version stays linked to its predecessor if it was, stays visibly broken   *)
(* off if it was not, and a new one is linked: whatever jobs, creations and    *)
(* faults overlap.                                                             *)
THEOREM LinksSurvive == Spec => ChainOnlyGrows
<1>1. MigrationInv /\ [Next]_vars =>
        [/\ DOMAIN rows \subseteq DOMAIN rows'
         /\ \A v \in DOMAIN rows' :
              Linked(v)' = (IF v \in DOMAIN rows THEN Linked(v) ELSE TRUE)]_vars
  <2> SUFFICES ASSUME MigrationInv, [Next]_vars
               PROVE  /\ DOMAIN rows \subseteq DOMAIN rows'
                      /\ \A v \in DOMAIN rows' :
                           Linked(v)' = (IF v \in DOMAIN rows THEN Linked(v) ELSE TRUE)
    OBVIOUS
  <2>1. ChainStep(rows')
    BY MigrationNext
  <2>2. /\ \A v \in DOMAIN rows : IsLinked(rows', v) <=> IsLinked(rows, v)
        /\ \A v \in DOMAIN rows' \ DOMAIN rows : IsLinked(rows', v)
        /\ DOMAIN rows \subseteq DOMAIN rows'
    BY <2>1 DEF ChainStep
  <2>3. \A v : /\ Linked(v)' = IsLinked(rows', v)
               /\ Linked(v) = IsLinked(rows, v)
    BY DEF Linked, IsLinked, Before
  <2> QED BY <2>2, <2>3 DEF IsLinked
<1> QED BY <1>1, MigrationInvariant, PTL DEF Spec, ChainOnlyGrows

(* No migration makes a tampered source hash match its version, nor spoils one *)
(* that matched.                                                               *)
THEOREM NothingIsLaundered == Spec => TamperingStaysVisible
<1>1. MigrationInv /\ [Next]_vars =>
        [\A v \in DOMAIN rows : SelfConsistent(v, rows'[v]) = SelfConsistent(v, rows[v])]_vars
  <2> SUFFICES ASSUME MigrationInv, [Next]_vars
               PROVE  \A v \in DOMAIN rows : SelfConsistent(v, rows'[v]) = SelfConsistent(v, rows[v])
    OBVIOUS
  <2>1. ChainStep(rows')
    BY MigrationNext
  <2> QED BY <2>1 DEF ChainStep, SelfConsistent
<1> QED BY <1>1, MigrationInvariant, PTL DEF Spec, TamperingStaysVisible

(* A version is sealed again only if its old seal holds at that moment: nobody *)
(* can change the row between the look at the seal and the commit.             *)
THEOREM OnlyIntactIsResealed == Spec => ResealedIfIntact
<1>1. MigrationInv /\ [Next]_vars =>
        [\A v \in DOMAIN rows :
           rows'[v].resolved /\ ~rows[v].resolved => SealIntact(v, rows[v])]_vars
  <2> SUFFICES ASSUME MigrationInv, [Next]_vars
               PROVE  \A v \in DOMAIN rows :
                        rows'[v].resolved /\ ~rows[v].resolved => SealIntact(v, rows[v])
    OBVIOUS
  <2>1. ChainStep(rows')
    BY MigrationNext
  <2> QED BY <2>1 DEF ChainStep
<1> QED BY <1>1, MigrationInvariant, PTL DEF Spec, ResealedIfIntact
=============================================================================
