------------------------- MODULE Idempotency_proofs --------------------------
(* Proofs about Idempotency, for any number of requests and bodies. *)
EXTENDS Idempotency, FiniteSetTheorems, TLAPS

Places == {"new", "reserving", "waiting", "running", "ran", "threw", "over", "dead"}
Rows == [state: {"pending", "stored"}, id: Requests, expired: BOOLEAN]
Answers ==
  {None} \union [kind: {"conflict", "unavailable", "error"}]
    \union [kind: {"result"}, of: Requests]

Typed ==
  /\ row \in {NoRow} \union Rows
  /\ call \in [Requests -> [at: Places] \union [at: {"discarding"}, id: Requests]]
  /\ answer \in [Requests -> Answers]
  /\ done \subseteq Requests

Held == {"running", "ran", "threw", "over", "dead"}

(* The row belongs to a request that reserved it, and whoever runs owns it.    *)
(* An effect keeps its row until the key expires, and a request that is about  *)
(* to discard a row read one that had expired: no other row has its id.        *)
KeyInv ==
  /\ Typed
  /\ row # NoRow => call[row.id].at \in Held
  /\ \A r \in Requests : call[r].at \in {"running", "ran", "threw"} => row = Entry(r, "pending", FALSE)
  /\ \A r \in Requests : call[r].at \in {"running", "threw"} => r \notin done
  /\ \A r \in Requests : call[r].at = "ran" => r \in done
  /\ \A r \in done : row # NoRow /\ row.id = r /\ ~row.expired
  /\ row # NoRow /\ row.state = "stored" /\ ~row.expired => row.id \in done
  /\ \A r \in Requests : call[r].at = "discarding" =>
        /\ call[call[r].id].at \in Held
        /\ row # NoRow /\ row.id = call[r].id => row.expired = TRUE
        /\ call[call[r].id].at \in {"over", "dead"}

LEMMA EntryType ==
  /\ \A r \in Requests : Entry(r, "pending", FALSE) \in Rows
  /\ \A e \in Rows : e # NoRow
  /\ NoRow \notin Rows
BY DEF Entry, Rows, NoRow

LEMMA KeyStart == Init => KeyInv
<1> SUFFICES ASSUME Init PROVE KeyInv
  OBVIOUS
<1>1. \A r \in Requests : call[r].at = "new" /\ call[r] \in [at: Places]
  BY DEF Init, At, Places
<1>2. Typed
  <2>1. call \in [Requests -> [at: Places] \union [at: {"discarding"}, id: Requests]]
    BY <1>1 DEF Init
  <2>2. answer \in [Requests -> Answers]
    BY DEF Init, Answers
  <2> QED BY <2>1, <2>2 DEF Init, Typed
<1> QED BY <1>1, <1>2 DEF Init, KeyInv

-----------------------------------------------------------------------------
(* Each step keeps the invariant *)

(* A request that leaves its row alone and reserves or runs nothing. *)
LEMMA MoveKeeps ==
  ASSUME KeyInv, NEW r \in Requests, NEW p \in {"reserving", "waiting", "over", "dead"},
         call' = [call EXCEPT ![r] = At(p)], UNCHANGED <<row, done>>,
         answer' \in [Requests -> Answers],
         p \in {"reserving", "waiting"} => call[r].at \notin Held
  PROVE  KeyInv'
<1>1. At(p) \in [at: Places] /\ At(p).at = p
  BY DEF At, Places
<1>2. Typed'
  BY <1>1 DEF KeyInv, Typed
<1>3. call'[r].at = p /\ \A q \in Requests \ {r} : call'[q] = call[q]
  BY <1>1 DEF KeyInv, Typed
<1>4. \A q \in Requests : call[q].at \in Held => call'[q].at \in Held
  BY <1>3 DEF Held
<1>5. row # NoRow => row.id \in Requests
  BY DEF KeyInv, Typed, Rows
<1>6. \A q \in Requests : call[q].at = "discarding" => call[q].id \in Requests
  BY DEF KeyInv, Typed, Places
<1>7. \A q \in Requests : call'[q].at \in {"running", "ran", "threw", "discarding"} =>
        q # r /\ call'[q] = call[q]
  BY <1>3
<1>8. \A q \in Requests : call[q].at \in {"over", "dead"} => call'[q].at \in {"over", "dead"}
  BY <1>3 DEF Held
<1>9. row' # NoRow => call'[row'.id].at \in Held
  BY <1>4, <1>5 DEF KeyInv
<1>10. \A q \in Requests : call'[q].at \in {"running", "ran", "threw"} =>
         row' = Entry(q, "pending", FALSE)
  BY <1>7 DEF KeyInv
<1>11. \A q \in Requests :
         /\ call'[q].at \in {"running", "threw"} => q \notin done'
         /\ call'[q].at = "ran" => q \in done'
  BY <1>7 DEF KeyInv
<1>12. /\ \A q \in done' : row' # NoRow /\ row'.id = q /\ ~row'.expired
       /\ row' # NoRow /\ row'.state = "stored" /\ ~row'.expired => row'.id \in done'
  BY DEF KeyInv
<1>13. ASSUME NEW q \in Requests, call'[q].at = "discarding"
       PROVE  /\ call'[call'[q].id].at \in Held
              /\ row' # NoRow /\ row'.id = call'[q].id => row'.expired = TRUE
              /\ call'[call'[q].id].at \in {"over", "dead"}
  <2>1. call'[q] = call[q] /\ call[q].id \in Requests
    BY <1>6, <1>7, <1>13
  <2>2. call[call[q].id].at \in {"over", "dead"} /\ call[call[q].id].at \in Held
    BY <1>13, <2>1 DEF KeyInv
  <2>3. row # NoRow /\ row.id = call[q].id => row.expired = TRUE
    BY <1>13, <2>1 DEF KeyInv
  <2> QED BY <1>4, <1>8, <2>1, <2>2, <2>3
<1> QED BY <1>2, <1>9, <1>10, <1>11, <1>12, <1>13 DEF KeyInv, Entry

LEMMA FinishType ==
  ASSUME Typed, NEW r \in Requests, NEW a \in Answers, Finish(r, a)
  PROVE  answer' \in [Requests -> Answers] /\ call' = [call EXCEPT ![r] = At("over")]
BY DEF Typed, Finish, GoTo

LEMMA ReplayType ==
  ASSUME Typed, NEW r \in Requests, Stored
  PROVE  /\ ReplayOrConflict(r) \in Answers
         /\ Refusal("unavailable") \in Answers /\ Refusal("error") \in Answers
BY DEF Typed, Stored, NoRow, Rows, ReplayOrConflict, Result, Refusal, Answers

LEMMA RefusalType ==
  \A k \in {"conflict", "unavailable", "error"} : Refusal(k) \in Answers
BY DEF Refusal, Answers

LEMMA ResultType == \A r \in Requests : Result(r) \in Answers
BY DEF Result, Answers

LEMMA BeginKeeps ==
  ASSUME KeyInv, NEW r \in Requests, Begin(r)
  PROVE  KeyInv'
<1>1. call[r].at \notin Held /\ UNCHANGED <<row, done>> /\ Typed
  BY DEF Begin, Held, KeyInv
<1>2. CASE (GoTo(r, "reserving") \/ GoTo(r, "waiting")) /\ UNCHANGED answer
  BY <1>1, <1>2, MoveKeeps DEF GoTo, Typed
<1>3. CASE Stored /\ Finish(r, ReplayOrConflict(r))
  BY <1>1, <1>3, MoveKeeps, FinishType, ReplayType
<1>4. CASE Stored /\ row.expired /\ call' = [call EXCEPT ![r] = Discarding(row.id)] /\ UNCHANGED answer
  <2>1. row \in Rows /\ row # NoRow /\ row.id \in Requests /\ row.expired = TRUE
    BY <1>1, <1>4 DEF Stored, Typed, NoRow, Rows
  <2>2. Discarding(row.id) \in [at: {"discarding"}, id: Requests]
        /\ Discarding(row.id).at = "discarding" /\ Discarding(row.id).id = row.id
    BY <2>1 DEF Discarding
  <2>3. Typed'
    BY <1>1, <1>4, <2>2 DEF Typed
  <2>4. call'[r] = Discarding(row.id) /\ \A q \in Requests \ {r} : call'[q] = call[q]
    BY <1>1, <1>4 DEF Typed
  <2>5. row.id # r /\ call[row.id].at \in Held /\ call[row.id].at \in {"over", "dead"}
    <3>1. row.state = "stored"
      BY <1>4 DEF Stored
    <3>2. row # Entry(row.id, "pending", FALSE)
      BY <3>1 DEF Entry
    <3> QED BY <1>1, <2>1, <3>2 DEF KeyInv, Held
  <2>6. \A q \in Requests : call'[q].at \in Held <=> call[q].at \in Held
    BY <1>1, <2>2, <2>4 DEF Held
  <2>7. \A q \in Requests : call[q].at = "discarding" => call[q].id \in Requests /\ call[q].id # r
    BY <1>1 DEF KeyInv, Typed, Places
  <2>8. \A q \in Requests : call'[q].at \in {"running", "ran", "threw"} => call'[q] = call[q]
    BY <2>2, <2>4
  <2>9. /\ call'[row.id].at \in Held /\ call'[row.id].at \in {"over", "dead"}
    BY <2>1, <2>4, <2>5, <2>6
  <2>10. ASSUME NEW q \in Requests, call'[q].at = "discarding"
         PROVE  /\ call'[call'[q].id].at \in Held
                /\ row' # NoRow /\ row'.id = call'[q].id => row'.expired = TRUE
                /\ call'[call'[q].id].at \in {"over", "dead"}
    <3>1. CASE q = r
      BY <1>1, <2>1, <2>2, <2>4, <2>9, <3>1
    <3>2. CASE q # r
      BY <1>1, <2>4, <2>6, <2>7, <2>10, <3>2 DEF KeyInv
    <3> QED BY <3>1, <3>2
  <2> QED BY <1>1, <2>1, <2>3, <2>6, <2>8, <2>10 DEF KeyInv
<1> QED BY <1>2, <1>3, <1>4 DEF Begin

(* The row deleted is the expired one that was read, or there is none. *)
LEMMA DiscardKeeps ==
  ASSUME KeyInv, NEW r \in Requests, Discard(r)
  PROVE  KeyInv'
<1>1. CASE UNCHANGED row
  BY <1>1, MoveKeeps DEF Discard, GoTo, Held, KeyInv, Typed
<1>2. CASE row # NoRow /\ row.id = call[r].id /\ row' = NoRow
  <2>1. row.expired = TRUE /\ done = {}
    BY <1>2 DEF Discard, KeyInv, Typed
  <2>2. call'[r].at = "reserving" /\ \A q \in Requests \ {r} : call'[q] = call[q]
    BY DEF Discard, GoTo, At, KeyInv, Typed
  <2>3. Typed'
    BY <1>2 DEF Discard, GoTo, At, Places, KeyInv, Typed
  <2>4. \A q \in Requests : call[q].at \notin {"running", "ran", "threw"}
    <3>1. ASSUME NEW q \in Requests, call[q].at \in {"running", "ran", "threw"} PROVE FALSE
      <4>1. row = Entry(q, "pending", FALSE)
        BY <3>1 DEF KeyInv
      <4> QED BY <4>1, <2>1 DEF Entry
    <3> QED BY <3>1
  <2>5. \A q \in Requests : call[q].at \in Held => call'[q] = call[q]
    BY <2>2 DEF Held, Discard
  <2>6. \A q \in Requests : call[q].at = "discarding" => call[q].id \in Requests
    BY DEF KeyInv, Typed, Places
  <2>7. \A q \in Requests : call'[q].at = "discarding" => call'[q] = call[q]
    BY <2>2
  <2>8. UNCHANGED done
    BY DEF Discard
  <2>9. \A q \in Requests : call'[q].at \notin {"running", "ran", "threw"}
    BY <2>2, <2>4
  <2>10. \A q \in Requests : call'[q].at = "discarding" =>
           call'[call'[q].id].at \in Held /\ call'[call'[q].id].at \in {"over", "dead"}
    BY <2>5, <2>6, <2>7 DEF KeyInv, Held
  <2> QED BY <1>2, <2>1, <2>3, <2>8, <2>9, <2>10 DEF KeyInv
<1> QED BY <1>1, <1>2 DEF Discard

LEMMA ReserveKeeps ==
  ASSUME KeyInv, NEW r \in Requests, Reserve(r)
  PROVE  KeyInv'
<1>1. CASE row # NoRow
  BY <1>1, MoveKeeps DEF Reserve, GoTo, Held, KeyInv, Typed
<1>2. CASE row = NoRow
  <2>1. row' = Entry(r, "pending", FALSE) /\ call' = [call EXCEPT ![r] = At("running")]
        /\ UNCHANGED <<answer, done>> /\ call[r].at = "reserving"
    BY <1>2 DEF Reserve, GoTo
  <2>2. done = {} /\ \A q \in Requests : call[q].at \notin {"running", "ran", "threw"}
    BY <1>2, EntryType DEF KeyInv, Typed
  <2>3. call'[r].at = "running" /\ \A q \in Requests \ {r} : call'[q] = call[q]
    BY <2>1 DEF At, KeyInv, Typed
  <2>4. Typed'
    BY <2>1, EntryType DEF At, Places, KeyInv, Typed
  <2>5. row'.id = r /\ row' # NoRow /\ row'.state = "pending" /\ call'[r].at \in Held
    BY <2>1, <2>3, EntryType DEF Entry, Held
  <2>6. ASSUME NEW q \in Requests, call'[q].at = "discarding"
        PROVE  /\ call'[call'[q].id].at \in Held
               /\ row' # NoRow /\ row'.id = call'[q].id => row'.expired = TRUE
               /\ call'[call'[q].id].at \in {"over", "dead"}
    <3>1. q # r /\ call'[q] = call[q]
      BY <2>3, <2>6
    <3>2. call[q].id \in Requests
      BY <2>6, <3>1 DEF KeyInv, Typed, Places
    <3>3. call[call[q].id].at \in Held /\ call[call[q].id].at \in {"over", "dead"}
      BY <2>6, <3>1 DEF KeyInv
    <3>4. call[q].id # r /\ call'[call[q].id] = call[call[q].id]
      BY <2>1, <2>3, <3>2, <3>3
    <3> QED BY <2>5, <3>1, <3>3, <3>4 DEF Held
  <2>7. \A q \in Requests : call'[q].at \in {"running", "ran", "threw"} => q = r
    BY <2>2, <2>3
  <2>8. \A q \in Requests : call'[q].at \in {"running", "ran", "threw"} =>
          row' = Entry(q, "pending", FALSE)'
    BY <2>1, <2>7 DEF Entry
  <2>9. done' = {}
    BY <2>1, <2>2
  <2>10. \A q \in Requests : call'[q].at # "ran"
    BY <2>2, <2>3
  <2> QED BY <2>4, <2>5, <2>6, <2>8, <2>9, <2>10 DEF KeyInv
<1> QED BY <1>1, <1>2

LEMMA HandleKeeps ==
  ASSUME KeyInv, NEW r \in Requests, Handle(r)
  PROVE  KeyInv'
<1>1. PICK p \in {"ran", "threw"} :
        /\ call' = [call EXCEPT ![r] = At(p)]
        /\ done' = IF p = "ran" THEN done \union {r} ELSE done
  BY DEF Handle, GoTo
<1>2. call[r].at = "running" /\ UNCHANGED <<row, answer>>
  BY DEF Handle
<1>3. row = Entry(r, "pending", FALSE) /\ row \in Rows /\ row.id = r
      /\ row.state = "pending" /\ ~row.expired /\ row # NoRow /\ r \notin done
  BY <1>2, EntryType DEF KeyInv, Entry
<1>4. call'[r].at = p /\ \A q \in Requests \ {r} : call'[q] = call[q]
  BY <1>1 DEF At, KeyInv, Typed
<1>5. Typed'
  BY <1>1, <1>2 DEF At, Places, KeyInv, Typed
<1>6. \A q \in Requests \ {r} : call[q].at \notin {"running", "ran", "threw"}
  BY <1>3 DEF KeyInv, Entry
<1>7. \A q \in Requests : call'[q].at \in Held <=> call[q].at \in Held
  BY <1>2, <1>4 DEF Held
<1>8. \A q \in Requests : call'[q].at = "discarding" =>
        /\ call'[q] = call[q] /\ call[q].id \in Requests /\ call[q].id # r
        /\ call'[call[q].id] = call[call[q].id]
  BY <1>2, <1>4 DEF KeyInv, Typed, Places
<1>9. \A q \in done' : q = r
  BY <1>1, <1>3 DEF KeyInv
<1>10. row' # NoRow => call'[row'.id].at \in Held
  BY <1>2, <1>3, <1>4 DEF Held
<1>11. \A q \in Requests : call'[q].at \in {"running", "ran", "threw"} => q = r
  BY <1>4, <1>6
<1>12. \A q \in Requests : call'[q].at \in {"running", "ran", "threw"} =>
         row' = Entry(q, "pending", FALSE)'
  BY <1>2, <1>3, <1>11 DEF Entry
<1>13. \A q \in Requests : call'[q].at \in {"running", "threw"} => q \notin done'
  BY <1>1, <1>3, <1>4, <1>11
<1>14. \A q \in Requests : call'[q].at = "ran" => q \in done'
  BY <1>1, <1>4, <1>11
<1>15. \A q \in done' : row' # NoRow /\ row'.id = q /\ ~row'.expired
  BY <1>2, <1>3, <1>9
<1>16. ~(row' # NoRow /\ row'.state = "stored" /\ ~row'.expired)
  BY <1>2, <1>3
<1>17. ASSUME NEW q \in Requests, call'[q].at = "discarding"
       PROVE  /\ call'[call'[q].id].at \in Held
              /\ row' # NoRow /\ row'.id = call'[q].id => row'.expired = TRUE
              /\ call'[call'[q].id].at \in {"over", "dead"}
  <2>1. call'[q] = call[q] /\ call[q].id \in Requests /\ call[q].id # r
        /\ call'[call[q].id] = call[call[q].id]
    BY <1>8, <1>17
  <2>2. call[call[q].id].at \in {"over", "dead"}
    BY <1>17, <2>1 DEF KeyInv
  <2> QED BY <1>2, <1>3, <2>1, <2>2 DEF Held
<1> QED BY <1>5, <1>10, <1>12, <1>13, <1>14, <1>15, <1>16, <1>17 DEF KeyInv

(* The request ends and its row is stored, left pending, or deleted without an *)
(* effect having been made.                                                    *)
LEMMA LeaveKeeps ==
  ASSUME KeyInv, NEW r \in Requests, NEW a \in Answers, Finish(r, a), UNCHANGED done,
         \/ call[r].at = "ran" /\ row' \in {[row EXCEPT !.state = "stored"], row}
         \/ call[r].at = "threw" /\ row' \in {NoRow, row}
  PROVE  KeyInv'
<1>1. row = Entry(r, "pending", FALSE) /\ row \in Rows /\ row.id = r /\ ~row.expired /\ row # NoRow
  BY EntryType DEF KeyInv, Entry
<1>2. call' = [call EXCEPT ![r] = At("over")] /\ answer' \in [Requests -> Answers]
  BY FinishType DEF KeyInv
<1>3. call'[r].at = "over" /\ \A q \in Requests \ {r} : call'[q] = call[q]
  BY <1>2 DEF At, KeyInv, Typed
<1>4. \A q \in Requests \ {r} : call[q].at \notin {"running", "ran", "threw"}
  BY <1>1 DEF KeyInv, Entry
<1>5. /\ row' \in {NoRow} \union Rows
      /\ row' # NoRow => row'.id = r /\ ~row'.expired
      /\ call[r].at = "ran" => row' # NoRow
  BY <1>1, EntryType DEF Rows
<1>6. Typed'
  BY <1>2, <1>5 DEF At, Places, KeyInv, Typed
<1>7. \A q \in Requests : call[q].at \in Held => call'[q].at \in Held
  BY <1>3 DEF Held
<1>8. \A q \in Requests : call'[q].at = "discarding" =>
        /\ call'[q] = call[q] /\ call[q].id \in Requests /\ call[q].id # r
        /\ call'[call[q].id] = call[call[q].id]
  BY <1>3 DEF KeyInv, Typed, Places
<1>9. /\ call[r].at = "ran" => r \in done
      /\ call[r].at = "threw" => done = {}
      /\ \A q \in done : q = r
  BY <1>1 DEF KeyInv, Typed
<1>10. row' # NoRow /\ row'.state = "stored" => call[r].at = "ran"
  BY <1>1 DEF Entry
<1>11. call'[r].at \in Held
  BY <1>3 DEF Held
<1>12. \A q \in done : row' # NoRow /\ row'.id = q /\ ~row'.expired
  BY <1>5, <1>9
<1>13. \A q \in Requests : call'[q].at \notin {"running", "ran", "threw"}
  BY <1>3, <1>4
<1>14. row' # NoRow => call'[row'.id].at \in Held
  BY <1>5, <1>11
<1>15. row' # NoRow /\ row'.state = "stored" /\ ~row'.expired => row'.id \in done'
  BY <1>5, <1>9, <1>10
<1>16. ASSUME NEW q \in Requests, call'[q].at = "discarding"
       PROVE  /\ call'[call'[q].id].at \in Held
              /\ row' # NoRow /\ row'.id = call'[q].id => row'.expired = TRUE
              /\ call'[call'[q].id].at \in {"over", "dead"}
  <2>1. call'[q] = call[q] /\ call[q].id \in Requests /\ call[q].id # r
        /\ call'[call[q].id] = call[call[q].id]
    BY <1>8, <1>16
  <2>2. call[call[q].id].at \in {"over", "dead"}
    BY <1>16, <2>1 DEF KeyInv
  <2> QED BY <1>5, <2>1, <2>2 DEF Held
<1>17. \A q \in done' : row' # NoRow /\ row'.id = q /\ ~row'.expired
  BY <1>12
<1> QED BY <1>6, <1>13, <1>14, <1>15, <1>16, <1>17 DEF KeyInv

LEMMA ExpireKeeps ==
  ASSUME KeyInv, Expire
  PROVE  KeyInv'
<1>1. row \in Rows /\ row.id \in Requests
  BY DEF Expire, KeyInv, Typed, Rows
<1>2. row' = [row EXCEPT !.expired = TRUE] /\ done' = {} /\ UNCHANGED <<call, answer>>
  BY DEF Expire
<1>3. row' \in Rows /\ row'.id = row.id /\ row'.expired = TRUE /\ row' # NoRow
  BY <1>1, <1>2, EntryType DEF Rows
<1>4. \A q \in Requests : call[q].at \notin {"running", "ran", "threw"}
  BY <1>1 DEF Expire, KeyInv, Entry
<1> QED BY <1>2, <1>3, <1>4 DEF KeyInv, Typed, Held, Expire

LEMMA KeyStep == KeyInv /\ [Next]_vars => KeyInv'
<1> SUFFICES ASSUME KeyInv, [Next]_vars PROVE KeyInv'
  OBVIOUS
<1>1. CASE UNCHANGED vars
  BY <1>1 DEF vars, KeyInv, Typed, Held
<1>2. ASSUME NEW r \in Requests, Poll(r) \/ TimeOut(r) PROVE KeyInv'
  <2>1. PICK a \in Answers : Finish(r, a)
    BY <1>2, ReplayType, RefusalType DEF Poll, TimeOut, KeyInv
  <2> QED BY <1>2, <2>1, MoveKeeps, FinishType DEF Poll, TimeOut, KeyInv
<1>3. ASSUME NEW r \in Requests, Die(r) PROVE KeyInv'
  BY <1>3, MoveKeeps DEF Die, GoTo, KeyInv, Typed
<1>4. ASSUME NEW r \in Requests, Store(r) PROVE KeyInv'
  BY <1>4, LeaveKeeps, ResultType DEF Store
<1>5. ASSUME NEW r \in Requests, CleanUp(r) PROVE KeyInv'
  BY <1>5, LeaveKeeps, RefusalType DEF CleanUp
<1> QED
  BY <1>1, <1>2, <1>3, <1>4, <1>5, BeginKeeps, DiscardKeeps, ReserveKeeps, HandleKeeps, ExpireKeeps
  DEF Next, Proceed

-----------------------------------------------------------------------------
(* Theorems *)

(* Every reachable state is well typed, and who runs the handler owns the row. *)
THEOREM TypeCorrect == Spec => []TypeOK
<1>1. KeyInv => TypeOK
  BY DEF KeyInv, Typed, TypeOK, Rows, Places, Answers
<1> QED BY <1>1, KeyStart, KeyStep, PTL DEF Spec

(* withIdempotency: however many retries overlap, fail or die, the mutation is  *)
(* made at most once until the key expires.                                    *)
THEOREM OnceSafety == Spec => []AtMostOnce
<1>1. KeyInv => AtMostOnce
  <2> SUFFICES ASSUME KeyInv PROVE Cardinality(done) <= 1
    BY DEF AtMostOnce
  <2>1. CASE done = {}
    BY <2>1, FS_EmptySet
  <2>2. CASE done # {}
    <3>1. PICK r \in done : TRUE
      BY <2>2
    <3>2. done = {r}
      BY <3>1 DEF KeyInv
    <3>3. Cardinality({r}) = 1
      BY FS_Singleton
    <3> QED BY <3>2, <3>3
  <2> QED BY <2>1, <2>2
<1> QED BY <1>1, KeyStart, KeyStep, PTL DEF Spec

(* replayOrConflict: a response comes from a mutation made under the key since  *)
(* it last expired, for the same body.                                          *)
THEOREM AnswersSafety == Spec => AnswersAreTrue
<1> DEFINE True(r) == answer[r] = None /\ answer'[r].kind = "result" =>
                        answer'[r].of \in done /\ Body[answer'[r].of] = Body[r]
<1>1. ASSUME KeyInv, [Next]_vars PROVE [\A r \in Requests : True(r)]_vars
  <2>1. ASSUME UNCHANGED answer PROVE \A r \in Requests : True(r)
    BY <2>1 DEF None
  <2>2. ASSUME NEW r \in Requests, NEW a, Finish(r, a),
               a.kind = "result" => a.of \in done /\ Body[a.of] = Body[r]
        PROVE  \A q \in Requests : True(q)
    <3>1. answer'[r] = a /\ \A q \in Requests \ {r} : answer'[q] = answer[q]
      BY <2>2, <1>1 DEF Finish, KeyInv, Typed
    <3> QED BY <3>1, <2>2 DEF None
  <2> HIDE DEF True
  <2>3. \A k \in {"conflict", "unavailable", "error"} : Refusal(k).kind # "result"
    BY DEF Refusal
  <2>4. ASSUME NEW r \in Requests, Stored, Finish(r, ReplayOrConflict(r))
        PROVE  \A q \in Requests : True(q)
    <3>1. row # NoRow /\ row.state = "stored"
      BY <2>4 DEF Stored, NoRow
    <3>2. CASE Body[row.id] = Body[r] /\ ~row.expired
      <4>1. ReplayOrConflict(r) = Result(row.id) /\ row.id \in done
        BY <3>1, <3>2, <1>1 DEF ReplayOrConflict, KeyInv
      <4> QED BY <4>1, <3>2, <2>2, <2>4 DEF Result
    <3>3. CASE ~(Body[row.id] = Body[r] /\ ~row.expired)
      <4>1. ReplayOrConflict(r) = Refusal("conflict")
        BY <3>3 DEF ReplayOrConflict
      <4> QED BY <4>1, <2>2, <2>3, <2>4
    <3> QED BY <3>2, <3>3
  <2>5. ASSUME NEW r \in Requests, Store(r) PROVE \A q \in Requests : True(q)
    <3>1. r \in done /\ Finish(r, Result(r)) /\ Result(r).of = r
      BY <2>5, <1>1 DEF Store, KeyInv, Result
    <3> QED BY <3>1, <2>2
  <2>6. ASSUME NEW r \in Requests, Begin(r) \/ Poll(r) \/ TimeOut(r) \/ CleanUp(r)
        PROVE  \A q \in Requests : True(q)
    <3>1. \/ UNCHANGED answer
          \/ Stored /\ Finish(r, ReplayOrConflict(r))
          \/ Finish(r, Refusal("unavailable")) \/ Finish(r, Refusal("error"))
      BY <2>6 DEF Begin, Poll, TimeOut, CleanUp
    <3> QED BY <3>1, <2>1, <2>2, <2>3, <2>4
  <2>7. \/ UNCHANGED answer
        \/ \E r \in Requests : Begin(r) \/ Poll(r) \/ TimeOut(r) \/ CleanUp(r) \/ Store(r)
    BY <1>1 DEF Next, Proceed, Discard, Reserve, Handle, Die, Expire, vars
  <2> QED BY <2>1, <2>5, <2>6, <2>7
<1> QED BY <1>1, KeyStart, KeyStep, PTL DEF Spec, AnswersAreTrue
=============================================================================
