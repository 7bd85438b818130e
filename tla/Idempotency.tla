---------------------------- MODULE Idempotency -----------------------------
(* One Idempotency-Key of one user on one route, under which a vocabulary      *)
(* mutation is sent, retried and sent again with another body:                *)
(*   src/src/lib/api/idempotency.ts  (withIdempotency, waitForPending)         *)
(*                                                                             *)
(* A request reserves the key by inserting a pending row, runs its handler,    *)
(* and stores the response in the row; requests that find the row wait for it  *)
(* or replay it.  A handler is one transaction: one that throws has changed    *)
(* nothing.  Requests without a key run their handler and are not modelled.    *)
EXTENDS Naturals, FiniteSets

CONSTANTS
  Requests,  \* invocations with this key, a retry being one of its own
  Bodies,    \* hashes of request bodies
  Body       \* [Requests -> Bodies]

ASSUME RequestsAssumption == Body \in [Requests -> Bodies]

VARIABLES
  row,     \* the LexiconIdempotencyKey row; its id is the request that reserved it
  call,    \* how far each request is
  answer,  \* what each request has answered
  done     \* history: requests whose handler took effect since the key last expired

vars == <<row, call, answer, done>>

NoRow == [state |-> "none"]
Entry(id, state, expired) == [state |-> state, id |-> id, expired |-> expired]

None == [kind |-> "none"]
Refusal(kind) == [kind |-> kind]
Result(r) == [kind |-> "result", of |-> r]

At(place) == [at |-> place]
Discarding(id) == [at |-> "discarding", id |-> id]

Pending == row.state = "pending"
Stored == row.state = "stored"

(* A row is pending while its request is under way. *)
TypeOK ==
  /\ row \in {NoRow} \union
       [state: {"pending", "stored"}, id: Requests, expired: BOOLEAN]
  /\ \A r \in Requests : call[r] \in
       [at: {"new", "reserving", "waiting", "running", "ran", "threw", "over", "dead"}]
         \union [at: {"discarding"}, id: Requests]
  /\ \A r \in Requests : answer[r] \in
       {None} \union [kind: {"conflict", "unavailable", "error"}]
         \union [kind: {"result"}, of: Requests]
  /\ \A r \in Requests : call[r].at \in {"running", "ran", "threw"} => row = Entry(r, "pending", FALSE)
  /\ done \subseteq Requests

Init ==
  /\ row = NoRow
  /\ call = [r \in Requests |-> At("new")]
  /\ answer = [r \in Requests |-> None]
  /\ done = {}

GoTo(r, place) == call' = [call EXCEPT ![r] = At(place)]

Finish(r, a) == GoTo(r, "over") /\ answer' = [answer EXCEPT ![r] = a]

-----------------------------------------------------------------------------
(* A request with the key *)

(* Mutant: the body is not compared. *)
ReplayAnyBody(r) == Result(row.id)

(* replayOrConflict on a stored row *)
ReplayOrConflict(r) ==
  IF Body[row.id] = Body[r] /\ ~row.expired THEN Result(row.id) ELSE Refusal("conflict")

(* findEntry: a pending row is waited for, expired or not. *)
Begin(r) ==
  /\ call[r].at = "new"
  /\ \/ row = NoRow /\ GoTo(r, "reserving") /\ UNCHANGED answer
     \/ Pending /\ GoTo(r, "waiting") /\ UNCHANGED answer
     \/ Stored /\ row.expired /\ call' = [call EXCEPT ![r] = Discarding(row.id)] /\ UNCHANGED answer
     \/ Stored /\ ~row.expired /\ Finish(r, ReplayOrConflict(r))
  /\ UNCHANGED <<row, done>>

(* Mutant: the row of the key is deleted, whichever it is by now. *)
DiscardByKey(r) ==
  /\ call[r].at = "discarding"
  /\ row' = NoRow
  /\ GoTo(r, "reserving")
  /\ UNCHANGED <<answer, done>>

(* deleteEntry: by the id of the row that was read. *)
Discard(r) ==
  /\ call[r].at = "discarding"
  /\ row' = IF row # NoRow /\ row.id = call[r].id THEN NoRow ELSE row
  /\ GoTo(r, "reserving")
  /\ UNCHANGED <<answer, done>>

(* INSERT ... ON CONFLICT DO NOTHING *)
Reserve(r) ==
  /\ call[r].at = "reserving"
  /\ IF row = NoRow
     THEN row' = Entry(r, "pending", FALSE) /\ GoTo(r, "running")
     ELSE GoTo(r, "waiting") /\ UNCHANGED row
  /\ UNCHANGED <<answer, done>>

(* A poll of waitForPending that finds the row gone or stored. *)
Poll(r) ==
  /\ call[r].at = "waiting"
  /\ \/ row = NoRow /\ Finish(r, Refusal("unavailable"))
     \/ Stored /\ Finish(r, ReplayOrConflict(r))
  /\ UNCHANGED <<row, done>>

(* Mutant: a request waits for as long as the row is pending. *)
TimeOutUnlessPending(r) ==
  /\ call[r].at = "waiting" /\ ~Pending
  /\ Finish(r, Refusal("unavailable"))
  /\ UNCHANGED <<row, done>>

(* PENDING_POLL_TIMEOUT_MS is over. *)
TimeOut(r) ==
  /\ call[r].at = "waiting"
  /\ Finish(r, Refusal("unavailable"))
  /\ UNCHANGED <<row, done>>

(* The handler commits, or throws. *)
Handle(r) ==
  /\ call[r].at = "running"
  /\ \/ GoTo(r, "ran") /\ done' = done \union {r}
     \/ GoTo(r, "threw") /\ UNCHANGED done
  /\ UNCHANGED <<row, answer>>

(* Mutant: a reservation whose response cannot be stored is deleted. *)
StoreOrRelease(r) ==
  /\ call[r].at = "ran"
  /\ row' \in {[row EXCEPT !.state = "stored"], NoRow}
  /\ Finish(r, Result(r))
  /\ UNCHANGED done

(* The response is stored; if that fails the row stays pending. *)
Store(r) ==
  /\ call[r].at = "ran"
  /\ row' \in {[row EXCEPT !.state = "stored"], row}
  /\ Finish(r, Result(r))
  /\ UNCHANGED done

(* The reservation is deleted; if that fails the row stays pending. *)
CleanUp(r) ==
  /\ call[r].at = "threw"
  /\ row' \in {NoRow, row}
  /\ Finish(r, Refusal("error"))
  /\ UNCHANGED done

(* The Worker is killed. *)
Die(r) ==
  /\ call[r].at \notin {"new", "over", "dead"}
  /\ GoTo(r, "dead")
  /\ UNCHANGED <<row, answer, done>>

(* A day has passed since the reservation: the request that made it, and those *)
(* that waited for its response, are over by then.                             *)
Expire ==
  /\ row # NoRow /\ ~row.expired
  /\ call[row.id].at \in {"over", "dead"}
  /\ Stored => \A r \in Requests : call[r].at # "waiting"
  /\ row' = [row EXCEPT !.expired = TRUE]
  /\ done' = {}
  /\ UNCHANGED <<call, answer>>

-----------------------------------------------------------------------------

Proceed(r) ==
  \/ Discard(r) \/ Reserve(r) \/ Poll(r) \/ TimeOut(r) \/ Handle(r) \/ Store(r) \/ CleanUp(r)

Next ==
  \/ \E r \in Requests : Begin(r) \/ Proceed(r) \/ Die(r)
  \/ Expire

Spec == Init /\ [][Next]_vars

(* A request that is not killed goes on. *)
FairSpec == Spec /\ \A r \in Requests : WF_vars(Proceed(r))

-----------------------------------------------------------------------------
(* Properties *)

(* Until the key expires the mutation is made at most once, however many       *)
(* retries overlap, die, or meet an expired row together ("lets concurrent     *)
(* retries double-execute side effects", idempotency.ts:159-163).              *)
AtMostOnce == Cardinality(done) <= 1

(* A response is that of a mutation made since the key last expired, for the   *)
(* same body, whether it was replayed, waited for or computed                  *)
(* (idempotency.ts:153-156).                                                   *)
AnswersAreTrue ==
  [][\A r \in Requests :
       answer[r] = None /\ answer'[r].kind = "result" =>
         answer'[r].of \in done /\ Body[answer'[r].of] = Body[r]]_vars

(* No retry polls for ever, although the request it waits for may have died.   *)
EveryRequestEnds ==
  \A r \in Requests : call[r].at # "new" ~> call[r].at \in {"over", "dead"}
=============================================================================
