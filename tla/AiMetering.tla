----------------------------- MODULE AiMetering -----------------------------
(* The metering of one user's AI calls in a month:                            *)
(*   src/src/lib/ai-quota.ts       (checkAiQuota, recordAiUsage, markAiUsageFailed) *)
(*   src/src/lib/llm-sse-proxy.ts  (proxyLlmSse, its after() task)            *)
(*   src/src/lib/sse-frame.ts      (createSseBillableWatcher)                 *)
(*                                                                            *)
(* The gate counts the month's rows; a call gets its row only when the first  *)
(* billable frame passes by, as a placeholder without tokens, and aster-api   *)
(* reports the tokens on a connection of its own, under the same requestId.   *)
(* Calls on the platform's key: those on a key of the user skip the quota.    *)
EXTENDS Naturals, FiniteSets

CONSTANTS
  Calls,      \* streaming calls, each with its requestId
  Limit,      \* the month's quota
  MaxOpen     \* bound: calls under way at a time

ASSUME MeteringAssumption ==
  Limit \in Nat \ {0} /\ MaxOpen \in Nat \ {0}

VARIABLES
  phase,    \* how far the proxy is with each call
  usage,    \* AiUsageRecord rows, by requestId
  seen,     \* calls whose watcher has seen a billable frame
  failed,   \* calls whose watcher has seen an error frame after that
  insert,   \* the placeholder insert of each call
  provider, \* what aster-api has done for each call
  faulty    \* history: calls one of whose statements failed

vars == <<phase, usage, seen, failed, insert, provider, faulty>>

NoRow == [status |-> "none", tokens |-> FALSE]
Row(status, tokens) == [status |-> status, tokens |-> tokens]

TypeOK ==
  /\ phase \in [Calls -> {"new", "denied", "admitted", "closed",
                       "streaming", "ended", "drained", "settled"}]
  /\ usage \in [Calls -> {NoRow} \union [status: {"success", "api_error"}, tokens: BOOLEAN]]
  /\ failed \subseteq seen /\ seen \subseteq Calls /\ faulty \subseteq Calls
  /\ insert \in [Calls -> {"none", "started", "over"}]
  /\ \A c \in Calls : insert[c] # "none" => c \in seen
  /\ provider \in [Calls -> {"none", "unreached", "answered", "failing"}]

Init ==
  /\ phase = [c \in Calls |-> "new"]
  /\ usage = [c \in Calls |-> NoRow]
  /\ seen = {} /\ failed = {} /\ faulty = {}
  /\ insert = [c \in Calls |-> "none"]
  /\ provider = [c \in Calls |-> "none"]

-----------------------------------------------------------------------------
(* The gate *)

(* countBillableCalls *)
Billable == {c \in Calls : usage[c].status \in {"success", "api_error"}}

(* Calls the proxy or aster-api is at work on. *)
Underway ==
  {c \in Calls : \/ phase[c] \in {"admitted", "streaming", "ended", "drained"}
                 \/ phase[c] = "settled" /\ provider[c] = "none"}

(* A call is also refused by what the model leaves out: a ban, the risk tier,   *)
(* an unverified address, the rate limits.                                      *)
Gate(c) ==
  /\ phase[c] = "new" /\ Cardinality(Underway) < MaxOpen               \* bound
  /\ \/ phase' = [phase EXCEPT ![c] = "denied"]
     \/ Cardinality(Billable) < Limit /\ phase' = [phase EXCEPT ![c] = "admitted"]
  /\ UNCHANGED <<usage, seen, failed, insert, provider, faulty>>

-----------------------------------------------------------------------------
(* Rows *)

(* Mutant: a placeholder that comes late clears the tokens. *)
UpsertTokens(c, tokens) ==
  IF usage[c] = NoRow THEN Row("success", tokens) ELSE Row(usage[c].status, tokens)

(* recordAiUsage: tokens only ever replace a placeholder's zeros, the status is *)
(* the first one.                                                               *)
Upsert(c, tokens) ==
  IF usage[c] = NoRow THEN Row("success", tokens)
  ELSE Row(usage[c].status, tokens \/ usage[c].tokens)

Record(c, tokens) == usage' = [usage EXCEPT ![c] = Upsert(c, tokens)]

-----------------------------------------------------------------------------
(* The stream *)

(* A 2xx response with a body; anything else ends the call without a row. *)
OpenStream(c) ==
  /\ phase[c] = "admitted"
  /\ \E p \in {"streaming", "closed"} : phase' = [phase EXCEPT ![c] = p]
  /\ UNCHANGED <<usage, seen, failed, insert, provider, faulty>>

(* aster-api has an answer of the provider, an error of it to pass on, or has   *)
(* not reached it; whether or not its client still listens.                     *)
ProviderReturns(c) ==
  /\ phase[c] \in {"streaming", "ended", "drained", "settled"} /\ provider[c] = "none"
  /\ \E p \in {"unreached", "answered", "failing"} : provider' = [provider EXCEPT ![c] = p]
  /\ UNCHANGED <<phase, usage, seen, failed, insert, faulty>>

(* Mutant: the placeholder is left to aster-api's report. *)
SeeWithoutPlaceholder(c) ==
  /\ c \notin seen
  /\ seen' = seen \union {c}
  /\ UNCHANGED <<failed, insert>>

(* The first frame that parses as billable: the insert is started and not      *)
(* waited for.  Frames are parsed one by one, whatever became of the provider: *)
(* one without a data line, such as a comment, and one whose JSON does not     *)
(* parse, such as a refusal cut off by the end of the stream, are deltas with  *)
(* content.                                                                    *)
SeeBillable(c) ==
  /\ c \notin seen
  /\ seen' = seen \union {c}
  /\ insert' = [insert EXCEPT ![c] = "started"]
  /\ UNCHANGED failed

(* Mutant: an error before any billable frame marks the call as failed. *)
SeeErrorFirst(c) ==
  /\ c \notin failed /\ provider[c] \in {"failing", "unreached"}
  /\ failed' = failed \union {c}
  /\ UNCHANGED <<seen, insert>>

(* An error after it, or a refusal: the watcher looks no further. *)
SeeError(c) ==
  /\ c \in seen \ failed /\ provider[c] \in {"failing", "unreached"}
  /\ failed' = failed \union {c}
  /\ UNCHANGED <<seen, insert>>

BillableFrame(c) ==
  /\ phase[c] = "streaming" /\ SeeBillable(c)
  /\ UNCHANGED <<phase, usage, provider, faulty>>

ErrorFrame(c) ==
  /\ phase[c] = "streaming" /\ SeeError(c)
  /\ UNCHANGED <<phase, usage, provider, faulty>>

(* Mutant: only the end of aster-api's stream is noticed. *)
EndWhenFlushed(c) ==
  /\ phase[c] = "streaming" /\ provider[c] \in {"unreached", "answered", "failing"}
  /\ phase' = [phase EXCEPT ![c] = "ended"]
  /\ UNCHANGED <<usage, seen, failed, insert, provider, faulty>>

(* The stream is flushed, cancelled, or the request is aborted. *)
EndStream(c) ==
  /\ phase[c] = "streaming"
  /\ phase' = [phase EXCEPT ![c] = "ended"]
  /\ UNCHANGED <<usage, seen, failed, insert, provider, faulty>>

(* finish(): the after() task parses what is left without its blank line, a    *)
(* last frame or the half of one.                                              *)
Drain(c) ==
  /\ phase[c] = "ended"
  /\ phase' = [phase EXCEPT ![c] = "drained"]
  /\ SeeBillable(c) \/ SeeError(c) \/ UNCHANGED <<seen, failed, insert>>
  /\ UNCHANGED <<usage, provider, faulty>>

InsertPlaceholder(c) ==
  /\ insert[c] = "started"
  /\ \/ Record(c, FALSE) /\ UNCHANGED faulty
     \/ faulty' = faulty \union {c} /\ UNCHANGED usage
  /\ insert' = [insert EXCEPT ![c] = "over"]
  /\ UNCHANGED <<phase, seen, failed, provider>>

(* Mutant: the status is corrected without waiting for the placeholder. *)
SettleAtOnce(c) ==
  /\ phase[c] = "drained"
  /\ phase' = [phase EXCEPT ![c] = "settled"]
  /\ usage' = IF c \in failed /\ usage[c] # NoRow
              THEN [usage EXCEPT ![c].status = "api_error"] ELSE usage
  /\ UNCHANGED <<seen, failed, insert, provider, faulty>>

(* The after() task waits for the placeholder, then corrects the status: an    *)
(* UPDATE by requestId, whose failure is only logged.                          *)
Settle(c) ==
  /\ phase[c] = "drained" /\ insert[c] # "started"
  /\ phase' = [phase EXCEPT ![c] = "settled"]
  /\ \/ /\ usage' = IF c \in failed /\ usage[c] # NoRow
                    THEN [usage EXCEPT ![c].status = "api_error"] ELSE usage
        /\ UNCHANGED faulty
     \/ c \in failed /\ faulty' = faulty \union {c} /\ UNCHANGED usage
  /\ UNCHANGED <<seen, failed, insert, provider>>

(* POST /api/internal/ai/usage: at any time once the provider has returned,    *)
(* more than once if aster-api retries, never if it is lost.                   *)
Report(c) ==
  /\ provider[c] \in {"answered", "failing"}
  /\ Record(c, TRUE)
  /\ UNCHANGED <<phase, seen, failed, insert, provider, faulty>>

-----------------------------------------------------------------------------

(* What the platform runs on behalf of the proxy, the client gone or not. *)
Proxy(c) == Drain(c) \/ InsertPlaceholder(c) \/ Settle(c)

Next ==
  \E c \in Calls :
    \/ Gate(c) \/ OpenStream(c) \/ ProviderReturns(c)
    \/ BillableFrame(c) \/ ErrorFrame(c) \/ EndStream(c)
    \/ Proxy(c) \/ Report(c)

Spec == Init /\ [][Next]_vars

(* Every stream ends, and the platform lets the after() task run. *)
FairSpec == Spec /\ \A c \in Calls : WF_vars(EndStream(c)) /\ WF_vars(Proxy(c))

-----------------------------------------------------------------------------
(* Properties *)

(* The gate counts a call from its first billable frame on, as soon as its     *)
(* placeholder is in, and still counts it when it has failed: no call is let   *)
(* in while the quota is used up by such calls, whatever has come of their     *)
(* streams and reports since; unless one of their statements failed            *)
(* (llm-sse-proxy.ts:172-175, ai-quota.ts:222).                                *)
GateSeesStreams ==
  [][\A c \in Calls :
       phase[c] = "new" /\ phase'[c] = "admitted" =>
         Cardinality({d \in seen \ faulty : insert[d] # "started"}) < Limit]_vars

(* Once a call is settled it has its row if a billable frame was seen, and it  *)
(* counts as failed if an error followed, whichever of the placeholder, the    *)
(* report and the correction came first; unless a statement failed.            *)
SettledAsSeen ==
  \A c \in Calls \ faulty :
    phase[c] = "settled" /\ c \in seen =>
      usage[c].status = (IF c \in failed THEN "api_error" ELSE "success")

(* A row never loses its tokens or its failure, nor disappears, to a late or    *)
(* repeated placeholder or report (ai-quota.ts:246-249, 344-350).               *)
RowsOnlyGain ==
  [][\A c \in Calls :
       /\ usage[c].tokens => usage'[c].tokens
       /\ usage[c].status = "api_error" => usage'[c].status = "api_error"
       /\ usage[c] # NoRow => usage'[c] # NoRow]_usage

(* A call with a billable frame is settled in the end, even when the client    *)
(* has gone; neither is ever undone.                                           *)
SeenIsSettled == \A c \in Calls : []<>(c \notin seen \/ phase[c] = "settled")
=============================================================================
