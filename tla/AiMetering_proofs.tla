-------------------------- MODULE AiMetering_proofs --------------------------
(* Proofs about AiMetering, for any set of calls, any quota and any bound on   *)
(* the calls under way.                                                        *)
EXTENDS AiMetering, FiniteSetTheorems, TLAPS

Opened == {"streaming", "ended", "drained", "settled"}

Phases == {"new", "denied", "admitted", "closed"} \union Opened
Rows == [status: {"success", "api_error"}, tokens: BOOLEAN]
Steps == {"none", "unreached", "answered", "failing"}

Typed ==
  /\ phase \in [Calls -> Phases]
  /\ usage \in [Calls -> {NoRow} \union Rows]
  /\ seen \subseteq Calls /\ failed \subseteq seen /\ faulty \subseteq Calls
  /\ insert \in [Calls -> {"none", "started", "over"}]
  /\ provider \in [Calls -> Steps]

(* What the proxy knows of call c and what is recorded of it: only the settled *)
(* correction marks the row as failed, and it finds the row the placeholder    *)
(* left.                                                                       *)
CallInv(c) ==
  /\ c \in seen <=> insert[c] # "none"
  /\ insert[c] = "over" /\ c \notin faulty => usage[c] # NoRow
  /\ usage[c].status = "api_error" => phase[c] = "settled" /\ c \in failed
  /\ phase[c] = "settled" => insert[c] # "started"
  /\ phase[c] = "settled" /\ c \in failed \ faulty => usage[c].status = "api_error"

MeterInv == Typed /\ \A c \in Calls : CallInv(c)

LEMMA RowTypes ==
  /\ NoRow.status = "none" /\ NoRow.tokens = FALSE
  /\ \A r \in Rows : r # NoRow /\ r.status \in {"success", "api_error"} /\ r.tokens \in BOOLEAN
BY DEF NoRow, Rows

(* recordAiUsage returns a row, keeps a failure and keeps reported tokens. *)
LEMMA UpsertResult ==
  ASSUME Typed, NEW c \in Calls, NEW tokens \in BOOLEAN
  PROVE  /\ Upsert(c, tokens) \in Rows
         /\ Upsert(c, tokens).status = (IF usage[c] = NoRow THEN "success" ELSE usage[c].status)
         /\ usage[c].tokens => Upsert(c, tokens).tokens
<1>1. CASE usage[c] = NoRow
  BY <1>1, RowTypes DEF Upsert, Row, Rows
<1>2. CASE usage[c] # NoRow
  <2>1. usage[c] \in Rows
    BY <1>2 DEF Typed
  <2>2. (tokens \/ usage[c].tokens) \in BOOLEAN
    OBVIOUS
  <2>3. Upsert(c, tokens) = [status |-> usage[c].status, tokens |-> tokens \/ usage[c].tokens]
    BY <1>2 DEF Upsert, Row
  <2> QED BY <1>2, <2>1, <2>2, <2>3 DEF Rows
<1> QED BY <1>1, <1>2

-----------------------------------------------------------------------------
(* One step of one call *)

LEMMA MeterStart == Init => MeterInv
BY RowTypes DEF Init, MeterInv, Typed, CallInv, Phases, Steps, Opened

(* A call that a step does not touch keeps its invariant. *)
LEMMA CallFrame ==
  ASSUME MeterInv, Typed', NEW c \in Calls,
         \A d \in Calls \ {c} :
           /\ phase'[d] = phase[d] /\ usage'[d] = usage[d] /\ insert'[d] = insert[d]
           /\ (d \in seen') = (d \in seen) /\ (d \in failed') = (d \in failed)
           /\ (d \in faulty') = (d \in faulty),
         CallInv(c)'
  PROVE  MeterInv'
<1>1. ASSUME NEW d \in Calls \ {c} PROVE CallInv(d)'
  BY <1>1 DEF MeterInv, CallInv
<1> QED BY <1>1 DEF MeterInv

LEMMA SeeKeeps ==
  ASSUME MeterInv, NEW c \in Calls, UNCHANGED <<usage, provider, faulty>>,
         SeeBillable(c) \/ SeeError(c) \/ UNCHANGED <<seen, failed, insert>>,
         \/ phase[c] = "streaming" /\ phase' = phase
         \/ phase[c] = "ended" /\ phase' = [phase EXCEPT ![c] = "drained"]
  PROVE  MeterInv'
<1>1. phase' \in [Calls -> Phases] /\ phase'[c] \in {"streaming", "drained"}
  BY DEF MeterInv, Typed, Phases, Opened
<1>2. Typed'
  BY <1>1 DEF MeterInv, Typed, SeeBillable, SeeError
<1>3. CallInv(c)'
  BY <1>1 DEF MeterInv, Typed, CallInv, SeeBillable, SeeError, Opened
<1>4. \A d \in Calls \ {c} :
        /\ phase'[d] = phase[d] /\ insert'[d] = insert[d]
        /\ (d \in seen') = (d \in seen) /\ (d \in failed') = (d \in failed)
  BY DEF MeterInv, Typed, SeeBillable, SeeError
<1> QED BY <1>2, <1>3, <1>4, CallFrame

LEMMA PhaseKeeps ==
  ASSUME MeterInv, NEW c \in Calls, Gate(c) \/ OpenStream(c) \/ EndStream(c)
  PROVE  MeterInv'
<1>1. PICK p \in {"denied", "admitted", "streaming", "closed", "ended"} :
        /\ phase' = [phase EXCEPT ![c] = p]
        /\ phase[c] = "streaming" => p = "ended"
        /\ phase[c] \in {"new", "admitted", "streaming"}
  BY DEF Gate, OpenStream, EndStream
<1>2. UNCHANGED <<usage, seen, failed, insert, provider, faulty>>
  BY DEF Gate, OpenStream, EndStream
<1>3. Typed'
  BY <1>1, <1>2 DEF MeterInv, Typed, Phases, Opened
<1>4. CallInv(c)'
  BY <1>1, <1>2 DEF MeterInv, Typed, CallInv, Opened
<1> QED BY <1>1, <1>2, <1>3, <1>4, CallFrame DEF MeterInv, Typed

LEMMA ProviderKeeps ==
  ASSUME MeterInv, NEW c \in Calls, ProviderReturns(c)
  PROVE  MeterInv'
<1>1. PICK p \in {"unreached", "answered", "failing"} : provider' = [provider EXCEPT ![c] = p]
  BY DEF ProviderReturns
<1>2. UNCHANGED <<phase, usage, seen, failed, insert, faulty>>
  BY DEF ProviderReturns
<1>3. Typed'
  BY <1>1, <1>2 DEF MeterInv, Typed, Steps
<1>4. CallInv(c)'
  BY <1>2 DEF MeterInv, Typed, CallInv
<1> QED BY <1>2, <1>3, <1>4, CallFrame DEF MeterInv, Typed

(* The placeholder and the report write a row through the same upsert. *)
LEMMA RecordKeeps ==
  ASSUME MeterInv, NEW c \in Calls, NEW tokens \in BOOLEAN, Record(c, tokens),
         UNCHANGED <<phase, seen, failed, provider, faulty>>,
         \/ insert' = insert
         \/ insert[c] = "started" /\ insert' = [insert EXCEPT ![c] = "over"]
  PROVE  MeterInv'
<1>1. usage' = [usage EXCEPT ![c] = Upsert(c, tokens)] /\ Upsert(c, tokens) \in Rows
  BY UpsertResult DEF Record, MeterInv
<1>2. usage'[c] = Upsert(c, tokens) /\ usage'[c] # NoRow
  BY <1>1, RowTypes DEF MeterInv, Typed
<1>3. usage'[c].status = "api_error" <=> usage[c].status = "api_error"
  BY <1>2, UpsertResult, RowTypes DEF MeterInv
<1>4. Typed'
  BY <1>1 DEF MeterInv, Typed
<1>5. CallInv(c)'
  BY <1>2, <1>3 DEF MeterInv, Typed, CallInv
<1> QED BY <1>1, <1>4, <1>5, CallFrame DEF MeterInv, Typed

LEMMA InsertKeeps ==
  ASSUME MeterInv, NEW c \in Calls, InsertPlaceholder(c)
  PROVE  MeterInv'
<1>2. CASE Record(c, FALSE) /\ UNCHANGED faulty
  BY <1>2, RecordKeeps DEF InsertPlaceholder
<1>3. CASE faulty' = faulty \union {c} /\ UNCHANGED usage
  <2>1. Typed'
    BY <1>3 DEF InsertPlaceholder, MeterInv, Typed
  <2>2. CallInv(c)'
    BY <1>3 DEF InsertPlaceholder, MeterInv, Typed, CallInv
  <2>3. \A d \in Calls \ {c} : insert'[d] = insert[d] /\ (d \in faulty') = (d \in faulty)
    BY <1>3 DEF InsertPlaceholder, MeterInv, Typed
  <2> QED BY <1>3, <2>1, <2>2, <2>3, CallFrame DEF InsertPlaceholder
<1> QED BY <1>2, <1>3 DEF InsertPlaceholder

(* The correction comes after the placeholder, so it finds its row unless one   *)
(* of the statements failed.                                                    *)
LEMMA SettleKeeps ==
  ASSUME MeterInv, NEW c \in Calls, Settle(c)
  PROVE  MeterInv'
<1>1. phase' = [phase EXCEPT ![c] = "settled"] /\ UNCHANGED <<seen, failed, insert, provider>>
  BY DEF Settle
<1>2. phase' \in [Calls -> Phases] /\ phase'[c] = "settled"
  BY <1>1 DEF MeterInv, Typed, Phases, Opened
<1>3. CASE c \in failed /\ usage[c] # NoRow /\ faulty' = faulty
           /\ usage' = [usage EXCEPT ![c].status = "api_error"]
  <2> DEFINE row == [usage[c] EXCEPT !.status = "api_error"]
  <2>1. usage[c] \in Rows /\ usage' = [usage EXCEPT ![c] = row]
    BY <1>3 DEF MeterInv, Typed
  <2>2. row \in Rows /\ row.status = "api_error"
    BY <2>1 DEF Rows
  <2>3. usage'[c] = row /\ row # NoRow
    BY <2>1, <2>2, RowTypes DEF MeterInv, Typed
  <2> HIDE DEF row
  <2>4. Typed'
    BY <1>1, <1>2, <1>3, <2>1, <2>2 DEF MeterInv, Typed
  <2>5. CallInv(c)'
    BY <1>1, <1>2, <1>3, <2>2, <2>3 DEF MeterInv, Typed, CallInv, Opened, Settle
  <2> QED BY <1>1, <1>3, <2>1, <2>4, <2>5, CallFrame DEF MeterInv, Typed
<1>4. CASE UNCHANGED usage /\ faulty' = faulty /\ (c \notin failed \/ usage[c] = NoRow)
  <2>1. Typed'
    BY <1>1, <1>2, <1>4 DEF MeterInv, Typed
  <2>2. CallInv(c)'
    BY <1>1, <1>2, <1>4 DEF MeterInv, Typed, CallInv, Opened, Settle
  <2> QED BY <1>1, <1>4, <2>1, <2>2, CallFrame DEF MeterInv, Typed
<1>5. CASE UNCHANGED usage /\ faulty' = faulty \union {c} /\ c \in failed
  <2>1. Typed'
    BY <1>1, <1>2, <1>5 DEF MeterInv, Typed
  <2>2. CallInv(c)'
    BY <1>1, <1>2, <1>5 DEF MeterInv, Typed, CallInv, Opened, Settle
  <2>3. \A d \in Calls \ {c} : phase'[d] = phase[d] /\ (d \in faulty') = (d \in faulty)
    BY <1>1, <1>5 DEF MeterInv, Typed
  <2> QED BY <1>1, <1>5, <2>1, <2>2, <2>3, CallFrame
<1> QED BY <1>3, <1>4, <1>5 DEF Settle

LEMMA MeterStep == MeterInv /\ [Next]_vars => MeterInv'
<1> SUFFICES ASSUME MeterInv, [Next]_vars PROVE MeterInv'
  OBVIOUS
<1>1. CASE UNCHANGED vars
  BY <1>1 DEF vars, MeterInv, Typed, CallInv
<1>2. ASSUME NEW c \in Calls, BillableFrame(c) \/ ErrorFrame(c) \/ Drain(c) PROVE MeterInv'
  BY <1>2, SeeKeeps DEF BillableFrame, ErrorFrame, Drain
<1>3. ASSUME NEW c \in Calls, Report(c) PROVE MeterInv'
  BY <1>3, RecordKeeps DEF Report
<1> QED BY <1>1, <1>2, <1>3, PhaseKeeps, ProviderKeeps, InsertKeeps, SettleKeeps DEF Next, Proxy

-----------------------------------------------------------------------------
(* Theorems *)

(* Every reachable state is well typed: no call counts as failed, and no        *)
(* placeholder is started, without a billable frame.                            *)
THEOREM TypeCorrect == Spec => []TypeOK
<1>1. MeterInv => TypeOK
  BY DEF MeterInv, Typed, CallInv, TypeOK, Phases, Opened, Rows, Steps
<1> QED BY <1>1, MeterStart, MeterStep, PTL DEF Spec

(* proxyLlmSse: a settled call is recorded as it was seen to end, in whatever    *)
(* order placeholder, report and correction came.                               *)
THEOREM SettledSafety == Spec => []SettledAsSeen
<1>1. MeterInv => SettledAsSeen
  <2> SUFFICES ASSUME MeterInv, NEW c \in Calls \ faulty, phase[c] = "settled", c \in seen
               PROVE  usage[c].status = (IF c \in failed THEN "api_error" ELSE "success")
    BY DEF SettledAsSeen
  <2>1. usage[c] # NoRow
    BY DEF MeterInv, Typed, CallInv
  <2>2. usage[c] \in Rows
    BY <2>1 DEF MeterInv, Typed
  <2> QED BY <2>2, RowTypes DEF MeterInv, CallInv
<1> QED BY <1>1, MeterStart, MeterStep, PTL DEF Spec

(* recordAiUsage, markAiUsageFailed: late and repeated writes never take from a *)
(* row what it has.                                                             *)
THEOREM RowsSafety == Spec => RowsOnlyGain
<1> DEFINE Gain(c) == /\ usage[c].tokens => usage'[c].tokens
                      /\ usage[c].status = "api_error" => usage'[c].status = "api_error"
                      /\ usage[c] # NoRow => usage'[c] # NoRow
<1>1. ASSUME MeterInv, [Next]_vars PROVE [\A c \in Calls : Gain(c)]_usage
  <2>1. ASSUME NEW c \in Calls, NEW tokens \in BOOLEAN, Record(c, tokens)
        PROVE  \A d \in Calls : Gain(d)
    <3>1. usage' = [usage EXCEPT ![c] = Upsert(c, tokens)]
      BY <2>1 DEF Record
    <3>2. Gain(c)
      <4>1. usage'[c] = Upsert(c, tokens)
        BY <3>1, <1>1 DEF MeterInv, Typed
      <4> QED BY <4>1, <1>1, UpsertResult, RowTypes DEF MeterInv
    <3>3. \A d \in Calls \ {c} : Gain(d)
      BY <3>1, <1>1 DEF MeterInv, Typed
    <3> QED BY <3>2, <3>3
  <2>2. ASSUME NEW c \in Calls, usage[c] # NoRow, usage' = [usage EXCEPT ![c].status = "api_error"]
        PROVE  \A d \in Calls : Gain(d)
    <3>1. usage[c] \in Rows
      BY <2>2, <1>1 DEF MeterInv, Typed
    <3>2. usage'[c] = [usage[c] EXCEPT !.status = "api_error"]
      BY <2>2, <1>1 DEF MeterInv, Typed
    <3>3. usage'[c] \in Rows /\ usage'[c].status = "api_error" /\ usage'[c].tokens = usage[c].tokens
      BY <3>1, <3>2 DEF Rows
    <3>4. \A d \in Calls \ {c} : usage'[d] = usage[d]
      BY <2>2, <1>1 DEF MeterInv, Typed
    <3> QED BY <3>3, <3>4, RowTypes
  <2> HIDE DEF Gain
  <2>3. \/ UNCHANGED usage
        \/ \E c \in Calls : Record(c, TRUE) \/ Record(c, FALSE)
        \/ \E c \in Calls : usage[c] # NoRow /\ usage' = [usage EXCEPT ![c].status = "api_error"]
    BY <1>1 DEF Next, Proxy, Gate, OpenStream, ProviderReturns, BillableFrame,
                ErrorFrame, EndStream, Drain, InsertPlaceholder, Settle, Report, vars
  <2> QED BY <2>1, <2>2, <2>3
<1> QED BY <1>1, MeterStart, MeterStep, PTL DEF Spec, RowsOnlyGain

-----------------------------------------------------------------------------
(* The quota *)

LEMMA RowStep ==
  ASSUME MeterInv, [Next]_vars
  PROVE  \E c : \A d \in Calls : usage'[d] # NoRow => usage[d] # NoRow \/ d = c
<1>1. ASSUME NEW c \in Calls, NEW r, usage' = [usage EXCEPT ![c] = r]
      PROVE  \A d \in Calls : usage'[d] # NoRow => usage[d] # NoRow \/ d = c
  BY <1>1 DEF MeterInv, Typed
<1>2. \/ UNCHANGED usage
      \/ \E c \in Calls, r \in {NoRow} \union Rows : usage' = [usage EXCEPT ![c] = r]
  <2>1. ASSUME NEW c \in Calls, NEW tokens \in BOOLEAN, Record(c, tokens)
        PROVE  \E r \in {NoRow} \union Rows : usage' = [usage EXCEPT ![c] = r]
    BY <2>1, UpsertResult DEF Record, MeterInv
  <2>2. ASSUME NEW c \in Calls, usage[c] # NoRow, usage' = [usage EXCEPT ![c].status = "api_error"]
        PROVE  \E r \in {NoRow} \union Rows : usage' = [usage EXCEPT ![c] = r]
    <3>1. usage[c] \in Rows
      BY <2>2 DEF MeterInv, Typed
    <3>2. [usage[c] EXCEPT !.status = "api_error"] \in Rows
      BY <3>1 DEF Rows
    <3> QED BY <2>2, <3>2
  <2>3. \/ UNCHANGED usage
        \/ \E c \in Calls : Record(c, TRUE) \/ Record(c, FALSE)
        \/ \E c \in Calls : usage[c] # NoRow /\ usage' = [usage EXCEPT ![c].status = "api_error"]
    BY DEF Next, Proxy, Gate, OpenStream, ProviderReturns, BillableFrame,
           ErrorFrame, EndStream, Drain, InsertPlaceholder, Settle, Report, vars
  <2> QED BY <2>1, <2>2, <2>3
<1> QED BY <1>1, <1>2

(* countBillableCalls counts finitely many rows, whatever calls there are. *)
LEMMA BillableStep ==
  ASSUME MeterInv, IsFiniteSet(Billable), [Next]_vars
  PROVE  IsFiniteSet(Billable')
<1>1. Billable = {c \in Calls : usage[c] # NoRow}
  BY RowTypes DEF Billable, MeterInv, Typed
<1>2. Billable' = {c \in Calls : usage'[c] # NoRow}
  BY MeterStep, RowTypes DEF Billable, MeterInv, Typed
<1>3. PICK c : Billable' \subseteq Billable \union {c}
  BY <1>1, <1>2, RowStep
<1>4. IsFiniteSet(Billable \union {c})
  BY FS_AddElement
<1> QED BY <1>3, <1>4, FS_Subset

(* checkAiQuota and the placeholder: no call is let in while the calls whose     *)
(* billable frame has passed by use the quota up, failed or not, in whatever     *)
(* order placeholders, reports and corrections came.                             *)
THEOREM GateSafety == Spec => GateSeesStreams
<1>1. ASSUME MeterInv, IsFiniteSet(Billable), [Next]_vars,
             NEW c \in Calls, phase[c] = "new", phase'[c] = "admitted"
      PROVE  Cardinality({d \in seen \ faulty : insert[d] # "started"}) < Limit
  <2>1. PICK S : S = {d \in seen \ faulty : insert[d] # "started"}
    OBVIOUS
  <2>2. Cardinality(Billable) < Limit
    <3>2. ASSUME NEW d \in Calls, Gate(d), ~(Cardinality(Billable) < Limit) PROVE FALSE
      <4>1. phase' = [phase EXCEPT ![d] = "denied"]
        BY <3>2 DEF Gate
      <4> QED BY <1>1, <4>1 DEF MeterInv, Typed
    <3>3. ASSUME NEW d \in Calls,
                 OpenStream(d) \/ EndStream(d) \/ Drain(d) \/ Settle(d)
          PROVE  FALSE
      <4>1. phase[d] # "new" /\ \E p : phase' = [phase EXCEPT ![d] = p]
        BY <3>3 DEF OpenStream, EndStream, Drain, Settle
      <4> QED BY <1>1, <4>1 DEF MeterInv, Typed
    <3>4. ASSUME phase' = phase PROVE FALSE
      BY <1>1, <3>4
    <3> QED BY <1>1, <3>2, <3>3, <3>4 DEF Next, Proxy, ProviderReturns, BillableFrame,
              ErrorFrame, InsertPlaceholder, Report, vars
  <2>3. S \subseteq Billable
    <3>1. ASSUME NEW d \in S PROVE d \in Billable
      <4>1. d \in Calls /\ d \in seen /\ d \notin faulty /\ insert[d] = "over"
        BY <1>1, <2>1 DEF MeterInv, Typed, CallInv
      <4>2. usage[d] \in Rows
        BY <1>1, <4>1 DEF MeterInv, Typed, CallInv
      <4> QED BY <4>1, <4>2, RowTypes DEF Billable
    <3> QED BY <3>1
  <2>4. Cardinality(S) <= Cardinality(Billable) /\ IsFiniteSet(S)
    BY <1>1, <2>3, FS_Subset
  <2>5. Cardinality(S) \in Nat /\ Cardinality(Billable) \in Nat /\ Limit \in Nat
    BY <1>1, <2>4, FS_CardinalityType, MeteringAssumption
  <2> QED BY <2>1, <2>2, <2>4, <2>5
<1>2. Init => IsFiniteSet(Billable)
  <2> SUFFICES ASSUME Init PROVE IsFiniteSet(Billable)
    OBVIOUS
  <2>1. Billable = {}
    BY RowTypes DEF Init, Billable
  <2> QED BY <2>1, FS_EmptySet
<1>3. MeterInv /\ IsFiniteSet(Billable) /\ [Next]_vars => IsFiniteSet(Billable)'
  BY BillableStep
<1>4. MeterInv /\ IsFiniteSet(Billable) /\ [Next]_vars =>
        [\A c \in Calls :
           phase[c] = "new" /\ phase'[c] = "admitted" =>
             Cardinality({d \in seen \ faulty : insert[d] # "started"}) < Limit]_vars
  BY <1>1
<1> QED BY <1>2, <1>3, <1>4, MeterStart, MeterStep, PTL DEF Spec, GateSeesStreams
=============================================================================
