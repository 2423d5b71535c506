------------------------ MODULE AnalystSessionProofs ------------------------
(***************************************************************************)
(* Proofs about AnalystSession: whatever connections are lost and whatever *)
(* processes die, a real session has one request outstanding at most, each *)
(* decision is asked for once, what is spent stays below the ceilings, and *)
(* the journal only grows.                                                 *)
(***************************************************************************)
EXTENDS AnalystSession, FiniteSetTheorems, TLAPS

-----------------------------------------------------------------------------
(* The inductive invariant. *)

\* The holder of the lock works on the value in the row (a limit is kept in
\* memory until the report), and no report has been saved.
SyncInv ==
  \A p \in Processes :
    /\ lock = p => /\ proc[p] # Idle /\ row.report = "none"
                   /\ \/ proc[p].value = row
                      \/ proc[p].pc = "finalize" /\ proc[p].value = Limited(row)
    /\ proc[p] # Idle => proc[p].value.backend = row.backend
    /\ proc[p].pc \in {"reserve", "wait"} => row.backend = "real"

\* One usage entry per decision of a real session; only the last one can be
\* anything but known.
UsageInv ==
  /\ row.backend = "fake" => row.usage = << >>
  /\ row.backend = "real" => Len(row.usage) = row.iterations
  /\ Len(row.usage) <= ProviderRequests
  /\ \A i \in DOMAIN row.usage : i # Len(row.usage) => row.usage[i] = "KNOWN"

Last == Len(row.usage)
Unsettled == Last > 0 /\ row.usage[Last] # "KNOWN"

\* p, perhaps on a lost connection, is about to send or waits for an answer.
Spending(p) == row.backend = "real" /\ proc[p].pc \in {"reserve", "invoke", "wait"}

\* A spender is alone, and its entry is unsettled until it saves the answer.
SpenderInv ==
  /\ \A p \in Processes : Spending(p) =>
       /\ Unsettled
       /\ Value(p).iterations = Last
       /\ lock = p => row.usage[Last] = "RESERVED"
       /\ provider.spent = row.tokens
       /\ proc[p].pc = "wait" => provider.open = {Last}
       /\ proc[p].pc # "wait" =>
            provider.open = {} /\ \A i \in DOMAIN provider.sent : provider.sent[i] < Last
  /\ \A p, q \in Processes : Spending(p) /\ Spending(q) => p = q

\* What the provider knows and what the journal says.
LedgerInv ==
  /\ provider.open # {} =>
       Unsettled /\ provider.open = {Last} /\ provider.spent = row.tokens
  /\ ~Unsettled => provider.spent = row.tokens
  /\ row.tokens <= TokenCeiling
  /\ Unsettled => row.tokens + RequestBound <= TokenCeiling
  /\ provider.spent <= row.tokens + RequestBound
  /\ \A i \in DOMAIN provider.sent : i <= provider.sent[i] /\ provider.sent[i] <= Last
  /\ \A i, j \in DOMAIN provider.sent : i < j => provider.sent[i] < provider.sent[j]

\* A call is executed after its journal entry was saved, and counted once.
ToolInv ==
  /\ \A k \in Keys : ran[k] = IF row.calls[k] = "absent" THEN 0 ELSE 1
  /\ row.tool_calls = Cardinality({k \in Keys : row.calls[k] # "absent"})

IInv ==
  TypeOK /\ SyncInv /\ UsageInv /\ SpenderInv /\ LedgerInv /\ ToolInv /\ ApprovalMatchesPlan

-----------------------------------------------------------------------------
(* What the updates of a session value change. *)

\* The fields an update of the spending journal touches are left alone.
SameSpending(v, w) ==
  /\ w.backend = v.backend /\ w.usage = v.usage /\ w.tokens = v.tokens
  /\ v.backend = "real" => w.iterations = v.iterations

SameCalls(v, w) == w.calls = v.calls /\ w.tool_calls = v.tool_calls

Approved(v) == v.approval # NoPlan => v.approval = v.plan

\* An update that only moves the investigation on.
Moves(v, w) ==
  /\ w \in SessionRow
  /\ SameSpending(v, w) /\ SameCalls(v, w) /\ Grown(v, w)
  /\ Approved(v) => Approved(w)

LEMMA GrownRefl ==
  ASSUME NEW v \in SessionRow
  PROVE  Grown(v, v)
BY DEF Grown, SessionRow

\* The two functions a resume rewrites.
LEMMA RecoveredFields ==
  ASSUME NEW v \in SessionRow
  PROVE  /\ Recovered(v) \in SessionRow
         /\ SameCalls(v, Recovered(v)) \/ v.inflight # "none"
         /\ Recovered(v).backend = v.backend /\ Recovered(v).iterations = v.iterations
         /\ Recovered(v).tool_calls = v.tool_calls /\ Recovered(v).tokens = v.tokens
         /\ Recovered(v).report = v.report /\ Recovered(v).plan = v.plan
         /\ Recovered(v).approval = v.approval
         /\ DOMAIN Recovered(v).usage = DOMAIN v.usage /\ Len(Recovered(v).usage) = Len(v.usage)
         /\ \A i \in DOMAIN v.usage :
              \/ Recovered(v).usage[i] = v.usage[i]
              \/ v.usage[i] = "RESERVED" /\ Recovered(v).usage[i] = "INTERRUPTED"
         /\ \A k \in Keys :
              \/ Recovered(v).calls[k] = v.calls[k]
              \/ v.calls[k] = "RUNNING" /\ Recovered(v).calls[k] = "INTERRUPTED"
<1> DEFINE U == [i \in DOMAIN v.usage |-> IF v.usage[i] = "RESERVED" THEN "INTERRUPTED" ELSE v.usage[i]]
           C == [k \in Keys |-> IF v.calls[k] = "RUNNING" THEN "INTERRUPTED" ELSE v.calls[k]]
<1>1. v.usage \in Seq(UsageStatus) /\ v.calls \in [Keys -> CallStatus]
  BY DEF SessionRow
<1>2. U \in Seq(UsageStatus) /\ Len(U) = Len(v.usage) /\ DOMAIN U = DOMAIN v.usage
  BY <1>1 DEF UsageStatus
<1>3. C \in [Keys -> CallStatus]
  BY <1>1 DEF CallStatus
<1>4. \A i \in DOMAIN v.usage :
        U[i] = v.usage[i] \/ (v.usage[i] = "RESERVED" /\ U[i] = "INTERRUPTED")
  OBVIOUS
<1>5. \A k \in Keys :
        C[k] = v.calls[k] \/ (v.calls[k] = "RUNNING" /\ C[k] = "INTERRUPTED")
  OBVIOUS
<1>6. CASE v.inflight = "none"
  BY <1>6 DEF Recovered, SessionRow, SameCalls
<1>7. CASE v.inflight # "none"
  <2> HIDE DEF U, C
  <2>1. Recovered(v) = [v EXCEPT !.inflight = "none", !.error = "none", !.usage = U, !.calls = C]
    BY <1>7 DEF Recovered, U, C
  <2>2. Recovered(v).usage = U /\ Recovered(v).calls = C
    BY <2>1 DEF SessionRow
  <2>3. /\ Recovered(v) \in SessionRow
        /\ Recovered(v).backend = v.backend /\ Recovered(v).iterations = v.iterations
        /\ Recovered(v).tool_calls = v.tool_calls /\ Recovered(v).tokens = v.tokens
        /\ Recovered(v).report = v.report /\ Recovered(v).plan = v.plan
        /\ Recovered(v).approval = v.approval
    BY ZenonT(40), <2>1, <1>2, <1>3 DEF SessionRow
  <2> QED  BY <1>7, <1>2, <1>4, <1>5, <2>2, <2>3
<1> QED  BY <1>6, <1>7

LEMMA RecoveredGrows ==
  ASSUME NEW v \in SessionRow
  PROVE  Grown(v, Recovered(v))
BY RecoveredFields DEF Grown, SessionRow

LEMMA RefusedFields ==
  ASSUME NEW v \in SessionRow
  PROVE  Moves(v, [v EXCEPT !.error = "SPEND_PREFLIGHT_BLOCKED"])
BY DEF Moves, SameSpending, SameCalls, Approved, Grown, SessionRow

LEMMA WithPlanFields ==
  ASSUME NEW v \in SessionRow, NEW plan \in Plans \cup {NoPlan}
  PROVE  Moves(v, WithPlan(v, plan)) /\ WithPlan(v, plan).report = v.report
<1> DEFINE A == IF plan = v.plan THEN v.approval ELSE NoPlan
<1>1. A \in Plans \cup {NoPlan} /\ (A # NoPlan => v.approval = A /\ plan = v.plan)
  BY DEF SessionRow
<1>2. WithPlan(v, plan) = [v EXCEPT !.plan = plan, !.approval = A]
  BY DEF WithPlan, SessionRow
<1> HIDE DEF A
<1>3. /\ WithPlan(v, plan) \in SessionRow
      /\ SameSpending(v, WithPlan(v, plan)) /\ SameCalls(v, WithPlan(v, plan))
      /\ WithPlan(v, plan).report = v.report /\ WithPlan(v, plan).iterations = v.iterations
      /\ WithPlan(v, plan).plan = plan /\ WithPlan(v, plan).approval = A
  BY ZenonT(40), <1>1, <1>2 DEF SessionRow, SameSpending, SameCalls
<1>4. Approved(v) => Approved(WithPlan(v, plan))
  BY <1>1, <1>3 DEF Approved
<1>5. Grown(v, WithPlan(v, plan))
  BY <1>3 DEF Grown, SameCalls, SameSpending, SessionRow
<1> QED  BY <1>3, <1>4, <1>5 DEF Moves

LEMMA ApprovedFields ==
  ASSUME NEW v \in SessionRow, NEW plan \in Plans, v.plan = plan
  PROVE  Moves(v, [v EXCEPT !.approval = plan])
BY DEF Moves, SameSpending, SameCalls, Approved, Grown, SessionRow

LEMMA ObservedFields ==
  ASSUME NEW v \in SessionRow
  PROVE  Moves(v, Observed(v))
BY DEF Observed, Moves, SameSpending, SameCalls, Approved, Grown, SessionRow

LEMMA LimitedFields ==
  ASSUME NEW v \in SessionRow
  PROVE  Moves(v, Limited(v)) /\ Limited(v).report = v.report
<1>1. /\ Limited(v) \in SessionRow
      /\ SameSpending(v, Limited(v)) /\ SameCalls(v, Limited(v))
      /\ Limited(v).report = v.report /\ Limited(v).iterations = v.iterations
      /\ Limited(v).plan = v.plan /\ Limited(v).approval = v.approval
  BY DEF Limited, SessionRow, SameSpending, SameCalls
<1> QED  BY <1>1 DEF Moves, SameSpending, SameCalls, Approved, Grown, SessionRow

LEMMA RejectedFields ==
  ASSUME NEW v \in SessionRow
  PROVE  Moves(v, Rejected(v))
<1> DEFINE E == IF v.iterations >= MaxDecisions THEN "INVALID_ATTRIBUTION" ELSE "none"
<1>1. E \in {"none", "BACKEND_DECISION_FAILED", "INVALID_ATTRIBUTION", "SPEND_PREFLIGHT_BLOCKED"}
  OBVIOUS
<1>2. Rejected(v) = [v EXCEPT !.pending = NoPending, !.error = E]
  BY DEF Rejected
<1> HIDE DEF E
<1>3. /\ Rejected(v) \in SessionRow
      /\ SameSpending(v, Rejected(v)) /\ SameCalls(v, Rejected(v))
      /\ Rejected(v).report = v.report /\ Rejected(v).iterations = v.iterations
      /\ Rejected(v).plan = v.plan /\ Rejected(v).approval = v.approval
  BY ZenonT(40), <1>1, <1>2 DEF SessionRow, SameSpending, SameCalls
<1> QED  BY <1>3 DEF Moves, SameSpending, SameCalls, Approved, Grown, SessionRow

LEMMA ReportedFields ==
  ASSUME NEW v \in SessionRow, v.report = "none"
  PROVE  Moves(v, Reported(v))
<1> DEFINE plan == IF v.pending.kind = "final" THEN v.pending.plan ELSE NoPlan
           R == CASE v.limit_reason # "none" -> "LIMIT_REACHED"
                  [] v.limit_reason = "none" /\ v.pending.kind = "abstain" -> "ABSTAINED"
                  [] OTHER -> "COMPLETED"
           w == WithPlan(v, plan)
<1>1. plan \in Plans \cup {NoPlan}
  <2>1. v.pending \in Decisions \cup {NoPending}
    BY DEF SessionRow
  <2> QED  BY <2>1 DEF Decisions, ToolDecisions, FinalDecisions, Abstain, NoPending
<1>2. R \in {"none", "COMPLETED", "ABSTAINED", "LIMIT_REACHED"}
  OBVIOUS
<1>3. Reported(v) = [w EXCEPT !.pending = NoPending, !.report = R]
  BY DEF Reported
<1> HIDE DEF plan, R
<1>4. Moves(v, w) /\ w.report = v.report
  BY <1>1, WithPlanFields
<1> HIDE DEF w
<1>5. w \in SessionRow
  BY <1>4 DEF Moves
<1>6. /\ Reported(v) \in SessionRow
      /\ SameSpending(w, Reported(v)) /\ SameCalls(w, Reported(v))
      /\ Reported(v).plan = w.plan /\ Reported(v).approval = w.approval
      /\ Reported(v).iterations = w.iterations
  BY ZenonT(40), <1>2, <1>3, <1>5 DEF SameSpending, SameCalls, SessionRow
<1>7. Approved(v) => Approved(Reported(v))
  BY <1>4, <1>6 DEF Moves, Approved
<1>8. SameSpending(v, Reported(v)) /\ SameCalls(v, Reported(v))
  BY <1>4, <1>6 DEF Moves, SameSpending, SameCalls
<1>9. Grown(v, Reported(v))
  BY <1>4, <1>6, <1>8 DEF Moves, Grown, SameCalls, SameSpending, SessionRow
<1> QED  BY <1>6, <1>7, <1>8, <1>9 DEF Moves

LEMMA CalledFields ==
  ASSUME NEW v \in SessionRow, NEW k \in Keys, v.calls[k] = "absent",
         v.tool_calls < MaxTools, AnalystAssumption
  PROVE  /\ Called(v, k) \in SessionRow
         /\ SameSpending(v, Called(v, k)) /\ Grown(v, Called(v, k))
         /\ Approved(v) => Approved(Called(v, k))
         /\ Called(v, k).report = v.report
         /\ Called(v, k).tool_calls = v.tool_calls + 1
         /\ Called(v, k).calls = [v.calls EXCEPT ![k] = "RUNNING"]
<1> DEFINE C == [v.calls EXCEPT ![k] = "RUNNING"]
<1>1. C \in [Keys -> CallStatus]
  BY DEF SessionRow, CallStatus
<1>2. \A j \in Keys : v.calls[j] \notin {"absent", "RUNNING"} => C[j] = v.calls[j]
  BY DEF SessionRow
<1>3. v.tool_calls + 1 \in 0 .. MaxTools
  BY DEF SessionRow, AnalystAssumption
<1>4. Called(v, k) = [v EXCEPT !.tool_calls = v.tool_calls + 1, !.inflight = "tool", !.calls = C]
  BY DEF Called, SessionRow
<1> HIDE DEF C
<1>5. /\ Called(v, k) \in SessionRow
      /\ SameSpending(v, Called(v, k)) /\ (Approved(v) => Approved(Called(v, k)))
      /\ Called(v, k).report = v.report
      /\ Called(v, k).tool_calls = v.tool_calls + 1
      /\ Called(v, k).calls = C /\ Called(v, k).iterations = v.iterations
  BY ZenonT(40), <1>1, <1>3, <1>4 DEF SessionRow, SameSpending, Approved
<1>6. Grown(v, Called(v, k))
  BY <1>2, <1>5 DEF Grown, SameSpending, SessionRow
<1> QED  BY <1>5, <1>6 DEF C

LEMMA ReturnedFields ==
  ASSUME NEW v \in SessionRow, NEW k \in Keys, v.calls[k] = "RUNNING",
         NEW status \in {"COMPLETED", "FAILED"}
  PROVE  /\ Returned(v, k, status) \in SessionRow
         /\ SameSpending(v, Returned(v, k, status)) /\ Grown(v, Returned(v, k, status))
         /\ Approved(v) => Approved(Returned(v, k, status))
         /\ Returned(v, k, status).report = v.report
         /\ Returned(v, k, status).tool_calls = v.tool_calls
         /\ \A j \in Keys : Returned(v, k, status).calls[j] = "absent" <=> v.calls[j] = "absent"
<1> DEFINE C == [v.calls EXCEPT ![k] = status]
<1>1. C \in [Keys -> CallStatus]
  BY DEF SessionRow, CallStatus
<1>2. \A j \in Keys : /\ v.calls[j] \notin {"absent", "RUNNING"} => C[j] = v.calls[j]
                      /\ C[j] = "absent" <=> v.calls[j] = "absent"
  BY DEF SessionRow
<1>4. Returned(v, k, status) = [v EXCEPT !.inflight = "none", !.calls = C]
  BY DEF Returned, SessionRow
<1> HIDE DEF C
<1>5. /\ Returned(v, k, status) \in SessionRow
      /\ SameSpending(v, Returned(v, k, status))
      /\ Approved(v) => Approved(Returned(v, k, status))
      /\ Returned(v, k, status).report = v.report
      /\ Returned(v, k, status).tool_calls = v.tool_calls
      /\ Returned(v, k, status).calls = C /\ Returned(v, k, status).iterations = v.iterations
  BY ZenonT(40), <1>1, <1>4 DEF SessionRow, SameSpending, Approved
<1>6. Grown(v, Returned(v, k, status))
  BY <1>2, <1>5 DEF Grown, SameSpending, SessionRow
<1> QED  BY <1>2, <1>5, <1>6

LEMMA BegunFields ==
  ASSUME NEW v \in SessionRow, v.iterations < MaxDecisions, AnalystAssumption
  PROVE  /\ Begun(v) \in SessionRow
         /\ SameCalls(v, Begun(v)) /\ Grown(v, Begun(v))
         /\ Approved(v) => Approved(Begun(v))
         /\ Begun(v).report = v.report /\ Begun(v).backend = v.backend
         /\ Begun(v).iterations = v.iterations + 1 /\ Begun(v).tokens = v.tokens
         /\ Begun(v).usage = IF Real(v) THEN Append(v.usage, "RESERVED") ELSE v.usage
<1> DEFINE U == IF Real(v) THEN Append(v.usage, "RESERVED") ELSE v.usage
<1>1. v.usage \in Seq(UsageStatus) /\ "RESERVED" \in UsageStatus
  BY DEF SessionRow, UsageStatus
<1>2. /\ U \in Seq(UsageStatus) /\ Len(U) >= Len(v.usage)
      /\ \A i \in DOMAIN v.usage : U[i] = v.usage[i]
  BY <1>1
<1>3. v.iterations + 1 \in 0 .. MaxDecisions
  BY DEF SessionRow, AnalystAssumption
<1>4. Begun(v) = [v EXCEPT !.iterations = v.iterations + 1, !.inflight = "decision",
                           !.error = "none", !.usage = U]
  BY DEF Begun, SessionRow
<1> HIDE DEF U
<1>5. /\ Begun(v) \in SessionRow
      /\ SameCalls(v, Begun(v)) /\ (Approved(v) => Approved(Begun(v)))
      /\ Begun(v).report = v.report /\ Begun(v).backend = v.backend
      /\ Begun(v).iterations = v.iterations + 1 /\ Begun(v).tokens = v.tokens
      /\ Begun(v).usage = U
  BY ZenonT(40), <1>1, <1>2, <1>3, <1>4 DEF SessionRow, SameCalls, Approved
<1>6. Grown(v, Begun(v))
  BY <1>2, <1>5 DEF Grown, SameCalls, SessionRow
<1> QED  BY <1>5, <1>6 DEF U

\* The usage entry a real decision is about to settle.
Reserved(v) == Real(v) => Len(v.usage) > 0 /\ v.usage[Len(v.usage)] = "RESERVED"

SavesUsage(v, w, u, t) ==
  /\ w.tokens = IF u = "KNOWN" THEN v.tokens + t ELSE v.tokens
  /\ w.usage = IF Real(v) THEN [v.usage EXCEPT ![Len(v.usage)] = u] ELSE v.usage

SavesOutcome(v, w, d) ==
  /\ w \in SessionRow /\ SameCalls(v, w) /\ Grown(v, w)
  /\ Approved(v) => Approved(w)
  /\ w.report = v.report /\ w.backend = v.backend /\ w.iterations = v.iterations
  /\ w.pending = d /\ (w.error = "none" => d # NoPending)

LEMMA DecidedFields ==
  ASSUME NEW v \in SessionRow, NEW d \in Decisions \cup {NoPending},
         NEW u \in {"KNOWN", "UNKNOWN"}, NEW t \in Nat, Reserved(v)
  PROVE  SavesOutcome(v, Decided(v, d, u, t), d) /\ SavesUsage(v, Decided(v, d, u, t), u, t)
<1> DEFINE U == IF Real(v) THEN [v.usage EXCEPT ![Len(v.usage)] = u] ELSE v.usage
           T == IF u = "KNOWN" THEN v.tokens + t ELSE v.tokens
           E == IF d = NoPending THEN "BACKEND_DECISION_FAILED" ELSE "none"
<1>1. v.usage \in Seq(UsageStatus) /\ u \in UsageStatus /\ v.tokens \in Nat
  BY DEF SessionRow, UsageStatus
<1>2. /\ U \in Seq(UsageStatus) /\ Len(U) >= Len(v.usage)
      /\ \A i \in DOMAIN v.usage : v.usage[i] # "RESERVED" => U[i] = v.usage[i]
  BY <1>1 DEF Reserved
<1>3. T \in Nat
  BY <1>1
<1>4. E \in {"none", "BACKEND_DECISION_FAILED", "INVALID_ATTRIBUTION", "SPEND_PREFLIGHT_BLOCKED"}
  OBVIOUS
<1>w. PICK w : w = Decided(v, d, u, t)
  OBVIOUS
<1>5. w = [v EXCEPT !.inflight = "none", !.pending = d, !.error = E, !.usage = U, !.tokens = T]
  BY <1>w DEF Decided, SessionRow
<1>9. E = "none" => d # NoPending
  OBVIOUS
<1> HIDE DEF U, T, E
<1>6. /\ w \in SessionRow
      /\ SameCalls(v, w) /\ (Approved(v) => Approved(w))
      /\ w.report = v.report /\ w.backend = v.backend /\ w.iterations = v.iterations
      /\ w.pending = d /\ w.error = E
      /\ w.tokens = T /\ w.usage = U
  BY <1>2, <1>3, <1>4, <1>5 DEF SessionRow, SameCalls, Approved
<1>7. Grown(v, w)
  BY <1>2, <1>6 DEF Grown, SameCalls, SessionRow
<1>8. SavesOutcome(v, w, d)
  BY <1>6, <1>7, <1>9 DEF SavesOutcome
<1>10. SavesUsage(v, w, u, t)
  BY <1>6 DEF SavesUsage, U, T
<1> QED  BY <1>8, <1>10, <1>w

\* A usable decision goes to the tools or to the report.
LEMMA DecidedNext ==
  ASSUME NEW w, w.pending \in Decisions \cup {NoPending}, w.pending # NoPending
  PROVE  NextNode(w) \in {"tools", "finalize"}
<1>1. w.pending.kind \in {"tools", "final", "abstain"}
  BY DEF Decisions, ToolDecisions, FinalDecisions, Abstain, NoPending
<1> QED  BY <1>1 DEF NextNode

LEMMA MovesTrans ==
  ASSUME NEW u \in SessionRow, NEW v \in SessionRow, NEW w \in SessionRow,
         Moves(u, v), Moves(v, w)
  PROVE  Moves(u, w)
<1>1. SameSpending(u, w) /\ SameCalls(u, w)
  BY DEF Moves, SameSpending, SameCalls
<1>2. u.report # "none" => w.report = u.report
  BY DEF Moves, Grown
<1>3. u.iterations \in Nat /\ v.iterations \in Nat /\ w.iterations \in Nat
  BY DEF SessionRow
<1>4. v.iterations >= u.iterations /\ w.iterations >= v.iterations
  BY DEF Moves, Grown
<1>5. Grown(u, w)
  BY <1>1, <1>2, <1>3, <1>4 DEF Grown, SameCalls, SameSpending, SessionRow
<1> QED  BY <1>1, <1>5 DEF Moves

-----------------------------------------------------------------------------
(* Parts of the step that many actions share. *)

LEMMA HolderValue ==
  ASSUME IInv, NEW p \in Processes, lock = p
  PROVE  /\ proc[p] \in Working /\ proc[p].value \in SessionRow
         /\ row.report = "none"
         /\ proc[p].pc # "finalize" => proc[p].value = row
         /\ proc[p].value = row \/ proc[p].value = Limited(row)
BY DEF IInv, TypeOK, SyncInv, Working

LEMMA BusyValue ==
  ASSUME IInv, NEW p \in Processes, proc[p].pc # "idle"
  PROVE  proc[p] \in Working /\ proc[p].value \in SessionRow /\ proc[p].value.backend = row.backend
BY DEF IInv, TypeOK, SyncInv, Working, Idle

\* A save that keeps the lock.
LEMMA SavedSync ==
  ASSUME AnalystAssumption, IInv, NEW p \in Processes, NEW w \in SessionRow, NEW pc \in Step,
         Saves(p, w, pc), w.backend = row.backend, w.report = row.report,
         pc \in {"reserve", "wait"} => row.backend = "real"
  PROVE  /\ SyncInv'
         /\ row' \in SessionRow /\ lock' \in Processes \cup {NoProcess}
         /\ proc' \in [Processes -> {Idle} \cup Working]
<1> DEFINE r == [pc |-> pc, value |-> w]
<1>1. r \in Working /\ r.pc = pc /\ r.value = w /\ r # Idle
  BY DEF Working, Idle, Step
<1>2. proc \in [Processes -> {Idle} \cup Working] /\ lock = p
  BY DEF IInv, TypeOK, Saves, Holds
<1>3. proc' = [proc EXCEPT ![p] = r] /\ row' = w /\ lock' = lock
  BY DEF Saves
<1> HIDE DEF r
<1>4. proc' \in [Processes -> {Idle} \cup Working]
  BY <1>1, <1>2, <1>3
<1>5. proc'[p] = r /\ \A q \in Processes : q # p => proc'[q] = proc[q]
  BY <1>2, <1>3
<1>6. SyncInv'
  BY <1>1, <1>2, <1>3, <1>5 DEF SyncInv, IInv
<1> QED  BY <1>2, <1>3, <1>4, <1>6

\* A process gives up or finishes, its last save included.
LEMMA LeftSync ==
  ASSUME AnalystAssumption, IInv, NEW p \in Processes, Leaves(p), row' \in SessionRow,
         row'.backend = row.backend, lock = p \/ row' = row
  PROVE  /\ SyncInv'
         /\ lock' \in Processes \cup {NoProcess}
         /\ proc' \in [Processes -> {Idle} \cup Working]
         /\ proc'[p] = Idle
         /\ \A q \in Processes : q # p => proc'[q] = proc[q]
         /\ lock' # p /\ \A q \in Processes : lock' = q => lock = q
<1>1. proc \in [Processes -> {Idle} \cup Working] /\ lock \in Processes \cup {NoProcess}
  BY DEF IInv, TypeOK
<1>2. proc' = [proc EXCEPT ![p] = Idle] /\ lock' = IF lock = p THEN NoProcess ELSE lock
  BY DEF Leaves
<1>3. proc'[p] = Idle /\ \A q \in Processes : q # p => proc'[q] = proc[q]
  BY <1>1, <1>2
<1>4. NoProcess \notin Processes
  BY DEF AnalystAssumption
<1>5. lock' # p /\ \A q \in Processes : lock' = q => lock = q /\ row' = row
  BY <1>1, <1>2, <1>4
<1>6. SyncInv'
  <2> SUFFICES ASSUME NEW q \in Processes
               PROVE  /\ lock' = q => /\ proc'[q] # Idle /\ row'.report = "none"
                                      /\ \/ proc'[q].value = row'
                                         \/ proc'[q].pc = "finalize" /\ proc'[q].value = Limited(row')
                      /\ proc'[q] # Idle => proc'[q].value.backend = row'.backend
                      /\ proc'[q].pc \in {"reserve", "wait"} => row'.backend = "real"
    BY DEF SyncInv
  <2>1. CASE q = p
    BY <2>1, <1>3, <1>5 DEF Idle
  <2>2. CASE q # p
    BY <2>2, <1>3, <1>5 DEF IInv, SyncInv
  <2> QED  BY <2>1, <2>2
<1> QED  BY <1>1, <1>2, <1>3, <1>4, <1>5, <1>6

\* Nothing that concerns the spending happened, and nobody became a spender.
LEMMA QuietSpending ==
  ASSUME IInv, SameSpending(row, row'), provider' = provider,
         \A p \in Processes : Spending(p)' =>
            /\ Spending(p) /\ Value(p)'.iterations = Value(p).iterations
            /\ (proc'[p].pc = "wait") <=> (proc[p].pc = "wait")
            /\ lock' = p => lock = p
  PROVE  UsageInv' /\ SpenderInv' /\ LedgerInv'
<1>1. /\ row'.backend = row.backend /\ row'.usage = row.usage /\ row'.tokens = row.tokens
      /\ row.backend = "real" => row'.iterations = row.iterations
  BY DEF SameSpending
<1>2. UsageInv'
  BY <1>1 DEF IInv, UsageInv
<1>3. Last' = Last /\ Unsettled' = Unsettled
  BY <1>1 DEF Last, Unsettled
<1>4. LedgerInv'
  BY <1>1, <1>3 DEF IInv, LedgerInv
<1>5. \A p, q \in Processes : Spending(p)' /\ Spending(q)' => p = q
  BY DEF IInv, SpenderInv
<1>6. ASSUME NEW p \in Processes, Spending(p)'
      PROVE  /\ Unsettled'
             /\ Value(p)'.iterations = Last'
             /\ lock' = p => row'.usage[Last'] = "RESERVED"
             /\ provider'.spent = row'.tokens
             /\ proc'[p].pc = "wait" => provider'.open = {Last'}
             /\ proc'[p].pc # "wait" =>
                  provider'.open = {} /\ \A i \in DOMAIN provider'.sent : provider'.sent[i] < Last'
  <2>1. Spending(p) /\ Value(p)'.iterations = Value(p).iterations
        /\ ((proc'[p].pc = "wait") <=> (proc[p].pc = "wait")) /\ (lock' = p => lock = p)
    BY <1>6
  <2>2. /\ Unsettled
        /\ Value(p).iterations = Last
        /\ lock = p => row.usage[Last] = "RESERVED"
        /\ provider.spent = row.tokens
        /\ proc[p].pc = "wait" => provider.open = {Last}
        /\ proc[p].pc # "wait" =>
             provider.open = {} /\ \A i \in DOMAIN provider.sent : provider.sent[i] < Last
    BY <2>1 DEF IInv, SpenderInv
  <2> QED  BY <1>1, <1>3, <2>1, <2>2
<1> QED  BY <1>2, <1>4, <1>5, <1>6 DEF SpenderInv

LEMMA SameTools ==
  ASSUME IInv, SameCalls(row, row'), ran' = ran
  PROVE  ToolInv'
BY DEF IInv, ToolInv, SameCalls

\* The last save of a step that only moves the investigation on.
LEMMA MovedAway ==
  ASSUME AnalystAssumption, IInv, NEW p \in Processes, NEW w, SavesAndLeaves(p, w),
         Moves(row, w), UNCHANGED <<provider, ran>>
  PROVE  IInv' /\ Grown(row, row')
<1>1. row' = w /\ lock = p /\ Leaves(p)
  BY DEF SavesAndLeaves, Holds
<1>2. row' \in SessionRow /\ SameSpending(row, row') /\ SameCalls(row, row') /\ Grown(row, row')
      /\ (Approved(row) => Approved(row'))
  BY <1>1 DEF Moves
<1>3. row'.backend = row.backend
  BY <1>2 DEF SameSpending
<1>4. /\ SyncInv' /\ lock' \in Processes \cup {NoProcess}
      /\ proc' \in [Processes -> {Idle} \cup Working]
      /\ proc'[p] = Idle /\ (\A q \in Processes : q # p => proc'[q] = proc[q])
      /\ lock' # p /\ \A q \in Processes : lock' = q => lock = q
  BY <1>1, <1>2, <1>3, LeftSync
<1>5. TypeOK'
  BY <1>2, <1>4 DEF IInv, TypeOK
<1>6. \A q \in Processes : Spending(q)' =>
            /\ Spending(q) /\ Value(q)'.iterations = Value(q).iterations
            /\ (proc'[q].pc = "wait") <=> (proc[q].pc = "wait")
            /\ lock' = q => lock = q
  BY <1>3, <1>4 DEF Spending, Value, Idle
<1>7. UsageInv' /\ SpenderInv' /\ LedgerInv'
  BY <1>2, <1>6, QuietSpending
<1>8. ToolInv'
  BY <1>2, SameTools
<1>9. ApprovalMatchesPlan'
  BY <1>2 DEF IInv, ApprovalMatchesPlan, Approved
<1> QED  BY <1>2, <1>4, <1>5, <1>7, <1>8, <1>9 DEF IInv

\* A process ends without saving anything.
LEMMA JustLeaves ==
  ASSUME AnalystAssumption, IInv, NEW p \in Processes, Leaves(p), UNCHANGED <<row, provider, ran>>
  PROVE  IInv' /\ Grown(row, row')
<1>1. row \in SessionRow
  BY DEF IInv, TypeOK
<1>2. SameSpending(row, row') /\ SameCalls(row, row') /\ Grown(row, row')
  BY <1>1, GrownRefl DEF SameSpending, SameCalls
<1>4. /\ SyncInv' /\ lock' \in Processes \cup {NoProcess}
      /\ proc' \in [Processes -> {Idle} \cup Working]
      /\ proc'[p] = Idle /\ (\A q \in Processes : q # p => proc'[q] = proc[q])
      /\ lock' # p /\ \A q \in Processes : lock' = q => lock = q
  BY <1>1, LeftSync
<1>5. TypeOK'
  BY <1>1, <1>4 DEF IInv, TypeOK
<1>6. \A q \in Processes : Spending(q)' =>
            /\ Spending(q) /\ Value(q)'.iterations = Value(q).iterations
            /\ (proc'[q].pc = "wait") <=> (proc[q].pc = "wait")
            /\ lock' = q => lock = q
  BY <1>4 DEF Spending, Value, Idle
<1>7. UsageInv' /\ SpenderInv' /\ LedgerInv'
  BY <1>2, <1>6, QuietSpending
<1>8. ToolInv'
  BY <1>2, SameTools
<1>9. ApprovalMatchesPlan'
  BY DEF IInv, ApprovalMatchesPlan
<1> QED  BY <1>2, <1>4, <1>5, <1>7, <1>8, <1>9 DEF IInv

-----------------------------------------------------------------------------
(* One lemma per action. *)

LEMMA InitInvariant ==
  ASSUME AnalystAssumption, Init
  PROVE  IInv
<1>1. PICK b \in {"fake", "real"} :
       row = [backend |-> b, iterations |-> 0, tool_calls |-> 0, inflight |-> "none",
              pending |-> NoPending, calls |-> [k \in Keys |-> "absent"], usage |-> << >>,
              tokens |-> 0, error |-> "none", limit_reason |-> "none", report |-> "none",
              plan |-> NoPlan, approval |-> NoPlan]
  BY DEF Init
<1>2. row \in SessionRow
  BY <1>1 DEF SessionRow, CallStatus, AnalystAssumption
<1>3. /\ proc = [p \in Processes |-> Idle] /\ lock = NoProcess /\ NoProcess \notin Processes
      /\ provider = [sent |-> << >>, open |-> {}, spent |-> 0] /\ ran = [k \in Keys |-> 0]
  BY DEF Init, AnalystAssumption
<1>4. TypeOK
  BY <1>2, <1>3 DEF TypeOK
<1>5. SyncInv
  BY <1>3 DEF SyncInv, Idle
<1>6. row.usage = << >> /\ row.iterations = 0 /\ row.tokens = 0 /\ ProviderRequests \in Nat
  BY <1>1 DEF AnalystAssumption
<1>7. UsageInv /\ ~Unsettled
  BY <1>6 DEF UsageInv, Unsettled, Last
<1>8. SpenderInv
  BY <1>3 DEF SpenderInv, Spending, Idle
<1>9. LedgerInv
  BY <1>3, <1>6, <1>7 DEF LedgerInv, AnalystAssumption
<1>10. ToolInv
  <2>1. \A k \in Keys : row.calls[k] = "absent"
    BY <1>1
  <2>2. {k \in Keys : row.calls[k] # "absent"} = {}
    BY <2>1
  <2> QED  BY <1>1, <1>3, <2>1, <2>2, FS_EmptySet DEF ToolInv
<1>11. ApprovalMatchesPlan
  BY <1>1 DEF ApprovalMatchesPlan
<1> QED  BY <1>4, <1>5, <1>7, <1>8, <1>9, <1>10, <1>11 DEF IInv

LEMMA ResumeStep ==
  ASSUME AnalystAssumption, IInv, NEW p \in Processes, Resume(p)
  PROVE  IInv' /\ Grown(row, row')
<1> DEFINE w == Recovered(row)
           r == [pc |-> NextNode(w), value |-> w]
<1>1. row \in SessionRow /\ proc \in [Processes -> {Idle} \cup Working]
  BY DEF IInv, TypeOK
<1>2. /\ row' = w /\ lock' = p /\ proc' = [proc EXCEPT ![p] = r] /\ provider' = provider
      /\ ran' = ran /\ lock = NoProcess /\ proc[p] = Idle /\ row.report = "none"
  BY DEF Resume
<1>3. /\ w \in SessionRow /\ Grown(row, w)
      /\ w.backend = row.backend /\ w.iterations = row.iterations
      /\ w.tool_calls = row.tool_calls /\ w.tokens = row.tokens
      /\ w.report = row.report /\ w.plan = row.plan /\ w.approval = row.approval
      /\ DOMAIN w.usage = DOMAIN row.usage /\ Len(w.usage) = Len(row.usage)
      /\ \A i \in DOMAIN row.usage :
           w.usage[i] = row.usage[i] \/ (row.usage[i] = "RESERVED" /\ w.usage[i] = "INTERRUPTED")
      /\ \A k \in Keys :
           w.calls[k] = row.calls[k] \/ (row.calls[k] = "RUNNING" /\ w.calls[k] = "INTERRUPTED")
  BY <1>1, RecoveredFields, RecoveredGrows
<1> HIDE DEF w
<1>4. r.pc \in {"decide", "tools", "finalize"} /\ r.value = w /\ r \in Working /\ r # Idle
  <2>1. w.pending \in Decisions \cup {NoPending}
    BY <1>3 DEF SessionRow
  <2>2. w.pending.kind \in {"none", "tools", "final", "abstain"}
    BY <2>1 DEF Decisions, ToolDecisions, FinalDecisions, Abstain, NoPending
  <2>3. NextNode(w) \in {"decide", "tools", "finalize"}
    BY <2>2 DEF NextNode
  <2> QED  BY <2>3, <1>3 DEF Working, Step, Idle
<1> HIDE DEF r
<1>5. proc'[p] = r /\ \A q \in Processes : q # p => proc'[q] = proc[q]
  BY <1>1, <1>2
<1>6. TypeOK'
  BY <1>1, <1>2, <1>3, <1>4 DEF IInv, TypeOK
<1>7. SyncInv'
  BY <1>2, <1>3, <1>4, <1>5 DEF IInv, SyncInv
<1>8. row.usage \in Seq(UsageStatus) /\ w.usage \in Seq(UsageStatus)
  BY <1>1, <1>3 DEF SessionRow
<1>9. UsageInv'
  <2>1. row.backend = "fake" => w.usage = << >>
    BY <1>3, <1>8 DEF IInv, UsageInv
  <2> QED  BY <1>2, <1>3, <2>1 DEF IInv, UsageInv
<1>10. Last' = Last /\ (Unsettled' <=> Unsettled)
  <2>1. Last' = Last
    BY <1>2, <1>3 DEF Last
  <2>2. Last > 0 => Last \in DOMAIN row.usage
    BY <1>8 DEF Last
  <2>3. Last > 0 => (w.usage[Last] = "KNOWN" <=> row.usage[Last] = "KNOWN")
    BY <1>3, <2>2
  <2> QED  BY <1>2, <2>1, <2>3 DEF Unsettled
<1>11. LedgerInv'
  BY <1>2, <1>3, <1>10 DEF IInv, LedgerInv
<1>12. \A q \in Processes : Spending(q)' =>
         q # p /\ Spending(q) /\ proc'[q] = proc[q] /\ Value(q)' = Value(q)
  BY <1>2, <1>3, <1>4, <1>5 DEF Spending, Value
<1>13. SpenderInv'
  <2>1. ASSUME NEW q \in Processes, Spending(q)'
        PROVE  /\ Unsettled'
               /\ Value(q)'.iterations = Last'
               /\ lock' = q => row'.usage[Last'] = "RESERVED"
               /\ provider'.spent = row'.tokens
               /\ proc'[q].pc = "wait" => provider'.open = {Last'}
               /\ proc'[q].pc # "wait" =>
                    provider'.open = {} /\ \A i \in DOMAIN provider'.sent : provider'.sent[i] < Last'
    BY <2>1, <1>2, <1>3, <1>10, <1>12 DEF IInv, SpenderInv
  <2>2. \A q, s \in Processes : Spending(q)' /\ Spending(s)' => q = s
    BY <1>12 DEF IInv, SpenderInv
  <2> QED  BY <2>1, <2>2 DEF SpenderInv
<1>14. ToolInv'
  <2>1. \A k \in Keys : w.calls[k] = "absent" <=> row.calls[k] = "absent"
    BY <1>3
  <2>2. {k \in Keys : w.calls[k] # "absent"} = {k \in Keys : row.calls[k] # "absent"}
    BY <2>1
  <2> QED  BY <1>2, <1>3, <2>1, <2>2 DEF IInv, ToolInv
<1>15. ApprovalMatchesPlan'
  BY <1>2, <1>3 DEF IInv, ApprovalMatchesPlan
<1> QED  BY <1>2, <1>3, <1>6, <1>7, <1>9, <1>11, <1>13, <1>14, <1>15 DEF IInv

LEMMA RefusedStep ==
  ASSUME AnalystAssumption, IInv, NEW p \in Processes, NeedsPreflight(p), Refused(p)
  PROVE  IInv' /\ Grown(row, row')
<1>1. lock = p /\ proc[p].pc = "decide"
  BY DEF NeedsPreflight, At, Refused, SavesAndLeaves, Holds
<1>2. Value(p) = row /\ row \in SessionRow
  BY <1>1, HolderValue DEF Value
<1>3. Moves(row, [row EXCEPT !.error = "SPEND_PREFLIGHT_BLOCKED"])
  BY <1>2, RefusedFields
<1> QED  BY <1>2, <1>3, MovedAway DEF Refused

LEMMA ToolsDoneStep ==
  ASSUME AnalystAssumption, IInv, NEW p \in Processes, ToolsDone(p)
  PROVE  IInv' /\ Grown(row, row')
<1>1. lock = p /\ proc[p].pc = "tools"
  BY DEF ToolsDone, At, SavesAndLeaves, Holds
<1>2. Value(p) = row /\ row \in SessionRow
  BY <1>1, HolderValue DEF Value
<1> QED  BY <1>2, ObservedFields, MovedAway DEF ToolsDone

LEMMA FinalizeStep ==
  ASSUME AnalystAssumption, IInv, NEW p \in Processes, Finalize(p)
  PROVE  IInv' /\ Grown(row, row')
<1>1. lock = p
  BY DEF Finalize, SavesAndLeaves, Holds
<1>2. /\ Value(p) \in SessionRow /\ row \in SessionRow /\ row.report = "none"
      /\ Value(p) = row \/ Value(p) = Limited(row)
  BY <1>1, HolderValue DEF Value, IInv, TypeOK
<1>3. (Value(p) = row \/ Moves(row, Value(p))) /\ Value(p).report = "none"
  BY <1>2, LimitedFields
<1>4. Moves(Value(p), Reported(Value(p))) /\ Moves(Value(p), Rejected(Value(p)))
  BY <1>2, <1>3, ReportedFields, RejectedFields
<1>5. Reported(Value(p)) \in SessionRow /\ Rejected(Value(p)) \in SessionRow
  BY <1>4 DEF Moves
<1>6. Moves(row, Reported(Value(p))) /\ Moves(row, Rejected(Value(p)))
  BY <1>2, <1>3, <1>4, <1>5, MovesTrans
<1>7. UNCHANGED <<provider, ran>>
  BY DEF Finalize
<1>8. CASE SavesAndLeaves(p, Reported(Value(p)))
  BY <1>6, <1>7, <1>8, MovedAway
<1>9. CASE SavesAndLeaves(p, Rejected(Value(p)))
  BY <1>6, <1>7, <1>9, MovedAway
<1> QED  BY <1>8, <1>9 DEF Finalize

LEMMA LimitStep ==
  ASSUME AnalystAssumption, IInv, NEW p \in Processes, LimitReached(p) \/ ToolLimit(p)
  PROVE  IInv' /\ Grown(row, row')
<1> DEFINE r == [pc |-> "finalize", value |-> Limited(Value(p))]
<1>1. /\ proc[p].pc \in {"decide", "tools"} /\ proc' = [proc EXCEPT ![p] = r]
      /\ row' = row /\ lock' = lock /\ provider' = provider /\ ran' = ran
  BY DEF LimitReached, ToolLimit, At
<1>2. /\ row \in SessionRow /\ proc \in [Processes -> {Idle} \cup Working]
      /\ Value(p) \in SessionRow /\ Value(p).backend = row.backend
  BY <1>1, BusyValue DEF IInv, TypeOK, Value
<1>3. /\ r \in Working /\ r # Idle /\ r.pc = "finalize" /\ r.value.backend = row.backend
      /\ r.value = Limited(Value(p))
  <2>1. Limited(Value(p)) \in SessionRow /\ Limited(Value(p)).backend = Value(p).backend
    BY <1>2, LimitedFields DEF Moves, SameSpending
  <2> QED  BY <1>2, <2>1 DEF Working, Step, Idle
<1>4. lock = p => Value(p) = row /\ row.report = "none"
  BY <1>1, HolderValue DEF Value
<1> HIDE DEF r
<1>5. proc'[p] = r /\ \A q \in Processes : q # p => proc'[q] = proc[q]
  BY <1>1, <1>2
<1>6. TypeOK'
  BY <1>1, <1>2, <1>3 DEF IInv, TypeOK
<1>7. SyncInv'
  <2>1. \A q \in Processes : q # p => proc'[q] = proc[q]
    BY <1>5
  <2> QED  BY <1>1, <1>3, <1>4, <1>5, <2>1 DEF IInv, SyncInv
<1>8. SameSpending(row, row') /\ SameCalls(row, row') /\ Grown(row, row')
  BY <1>1, <1>2, GrownRefl DEF SameSpending, SameCalls
<1>9. \A q \in Processes : Spending(q)' =>
            /\ Spending(q) /\ Value(q)'.iterations = Value(q).iterations
            /\ (proc'[q].pc = "wait") <=> (proc[q].pc = "wait")
            /\ lock' = q => lock = q
  BY <1>1, <1>3, <1>5 DEF Spending, Value
<1>10. UsageInv' /\ SpenderInv' /\ LedgerInv'
  BY <1>1, <1>8, <1>9, QuietSpending
<1>11. ToolInv'
  BY <1>1, <1>8, SameTools
<1>12. ApprovalMatchesPlan'
  BY <1>1 DEF IInv, ApprovalMatchesPlan
<1> QED  BY <1>6, <1>7, <1>8, <1>10, <1>11, <1>12 DEF IInv

LEMMA DisconnectStep ==
  ASSUME AnalystAssumption, IInv, NEW p \in Processes, Disconnect(p)
  PROVE  IInv' /\ Grown(row, row')
<1>1. /\ row' = row /\ proc' = proc /\ provider' = provider /\ ran' = ran /\ lock' = NoProcess
      /\ NoProcess \notin Processes /\ row \in SessionRow
  BY DEF Disconnect, AnalystAssumption, IInv, TypeOK
<1>2. TypeOK' /\ SyncInv'
  BY <1>1 DEF IInv, TypeOK, SyncInv
<1>3. SameSpending(row, row') /\ SameCalls(row, row') /\ Grown(row, row')
  BY <1>1, GrownRefl DEF SameSpending, SameCalls
<1>4. UsageInv' /\ SpenderInv' /\ LedgerInv'
  BY <1>1, <1>3, QuietSpending DEF Spending, Value
<1>5. ToolInv' /\ ApprovalMatchesPlan'
  BY <1>1, <1>3, SameTools DEF IInv, ApprovalMatchesPlan
<1> QED  BY <1>2, <1>3, <1>4, <1>5 DEF IInv

\* propose and approve, by a request that takes and releases the lock.
LEMMA ReviewStep ==
  ASSUME AnalystAssumption, IInv, NEW w, Moves(row, w), lock = NoProcess, row' = w,
         UNCHANGED <<lock, proc, provider, ran>>
  PROVE  IInv' /\ Grown(row, row')
<1>1. /\ row' \in SessionRow /\ SameSpending(row, row') /\ SameCalls(row, row')
      /\ Grown(row, row') /\ (Approved(row) => Approved(row')) /\ NoProcess \notin Processes
  BY DEF Moves, AnalystAssumption
<1>2. TypeOK'
  BY <1>1 DEF IInv, TypeOK
<1>3. SyncInv'
  BY <1>1 DEF IInv, SyncInv, SameSpending
<1>4. UsageInv' /\ SpenderInv' /\ LedgerInv'
  BY <1>1, QuietSpending DEF Spending, Value, SameSpending
<1>5. ToolInv'
  BY <1>1, SameTools
<1>6. ApprovalMatchesPlan'
  BY <1>1 DEF IInv, ApprovalMatchesPlan, Approved
<1> QED  BY <1>1, <1>2, <1>3, <1>4, <1>5, <1>6 DEF IInv

\* A save that keeps the lock and leaves the spending alone.
LEMMA SavedCalmly ==
  ASSUME AnalystAssumption, IInv, NEW p \in Processes, NEW w \in SessionRow, NEW pc \in Step,
         Saves(p, w, pc), SameSpending(row, w), Grown(row, w), Approved(row) => Approved(w),
         w.report = row.report, provider' = provider,
         row.backend = "real" => pc \in {"decide", "tools", "tool", "finalize"},
         pc \notin {"reserve", "wait"}, ran' \in [Keys -> Nat], ToolInv'
  PROVE  IInv' /\ Grown(row, row')
<1>1. row' = w /\ lock = p /\ lock' = lock /\ proc' = [proc EXCEPT ![p] = [pc |-> pc, value |-> w]]
  BY DEF Saves, Holds
<1>2. w.backend = row.backend /\ proc \in [Processes -> {Idle} \cup Working]
  BY DEF SameSpending, IInv, TypeOK
<1>3. /\ SyncInv' /\ row' \in SessionRow /\ lock' \in Processes \cup {NoProcess}
      /\ proc' \in [Processes -> {Idle} \cup Working]
  BY <1>2, SavedSync
<1>4. TypeOK'
  BY <1>3 DEF IInv, TypeOK
<1>5. proc'[p].pc = pc /\ \A q \in Processes : q # p => proc'[q] = proc[q]
  BY <1>1, <1>2
<1>6. \A q \in Processes : Spending(q)' =>
            /\ Spending(q) /\ Value(q)'.iterations = Value(q).iterations
            /\ (proc'[q].pc = "wait") <=> (proc[q].pc = "wait")
            /\ lock' = q => lock = q
  BY <1>1, <1>2, <1>5 DEF Spending, Value
<1>7. UsageInv' /\ SpenderInv' /\ LedgerInv'
  BY <1>1, <1>6, QuietSpending
<1>8. ApprovalMatchesPlan'
  BY <1>1 DEF IInv, ApprovalMatchesPlan, Approved
<1> QED  BY <1>1, <1>3, <1>4, <1>7, <1>8 DEF IInv

LEMMA CallToolStep ==
  ASSUME AnalystAssumption, IInv, NEW p \in Processes, CallTool(p)
  PROVE  IInv' /\ Grown(row, row')
<1>1. PICK k \in NewCalls(Value(p)) :
        /\ Value(p).tool_calls < MaxTools
        /\ Saves(p, Called(Value(p), k), "tool")
        /\ ran' = [ran EXCEPT ![k] = @ + 1]
  BY DEF CallTool
<1>2. lock = p /\ proc[p].pc = "tools" /\ provider' = provider
  BY <1>1 DEF CallTool, At, Saves, Holds
<1>3. Value(p) = row /\ row \in SessionRow
  BY <1>2, HolderValue DEF Value
<1>4. k \in Keys /\ row.calls[k] = "absent"
  BY <1>1, <1>3 DEF NewCalls
<1> DEFINE w == Called(row, k)
<1>5. /\ w \in SessionRow /\ SameSpending(row, w) /\ Grown(row, w)
      /\ Approved(row) => Approved(w)
      /\ w.report = row.report /\ w.tool_calls = row.tool_calls + 1
      /\ w.calls = [row.calls EXCEPT ![k] = "RUNNING"]
  BY <1>1, <1>3, <1>4, CalledFields
<1> HIDE DEF w
<1>6. row' = w /\ Saves(p, w, "tool")
  BY <1>1, <1>3 DEF Saves, w
<1>7. ran \in [Keys -> Nat] /\ ran' \in [Keys -> Nat]
  BY <1>1, <1>4 DEF IInv, TypeOK
<1>8. row.calls \in [Keys -> CallStatus]
  BY <1>3 DEF SessionRow
<1>9. ToolInv'
  <2> DEFINE old == {j \in Keys : row.calls[j] # "absent"}
             new == {j \in Keys : row'.calls[j] # "absent"}
  <2>1. new = old \cup {k} /\ k \notin old
    BY <1>4, <1>5, <1>6, <1>8
  <2>2. IsFiniteSet(old)
    BY FS_Subset DEF AnalystAssumption
  <2>3. Cardinality(new) = Cardinality(old) + 1
    BY <2>1, <2>2, FS_AddElement
  <2>4. row'.tool_calls = Cardinality(new)
    BY <2>3, <1>5, <1>6 DEF IInv, ToolInv
  <2>5. \A j \in Keys : ran'[j] = IF row'.calls[j] = "absent" THEN 0 ELSE 1
    BY <1>1, <1>4, <1>5, <1>6, <1>7, <1>8 DEF IInv, ToolInv
  <2> QED  BY <2>4, <2>5 DEF ToolInv
<1> QED  BY <1>2, <1>5, <1>6, <1>7, <1>9, SavedCalmly DEF Step

LEMMA ToolReturnsStep ==
  ASSUME AnalystAssumption, IInv, NEW p \in Processes, ToolReturns(p)
  PROVE  IInv' /\ Grown(row, row')
<1>1. PICK k \in Keys, status \in {"COMPLETED", "FAILED"} :
        /\ Value(p).calls[k] = "RUNNING"
        /\ Saves(p, Returned(Value(p), k, status), "tools")
  BY DEF ToolReturns
<1>2. lock = p /\ proc[p].pc = "tool" /\ provider' = provider /\ ran' = ran
  BY <1>1 DEF ToolReturns, At, Saves, Holds
<1>3. Value(p) = row /\ row \in SessionRow
  BY <1>2, HolderValue DEF Value
<1> DEFINE w == Returned(row, k, status)
<1>5. /\ w \in SessionRow /\ SameSpending(row, w) /\ Grown(row, w)
      /\ Approved(row) => Approved(w)
      /\ w.report = row.report /\ w.tool_calls = row.tool_calls
      /\ \A j \in Keys : w.calls[j] = "absent" <=> row.calls[j] = "absent"
  BY <1>1, <1>3, ReturnedFields
<1> HIDE DEF w
<1>6. row' = w /\ Saves(p, w, "tools")
  BY <1>1, <1>3 DEF Saves, w
<1>7. ran' \in [Keys -> Nat]
  BY <1>2 DEF IInv, TypeOK
<1>8. ToolInv'
  <2>1. {j \in Keys : w.calls[j] # "absent"} = {j \in Keys : row.calls[j] # "absent"}
    BY <1>5
  <2> QED  BY <1>2, <1>5, <1>6, <2>1 DEF IInv, ToolInv
<1> QED  BY <1>2, <1>5, <1>6, <1>7, <1>8, SavedCalmly DEF Step

LEMMA FakeDecideStep ==
  ASSUME AnalystAssumption, IInv, NEW p \in Processes, Decide(p), ~Real(Value(p))
  PROVE  IInv' /\ Grown(row, row')
<1>1. /\ lock = p /\ proc[p].pc = "decide" /\ provider' = provider /\ ran' = ran
      /\ Value(p).iterations < MaxDecisions /\ Saves(p, Begun(Value(p)), "invoke")
  BY DEF Decide, At, Saves, Holds, BelowLimits
<1>2. Value(p) = row /\ row \in SessionRow /\ row.backend = "fake"
  BY <1>1, HolderValue DEF Value, Real, SessionRow
<1> DEFINE w == Begun(row)
<1>3. /\ w \in SessionRow /\ SameCalls(row, w) /\ Grown(row, w) /\ (Approved(row) => Approved(w))
      /\ w.report = row.report /\ SameSpending(row, w)
  BY <1>1, <1>2, BegunFields DEF SameSpending, Real
<1> HIDE DEF w
<1>4. row' = w /\ Saves(p, w, "invoke")
  BY <1>1, <1>2 DEF Saves, w
<1>5. ToolInv' /\ ran' \in [Keys -> Nat]
  BY <1>1, <1>3, <1>4, SameTools DEF IInv, TypeOK
<1> QED  BY <1>1, <1>2, <1>3, <1>4, <1>5, SavedCalmly DEF Step

LEMMA FakeDecisionStep ==
  ASSUME AnalystAssumption, IInv, NEW p \in Processes, FakeDecision(p)
  PROVE  IInv' /\ Grown(row, row')
<1>1. PICK d \in Decisions \cup {NoPending} : SavesDecision(p, Decided(Value(p), d, "UNKNOWN", 0))
  BY DEF FakeDecision
<1>w. PICK w : w = Decided(row, d, "UNKNOWN", 0)
  OBVIOUS
<1>2. /\ lock = p /\ proc[p].pc = "invoke" /\ provider' = provider /\ ran' = ran
      /\ ~Real(Value(p))
  BY <1>1 DEF FakeDecision, At, SavesDecision, Saves, SavesAndLeaves, Holds
<1>3. Value(p) = row /\ row \in SessionRow /\ row.backend # "real" /\ ~Real(row)
  BY <1>2, HolderValue DEF Value, Real
<1>4. /\ w \in SessionRow /\ SameCalls(row, w) /\ Grown(row, w) /\ (Approved(row) => Approved(w))
      /\ w.report = row.report /\ SameSpending(row, w)
      /\ w.pending = d /\ (w.error = "none" => d # NoPending)
  <2>1. "UNKNOWN" \in {"KNOWN", "UNKNOWN"} /\ 0 \in Nat /\ Reserved(row)
    BY <1>3 DEF Reserved
  <2>2. SavesOutcome(row, w, d) /\ SavesUsage(row, w, "UNKNOWN", 0)
    BY <1>1, <1>3, <1>w, <2>1, DecidedFields
  <2>3. w.tokens = row.tokens /\ w.usage = row.usage
    BY <1>3, <2>2 DEF SavesUsage
  <2> QED  BY <1>3, <2>2, <2>3 DEF SameSpending, SavesOutcome
<1>5. SavesDecision(p, w)
  BY <1>1, <1>3, <1>w
<1>6. CASE w.error = "none"
  <2>1. NextNode(w) \in {"tools", "finalize"}
    BY <1>1, <1>4, <1>6, DecidedNext
  <2>2. Saves(p, w, NextNode(w)) /\ row' = w
    BY <1>5, <1>6 DEF SavesDecision, Saves
  <2>3. ToolInv' /\ ran' \in [Keys -> Nat]
    BY <1>2, <1>4, <2>2, SameTools DEF IInv, TypeOK
  <2>4. NextNode(w) \in Step /\ NextNode(w) \notin {"reserve", "wait"}
    BY <2>1 DEF Step
  <2> QED  BY <1>2, <1>3, <1>4, <2>2, <2>3, <2>4, SavedCalmly
<1>7. CASE w.error # "none"
  <2>1. SavesAndLeaves(p, w)
    BY <1>5, <1>7 DEF SavesDecision
  <2>2. Moves(row, w)
    BY <1>4 DEF Moves
  <2> QED  BY <1>2, <2>1, <2>2, MovedAway
<1> QED  BY <1>6, <1>7

LEMMA RealDecideStep ==
  ASSUME AnalystAssumption, IInv, NEW p \in Processes, Decide(p), Real(Value(p))
  PROVE  IInv' /\ Grown(row, row')
<1>1. /\ lock = p /\ proc[p].pc = "decide" /\ provider' = provider /\ ran' = ran
      /\ Value(p).iterations < MaxDecisions /\ Saves(p, Begun(Value(p)), "reserve")
      /\ ~SpendReasons(Value(p))
  BY DEF Decide, At, Saves, Holds, BelowLimits
<1>2. Value(p) = row /\ row \in SessionRow /\ row.backend = "real"
  BY <1>1, HolderValue DEF Value, Real
<1> DEFINE w == Begun(row)
<1>3. /\ w \in SessionRow /\ SameCalls(row, w) /\ Grown(row, w) /\ (Approved(row) => Approved(w))
      /\ w.report = row.report /\ w.backend = row.backend
      /\ w.iterations = row.iterations + 1 /\ w.tokens = row.tokens
      /\ w.usage = Append(row.usage, "RESERVED")
  BY <1>1, <1>2, BegunFields DEF Real
<1> HIDE DEF w
<1>4. row' = w /\ Saves(p, w, "reserve") /\ lock' = lock
      /\ proc' = [proc EXCEPT ![p] = [pc |-> "reserve", value |-> w]]
  BY <1>1, <1>2 DEF Saves, w
<1>5. /\ SyncInv' /\ row' \in SessionRow /\ lock' \in Processes \cup {NoProcess}
      /\ proc' \in [Processes -> {Idle} \cup Working]
  BY <1>2, <1>3, <1>4, SavedSync DEF Step
<1>6. TypeOK'
  BY <1>1, <1>5 DEF IInv, TypeOK
<1>7. proc'[p].pc = "reserve" /\ Value(p)' = w /\ \A q \in Processes : q # p => proc'[q] = proc[q]
  BY <1>4 DEF IInv, TypeOK, Value
<1>8. /\ row.usage \in Seq(UsageStatus) /\ row.iterations \in Nat /\ row.tokens \in Nat
      /\ Len(row.usage) = row.iterations /\ Len(row.usage) < ProviderRequests
      /\ \A i \in DOMAIN row.usage : row.usage[i] = "KNOWN"
      /\ row.tokens + RequestBound <= TokenCeiling
      /\ ProviderRequests \in Nat /\ RequestBound \in Nat /\ TokenCeiling \in Nat
  BY <1>1, <1>2 DEF SpendReasons, IInv, UsageInv, SessionRow, AnalystAssumption
<1>9. ~Unsettled
  BY <1>8 DEF Unsettled, Last
<1>10. /\ Len(w.usage) = Len(row.usage) + 1 /\ w.usage[Len(w.usage)] = "RESERVED"
       /\ DOMAIN w.usage = 1 .. (Len(row.usage) + 1)
       /\ \A i \in DOMAIN row.usage : w.usage[i] = "KNOWN"
  BY <1>3, <1>8
<1>11. UsageInv'
  <2>1. row'.backend = "real" /\ row'.usage = w.usage /\ row'.iterations = row.iterations + 1
    BY <1>2, <1>3, <1>4
  <2>2. Len(w.usage) = row'.iterations /\ Len(w.usage) <= ProviderRequests
    BY <1>8, <1>10, <2>1
  <2>3. \A i \in DOMAIN w.usage : i # Len(w.usage) => w.usage[i] = "KNOWN"
    <3>1. \A i \in DOMAIN w.usage : i # Len(w.usage) => i \in DOMAIN row.usage
      BY <1>8, <1>10
    <3> QED  BY <1>10, <3>1
  <2> QED  BY <2>1, <2>2, <2>3 DEF UsageInv
<1>12. Last' = Last + 1 /\ Unsettled' /\ row'.usage[Last'] = "RESERVED" /\ Last \in Nat
  BY <1>4, <1>8, <1>10 DEF Last, Unsettled
<1>13. provider.open = {} /\ provider.spent = row.tokens
  BY <1>9 DEF IInv, LedgerInv
<1>14. provider.sent \in Seq(1 .. MaxDecisions) /\ MaxDecisions \in Nat
  BY DEF IInv, TypeOK, AnalystAssumption
<1>15. \A i \in DOMAIN provider.sent :
         i <= provider.sent[i] /\ provider.sent[i] <= Last /\ provider.sent[i] < Last'
  <2>1. \A i \in DOMAIN provider.sent : i <= provider.sent[i] /\ provider.sent[i] <= Last
    BY DEF IInv, LedgerInv
  <2>2. \A i \in DOMAIN provider.sent : provider.sent[i] \in Nat
    BY <1>14
  <2> QED  BY <1>12, <2>1, <2>2
<1>16. \A q \in Processes : ~Spending(q)
  BY <1>9 DEF IInv, SpenderInv
<1>17. \A q \in Processes : Spending(q)' => q = p
  BY <1>2, <1>3, <1>4, <1>7, <1>16 DEF Spending
<1>18. SpenderInv'
  <2>1. Value(p)'.iterations = Last'
    BY <1>3, <1>7, <1>8, <1>12 DEF Last
  <2>2. ASSUME NEW q \in Processes, Spending(q)'
        PROVE  /\ Unsettled'
               /\ Value(q)'.iterations = Last'
               /\ lock' = q => row'.usage[Last'] = "RESERVED"
               /\ provider'.spent = row'.tokens
               /\ proc'[q].pc = "wait" => provider'.open = {Last'}
               /\ proc'[q].pc # "wait" =>
                    provider'.open = {} /\ \A i \in DOMAIN provider'.sent : provider'.sent[i] < Last'
    <3>1. q = p
      BY <1>17, <2>2
    <3> QED  BY <1>1, <1>3, <1>4, <1>7, <1>12, <1>13, <1>15, <2>1, <3>1
  <2> QED  BY <1>17, <2>2 DEF SpenderInv
<1>19. LedgerInv'
  <2>1. row'.tokens = row.tokens /\ provider' = provider
    BY <1>1, <1>3, <1>4
  <2>2. /\ row'.tokens <= TokenCeiling /\ row'.tokens + RequestBound <= TokenCeiling
        /\ provider'.spent <= row'.tokens + RequestBound
    BY <1>8, <1>13, <2>1
  <2>3. \A i \in DOMAIN provider'.sent : i <= provider'.sent[i] /\ provider'.sent[i] <= Last'
    BY <1>12, <1>14, <1>15, <2>1
  <2>4. \A i, j \in DOMAIN provider'.sent : i < j => provider'.sent[i] < provider'.sent[j]
    BY <2>1 DEF IInv, LedgerInv
  <2> QED  BY <1>12, <1>13, <2>1, <2>2, <2>3, <2>4 DEF LedgerInv
<1>20. ToolInv'
  BY <1>1, <1>3, <1>4, SameTools
<1>21. ApprovalMatchesPlan'
  BY <1>3, <1>4 DEF IInv, ApprovalMatchesPlan, Approved
<1> QED  BY <1>3, <1>4, <1>5, <1>6, <1>11, <1>18, <1>19, <1>20, <1>21 DEF IInv

LEMMA ReserveStep ==
  ASSUME AnalystAssumption, IInv, NEW p \in Processes, Reserve(p)
  PROVE  IInv' /\ Grown(row, row')
<1>1. /\ lock = p /\ lock' = lock /\ proc[p].pc = "reserve" /\ provider' = provider /\ ran' = ran
      /\ Saves(p, Value(p), "invoke")
      /\ proc' = [proc EXCEPT ![p] = [pc |-> "invoke", value |-> Value(p)]]
  BY DEF Reserve, At, Saves, Holds
<1>2. Value(p) = row /\ row \in SessionRow /\ row' = row
  BY <1>1, HolderValue DEF Value, Saves
<1>3. /\ SyncInv' /\ row' \in SessionRow /\ lock' \in Processes \cup {NoProcess}
      /\ proc' \in [Processes -> {Idle} \cup Working]
  BY <1>1, <1>2, SavedSync DEF Step
<1>4. TypeOK'
  BY <1>1, <1>3 DEF IInv, TypeOK
<1>5. proc'[p].pc = "invoke" /\ Value(p)' = Value(p)
      /\ \A q \in Processes : q # p => proc'[q] = proc[q]
  BY <1>1 DEF IInv, TypeOK, Value
<1>6. SameSpending(row, row') /\ SameCalls(row, row') /\ Grown(row, row')
  BY <1>2, GrownRefl DEF SameSpending, SameCalls
<1>7. \A q \in Processes : Spending(q)' =>
            /\ Spending(q) /\ Value(q)'.iterations = Value(q).iterations
            /\ (proc'[q].pc = "wait") <=> (proc[q].pc = "wait")
            /\ lock' = q => lock = q
  BY <1>1, <1>2, <1>5 DEF Spending, Value
<1>8. UsageInv' /\ SpenderInv' /\ LedgerInv'
  BY <1>1, <1>6, <1>7, QuietSpending
<1>9. ToolInv' /\ ApprovalMatchesPlan'
  BY <1>1, <1>2, <1>6, SameTools DEF IInv, ApprovalMatchesPlan
<1> QED  BY <1>3, <1>4, <1>6, <1>8, <1>9 DEF IInv

LEMMA SendStep ==
  ASSUME AnalystAssumption, IInv, NEW p \in Processes, Send(p)
  PROVE  IInv' /\ Grown(row, row')
<1>1. /\ row' = row /\ lock' = lock /\ ran' = ran /\ proc[p].pc = "invoke" /\ Real(Value(p))
      /\ proc' = [proc EXCEPT ![p].pc = "wait"]
      /\ provider' = [provider EXCEPT !.sent = Append(@, Value(p).iterations),
                                      !.open = @ \cup {Value(p).iterations}]
  BY DEF Send, At
<1>2. proc[p] \in Working /\ Value(p) \in SessionRow /\ row.backend = "real"
  BY <1>1, BusyValue DEF Value, Real
<1>3. /\ provider.sent \in Seq(1 .. MaxDecisions) /\ provider.open \in SUBSET (1 .. MaxDecisions)
      /\ provider.spent \in Nat /\ MaxDecisions \in Nat /\ row \in SessionRow
      /\ provider \in [sent : Seq(1 .. MaxDecisions), open : SUBSET (1 .. MaxDecisions), spent : Nat]
      /\ proc \in [Processes -> {Idle} \cup Working]
  BY DEF IInv, TypeOK, AnalystAssumption
<1>4. Spending(p)
  BY <1>1, <1>2 DEF Spending
<1>5. /\ Unsettled /\ Value(p).iterations = Last
      /\ lock = p => row.usage[Last] = "RESERVED"
      /\ provider.spent = row.tokens /\ provider.open = {}
      /\ \A i \in DOMAIN provider.sent : provider.sent[i] < Last
      /\ \A q \in Processes : Spending(q) => q = p
  BY <1>1, <1>4 DEF IInv, SpenderInv
<1>6. Last \in 1 .. MaxDecisions
  BY <1>2, <1>3, <1>5 DEF Unsettled, SessionRow
<1>7. /\ provider'.sent = Append(provider.sent, Last) /\ provider'.open = {Last}
      /\ provider'.spent = provider.spent
      /\ provider' \in [sent : Seq(1 .. MaxDecisions), open : SUBSET (1 .. MaxDecisions), spent : Nat]
  <2>s. PICK s : s = Append(provider.sent, Last)
    OBVIOUS
  <2>1. s \in Seq(1 .. MaxDecisions) /\ {Last} \in SUBSET (1 .. MaxDecisions)
    BY <2>s, <1>3, <1>6
  <2>2. provider' = [provider EXCEPT !.sent = s, !.open = {Last}]
    BY <2>s, <1>1, <1>3, <1>5
  <2>3. provider'.sent = s /\ provider'.open = {Last} /\ provider'.spent = provider.spent
    BY <2>2, <1>3
  <2>4. provider' \in [sent : Seq(1 .. MaxDecisions), open : SUBSET (1 .. MaxDecisions), spent : Nat]
    BY <2>1, <2>2, <1>3
  <2> QED  BY <2>s, <2>3, <2>4
<1>8. /\ proc' \in [Processes -> {Idle} \cup Working]
      /\ proc'[p].pc = "wait" /\ proc'[p].value = proc[p].value /\ proc'[p] # Idle
      /\ \A q \in Processes : q # p => proc'[q] = proc[q]
  BY <1>1, <1>2, <1>3 DEF Working, Step, Idle
<1>9. TypeOK'
  BY <1>1, <1>7, <1>8 DEF IInv, TypeOK
<1>10. SyncInv'
  <2>1. lock = p => proc[p].value = row /\ row.report = "none"
    BY <1>1, HolderValue
  <2> SUFFICES ASSUME NEW q \in Processes
               PROVE  /\ lock' = q => /\ proc'[q] # Idle /\ row'.report = "none"
                                      /\ \/ proc'[q].value = row'
                                         \/ proc'[q].pc = "finalize" /\ proc'[q].value = Limited(row')
                      /\ proc'[q] # Idle => proc'[q].value.backend = row'.backend
                      /\ proc'[q].pc \in {"reserve", "wait"} => row'.backend = "real"
    BY DEF SyncInv
  <2>2. CASE q = p
    BY <2>1, <2>2, <1>1, <1>2, <1>8 DEF Value, Real
  <2>3. CASE q # p
    BY <2>3, <1>1, <1>8 DEF IInv, SyncInv
  <2> QED  BY <2>2, <2>3
<1>11. Last' = Last /\ Unsettled'
  BY <1>1, <1>5 DEF Last, Unsettled
<1>12. \A q \in Processes : Spending(q)' => q = p
  BY <1>1, <1>5, <1>8 DEF Spending
<1>13. SpenderInv'
  <2>1. Value(p)'.iterations = Last'
    BY <1>5, <1>8, <1>11 DEF Value
  <2>2. ASSUME NEW q \in Processes, Spending(q)'
        PROVE  /\ Unsettled'
               /\ Value(q)'.iterations = Last'
               /\ lock' = q => row'.usage[Last'] = "RESERVED"
               /\ provider'.spent = row'.tokens
               /\ proc'[q].pc = "wait" => provider'.open = {Last'}
               /\ proc'[q].pc # "wait" =>
                    provider'.open = {} /\ \A i \in DOMAIN provider'.sent : provider'.sent[i] < Last'
    <3>1. q = p
      BY <1>12, <2>2
    <3> QED  BY <1>1, <1>5, <1>7, <1>8, <1>11, <2>1, <3>1
  <2> QED  BY <1>12, <2>2 DEF SpenderInv
<1>14. LedgerInv'
  <2>1. /\ row.tokens <= TokenCeiling /\ row.tokens + RequestBound <= TokenCeiling
        /\ provider'.spent <= row.tokens + RequestBound
    BY <1>5, <1>7 DEF IInv, LedgerInv
  <2>2. /\ DOMAIN provider'.sent = 1 .. (Len(provider.sent) + 1)
        /\ \A i \in DOMAIN provider.sent : provider'.sent[i] = provider.sent[i]
        /\ provider'.sent[Len(provider.sent) + 1] = Last
        /\ DOMAIN provider.sent = 1 .. Len(provider.sent) /\ Len(provider.sent) \in Nat
    BY <1>3, <1>7
  <2>3. /\ \A i \in DOMAIN provider.sent : i <= provider.sent[i]
        /\ \A i, j \in DOMAIN provider.sent : i < j => provider.sent[i] < provider.sent[j]
    BY DEF IInv, LedgerInv
  <2>4. \A i \in DOMAIN provider.sent : provider.sent[i] \in Nat /\ provider.sent[i] < Last
    BY <1>3, <1>5
  <2>5. Len(provider.sent) + 1 <= Last
    <3>1. CASE Len(provider.sent) = 0
      BY <3>1, <1>6
    <3>2. CASE Len(provider.sent) # 0
      <4>1. Len(provider.sent) \in DOMAIN provider.sent
        BY <3>2, <2>2
      <4> QED  BY <4>1, <2>2, <2>3, <2>4, <1>6
    <3> QED  BY <3>1, <3>2
  <2>6. \A i \in DOMAIN provider'.sent : i <= provider'.sent[i] /\ provider'.sent[i] <= Last
    BY <2>2, <2>3, <2>4, <2>5, <1>6
  <2>7. \A i, j \in DOMAIN provider'.sent : i < j => provider'.sent[i] < provider'.sent[j]
    BY SMTT(30), <2>2, <2>3, <2>4
  <2> QED  BY <1>1, <1>5, <1>7, <1>11, <2>1, <2>6, <2>7 DEF LedgerInv
<1>15. UsageInv' /\ ToolInv' /\ ApprovalMatchesPlan'
  BY <1>1 DEF IInv, UsageInv, ToolInv, ApprovalMatchesPlan
<1>16. Grown(row, row')
  BY <1>1, <1>3, GrownRefl
<1> QED  BY <1>9, <1>10, <1>13, <1>14, <1>15, <1>16 DEF IInv

\* The spender settles its entry, with an answer or without one.
LEMMA SettledSpending ==
  ASSUME AnalystAssumption, IInv, NEW p \in Processes, Spending(p), proc[p].pc = "wait",
         NEW u \in {"KNOWN", "UNKNOWN"}, NEW t \in 0 .. RequestBound,
         row'.backend = row.backend, row'.iterations = row.iterations, SavesUsage(row, row', u, t),
         provider'.sent = provider.sent, provider'.spent = provider.spent + t,
         provider'.open = {} \/ (u = "UNKNOWN" /\ t = 0 /\ provider'.open = provider.open),
         \A q \in Processes : ~Spending(q)'
  PROVE  UsageInv' /\ SpenderInv' /\ LedgerInv'
<1>1. /\ Unsettled /\ provider.spent = row.tokens /\ provider.open = {Last} /\ row.backend = "real"
      /\ row.tokens + RequestBound <= TokenCeiling
  BY DEF IInv, SpenderInv, Spending, LedgerInv
<1>2. /\ row.usage \in Seq(UsageStatus) /\ row.tokens \in Nat
      /\ RequestBound \in Nat /\ TokenCeiling \in Nat /\ Last > 0 /\ Last = Len(row.usage)
  BY <1>1 DEF IInv, TypeOK, SessionRow, AnalystAssumption, Unsettled, Last
<1>3. row'.usage = [row.usage EXCEPT ![Last] = u]
  BY <1>1 DEF SavesUsage, Real, Last
<1>4. /\ Len(row'.usage) = Last /\ row'.usage[Last] = u /\ DOMAIN row'.usage = DOMAIN row.usage
      /\ \A i \in DOMAIN row.usage : i # Last => row'.usage[i] = row.usage[i]
  BY <1>2, <1>3
<1>5. UsageInv'
  BY <1>1, <1>2, <1>4 DEF IInv, UsageInv
<1>6. Last' = Last /\ Unsettled' = (u # "KNOWN")
  BY <1>2, <1>4 DEF Last, Unsettled
<1>7. SpenderInv'
  BY DEF SpenderInv
<1>8. LedgerInv'
  <2>1. \A i \in DOMAIN provider'.sent : i <= provider'.sent[i] /\ provider'.sent[i] <= Last'
    BY <1>6 DEF IInv, LedgerInv
  <2>2. \A i, j \in DOMAIN provider'.sent : i < j => provider'.sent[i] < provider'.sent[j]
    BY DEF IInv, LedgerInv
  <2>3. CASE u = "KNOWN"
    <3>1. row'.tokens = row.tokens + t /\ provider'.open = {} /\ ~Unsettled'
      BY <1>6, <2>3 DEF SavesUsage
    <3> QED  BY <1>1, <1>2, <2>1, <2>2, <3>1 DEF LedgerInv
  <2>4. CASE u # "KNOWN"
    <3>1. row'.tokens = row.tokens /\ Unsettled'
      BY <1>6, <2>4 DEF SavesUsage
    <3>2. provider'.open # {} => provider'.open = {Last'} /\ provider'.spent = row'.tokens
      BY <1>1, <1>2, <1>6, <3>1
    <3> QED  BY <1>1, <1>2, <2>1, <2>2, <3>1, <3>2 DEF LedgerInv
  <2> QED  BY <2>3, <2>4
<1> QED  BY <1>5, <1>7, <1>8

\* The save of a decision by the process that holds the lock.
LEMMA SettledStep ==
  ASSUME AnalystAssumption, IInv, NEW p \in Processes, proc[p].pc = "wait", lock = p, ran' = ran,
         NEW d \in Decisions \cup {NoPending},
         NEW u \in {"KNOWN", "UNKNOWN"}, NEW t \in 0 .. RequestBound,
         SavesDecision(p, Decided(row, d, u, t)),
         provider' \in [sent : Seq(1 .. MaxDecisions), open : SUBSET (1 .. MaxDecisions), spent : Nat],
         provider'.sent = provider.sent, provider'.spent = provider.spent + t,
         provider'.open = {} \/ (u = "UNKNOWN" /\ t = 0 /\ provider'.open = provider.open)
  PROVE  IInv' /\ Grown(row, row')
<1>w. PICK w : w = Decided(row, d, u, t)
  OBVIOUS
<1>1. /\ row \in SessionRow /\ row.backend = "real" /\ Spending(p) /\ row.usage[Last] = "RESERVED"
      /\ Last > 0 /\ \A q \in Processes : Spending(q) => q = p
  BY HolderValue DEF Spending, IInv, TypeOK, SyncInv, SpenderInv, Unsettled
<1>2. t \in Nat /\ Reserved(row)
  BY <1>1 DEF Reserved, Last, AnalystAssumption
<1>3. SavesOutcome(row, w, d) /\ SavesUsage(row, w, u, t)
  BY ZenonT(40), <1>w, <1>1, <1>2, DecidedFields
<1>4. SavesDecision(p, w)
  BY <1>w
<1>5. /\ w \in SessionRow /\ SameCalls(row, w) /\ Grown(row, w) /\ (Approved(row) => Approved(w))
      /\ w.report = row.report /\ w.backend = row.backend /\ w.iterations = row.iterations
      /\ w.pending = d /\ (w.error = "none" => d # NoPending)
  BY <1>3 DEF SavesOutcome
<1>6. proc \in [Processes -> {Idle} \cup Working]
  BY DEF IInv, TypeOK
<1>7. /\ SyncInv' /\ row' = w /\ lock' \in Processes \cup {NoProcess}
      /\ proc' \in [Processes -> {Idle} \cup Working]
      /\ proc'[p].pc \in {"idle", "tools", "finalize"}
      /\ \A q \in Processes : q # p => proc'[q] = proc[q]
  <2>1. CASE w.error = "none"
    <3>1. NextNode(w) \in {"tools", "finalize"}
      BY <1>5, <2>1, DecidedNext
    <3>2. Saves(p, w, NextNode(w))
      BY <1>4, <2>1 DEF SavesDecision
    <3>3. NextNode(w) \in Step /\ NextNode(w) \notin {"reserve", "wait"}
      BY <3>1 DEF Step
    <3>w. PICK pc : pc = NextNode(w)
      OBVIOUS
    <3>4. SyncInv' /\ lock' \in Processes \cup {NoProcess} /\ proc' \in [Processes -> {Idle} \cup Working]
      BY <1>5, <3>2, <3>3, SavedSync
    <3>5. row' = w /\ proc' = [proc EXCEPT ![p] = [pc |-> pc, value |-> w]]
      BY <3>2, <3>w DEF Saves
    <3>6. proc'[p].pc = pc /\ \A q \in Processes : q # p => proc'[q] = proc[q]
      BY <3>5, <1>6
    <3> QED  BY <3>1, <3>w, <3>4, <3>5, <3>6
  <2>2. CASE w.error # "none"
    <3>1. SavesAndLeaves(p, w)
      BY <1>4, <2>2 DEF SavesDecision
    <3>2. row' = w /\ Leaves(p)
      BY <3>1 DEF SavesAndLeaves
    <3> QED  BY <3>2, <1>5, LeftSync DEF Idle
  <2> QED  BY <2>1, <2>2
<1>8. TypeOK'
  BY <1>5, <1>7 DEF IInv, TypeOK
<1>9. \A q \in Processes : ~Spending(q)'
  BY <1>1, <1>5, <1>7 DEF Spending
<1>10. UsageInv' /\ SpenderInv' /\ LedgerInv'
  BY <1>1, <1>3, <1>5, <1>7, <1>9, SettledSpending
<1>11. ToolInv'
  BY <1>5, <1>7, SameTools
<1>12. ApprovalMatchesPlan'
  BY <1>5, <1>7 DEF IInv, ApprovalMatchesPlan, Approved
<1> QED  BY <1>5, <1>7, <1>8, <1>10, <1>11, <1>12 DEF IInv

LEMMA AnswerStep ==
  ASSUME AnalystAssumption, IInv, NEW p \in Processes, Answer(p)
  PROVE  IInv' /\ Grown(row, row')
<1>1. PICK d \in Decisions \cup {NoPending}, u \in {"KNOWN", "UNKNOWN"}, t \in 1 .. RequestBound :
       /\ provider' = [provider EXCEPT !.open = @ \ {Value(p).iterations}, !.spent = @ + t]
       /\ IF Holds(p) THEN SavesDecision(p, Decided(Value(p), d, u, t))
                      ELSE Leaves(p) /\ UNCHANGED row
  BY DEF Answer
<1>2. /\ proc[p].pc = "wait" /\ ran' = ran /\ t \in Nat /\ t \in 0 .. RequestBound
      /\ RequestBound \in Nat
  BY DEF Answer, At, AnalystAssumption
<1>3. Spending(p) /\ row.backend = "real"
  BY <1>2 DEF Spending, IInv, SyncInv
<1>4. /\ Unsettled /\ Value(p).iterations = Last /\ provider.open = {Last}
      /\ provider.spent = row.tokens /\ \A q \in Processes : Spending(q) => q = p
  BY <1>2, <1>3 DEF IInv, SpenderInv
<1>5. /\ provider'.sent = provider.sent /\ provider'.open = {} /\ provider'.spent = provider.spent + t
      /\ provider' \in [sent : Seq(1 .. MaxDecisions), open : SUBSET (1 .. MaxDecisions), spent : Nat]
  <2>1. provider \in [sent : Seq(1 .. MaxDecisions), open : SUBSET (1 .. MaxDecisions), spent : Nat]
    BY DEF IInv, TypeOK
  <2>s. PICK s : s = provider.spent + t
    OBVIOUS
  <2>2. s \in Nat /\ provider.open \ {Value(p).iterations} = {}
    BY <2>s, <2>1, <1>2, <1>4
  <2>3. provider' = [provider EXCEPT !.open = {}, !.spent = s]
    BY <2>s, <2>1, <2>2, <1>1
  <2>4. provider'.sent = provider.sent /\ provider'.open = {} /\ provider'.spent = s
    BY <2>1, <2>3
  <2>5. provider' \in [sent : Seq(1 .. MaxDecisions), open : SUBSET (1 .. MaxDecisions), spent : Nat]
    BY <2>1, <2>2, <2>3
  <2> QED  BY <2>s, <2>4, <2>5
<1>6. CASE lock = p
  <2>1. Value(p) = row
    BY <1>2, <1>6, HolderValue DEF Value
  <2> QED  BY <1>1, <1>2, <1>5, <1>6, <2>1, SettledStep DEF Holds
<1>7. CASE lock # p
  <2>1. Leaves(p) /\ row' = row /\ row \in SessionRow
    BY <1>1, <1>7 DEF Holds, IInv, TypeOK
  <2>2. /\ SyncInv' /\ lock' \in Processes \cup {NoProcess}
        /\ proc' \in [Processes -> {Idle} \cup Working]
        /\ proc'[p] = Idle /\ (\A q \in Processes : q # p => proc'[q] = proc[q])
    BY <2>1, LeftSync
  <2>3. TypeOK'
    BY <1>2, <1>5, <2>1, <2>2 DEF IInv, TypeOK
  <2>4. \A q \in Processes : ~Spending(q)'
    BY <1>4, <2>1, <2>2 DEF Spending, Idle
  <2>5. SpenderInv'
    BY <2>4 DEF SpenderInv
  <2>6. Last' = Last /\ Unsettled'
    BY <1>4, <2>1 DEF Last, Unsettled
  <2>7. row.tokens \in Nat /\ TokenCeiling \in Nat
    BY <2>1 DEF SessionRow, AnalystAssumption
  <2>8. LedgerInv'
    BY <1>2, <1>4, <1>5, <2>1, <2>6, <2>7 DEF IInv, LedgerInv
  <2>9. UsageInv' /\ ToolInv' /\ ApprovalMatchesPlan'
    BY <1>2, <2>1 DEF IInv, UsageInv, ToolInv, ApprovalMatchesPlan
  <2>10. Grown(row, row')
    BY <2>1, GrownRefl
  <2> QED  BY <2>2, <2>3, <2>5, <2>8, <2>9, <2>10 DEF IInv
<1> QED  BY <1>6, <1>7

LEMMA NoAnswerStep ==
  ASSUME AnalystAssumption, IInv, NEW p \in Processes, NoAnswer(p)
  PROVE  IInv' /\ Grown(row, row')
<1>1. /\ proc[p].pc = "wait" /\ ran' = ran /\ provider' = provider
      /\ SavesDecision(p, Decided(Value(p), NoPending, "UNKNOWN", 0))
  BY DEF NoAnswer, At
<1>2. lock = p
  BY <1>1 DEF SavesDecision, Saves, SavesAndLeaves, Holds
<1>3. Value(p) = row
  BY <1>1, <1>2, HolderValue DEF Value
<1>4. 0 \in 0 .. RequestBound /\ provider.spent \in Nat /\ provider'.spent = provider.spent + 0
  BY <1>1 DEF IInv, TypeOK, AnalystAssumption
<1>5. provider' \in [sent : Seq(1 .. MaxDecisions), open : SUBSET (1 .. MaxDecisions), spent : Nat]
  BY <1>1 DEF IInv, TypeOK
<1> QED  BY <1>1, <1>2, <1>3, <1>4, <1>5, SettledStep

-----------------------------------------------------------------------------
(* The invariant, and what it says. *)

LEMMA StepInvariant ==
  ASSUME AnalystAssumption, IInv, Next
  PROVE  IInv' /\ Grown(row, row')
<1>1. ASSUME NEW p \in Processes, Advance(p)
      PROVE  IInv' /\ Grown(row, row')
  <2>1. CASE Resume(p)
    BY <2>1, ResumeStep
  <2>2. CASE SpendBlocked(p)
    BY <2>2, RefusedStep DEF SpendBlocked
  <2>3. CASE Decide(p)
    BY <2>3, FakeDecideStep, RealDecideStep
  <2>4. CASE Reserve(p)
    BY <2>4, ReserveStep
  <2>5. CASE Send(p)
    BY <2>5, SendStep
  <2>6. CASE Answer(p)
    BY <2>6, AnswerStep
  <2>7. CASE NoAnswer(p)
    BY <2>7, NoAnswerStep
  <2>8. CASE FakeDecision(p)
    BY <2>8, FakeDecisionStep
  <2>9. CASE LimitReached(p) \/ ToolLimit(p)
    BY <2>9, LimitStep
  <2>10. CASE CallTool(p)
    BY <2>10, CallToolStep
  <2>11. CASE ToolReturns(p)
    BY <2>11, ToolReturnsStep
  <2>12. CASE ToolsDone(p)
    BY <2>12, ToolsDoneStep
  <2>13. CASE Finalize(p)
    BY <2>13, FinalizeStep
  <2>14. CASE SaveRaises(p)
    BY <2>14, JustLeaves DEF SaveRaises
  <2> QED  BY <1>1, <2>1, <2>2, <2>3, <2>4, <2>5, <2>6, <2>7, <2>8, <2>9, <2>10, <2>11,
               <2>12, <2>13, <2>14 DEF Advance
<1>2. ASSUME NEW p \in Processes, Disturb(p)
      PROVE  IInv' /\ Grown(row, row')
  <2>1. CASE OtherwiseBlocked(p)
    BY <2>1, RefusedStep DEF OtherwiseBlocked
  <2>2. CASE Disconnect(p)
    BY <2>2, DisconnectStep
  <2>3. CASE Die(p)
    BY <2>3, JustLeaves DEF Die
  <2> QED  BY <1>2, <2>1, <2>2, <2>3 DEF Disturb
<1>3. row \in SessionRow
  BY DEF IInv, TypeOK
<1>4. ASSUME NEW plan \in Plans, Propose(plan)
      PROVE  IInv' /\ Grown(row, row')
  <2>w. PICK w : w = WithPlan(row, plan)
    OBVIOUS
  <2>1. Moves(row, w)
    BY <2>w, <1>3, WithPlanFields
  <2> QED  BY <2>w, <2>1, <1>4, ReviewStep DEF Propose
<1>5. ASSUME NEW plan \in Plans, Approve(plan)
      PROVE  IInv' /\ Grown(row, row')
  <2>w. PICK w : w = [row EXCEPT !.approval = plan]
    OBVIOUS
  <2>1. Moves(row, w)
    BY <2>w, <1>3, <1>5, ApprovedFields DEF Approve
  <2> QED  BY <2>w, <2>1, <1>5, ReviewStep DEF Approve
<1> QED  BY <1>1, <1>2, <1>4, <1>5 DEF Next

LEMMA StutterInvariant ==
  ASSUME IInv, UNCHANGED vars
  PROVE  IInv'
BY DEF vars, IInv, TypeOK, SyncInv, UsageInv, SpenderInv, LedgerInv, ToolInv, ApprovalMatchesPlan,
       Last, Unsettled, Spending, Value

\* The inductive invariant, from which everything below follows.
THEOREM Invariant == ASSUME AnalystAssumption PROVE Spec => []IInv
<1>1. Init => IInv
  BY InitInvariant
<1>2. IInv /\ [Next]_vars => IInv'
  BY StepInvariant, StutterInvariant
<1> QED  BY <1>1, <1>2, PTL DEF Spec

\* Every field of the session row and of a process's value keeps its type.
THEOREM TypeCorrect == ASSUME AnalystAssumption PROVE Spec => []TypeOK
<1>1. IInv => TypeOK
  BY DEF IInv
<1> QED  BY <1>1, Invariant, PTL

\* RealAnalystBackend never has two requests of a session at the provider.
THEOREM OneRequest == ASSUME AnalystAssumption PROVE Spec => []OneRequestOutstanding
<1>1. IInv => OneRequestOutstanding
  <2>1. IInv => provider.open = {} \/ provider.open = {Last}
    BY DEF IInv, LedgerInv
  <2>2. Cardinality({}) = 0 /\ Cardinality({Last}) = 1
    BY FS_EmptySet, FS_Singleton
  <2>3. IInv => Cardinality(provider.open) = 0 \/ Cardinality(provider.open) = 1
    BY <2>1, <2>2
  <2>4. \A n : n = 0 \/ n = 1 => n <= 1
    OBVIOUS
  <2> QED  BY <2>3, <2>4 DEF OneRequestOutstanding
<1> QED  BY <1>1, Invariant, PTL

\* Requests are sent for different decisions, in order, below the ceiling.
THEOREM RequestsCounted == ASSUME AnalystAssumption PROVE Spec => []RequestsAreCounted
<1>1. ASSUME IInv
      PROVE  RequestsAreCounted
  <2>1. /\ provider.sent \in Seq(1 .. MaxDecisions) /\ row.usage \in Seq(UsageStatus)
        /\ ProviderRequests \in Nat /\ MaxDecisions \in Nat
    BY <1>1 DEF IInv, TypeOK, SessionRow, AnalystAssumption
  <2>2. /\ Last <= ProviderRequests /\ Last \in Nat
        /\ \A i \in DOMAIN provider.sent : i <= provider.sent[i] /\ provider.sent[i] <= Last
        /\ \A i, j \in DOMAIN provider.sent : i < j => provider.sent[i] < provider.sent[j]
    BY <1>1, <2>1 DEF IInv, UsageInv, LedgerInv, Last
  <2>3. Len(provider.sent) <= ProviderRequests
    <3>1. CASE Len(provider.sent) = 0
      BY <3>1, <2>1
    <3>2. CASE Len(provider.sent) # 0
      <4>1. Len(provider.sent) \in DOMAIN provider.sent
        BY <3>2, <2>1
      <4>2. Len(provider.sent) \in Nat /\ provider.sent[Len(provider.sent)] \in Nat
        BY <4>1, <2>1
      <4> QED  BY <4>1, <4>2, <2>1, <2>2
    <3> QED  BY <3>1, <3>2
  <2> QED  BY <2>2, <2>3 DEF RequestsAreCounted
<1> QED  BY <1>1, Invariant, PTL

\* The spending ceiling holds for what the provider used, not only for what
\* the journal knows.
THEOREM TokensBounded == ASSUME AnalystAssumption PROVE Spec => []TokensWithinCeiling
<1>1. ASSUME IInv
      PROVE  TokensWithinCeiling
  <2>1. /\ row.tokens \in Nat /\ provider.spent \in Nat /\ RequestBound \in Nat
        /\ TokenCeiling \in Nat
    BY <1>1 DEF IInv, TypeOK, SessionRow, AnalystAssumption
  <2>2. CASE provider.open = {}
    <3>1. Cardinality(provider.open) = 0
      BY <2>2, FS_EmptySet
    <3>2. provider.spent <= TokenCeiling
      BY <1>1, <2>1 DEF IInv, LedgerInv
    <3> QED  BY <2>1, <3>1, <3>2 DEF TokensWithinCeiling
  <2>3. CASE provider.open # {}
    <3>1. provider.open = {Last} /\ Unsettled /\ provider.spent = row.tokens
      BY <1>1, <2>3 DEF IInv, LedgerInv
    <3>2. Cardinality(provider.open) = 1
      BY <3>1, FS_Singleton
    <3>3. row.tokens + RequestBound <= TokenCeiling
      BY <1>1, <3>1 DEF IInv, LedgerInv
    <3> QED  BY <2>1, <3>1, <3>2, <3>3 DEF TokensWithinCeiling
  <2> QED  BY <2>2, <2>3
<1> QED  BY <1>1, Invariant, PTL

\* A tool call is executed once, whatever happened to the process that did it.
THEOREM ToolsOnce == ASSUME AnalystAssumption PROVE Spec => []ToolsRunOnce
<1>1. ASSUME IInv
      PROVE  ToolsRunOnce
  <2>1. \A k \in Keys : ran[k] = IF row.calls[k] = "absent" THEN 0 ELSE 1
    BY <1>1 DEF IInv, ToolInv
  <2>2. {k \in Keys : ran[k] > 0} = {k \in Keys : row.calls[k] # "absent"}
    BY <2>1
  <2>3. row.tool_calls \in 0 .. MaxTools
        /\ row.tool_calls = Cardinality({k \in Keys : row.calls[k] # "absent"})
    BY <1>1 DEF IInv, ToolInv, TypeOK, SessionRow
  <2>4. Cardinality({k \in Keys : ran[k] > 0}) <= MaxTools
    <3>1. PICK n : n = Cardinality({k \in Keys : ran[k] > 0})
      OBVIOUS
    <3>2. n \in 0 .. MaxTools /\ MaxTools \in Nat
      BY <2>2, <2>3, <3>1 DEF AnalystAssumption
    <3> QED  BY <3>1, <3>2
  <2>5. \A k \in Keys : ran[k] <= 1
    BY <2>1
  <2> QED  BY <2>4, <2>5 DEF ToolsRunOnce
<1> QED  BY <1>1, Invariant, PTL

\* Totals without an unknown entry are what the provider was paid for.
THEOREM TotalsExact == ASSUME AnalystAssumption PROVE Spec => []KnownTotalsAreExact
<1>1. ASSUME IInv, \A i \in DOMAIN row.usage : row.usage[i] = "KNOWN"
      PROVE  row.tokens = provider.spent
  <2>1. row.usage \in Seq(UsageStatus)
    BY <1>1 DEF IInv, TypeOK, SessionRow
  <2>2. ~Unsettled
    BY <1>1, <2>1 DEF Unsettled, Last
  <2> QED  BY <1>1, <2>2 DEF IInv, LedgerInv
<1>2. IInv => KnownTotalsAreExact
  BY <1>1 DEF KnownTotalsAreExact
<1> QED  BY <1>2, Invariant, PTL

\* What the journal says of the usage is what the provider saw.
THEOREM UsageExact == ASSUME AnalystAssumption PROVE Spec => []UsageIsExact
<1>1. RequestsAreCounted /\ KnownTotalsAreExact => UsageIsExact
  BY DEF UsageIsExact
<1> QED  BY <1>1, RequestsCounted, TotalsExact, PTL

\* A changed proposal has lost the approval of the earlier one.
THEOREM ApprovalFollowsPlan == ASSUME AnalystAssumption PROVE Spec => []ApprovalMatchesPlan
<1>1. IInv => ApprovalMatchesPlan
  BY DEF IInv
<1> QED  BY <1>1, Invariant, PTL

\* A save by any process, with or without its lock, only adds to the journal.
THEOREM JournalOnlyGrows == ASSUME AnalystAssumption PROVE Spec => JournalGrows
<1>1. IInv /\ [Next]_vars => [Grown(row, row')]_vars
  BY StepInvariant
<1> QED  BY <1>1, Invariant, PTL DEF Spec, JournalGrows
=============================================================================
