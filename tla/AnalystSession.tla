--------------------------- MODULE AnalystSession ---------------------------
(***************************************************************************)
(* One persisted investigation of the Analyst (analyst/sessions.py,        *)
(* analyst/graph.py, analyst/real_backend.py).  Every resume holds a       *)
(* PostgreSQL advisory lock that belongs to its connection and advances    *)
(* the investigation by one step; the session row is a journal that is     *)
(* committed around every side effect.  A connection can be lost while its *)
(* process goes on: the lock is then free, and what the process saves next *)
(* raises.  A process can also die, or its request be cancelled, anywhere. *)
(***************************************************************************)
EXTENDS Naturals, Sequences, FiniteSets

CONSTANTS
  Processes,         \* requests to the service that may be under way together
  Keys,              \* digests of the read-only tool calls
  CallSets,          \* the sets of calls one tool decision may ask for
  Plans,             \* regression plans that pass validate_proposal
  NoPlan, NoProcess,
  MaxDecisions,      \* max_decision_iterations
  MaxTools,          \* max_tool_calls
  ProviderRequests,  \* spend_limits.provider_requests
  RequestBound,      \* context window + output_tokens_per_request
  TokenCeiling       \* spend_limits.cumulative_tokens

ASSUME AnalystAssumption ==
  /\ IsFiniteSet(Keys) /\ CallSets \subseteq (SUBSET Keys) \ {{}}
  /\ NoPlan \notin Plans /\ NoProcess \notin Processes
  /\ MaxDecisions \in Nat \ {0} /\ MaxTools \in Nat \ {0}
  /\ ProviderRequests \in 1 .. MaxDecisions
  /\ RequestBound \in Nat \ {0} /\ TokenCeiling \in Nat

VARIABLES
  row,       \* the session row: its AnalystSession value, journal included
  lock,      \* the process whose connection holds the advisory lock
  proc,      \* where each process stands, and the value it works on
  provider,  \* what the model provider received
  ran        \* ran[k]: how often the tool call k was executed

vars == <<row, lock, proc, provider, ran>>

-----------------------------------------------------------------------------
NoPending == [kind |-> "none"]
Abstain == [kind |-> "abstain"]
ToolDecisions == [kind : {"tools"}, calls : CallSets]
FinalDecisions == [kind : {"final"}, plan : Plans \cup {NoPlan}]
Decisions == ToolDecisions \cup FinalDecisions \cup {Abstain}

\* A call that timed out is one of the FAILED.
CallStatus == {"absent", "RUNNING", "COMPLETED", "FAILED", "INTERRUPTED"}

\* A DecisionUsage: held or interrupted before its result was saved, saved
\* without token counts, saved with them.
UsageStatus == {"RESERVED", "INTERRUPTED", "UNKNOWN", "KNOWN"}

\* tokens is the sum over the KNOWN entries of usage.
SessionRow ==
  [backend : {"fake", "real"}, iterations : 0 .. MaxDecisions, tool_calls : 0 .. MaxTools,
   inflight : {"none", "decision", "tool"}, pending : Decisions \cup {NoPending},
   calls : [Keys -> CallStatus], usage : Seq(UsageStatus), tokens : Nat,
   error : {"none", "BACKEND_DECISION_FAILED", "INVALID_ATTRIBUTION", "SPEND_PREFLIGHT_BLOCKED"},
   limit_reason : {"none", "reached"}, report : {"none", "COMPLETED", "ABSTAINED", "LIMIT_REACHED"},
   plan : Plans \cup {NoPlan}, approval : Plans \cup {NoPlan}]

Idle == [pc |-> "idle"]
Step == {"decide", "reserve", "invoke", "wait", "tools", "tool", "finalize"}
Working == [pc : Step, value : SessionRow]

\* AnalystSessions.create, for either backend.
Init ==
  /\ \E b \in {"fake", "real"} :
       row = [backend |-> b, iterations |-> 0, tool_calls |-> 0, inflight |-> "none",
              pending |-> NoPending, calls |-> [k \in Keys |-> "absent"], usage |-> << >>,
              tokens |-> 0, error |-> "none", limit_reason |-> "none", report |-> "none",
              plan |-> NoPlan, approval |-> NoPlan]
  /\ lock = NoProcess
  /\ proc = [p \in Processes |-> Idle]
  /\ provider = [sent |-> << >>, open |-> {}, spent |-> 0]
  /\ ran = [k \in Keys |-> 0]

-----------------------------------------------------------------------------
(* The value a process works on. *)

At(p, pc) == proc[p].pc = pc
Value(p) == proc[p].value

\* Mutant: the journal is saved through a connection of the pool.
Holds_AnyConnection(p) == p \in Processes
\* The connection of p, and with it the lock, is still there.
Holds(p) == lock = p

Real(v) == v.backend = "real"
BelowLimits(v) == v.iterations < MaxDecisions /\ v.tool_calls < MaxTools

\* Mutant: an interrupted tool call is asked for again.
Recovered_Replays(v) ==
  IF v.inflight = "none" THEN [v EXCEPT !.error = "none"]
  ELSE [v EXCEPT !.inflight = "none", !.error = "none",
                 !.usage = [i \in DOMAIN @ |-> IF @[i] = "RESERVED" THEN "INTERRUPTED" ELSE @[i]],
                 !.calls = [k \in Keys |-> IF @[k] = "RUNNING" THEN "absent" ELSE @[k]]]

\* resume: what a dead process left in flight is marked interrupted, never refunded
\* and never replayed.
Recovered(v) ==
  IF v.inflight = "none" THEN [v EXCEPT !.error = "none"]
  ELSE [v EXCEPT !.inflight = "none", !.error = "none",
                 !.usage = [i \in DOMAIN @ |-> IF @[i] = "RESERVED" THEN "INTERRUPTED" ELSE @[i]],
                 !.calls = [k \in Keys |-> IF @[k] = "RUNNING" THEN "INTERRUPTED" ELSE @[k]]]

\* AttributionGraph._start and _route
NextNode(v) ==
  CASE v.limit_reason # "none" \/ v.pending.kind \in {"final", "abstain"} -> "finalize"
    [] v.limit_reason = "none" /\ v.pending.kind = "tools" -> "tools"
    [] v.limit_reason = "none" /\ v.pending.kind = "none" -> "decide"

\* Mutant: an unknown usage does not block.
SpendReasons_KnownOnly(v) ==
  \/ Len(v.usage) >= ProviderRequests
  \/ v.tokens + RequestBound > TokenCeiling
\* Mutant: the next request is not added to what was spent.
SpendReasons_Exhausted(v) ==
  \/ Len(v.usage) >= ProviderRequests
  \/ \E i \in DOMAIN v.usage : v.usage[i] # "KNOWN"
  \/ v.tokens >= TokenCeiling
\* spend_reasons (the ceilings it can reach, not the profile's).
SpendReasons(v) ==
  \/ Len(v.usage) >= ProviderRequests
  \/ \E i \in DOMAIN v.usage : v.usage[i] # "KNOWN"
  \/ v.tokens + RequestBound > TokenCeiling

\* Mutant: the approval of an earlier plan survives.
WithPlan_KeepsApproval(v, plan) == [v EXCEPT !.plan = plan]
\* A changed proposal loses its approval (persist and propose).
WithPlan(v, plan) ==
  [v EXCEPT !.plan = plan, !.approval = IF plan = v.plan THEN @ ELSE NoPlan]

\* Mutant: an iteration is counted only when its decision is usable.
Begun_Uncounted(v) ==
  [v EXCEPT !.inflight = "decision", !.error = "none",
            !.usage = IF Real(v) THEN Append(@, "RESERVED") ELSE @]
\* A new decision: its iteration is spent before the backend is asked.
Begun(v) ==
  [v EXCEPT !.iterations = @ + 1, !.inflight = "decision", !.error = "none",
            !.usage = IF Real(v) THEN Append(@, "RESERVED") ELSE @]

\* Mutant: missing token counts are saved as a known zero.
Decided_AssumesZero(v, d, u, t) ==
  [v EXCEPT !.inflight = "none", !.pending = d,
            !.error = IF d = NoPending THEN "BACKEND_DECISION_FAILED" ELSE "none",
            !.usage = IF Real(v) THEN [@ EXCEPT ![Len(v.usage)] = "KNOWN"] ELSE @,
            !.tokens = IF u = "KNOWN" THEN @ + t ELSE @]
\* The backend's decision d, or its failure (NoPending), with its usage.
Decided(v, d, u, t) ==
  [v EXCEPT !.inflight = "none", !.pending = d,
            !.error = IF d = NoPending THEN "BACKEND_DECISION_FAILED" ELSE "none",
            !.usage = IF Real(v) THEN [@ EXCEPT ![Len(v.usage)] = u] ELSE @,
            !.tokens = IF u = "KNOWN" THEN @ + t ELSE @]

Called(v, k) ==
  [v EXCEPT !.tool_calls = @ + 1, !.inflight = "tool", !.calls[k] = "RUNNING"]
Returned(v, k, status) ==
  [v EXCEPT !.inflight = "none", !.calls[k] = status]
NewCalls(v) == {k \in Keys : v.calls[k] = "absent" /\ k \in v.pending.calls}
Observed(v) == [v EXCEPT !.pending = NoPending]

Limited(v) == [v EXCEPT !.pending = NoPending, !.limit_reason = "reached"]
Reported(v) ==
  [WithPlan(v, IF v.pending.kind = "final" THEN v.pending.plan ELSE NoPlan)
     EXCEPT !.pending = NoPending,
            !.report = CASE v.limit_reason # "none" -> "LIMIT_REACHED"
                         [] v.limit_reason = "none" /\ v.pending.kind = "abstain" -> "ABSTAINED"
                         [] OTHER -> "COMPLETED"]
\* _reject_finalization
Rejected(v) ==
  [v EXCEPT !.pending = NoPending,
            !.error = IF v.iterations >= MaxDecisions THEN "INVALID_ATTRIBUTION" ELSE "none"]

-----------------------------------------------------------------------------
(* A save commits the whole value on the connection that holds the lock.   *)
Saves(p, v, pc) ==
  /\ Holds(p)
  /\ row' = v
  /\ proc' = [proc EXCEPT ![p] = [pc |-> pc, value |-> v]]
  /\ UNCHANGED lock

Leaves(p) ==
  /\ proc' = [proc EXCEPT ![p] = Idle]
  /\ lock' = IF lock = p THEN NoProcess ELSE lock

SavesAndLeaves(p, v) ==
  /\ Holds(p)
  /\ row' = v
  /\ Leaves(p)

\* resume: take the lock or be refused as busy, load, recover, save.
Resume(p) ==
  /\ proc[p] = Idle
  /\ lock = NoProcess
  /\ row.report = "none"
  /\ lock' = p
  /\ row' = Recovered(row)
  /\ proc' = [proc EXCEPT ![p] = [pc |-> NextNode(Recovered(row)), value |-> Recovered(row)]]
  /\ UNCHANGED <<provider, ran>>

\* _preflight of a real session that would have to ask its provider.
NeedsPreflight(p) == At(p, "decide") /\ Real(Value(p)) /\ BelowLimits(Value(p))

Refused(p) ==
  /\ SavesAndLeaves(p, [Value(p) EXCEPT !.error = "SPEND_PREFLIGHT_BLOCKED"])
  /\ UNCHANGED <<provider, ran>>

SpendBlocked(p) == NeedsPreflight(p) /\ SpendReasons(Value(p)) /\ Refused(p)

\* A changed profile, credential or evidence scope, or a per-request ceiling.
OtherwiseBlocked(p) == NeedsPreflight(p) /\ Refused(p)

\* _decide, up to the save that spends the iteration.
Decide(p) ==
  /\ At(p, "decide")
  /\ BelowLimits(Value(p))
  /\ Real(Value(p)) => ~SpendReasons(Value(p))
  /\ Saves(p, Begun(Value(p)), IF Real(Value(p)) THEN "reserve" ELSE "invoke")
  /\ UNCHANGED <<provider, ran>>

\* RealAnalystBackend.decide: what the request may use is journaled first.
Reserve(p) ==
  /\ At(p, "reserve")
  /\ Saves(p, Value(p), "invoke")
  /\ UNCHANGED <<provider, ran>>

\* adapter.invoke; nothing here looks at the connection.
Send(p) ==
  /\ At(p, "invoke")
  /\ Real(Value(p))
  /\ provider' = [provider EXCEPT !.sent = Append(@, Value(p).iterations),
                                  !.open = @ \cup {Value(p).iterations}]
  /\ proc' = [proc EXCEPT ![p].pc = "wait"]
  /\ UNCHANGED <<row, lock, ran>>

\* Save the outcome of a decision and go on with it; a failure ends the step.
SavesDecision(p, v) ==
  IF v.error = "none" THEN Saves(p, v, NextNode(v)) ELSE SavesAndLeaves(p, v)

\* An answer that used t tokens, and says so or not; it may be unusable.
Answer(p) ==
  /\ At(p, "wait")
  /\ \E d \in Decisions \cup {NoPending}, u \in {"KNOWN", "UNKNOWN"}, t \in 1 .. RequestBound :
       /\ provider' = [provider EXCEPT !.open = @ \ {Value(p).iterations}, !.spent = @ + t]
       /\ IF Holds(p) THEN SavesDecision(p, Decided(Value(p), d, u, t))
                      ELSE Leaves(p) /\ UNCHANGED row
  /\ UNCHANGED ran

\* A timeout or a broken transport: the provider may still be working.
NoAnswer(p) ==
  /\ At(p, "wait")
  /\ SavesDecision(p, Decided(Value(p), NoPending, "UNKNOWN", 0))
  /\ UNCHANGED <<provider, ran>>

\* FakeAnalystBackend.decide
FakeDecision(p) ==
  /\ At(p, "invoke")
  /\ ~Real(Value(p))
  /\ \E d \in Decisions \cup {NoPending} : SavesDecision(p, Decided(Value(p), d, "UNKNOWN", 0))
  /\ UNCHANGED <<provider, ran>>

\* _decide at a limit: kept in memory until the report is saved.
LimitReached(p) ==
  /\ At(p, "decide")
  /\ ~BelowLimits(Value(p))
  /\ proc' = [proc EXCEPT ![p] = [pc |-> "finalize", value |-> Limited(Value(p))]]
  /\ UNCHANGED <<row, lock, provider, ran>>

\* _execute_tools: journal the call, then execute it.
CallTool(p) ==
  /\ At(p, "tools")
  /\ \E k \in NewCalls(Value(p)) :
       /\ Value(p).tool_calls < MaxTools
       /\ Saves(p, Called(Value(p), k), "tool")
       /\ ran' = [ran EXCEPT ![k] = @ + 1]
  /\ UNCHANGED provider

ToolReturns(p) ==
  /\ At(p, "tool")
  /\ \E k \in Keys, status \in {"COMPLETED", "FAILED"} :
       /\ Value(p).calls[k] = "RUNNING"
       /\ Saves(p, Returned(Value(p), k, status), "tools")
  /\ UNCHANGED <<provider, ran>>

ToolLimit(p) ==
  /\ At(p, "tools")
  /\ NewCalls(Value(p)) # {} /\ Value(p).tool_calls >= MaxTools
  /\ proc' = [proc EXCEPT ![p] = [pc |-> "finalize", value |-> Limited(Value(p))]]
  /\ UNCHANGED <<row, lock, provider, ran>>

\* Every call of the decision has its record: pause.
ToolsDone(p) ==
  /\ At(p, "tools")
  /\ NewCalls(Value(p)) = {}
  /\ SavesAndLeaves(p, Observed(Value(p)))
  /\ UNCHANGED <<provider, ran>>

\* _finalize: only the draft of a final decision can fail its validation.
Finalize(p) ==
  /\ At(p, "finalize")
  /\ \/ SavesAndLeaves(p, Reported(Value(p)))
     \/ Value(p).limit_reason = "none" /\ Value(p).pending.kind = "final"
          /\ SavesAndLeaves(p, Rejected(Value(p)))
  /\ UNCHANGED <<provider, ran>>

\* The next save of a process that lost its connection raises.
SaveRaises(p) ==
  /\ proc[p] # Idle
  /\ ~Holds(p)
  /\ ~At(p, "wait")
  /\ Real(Value(p)) => ~At(p, "invoke")
  /\ Leaves(p)
  /\ UNCHANGED <<row, provider, ran>>

-----------------------------------------------------------------------------
\* propose and approve: load, check and save under the lock.
Propose(plan) ==
  /\ lock = NoProcess
  /\ row' = WithPlan(row, plan)
  /\ UNCHANGED <<lock, proc, provider, ran>>

Approve(plan) ==
  /\ lock = NoProcess
  /\ row.plan = plan
  /\ row' = [row EXCEPT !.approval = plan]
  /\ UNCHANGED <<lock, proc, provider, ran>>

\* PostgreSQL releases the lock of a lost connection; the process goes on.
Disconnect(p) ==
  /\ lock = p
  /\ lock' = NoProcess
  /\ UNCHANGED <<row, proc, provider, ran>>

\* A crash, or the cancellation of the HTTP request.
Die(p) ==
  /\ proc[p] # Idle
  /\ Leaves(p)
  /\ UNCHANGED <<row, provider, ran>>

Advance(p) ==
  \/ Resume(p) \/ SpendBlocked(p) \/ Decide(p) \/ Reserve(p) \/ Send(p)
  \/ Answer(p) \/ NoAnswer(p) \/ FakeDecision(p) \/ LimitReached(p)
  \/ CallTool(p) \/ ToolReturns(p) \/ ToolLimit(p) \/ ToolsDone(p)
  \/ Finalize(p) \/ SaveRaises(p)

Disturb(p) == OtherwiseBlocked(p) \/ Disconnect(p) \/ Die(p)

Next ==
  \/ \E p \in Processes : Advance(p) \/ Disturb(p)
  \/ \E plan \in Plans : Propose(plan) \/ Approve(plan)

Spec == Init /\ [][Next]_vars

\* Somebody keeps resuming the investigation.
FairSpec == Spec /\ \A p \in Processes : WF_vars(Advance(p))

-----------------------------------------------------------------------------
(* Properties. *)

TypeOK ==
  /\ row \in SessionRow
  /\ lock \in Processes \cup {NoProcess}
  /\ proc \in [Processes -> {Idle} \cup Working]
  /\ provider \in [sent : Seq(1 .. MaxDecisions), open : SUBSET (1 .. MaxDecisions), spent : Nat]
  /\ ran \in [Keys -> Nat]

\* Whatever connections are lost and whoever resumes, no request is sent while
\* the provider may still be working on an earlier one of the session: a
\* request whose answer was not saved blocks the session for good.
OneRequestOutstanding == Cardinality(provider.open) <= 1

\* A decision is asked for at most once, in order, and never refunded: the
\* requests that really left the service stay below the request ceiling.
RequestsAreCounted ==
  /\ Len(provider.sent) <= ProviderRequests
  /\ \A i, j \in DOMAIN provider.sent : i < j => provider.sent[i] < provider.sent[j]

\* What the provider was paid for, with every unanswered request at its bound,
\* never exceeds the approved ceiling, crashes and lost answers included.
TokensWithinCeiling ==
  provider.spent + RequestBound * Cardinality(provider.open) <= TokenCeiling

\* A tool call is executed at most once, even if its journal entry was left
\* RUNNING by a dead process, and all calls together stay below the limit.
ToolsRunOnce ==
  /\ \A k \in Keys : ran[k] <= 1
  /\ Cardinality({k \in Keys : ran[k] > 0}) <= MaxTools

\* While every entry of the journal knows its tokens, the totals shown to the
\* reader are exactly what the provider was paid for.
KnownTotalsAreExact ==
  (\A i \in DOMAIN row.usage : row.usage[i] = "KNOWN") => row.tokens = provider.spent

\* What the journal says of the usage is what the provider saw.
UsageIsExact == RequestsAreCounted /\ KnownTotalsAreExact

\* An approval names the plan that is proposed now.
ApprovalMatchesPlan == row.approval # NoPlan => row.approval = row.plan

Grown(v, w) ==
  /\ w.iterations >= v.iterations /\ w.tool_calls >= v.tool_calls
  /\ \A k \in Keys : v.calls[k] \notin {"absent", "RUNNING"} => w.calls[k] = v.calls[k]
  /\ Len(w.usage) >= Len(v.usage)
  /\ \A i \in DOMAIN v.usage : v.usage[i] # "RESERVED" => w.usage[i] = v.usage[i]
  /\ v.report # "none" => w.report = v.report

\* No save undoes what another process saved: counters never fall, a call or a
\* usage entry that left its reservation is final, and a report is the end.
JournalGrows == [][Grown(row, row')]_vars

\* If connections, processes and the environment behave from some time on, an
\* investigation that is resumed ends with a report, unless its spending
\* limits refuse the next request.
SessionEnds ==
  (<>[][~\E p \in Processes : Disturb(p)]_vars) =>
    <>[](\/ row.report # "none"
         \/ row.backend = "real" /\ row.error = "SPEND_PREFLIGHT_BLOCKED"
         \/ row.backend = "real" /\ SpendReasons(row))
=============================================================================
