---------------------------- MODULE CanaryJournal ----------------------------
(***************************************************************************)
(* The launch journal of the canary (release/v6_canary.py): three calls in *)
(* order, each marked before it is launched and described afterwards by a  *)
(* file that is created once, then one closeout.  "Three-primary-launch    *)
(* executor with crash-safe no-retry resume semantics": executors may die  *)
(* anywhere and be started again, and nothing keeps two of them apart but  *)
(* the files.  What a call does outside is one answer, or none.            *)
(***************************************************************************)
EXTENDS Integers, Sequences

CONSTANTS
  Executors,
  Calls,       \* 1 .. n
  MaxLaunches, \* bound on the launches of a call
  Missing, Partial

VARIABLES
  marker,    \* launch-journal: Missing, Partial or "whole"
  evidence,  \* per-call-evidence: Missing, Partial or the status of the call
  provider,  \* the calls that left provider-evidence
  closeout,  \* Missing, Partial or the statuses it sums up
  executor,
  launches,  \* how often each call was sent (observed, not stored)
  answers    \* what the sends of each call came to (observed, not stored)

vars == <<marker, evidence, provider, closeout, executor, launches, answers>>

\* PASSED and FAILED as the invoker reports them; UNKNOWN is the evidence that
\* _post_launch_failure makes up, FAILED with the same bytes every time.
Failures == {"FAILED", "UNKNOWN"}
Statuses == {"PASSED"} \cup Failures

Idle == [pc |-> "idle"]

Init ==
  /\ marker = [c \in Calls |-> Missing]
  /\ evidence = [c \in Calls |-> Missing]
  /\ provider = {}
  /\ closeout = Missing
  /\ executor = [e \in Executors |-> Idle]
  /\ launches = [c \in Calls |-> 0]
  /\ answers = [c \in Calls |-> {}]

At(e, pc) == executor[e].pc = pc
Leave(e) == executor' = [executor EXCEPT ![e] = Idle]
Here(e) == executor[e].call

\* The evidence of the call at hand is known: go on, unless it failed or was the last.
AfterCall(e, status) ==
  LET pc == IF status \in Failures \/ Here(e) + 1 \notin Calls THEN "close" ELSE "call"
  IN  executor' = [executor EXCEPT ![e] =
        [pc |-> pc, call |-> Here(e) + 1, seen |-> Append(executor[e].seen, status)]]

\* execute: a closeout is only validated, whatever the validation says.
Start(e) ==
  /\ At(e, "idle") /\ closeout = Missing
  /\ executor' = [executor EXCEPT ![e] = [pc |-> "call", call |-> 1, seen |-> <<>>]]
  /\ UNCHANGED <<marker, evidence, provider, closeout, launches, answers>>

\* A marked call is taken over with its evidence.
TakeOver(e) ==
  /\ At(e, "call") /\ marker[Here(e)] = "whole" /\ evidence[Here(e)] \in Statuses
  /\ AfterCall(e, evidence[Here(e)])
  /\ UNCHANGED <<marker, evidence, provider, closeout, launches, answers>>

\* Mutant: a marker without evidence does not stop the resumed executor.
MayLaunch_Retries(c) == evidence[c] = Missing
MayLaunch(c) == marker[c] = Missing /\ evidence[c] = Missing /\ c \notin provider

\* "a V6 canary call may have launched without terminal evidence; retries are
\* zero": every other mixture of files raises.
Refuse(e) ==
  /\ At(e, "call") /\ ~MayLaunch(Here(e))
  /\ ~(marker[Here(e)] = "whole" /\ evidence[Here(e)] \in Statuses)
  /\ Leave(e)
  /\ UNCHANGED <<marker, evidence, provider, closeout, launches, answers>>

Decide(e) ==
  /\ At(e, "call") /\ MayLaunch(Here(e))
  /\ executor' = [executor EXCEPT ![e].pc = "mark"]
  /\ UNCHANGED <<marker, evidence, provider, closeout, launches, answers>>

\* _write_immutable_json: the one who creates a file writes it ...
CreateMarker(e) ==
  /\ At(e, "mark") /\ marker[Here(e)] = Missing
  /\ marker' = [marker EXCEPT ![Here(e)] = Partial]
  /\ executor' = [executor EXCEPT ![e].pc = "fill"]
  /\ UNCHANGED <<evidence, provider, closeout, launches, answers>>

\* ... and for another one the same bytes are as good: the marker of a call is
\* the same whoever writes it.
FindMarker(e) ==
  /\ At(e, "mark") /\ marker[Here(e)] # Missing
  /\ IF marker[Here(e)] = "whole"
     THEN executor' = [executor EXCEPT ![e].pc = "launch"]
     ELSE Leave(e)
  /\ UNCHANGED <<marker, evidence, provider, closeout, launches, answers>>

\* The bytes are there before they are flushed to the disk.
FillMarker(e) ==
  /\ At(e, "fill")
  /\ marker' = [marker EXCEPT ![Here(e)] = "whole"]
  /\ executor' = [executor EXCEPT ![e].pc = "sync"]
  /\ UNCHANGED <<evidence, provider, closeout, launches, answers>>

SyncMarker(e) ==
  /\ At(e, "sync")
  /\ executor' = [executor EXCEPT ![e].pc = "launch"]
  /\ UNCHANGED <<marker, evidence, provider, closeout, launches, answers>>

\* The write raises: the file is removed again.
UnwriteMarker(e) ==
  /\ executor[e].pc \in {"fill", "sync"}
  /\ marker' = [marker EXCEPT ![Here(e)] = Missing]
  /\ Leave(e)
  /\ UNCHANGED <<evidence, provider, closeout, launches, answers>>

\* invoker.invoke sends the call ...
Launch(e) ==
  /\ At(e, "launch") /\ launches[Here(e)] < MaxLaunches
  /\ launches' = [launches EXCEPT ![Here(e)] = @ + 1]
  /\ executor' = [executor EXCEPT ![e].pc = "wait"]
  /\ UNCHANGED <<marker, evidence, provider, closeout, answers>>

\* ... and leaves its provider evidence, if it comes that far.
Record(e) ==
  /\ At(e, "wait") /\ Here(e) \notin provider
  /\ provider' = provider \cup {Here(e)}
  /\ UNCHANGED <<marker, evidence, closeout, executor, launches, answers>>

\* It answers, or raises, and the call has failed for good.
Answer(e) ==
  /\ At(e, "wait")
  /\ \E status \in Statuses :
        /\ executor' = [executor EXCEPT ![e] =
          [pc |-> "describe", call |-> Here(e), seen |-> executor[e].seen, status |-> status]]
        /\ answers' = [answers EXCEPT ![Here(e)] = @ \cup {status}]
  /\ provider' = provider \cup {Here(e)}
  /\ UNCHANGED <<marker, evidence, closeout, launches>>

\* The evidence is created; a file that is there must have the same bytes, which
\* the evidence of an unknown outcome always has.
Describe(e) ==
  /\ At(e, "describe")
  /\ \/ /\ evidence[Here(e)] = Missing
        /\ evidence' = [evidence EXCEPT ![Here(e)] = Partial]
        /\ executor' = [executor EXCEPT ![e].pc = "flush"]
     \/ /\ evidence[Here(e)] = executor[e].status
        /\ AfterCall(e, executor[e].status) /\ UNCHANGED evidence
     \/ /\ evidence[Here(e)] # Missing
        /\ ~(evidence[Here(e)] = "UNKNOWN" /\ executor[e].status = "UNKNOWN")
        /\ Leave(e) /\ UNCHANGED evidence
  /\ UNCHANGED <<marker, provider, closeout, launches, answers>>

\* Mutant: the evidence says what the plan expects of the call.
Described_AsPlanned(e) == "PASSED"
Described(e) == executor[e].status

FillEvidence(e) ==
  /\ At(e, "flush")
  /\ evidence' = [evidence EXCEPT ![Here(e)] = Described(e)]
  /\ executor' = [executor EXCEPT ![e].pc = "sync_evidence"]
  /\ UNCHANGED <<marker, provider, closeout, launches, answers>>

\* Like the marker, the evidence can be read before it is flushed to the disk ...
SyncEvidence(e) ==
  /\ At(e, "sync_evidence")
  /\ AfterCall(e, executor[e].status)
  /\ UNCHANGED <<marker, evidence, provider, closeout, launches, answers>>

\* ... and is removed again when that fails.
UnwriteEvidence(e) ==
  /\ executor[e].pc \in {"flush", "sync_evidence"}
  /\ evidence' = [evidence EXCEPT ![Here(e)] = Missing]
  /\ Leave(e)
  /\ UNCHANGED <<marker, provider, closeout, launches, answers>>

\* The closeout sums up what this executor has seen.
Close(e) ==
  /\ At(e, "close")
  /\ \/ /\ closeout = Missing /\ closeout' = Partial
        /\ executor' = [executor EXCEPT ![e].pc = "seal"]
     \/ closeout # Missing /\ Leave(e) /\ UNCHANGED closeout
  /\ UNCHANGED <<marker, evidence, provider, launches, answers>>

FillCloseout(e) ==
  /\ At(e, "seal")
  /\ closeout' = executor[e].seen
  /\ executor' = [executor EXCEPT ![e].pc = "sync_closeout"]
  /\ UNCHANGED <<marker, evidence, provider, launches, answers>>

SyncCloseout(e) ==
  /\ At(e, "sync_closeout")
  /\ Leave(e)
  /\ UNCHANGED <<marker, evidence, provider, closeout, launches, answers>>

UnwriteCloseout(e) ==
  /\ executor[e].pc \in {"seal", "sync_closeout"}
  /\ closeout' = Missing
  /\ Leave(e)
  /\ UNCHANGED <<marker, evidence, provider, launches, answers>>

\* The process dies between two steps, or raises: the artifacts of a call that was
\* sent twice need not match their digests.
Crash(e) ==
  /\ ~At(e, "idle")
  /\ Leave(e)
  /\ UNCHANGED <<marker, evidence, provider, closeout, launches, answers>>

Next ==
  \E e \in Executors :
     \/ Start(e) \/ TakeOver(e) \/ Refuse(e) \/ Decide(e)
     \/ CreateMarker(e) \/ FindMarker(e) \/ FillMarker(e) \/ SyncMarker(e) \/ UnwriteMarker(e)
     \/ Launch(e) \/ Record(e) \/ Answer(e)
     \/ Describe(e) \/ FillEvidence(e) \/ SyncEvidence(e) \/ UnwriteEvidence(e)
     \/ Close(e) \/ FillCloseout(e) \/ SyncCloseout(e) \/ UnwriteCloseout(e) \/ Crash(e)

Spec == Init /\ [][Next]_vars

-----------------------------------------------------------------------------
(* Properties. *)

\* "Retries are zero": with one executor, however often it dies and is started
\* again, no call is sent twice.
LaunchedOnce == \A c \in Calls : launches[c] <= 1

\* Two executors may both send a call whose marker neither of them found, and one
\* may rest on evidence that the other fails to flush and removes again; but none
\* sends a call before every earlier one has passed at least once, and a closeout
\* sums up answers that the calls really gave.
NoLaunchPastFailure ==
  /\ \A c \in Calls : launches[c] > 0 => \A d \in 1 .. (c - 1) : "PASSED" \in answers[d]
  /\ closeout \notin {Missing, Partial}
       => \A c \in DOMAIN closeout : closeout[c] \in answers[c]

\* With one executor, however often it dies and whatever it fails to flush, the
\* evidence that a sent call or a closeout rests on is there for good.
EvidenceStands ==
  /\ \A c \in Calls : launches[c] > 0 => \A d \in 1 .. (c - 1) : evidence[d] = "PASSED"
  /\ closeout \notin {Missing, Partial}
       => \A c \in DOMAIN closeout : evidence[c] = closeout[c]
=============================================================================
