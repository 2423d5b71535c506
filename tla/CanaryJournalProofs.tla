------------------------- MODULE CanaryJournalProofs -------------------------
(***************************************************************************)
(* Theorems about CanaryJournal, for every number of calls: what any       *)
(* number of executors rests on, and that with one executor the evidence   *)
(* stands and no call is sent twice.                                       *)
(***************************************************************************)
EXTENDS CanaryJournal, TLAPS

CONSTANT N   \* the number of calls

\* What the theorems ask of the constants.
Parameters ==
  /\ N \in Nat \ {0} /\ Calls = 1 .. N
  /\ Missing # Partial /\ {Missing, Partial} \cap (Statuses \cup {"whole"}) = {}

-----------------------------------------------------------------------------
(* What an executor has seen of the calls are answers that they gave.       *)

\* Points at which an executor is at a call, and at the end.
AtCall ==
  {"call", "mark", "fill", "sync", "launch", "wait", "describe", "flush", "sync_evidence"}
AtEnd == {"close", "seal", "sync_closeout"}
Describing == {"describe", "flush", "sync_evidence"}

Passed(n) == \A d \in 1 .. n : "PASSED" \in answers[d]

Seen(e) ==
  /\ executor[e].seen \in Seq(Statuses)
  /\ \A i \in 1 .. Len(executor[e].seen) : i \in Calls /\ executor[e].seen[i] \in answers[i]

ExecutorOK(e) ==
  \/ executor[e].pc = "idle"
  \/ /\ executor[e].pc \in AtCall
     /\ Here(e) \in Calls /\ Seen(e)
     /\ Len(executor[e].seen) = Here(e) - 1
     /\ \A i \in 1 .. (Here(e) - 1) : executor[e].seen[i] = "PASSED"
     /\ executor[e].pc \in Describing => executor[e].status \in answers[Here(e)]
  \/ executor[e].pc \in AtEnd /\ Seen(e)

\* Evidence that says how a call ended says what it answered, and so does a closeout.
EvidenceAnswered == \A c \in Calls : evidence[c] \in Statuses => evidence[c] \in answers[c]

CloseoutOK ==
  closeout \notin {Missing, Partial}
    => \A c \in DOMAIN closeout : c \in Calls /\ closeout[c] \in answers[c]

Launched == \A c \in Calls : launches[c] > 0 => Passed(c - 1)

Shape ==
  /\ evidence \in [Calls -> Statuses \cup {Missing, Partial}]
  /\ launches \in [Calls -> Nat]
  /\ answers \in [Calls -> SUBSET Statuses]
  /\ DOMAIN executor = Executors

Inv ==
  /\ Shape /\ EvidenceAnswered /\ CloseoutOK /\ Launched
  /\ \A e \in Executors : ExecutorOK(e)

\* An answer is not taken back.
AnswersGrow == \A c \in Calls : answers[c] \subseteq answers'[c]

\* An executor that does not move keeps what it knows.
LEMMA OthersKeep ==
  ASSUME Parameters, Inv, AnswersGrow, NEW e \in Executors, executor'[e] = executor[e]
  PROVE  ExecutorOK(e)'
  <1>1. ExecutorOK(e)
    BY DEF Inv
  <1>2. Seen(e) => Seen(e)'
    BY DEF Seen, AnswersGrow
  <1>. QED
    BY <1>1, <1>2 DEF ExecutorOK, Here, AnswersGrow

\* The files and the calls that were sent keep what they rest on.
LEMMA FilesKeep ==
  ASSUME Parameters, Inv, AnswersGrow
  PROVE  /\ evidence' = evidence => EvidenceAnswered'
         /\ closeout' = closeout => CloseoutOK'
         /\ launches' = launches => Launched'
  <1>1. \A c \in Calls : Passed(c - 1) => Passed(c - 1)'
    BY DEF Passed, AnswersGrow, Parameters
  <1>2. closeout' = closeout => CloseoutOK'
    BY DEF Inv, CloseoutOK, AnswersGrow
  <1>3. launches' = launches => Launched'
    BY <1>1 DEF Inv, Launched
  <1>4. evidence' = evidence => EvidenceAnswered'
    BY DEF Inv, EvidenceAnswered, AnswersGrow
  <1>. QED
    BY <1>2, <1>3, <1>4

\* A step of e keeps the invariant if it keeps the files' part and e knows what it
\* should.
LEMMA StepOfOne ==
  ASSUME Parameters, Inv, AnswersGrow, NEW e \in Executors,
         Shape', EvidenceAnswered', CloseoutOK', Launched', ExecutorOK(e)',
         \A f \in Executors \ {e} : executor'[f] = executor[f]
  PROVE  Inv'
  <1>1. \A f \in Executors \ {e} : ExecutorOK(f)'
    BY OthersKeep
  <1>. QED
    BY <1>1 DEF Inv

\* A step that leaves evidence, launches, closeout and answers alone.
LEMMA CalmStep ==
  ASSUME Parameters, Inv, NEW e \in Executors,
         UNCHANGED <<evidence, launches, closeout, answers>>,
         executor' = [executor EXCEPT ![e] = executor'[e]],
         ExecutorOK(e)'
  PROVE  Inv'
  <1>1. AnswersGrow
    BY DEF AnswersGrow
  <1>2. Shape' /\ EvidenceAnswered' /\ CloseoutOK' /\ Launched'
    BY <1>1, FilesKeep DEF Inv, Shape
  <1>. QED
    BY <1>1, <1>2, StepOfOne DEF Inv, Shape

\* A step that writes one evidence file with an answer, or not to the end, or
\* removes it.
LEMMA WriteStep ==
  ASSUME Parameters, Inv, NEW e \in Executors, NEW c \in Calls, NEW x,
         x \in answers[c] \cup {Missing, Partial},
         evidence' = [evidence EXCEPT ![c] = x],
         UNCHANGED <<launches, closeout, answers>>,
         executor' = [executor EXCEPT ![e] = executor'[e]],
         ExecutorOK(e)'
  PROVE  Inv'
  <1>1. AnswersGrow
    BY DEF AnswersGrow
  <1>2. CloseoutOK' /\ Launched'
    BY <1>1, FilesKeep
  <1>3. x \in Statuses \cup {Missing, Partial}
    BY DEF Inv, Shape
  <1>4. Shape'
    BY <1>3 DEF Inv, Shape
  <1>5. x \in Statuses => x \in answers[c]
    BY DEF Parameters
  <1>6. EvidenceAnswered'
    BY <1>5 DEF Inv, Shape, EvidenceAnswered
  <1>7. \A f \in Executors \ {e} : executor'[f] = executor[f]
    BY DEF Inv, Shape
  <1>. QED
    BY <1>1, <1>2, <1>4, <1>6, <1>7, StepOfOne

-----------------------------------------------------------------------------
(* The actions. *)

\* An executor at a call, and what it has seen of the earlier ones.
LEMMA CallFacts ==
  ASSUME Parameters, Inv, NEW e \in Executors, executor[e].pc \in AtCall
  PROVE  /\ Here(e) \in Calls /\ Here(e) \in Nat \ {0} /\ Seen(e)
         /\ Len(executor[e].seen) = Here(e) - 1
         /\ \A i \in 1 .. (Here(e) - 1) : executor[e].seen[i] = "PASSED"
         /\ Passed(Here(e) - 1)
         /\ executor[e].pc \in Describing =>
              executor[e].status \in answers[Here(e)] /\ executor[e].status \in Statuses
  <1>1. executor[e].pc # "idle" /\ executor[e].pc \notin AtEnd /\ ExecutorOK(e)
    BY DEF Inv, AtCall, AtEnd
  <1>2. /\ Here(e) \in Calls /\ Seen(e) /\ Len(executor[e].seen) = Here(e) - 1
        /\ \A i \in 1 .. (Here(e) - 1) : executor[e].seen[i] = "PASSED"
        /\ executor[e].pc \in Describing => executor[e].status \in answers[Here(e)]
    BY <1>1 DEF ExecutorOK
  <1>3. Here(e) \in Nat \ {0}
    BY <1>2 DEF Parameters
  <1>4. Passed(Here(e) - 1)
    BY <1>2 DEF Seen, Passed
  <1>. QED
    BY <1>2, <1>3, <1>4 DEF Inv, Shape

\* Leaving needs nothing.
LEMMA LeaveKnows ==
  ASSUME Inv, NEW e \in Executors, Leave(e)
  PROVE  /\ executor' = [executor EXCEPT ![e] = executor'[e]]
         /\ executor'[e].pc = "idle" /\ ExecutorOK(e)'
  <1>1. executor' = [executor EXCEPT ![e] = Idle] /\ executor'[e] = Idle
    BY DEF Leave, Inv, Shape
  <1>2. executor'[e].pc = "idle"
    BY <1>1 DEF Idle
  <1>3. ExecutorOK(e)'
    BY <1>2 DEF ExecutorOK
  <1>. QED
    BY <1>1, <1>2, <1>3

LEMMA LeaveStep ==
  ASSUME Parameters, Inv, NEW e \in Executors, Leave(e),
         UNCHANGED <<evidence, launches, closeout, answers>>
  PROVE  Inv'
  BY LeaveKnows, CalmStep

\* Moving on at a call, with what is known of it.
LEMMA GoStep ==
  ASSUME Parameters, Inv, NEW e \in Executors, NEW pc \in AtCall,
         executor[e].pc \in AtCall, pc \in Describing => executor[e].pc \in Describing,
         executor' = [executor EXCEPT ![e].pc = pc], UNCHANGED answers
  PROVE  /\ executor' = [executor EXCEPT ![e] = executor'[e]]
         /\ executor'[e].pc = pc /\ executor'[e].seen = executor[e].seen
         /\ Here(e)' = Here(e) /\ ExecutorOK(e)'
  <1>1. /\ executor'[e].pc = pc /\ executor'[e].seen = executor[e].seen
        /\ executor'[e].call = executor[e].call
        /\ pc \in Describing => executor'[e].status = executor[e].status
    BY DEF Inv, Shape
  <1>2. executor' = [executor EXCEPT ![e] = executor'[e]]
    BY DEF Inv, Shape
  <1>3. Here(e)' = Here(e) /\ Seen(e)'
    BY <1>1, CallFacts DEF Seen, Here
  <1>. QED
    BY <1>1, <1>2, <1>3, CallFacts DEF ExecutorOK

\* Once it is known how the call at hand ended, the next call may rest on it.
LEMMA AfterCallKnows ==
  ASSUME Parameters, Inv, NEW e \in Executors, NEW status \in answers[Here(e)],
         executor[e].pc \in AtCall, AfterCall(e, status), UNCHANGED answers
  PROVE  /\ executor' = [executor EXCEPT ![e] = executor'[e]]
         /\ executor'[e].pc \in {"call", "close"}
         /\ executor'[e].seen = Append(executor[e].seen, status)
         /\ Len(executor'[e].seen) = Here(e)
         /\ \A i \in 1 .. (Here(e) - 1) : executor'[e].seen[i] = executor[e].seen[i]
         /\ executor'[e].seen[Here(e)] = status
         /\ ExecutorOK(e)'
  <1>. DEFINE call == Here(e)
              seen == executor[e].seen
              pc == IF status \in Failures \/ call + 1 \notin Calls THEN "close" ELSE "call"
  <1>1. /\ call \in Calls /\ call \in Nat \ {0} /\ Seen(e) /\ Len(seen) = call - 1
        /\ \A i \in 1 .. (call - 1) : seen[i] = "PASSED"
    BY CallFacts
  <1>2. /\ executor'[e] = [pc |-> pc, call |-> call + 1, seen |-> Append(seen, status)]
        /\ executor' = [executor EXCEPT ![e] = executor'[e]]
    BY DEF AfterCall, Inv, Shape
  <1>3. seen \in Seq(Statuses) /\ status \in Statuses
    BY <1>1 DEF Seen, Inv, Shape
  <1>4. /\ Append(seen, status) \in Seq(Statuses)
        /\ Len(Append(seen, status)) = call
        /\ \A i \in 1 .. (call - 1) : Append(seen, status)[i] = seen[i]
        /\ Append(seen, status)[call] = status
    BY <1>1, <1>3
  <1>5. ASSUME NEW i \in 1 .. call PROVE i \in Calls /\ Append(seen, status)[i] \in answers[i]
    <2>1. CASE i = call
      BY <2>1, <1>1, <1>4
    <2>2. CASE i # call
      <3>1. i \in 1 .. (call - 1)
        BY <2>2, <1>1
      <3>. QED
        BY <3>1, <1>1, <1>4 DEF Seen
    <2>. QED
      BY <2>1, <2>2
  <1>6. Seen(e)'
    BY <1>2, <1>4, <1>5 DEF Seen
  <1>7. CASE pc = "close"
    BY <1>2, <1>4, <1>6, <1>7 DEF ExecutorOK, AtEnd
  <1>8. CASE pc = "call"
    <2>1. status = "PASSED" /\ call + 1 \in Calls
      BY <1>3, <1>8 DEF Statuses
    <2>2. /\ executor'[e].call = call + 1 /\ executor'[e].call - 1 = call
          /\ executor'[e].pc = "call" /\ executor'[e].seen = Append(seen, status)
      BY <1>1, <1>2, <1>8
    <2>3. ASSUME NEW i \in 1 .. call PROVE Append(seen, status)[i] = "PASSED"
      <3>1. i = call \/ i \in 1 .. (call - 1)
        BY <1>1
      <3>. QED
        BY <1>1, <1>4, <2>1, <3>1
    <2>4. ExecutorOK(e)'
      BY <1>4, <1>6, <2>1, <2>2, <2>3 DEF ExecutorOK, AtCall, Describing, Here
    <2>. QED
      BY <1>2, <1>4, <2>2, <2>4
  <1>. QED
    BY <1>7, <1>8

\* An executor starts with nothing seen.
LEMMA StartStep ==
  ASSUME Parameters, Inv, NEW e \in Executors, Start(e)
  PROVE  Inv'
  <1>1. /\ executor' = [executor EXCEPT ![e] = executor'[e]]
        /\ executor'[e] = [pc |-> "call", call |-> 1, seen |-> <<>>]
    BY DEF Start, Inv, Shape
  <1>2. Seen(e)' /\ Here(e)' \in Calls /\ Here(e)' = 1
    BY <1>1 DEF Seen, Here, Parameters
  <1>3. ExecutorOK(e)'
    BY <1>1, <1>2 DEF ExecutorOK, AtCall, Describing
  <1>. QED
    BY <1>1, <1>3, CalmStep DEF Start

\* The steps up to the launch touch only the marker.
LEMMA MarkStep ==
  ASSUME Parameters, Inv, NEW e \in Executors,
         \/ Decide(e) \/ CreateMarker(e) \/ FindMarker(e) \/ FillMarker(e)
         \/ SyncMarker(e) \/ UnwriteMarker(e) \/ Refuse(e) \/ Crash(e)
  PROVE  Inv'
  <1>1. UNCHANGED <<evidence, launches, closeout, answers>>
    BY DEF Decide, CreateMarker, FindMarker, FillMarker, SyncMarker, UnwriteMarker, Refuse, Crash
  <1>2. CASE Leave(e)
    BY <1>1, <1>2, LeaveStep
  <1>3. ASSUME NEW pc \in {"mark", "fill", "sync", "launch"},
               executor[e].pc \in AtCall, executor' = [executor EXCEPT ![e].pc = pc]
        PROVE  Inv'
    <2>1. pc \in AtCall /\ pc \notin Describing
      BY DEF AtCall, Describing
    <2>. QED
      BY <1>1, <1>3, <2>1, GoStep, CalmStep
  <1>4. \/ Leave(e)
        \/ /\ executor[e].pc \in AtCall
           /\ \E pc \in {"mark", "fill", "sync", "launch"} : executor' = [executor EXCEPT ![e].pc = pc]
    BY DEF Decide, CreateMarker, FindMarker, FillMarker, SyncMarker, UnwriteMarker, Refuse, Crash,
           At, AtCall
  <1>. QED
    BY <1>2, <1>3, <1>4

LEMMA TakeOverStep ==
  ASSUME Parameters, Inv, NEW e \in Executors, TakeOver(e)
  PROVE  Inv'
  <1>1. /\ executor[e].pc \in AtCall /\ evidence[Here(e)] \in Statuses
        /\ AfterCall(e, evidence[Here(e)]) /\ UNCHANGED <<evidence, launches, closeout, answers>>
    BY DEF TakeOver, At, AtCall
  <1>2. evidence[Here(e)] \in answers[Here(e)]
    BY <1>1, CallFacts DEF Inv, EvidenceAnswered
  <1>. QED
    BY <1>1, <1>2, AfterCallKnows, CalmStep

\* A call is sent by an executor that has seen every earlier one pass.
LEMMA LaunchStep ==
  ASSUME Parameters, Inv, NEW e \in Executors, Launch(e)
  PROVE  Inv'
  <1>1. /\ executor[e].pc = "launch" /\ launches' = [launches EXCEPT ![Here(e)] = @ + 1]
        /\ executor' = [executor EXCEPT ![e].pc = "wait"]
        /\ UNCHANGED <<evidence, closeout, answers>>
    BY DEF Launch, At
  <1>2. executor[e].pc \in AtCall /\ "wait" \in AtCall /\ "wait" \notin Describing
    BY <1>1 DEF AtCall, Describing
  <1>3. Here(e) \in Calls /\ Passed(Here(e) - 1) /\ ExecutorOK(e)'
    BY <1>1, <1>2, CallFacts, GoStep
  <1>4. AnswersGrow
    BY <1>1 DEF AnswersGrow
  <1>5. EvidenceAnswered' /\ CloseoutOK'
    BY <1>1, <1>4, FilesKeep
  <1>6. Shape' /\ \A f \in Executors \ {e} : executor'[f] = executor[f]
    BY <1>1, <1>3 DEF Inv, Shape
  <1>7. Launched'
    <2>. SUFFICES ASSUME NEW c \in Calls, launches'[c] > 0
                  PROVE  \A d \in 1 .. (c - 1) : "PASSED" \in answers'[d]
      BY DEF Launched, Passed
    <2>1. CASE c = Here(e)
      BY <2>1, <1>1, <1>3 DEF Passed
    <2>2. CASE c # Here(e)
      <3>1. launches[c] > 0
        BY <2>2, <1>1, <1>3 DEF Inv, Shape
      <3>. QED
        BY <3>1, <1>1 DEF Inv, Launched, Passed
    <2>. QED
      BY <2>1, <2>2
  <1>. QED
    BY <1>3, <1>4, <1>5, <1>6, <1>7, StepOfOne

LEMMA RecordStep ==
  ASSUME Parameters, Inv, NEW e \in Executors, Record(e)
  PROVE  Inv'
  <1>1. UNCHANGED <<evidence, launches, closeout, answers, executor>>
    BY DEF Record
  <1>2. AnswersGrow
    BY <1>1 DEF AnswersGrow
  <1>3. ExecutorOK(e)'
    BY <1>1, <1>2, OthersKeep
  <1>4. Shape' /\ EvidenceAnswered' /\ CloseoutOK' /\ Launched'
    BY <1>1, <1>2, FilesKeep DEF Inv, Shape
  <1>. QED
    BY <1>1, <1>2, <1>3, <1>4, StepOfOne

LEMMA AnswerStep ==
  ASSUME Parameters, Inv, NEW e \in Executors, Answer(e)
  PROVE  Inv'
  <1>1. PICK status \in Statuses :
           /\ executor' = [executor EXCEPT ![e] =
                [pc |-> "describe", call |-> Here(e), seen |-> executor[e].seen, status |-> status]]
           /\ answers' = [answers EXCEPT ![Here(e)] = @ \cup {status}]
    BY DEF Answer
  <1>2. executor'[e] = [pc |-> "describe", call |-> Here(e), seen |-> executor[e].seen,
                        status |-> status]
    BY <1>1 DEF Inv, Shape
  <1>3. UNCHANGED <<evidence, launches, closeout>> /\ executor[e].pc \in AtCall
    BY DEF Answer, At, AtCall
  <1>4. /\ Here(e) \in Calls /\ Seen(e) /\ Len(executor[e].seen) = Here(e) - 1
        /\ \A i \in 1 .. (Here(e) - 1) : executor[e].seen[i] = "PASSED"
    BY <1>3, CallFacts
  <1>5. AnswersGrow /\ status \in answers'[Here(e)] /\ answers' \in [Calls -> SUBSET Statuses]
    BY <1>1, <1>4 DEF AnswersGrow, Inv, Shape
  <1>6. Here(e)' = Here(e) /\ executor'[e].seen = executor[e].seen
        /\ executor'[e].status = status /\ executor'[e].pc = "describe"
    BY <1>2 DEF Here
  <1>7. Seen(e)'
    BY <1>4, <1>5, <1>6 DEF Seen, AnswersGrow
  <1>8. ExecutorOK(e)'
    BY <1>4, <1>5, <1>6, <1>7 DEF ExecutorOK, AtCall
  <1>9. Shape' /\ \A f \in Executors \ {e} : executor'[f] = executor[f]
    BY <1>1, <1>3, <1>5 DEF Inv, Shape
  <1>10. EvidenceAnswered' /\ CloseoutOK' /\ Launched'
    BY <1>3, <1>5, FilesKeep
  <1>. QED
    BY <1>5, <1>8, <1>9, <1>10, StepOfOne

\* Evidence is created empty, and then says what the call answered, or vanishes.
LEMMA DescribeStep ==
  ASSUME Parameters, Inv, NEW e \in Executors,
         Describe(e) \/ FillEvidence(e) \/ SyncEvidence(e) \/ UnwriteEvidence(e)
  PROVE  Inv'
  <1>1. executor[e].pc \in Describing /\ UNCHANGED <<launches, closeout, answers>>
    BY DEF Describe, FillEvidence, SyncEvidence, UnwriteEvidence, At, Describing
  <1>2. executor[e].pc \in AtCall /\ {"flush", "sync_evidence"} \subseteq AtCall
    BY <1>1 DEF AtCall, Describing
  <1>3. Here(e) \in Calls /\ executor[e].status \in answers[Here(e)]
    BY <1>1, <1>2, CallFacts
  <1>4. ASSUME NEW x \in {Partial, executor[e].status},
               evidence' = [evidence EXCEPT ![Here(e)] = x],
               NEW pc \in {"flush", "sync_evidence"}, executor' = [executor EXCEPT ![e].pc = pc]
        PROVE  Inv'
    <2>1. x \in answers[Here(e)] \cup {Missing, Partial}
      BY <1>3
    <2>2. executor' = [executor EXCEPT ![e] = executor'[e]] /\ ExecutorOK(e)'
      BY <1>1, <1>2, <1>4, GoStep
    <2>. QED
      BY <1>1, <1>3, <1>4, <2>1, <2>2, WriteStep
  <1>5. ASSUME AfterCall(e, executor[e].status), UNCHANGED evidence PROVE Inv'
    <2>1. executor' = [executor EXCEPT ![e] = executor'[e]] /\ ExecutorOK(e)'
      BY <1>1, <1>2, <1>3, <1>5, AfterCallKnows
    <2>. QED
      BY <1>1, <1>5, <2>1, CalmStep
  <1>6. ASSUME Leave(e), UNCHANGED evidence PROVE Inv'
    BY <1>1, <1>6, LeaveStep
  <1>7. ASSUME Leave(e), evidence' = [evidence EXCEPT ![Here(e)] = Missing] PROVE Inv'
    <2>1. Missing \in answers[Here(e)] \cup {Missing, Partial}
      OBVIOUS
    <2>. QED
      BY <1>1, <1>3, <1>7, <2>1, LeaveKnows, WriteStep
  <1>8. CASE Describe(e)
    BY <1>4, <1>5, <1>6, <1>8 DEF Describe
  <1>9. CASE FillEvidence(e)
    BY <1>4, <1>9 DEF FillEvidence, Described
  <1>10. CASE SyncEvidence(e)
    BY <1>5, <1>10 DEF SyncEvidence
  <1>11. CASE UnwriteEvidence(e)
    BY <1>7, <1>11 DEF UnwriteEvidence
  <1>. QED
    BY <1>8, <1>9, <1>10, <1>11

\* The closeout is what one executor has seen, or nothing.
LEMMA CloseStep ==
  ASSUME Parameters, Inv, NEW e \in Executors,
         Close(e) \/ FillCloseout(e) \/ SyncCloseout(e) \/ UnwriteCloseout(e)
  PROVE  Inv'
  <1>1. UNCHANGED <<evidence, launches, answers>> /\ executor[e].pc \in AtEnd
    BY DEF Close, FillCloseout, SyncCloseout, UnwriteCloseout, At, AtEnd
  <1>2. Seen(e)
    BY <1>1 DEF Inv, ExecutorOK, AtCall, AtEnd
  <1>3. AnswersGrow
    BY <1>1 DEF AnswersGrow
  <1>4. EvidenceAnswered' /\ Launched'
    BY <1>1, <1>3, FilesKeep
  <1>5. /\ closeout' \in {closeout, Partial, Missing, executor[e].seen}
        /\ \/ Leave(e)
           \/ \E pc \in {"seal", "sync_closeout"} : executor' = [executor EXCEPT ![e].pc = pc]
    BY DEF Close, FillCloseout, SyncCloseout, UnwriteCloseout
  <1>6. CloseoutOK'
    <2>1. CASE closeout' = closeout
      BY <2>1, <1>3, FilesKeep
    <2>2. CASE closeout' = executor[e].seen
      <3>1. DOMAIN executor[e].seen = 1 .. Len(executor[e].seen)
        BY <1>2 DEF Seen
      <3>. QED
        BY <1>1, <1>2, <2>2, <3>1 DEF CloseoutOK, Seen
    <2>3. CASE closeout' \in {Partial, Missing}
      BY <2>3 DEF CloseoutOK
    <2>. QED
      BY <1>5, <2>1, <2>2, <2>3
  <1>7. ExecutorOK(e)'
    <2>1. CASE Leave(e)
      BY <2>1, LeaveKnows
    <2>2. ASSUME NEW pc \in {"seal", "sync_closeout"}, executor' = [executor EXCEPT ![e].pc = pc]
          PROVE  ExecutorOK(e)'
      <3>1. executor'[e].pc = pc /\ executor'[e].seen = executor[e].seen
        BY <2>2 DEF Inv, Shape
      <3>. QED
        BY <1>1, <1>2, <3>1 DEF ExecutorOK, Seen, AtEnd
    <2>. QED
      BY <1>5, <2>1, <2>2
  <1>8. Shape' /\ \A f \in Executors \ {e} : executor'[f] = executor[f]
    BY <1>1, <1>5 DEF Leave, Inv, Shape
  <1>. QED
    BY <1>3, <1>4, <1>6, <1>7, <1>8, StepOfOne

-----------------------------------------------------------------------------
(* The invariant, and what it says. *)

LEMMA InvInit ==
  ASSUME Parameters, Init
  PROVE  Inv
  BY DEF Parameters, Init, Inv, Shape, EvidenceAnswered, CloseoutOK, Launched, ExecutorOK, Idle

LEMMA InvNext ==
  ASSUME Parameters, Inv, Next
  PROVE  Inv'
  BY StartStep, MarkStep, TakeOverStep, LaunchStep, RecordStep, AnswerStep, DescribeStep,
     CloseStep DEF Next

LEMMA InvStutter ==
  ASSUME Parameters, Inv, UNCHANGED vars
  PROVE  Inv'
  BY DEF vars, Inv, Shape, EvidenceAnswered, CloseoutOK, Launched, ExecutorOK, Seen, Passed, Here

\* Whoever else runs, dies or fails to flush what it wrote: no call of
\* v6_canary.py's execute is sent before every earlier one has passed at least
\* once, and a closeout sums up answers that the calls really gave.
THEOREM NothingPastAFailure ==
  ASSUME Parameters
  PROVE  Spec => []NoLaunchPastFailure
  <1>1. Init => Inv
    BY InvInit
  <1>2. Inv /\ [Next]_vars => Inv'
    BY InvNext, InvStutter
  <1>3. Inv => NoLaunchPastFailure
    BY DEF Inv, Launched, Passed, CloseoutOK, NoLaunchPastFailure
  <1>. QED
    BY <1>1, <1>2, <1>3, PTL DEF Spec

-----------------------------------------------------------------------------
(* One executor: what was rested on stands.                                 *)

OneExecutor == \A e, f \in Executors : e = f

\* Nothing rests on the evidence of call c yet.
Open(c) ==
  /\ \A d \in Calls : d > c => launches[d] = 0
  /\ closeout \notin {Missing, Partial} => c \notin DOMAIN closeout

\* The evidence files are what the executor has seen; the one it writes is open.
Standing(e) ==
  \/ executor[e].pc = "idle"
  \/ /\ \A i \in 1 .. Len(executor[e].seen) : evidence[i] = executor[e].seen[i]
     /\ executor[e].pc \in {"flush", "sync_evidence"} => Open(Here(e))
     /\ executor[e].pc = "sync_evidence" => evidence[Here(e)] = executor[e].status

StandInv == EvidenceStands /\ \A e \in Executors : Standing(e)

\* A step that leaves the files and the launches alone.
LEMMA CalmStands ==
  ASSUME OneExecutor, StandInv, NEW e \in Executors,
         UNCHANGED <<evidence, launches, closeout>>, Standing(e)'
  PROVE  StandInv'
  BY DEF StandInv, EvidenceStands, OneExecutor

\* The executor moves on, and not to writing evidence.
LEMMA GoStands ==
  ASSUME OneExecutor, StandInv, NEW e \in Executors, executor[e].pc # "idle",
         UNCHANGED <<evidence, launches, closeout>>, executor'[e].seen = executor[e].seen,
         executor'[e].pc \notin {"flush", "sync_evidence"}
  PROVE  StandInv'
  <1>1. Standing(e)'
    BY DEF StandInv, Standing
  <1>. QED
    BY <1>1, CalmStands

LEMMA LeaveStands ==
  ASSUME Inv, OneExecutor, StandInv, NEW e \in Executors, Leave(e),
         UNCHANGED <<evidence, launches, closeout>>
  PROVE  StandInv'
  BY LeaveKnows, CalmStands DEF Standing

LEMMA AfterCallStands ==
  ASSUME Parameters, Inv, OneExecutor, StandInv, NEW e \in Executors,
         NEW status \in answers[Here(e)], executor[e].pc \in AtCall, AfterCall(e, status),
         evidence[Here(e)] = status, UNCHANGED <<evidence, launches, closeout, answers>>
  PROVE  StandInv'
  <1>1. /\ executor'[e].pc \in {"call", "close"}
        /\ Len(executor'[e].seen) = Here(e)
        /\ \A i \in 1 .. (Here(e) - 1) : executor'[e].seen[i] = executor[e].seen[i]
        /\ executor'[e].seen[Here(e)] = status
    BY AfterCallKnows
  <1>2. Here(e) \in Nat \ {0} /\ Len(executor[e].seen) = Here(e) - 1
    BY CallFacts
  <1>3. \A i \in 1 .. (Here(e) - 1) : evidence[i] = executor[e].seen[i]
    BY <1>2 DEF StandInv, Standing, AtCall
  <1>4. ASSUME NEW i \in 1 .. Len(executor'[e].seen) PROVE evidence'[i] = executor'[e].seen[i]
    <2>1. i = Here(e) \/ i \in 1 .. (Here(e) - 1)
      BY <1>1, <1>2
    <2>. QED
      BY <1>1, <1>3, <2>1
  <1>5. Standing(e)'
    BY <1>1, <1>4 DEF Standing
  <1>. QED
    BY <1>5, CalmStands

\* Evidence nothing rests on may be written or removed.
LEMMA WriteStands ==
  ASSUME Parameters, Inv, OneExecutor, StandInv, NEW e \in Executors,
         executor[e].pc \in AtCall, Open(Here(e)), NEW x,
         evidence' = [evidence EXCEPT ![Here(e)] = x], UNCHANGED <<launches, closeout>>
  PROVE  /\ EvidenceStands' /\ evidence'[Here(e)] = x
         /\ Open(Here(e))' \/ Here(e)' # Here(e)
         /\ \A i \in 1 .. Len(executor[e].seen) : evidence'[i] = executor[e].seen[i]
  <1>1. /\ Here(e) \in Calls /\ Here(e) \in Nat \ {0}
        /\ Len(executor[e].seen) = Here(e) - 1
    BY CallFacts
  <1>2. \A c \in Calls : evidence'[c] = IF c = Here(e) THEN x ELSE evidence[c]
    BY <1>1 DEF Inv, Shape
  <1>3. ASSUME NEW c \in Calls, launches'[c] > 0, NEW d \in 1 .. (c - 1)
        PROVE  evidence'[d] = "PASSED"
    <2>1. d \in Calls /\ d # Here(e)
      BY <1>1, <1>3 DEF Open, Parameters
    <2>. QED
      BY <1>2, <1>3, <2>1 DEF StandInv, EvidenceStands
  <1>4. ASSUME closeout' \notin {Missing, Partial}, NEW c \in DOMAIN closeout'
        PROVE  evidence'[c] = closeout'[c]
    <2>1. c \in Calls /\ c # Here(e)
      BY <1>4 DEF Open, Inv, CloseoutOK
    <2>. QED
      BY <1>2, <1>4, <2>1 DEF StandInv, EvidenceStands
  <1>5. ASSUME NEW i \in 1 .. Len(executor[e].seen) PROVE evidence'[i] = executor[e].seen[i]
    <2>1. i \in Calls /\ i # Here(e)
      BY <1>1 DEF Parameters
    <2>. QED
      BY <1>2, <2>1 DEF StandInv, Standing, AtCall
  <1>6. Here(e)' = Here(e) => Open(Here(e))'
    BY DEF Open
  <1>. QED
    BY <1>1, <1>2, <1>3, <1>4, <1>5, <1>6 DEF EvidenceStands

LEMMA DescribeStands ==
  ASSUME Parameters, Inv, OneExecutor, StandInv, NEW e \in Executors,
         Describe(e) \/ FillEvidence(e) \/ SyncEvidence(e) \/ UnwriteEvidence(e)
  PROVE  StandInv'
  <1>1. executor[e].pc \in Describing /\ UNCHANGED <<launches, closeout, answers>>
    BY DEF Describe, FillEvidence, SyncEvidence, UnwriteEvidence, At, Describing
  <1>2. executor[e].pc \in AtCall /\ {"flush", "sync_evidence"} \subseteq AtCall
        /\ {"flush", "sync_evidence"} \subseteq Describing /\ executor[e].pc # "idle"
    BY <1>1 DEF AtCall, Describing
  <1>3. Here(e) \in Calls /\ executor[e].status \in answers[Here(e)]
    BY <1>1, <1>2, CallFacts
  <1>4. executor[e].pc \in {"flush", "sync_evidence"} => Open(Here(e))
    BY <1>2 DEF StandInv, Standing
  <1>5. evidence[Here(e)] = Missing => Open(Here(e))
    <2>. SUFFICES ASSUME evidence[Here(e)] = Missing PROVE Open(Here(e))
      OBVIOUS
    <2>1. ASSUME NEW d \in Calls, d > Here(e) PROVE launches[d] = 0
      <3>1. Here(e) \in 1 .. (d - 1) /\ launches[d] \in Nat
        BY <1>3, <2>1 DEF Parameters, Inv, Shape
      <3>2. "PASSED" # Missing
        BY DEF Parameters, Statuses
      <3>. QED
        BY <3>1, <3>2 DEF StandInv, EvidenceStands
    <2>2. ASSUME closeout \notin {Missing, Partial}, Here(e) \in DOMAIN closeout PROVE FALSE
      <3>1. closeout[Here(e)] = Missing /\ closeout[Here(e)] \in Statuses
        BY <1>3, <2>2 DEF StandInv, EvidenceStands, Inv, CloseoutOK, Shape
      <3>. QED
        BY <3>1 DEF Parameters
    <2>. QED
      BY <2>1, <2>2 DEF Open
  <1>6. ASSUME Open(Here(e)), NEW x, evidence' = [evidence EXCEPT ![Here(e)] = x],
               NEW pc \in {"flush", "sync_evidence"}, executor' = [executor EXCEPT ![e].pc = pc],
               pc = "sync_evidence" => x = executor[e].status
        PROVE  StandInv'
    <2>1. /\ executor'[e].pc = pc /\ executor'[e].seen = executor[e].seen
          /\ executor'[e].status = executor[e].status /\ Here(e)' = Here(e)
      BY <1>6 DEF Inv, Shape, Here
    <2>2. /\ EvidenceStands' /\ evidence'[Here(e)] = x
          /\ Open(Here(e))' \/ Here(e)' # Here(e)
          /\ \A i \in 1 .. Len(executor[e].seen) : evidence'[i] = executor[e].seen[i]
      BY <1>1, <1>2, <1>6, WriteStands
    <2>3. Open(Here(e))'
      BY <2>1, <2>2
    <2>. QED
      BY <1>6, <2>1, <2>2, <2>3 DEF StandInv, Standing, OneExecutor
  <1>7. ASSUME evidence[Here(e)] = executor[e].status, AfterCall(e, executor[e].status),
               UNCHANGED evidence
        PROVE  StandInv'
    BY <1>1, <1>2, <1>3, <1>7, AfterCallStands
  <1>8. ASSUME Leave(e), UNCHANGED evidence PROVE StandInv'
    BY <1>1, <1>8, LeaveStands
  <1>9. CASE Describe(e)
    <2>1. CASE /\ evidence[Here(e)] = Missing
               /\ evidence' = [evidence EXCEPT ![Here(e)] = Partial]
               /\ executor' = [executor EXCEPT ![e].pc = "flush"]
      BY <1>5, <1>6, <2>1
    <2>. QED
      BY <1>7, <1>8, <1>9, <2>1 DEF Describe
  <1>10. CASE FillEvidence(e)
    BY <1>4, <1>6, <1>10 DEF FillEvidence, Described, At
  <1>11. CASE SyncEvidence(e)
    <2>1. evidence[Here(e)] = executor[e].status
      BY <1>11 DEF SyncEvidence, At, StandInv, Standing
    <2>. QED
      BY <1>7, <1>11, <2>1 DEF SyncEvidence
  <1>12. CASE UnwriteEvidence(e)
    <2>1. EvidenceStands'
      BY <1>1, <1>2, <1>4, <1>12, WriteStands DEF UnwriteEvidence
    <2>2. executor'[e].pc = "idle"
      BY <1>12, LeaveKnows DEF UnwriteEvidence
    <2>. QED
      BY <2>1, <2>2 DEF StandInv, Standing, OneExecutor
  <1>. QED
    BY <1>9, <1>10, <1>11, <1>12

LEMMA LaunchStands ==
  ASSUME Parameters, Inv, OneExecutor, StandInv, NEW e \in Executors, Launch(e)
  PROVE  StandInv'
  <1>1. /\ executor[e].pc = "launch" /\ launches' = [launches EXCEPT ![Here(e)] = @ + 1]
        /\ UNCHANGED <<evidence, closeout>>
    BY DEF Launch, At
  <1>2. executor'[e].pc = "wait" /\ executor'[e].seen = executor[e].seen
    BY DEF Launch, Inv, Shape
  <1>3. /\ Here(e) \in Calls /\ Len(executor[e].seen) = Here(e) - 1
        /\ \A i \in 1 .. (Here(e) - 1) : executor[e].seen[i] = "PASSED"
    BY <1>1, CallFacts DEF AtCall
  <1>4. \A i \in 1 .. Len(executor[e].seen) : evidence[i] = executor[e].seen[i]
    BY <1>1 DEF StandInv, Standing
  <1>5. \A c \in Calls : launches'[c] > 0 => c = Here(e) \/ launches[c] > 0
    BY <1>1, <1>3 DEF Inv, Shape
  <1>6. EvidenceStands'
    BY <1>1, <1>3, <1>4, <1>5 DEF StandInv, EvidenceStands
  <1>7. Standing(e)'
    BY <1>1, <1>2, <1>4 DEF Standing
  <1>. QED
    BY <1>6, <1>7 DEF StandInv, OneExecutor

LEMMA CloseStands ==
  ASSUME Parameters, Inv, OneExecutor, StandInv, NEW e \in Executors,
         Close(e) \/ FillCloseout(e) \/ SyncCloseout(e) \/ UnwriteCloseout(e)
  PROVE  StandInv'
  <1>1. UNCHANGED <<evidence, launches>> /\ executor[e].pc \in AtEnd
    BY DEF Close, FillCloseout, SyncCloseout, UnwriteCloseout, At, AtEnd
  <1>2. Seen(e) /\ \A i \in 1 .. Len(executor[e].seen) : evidence[i] = executor[e].seen[i]
    BY <1>1 DEF Inv, ExecutorOK, AtCall, AtEnd, StandInv, Standing
  <1>3. /\ closeout' \in {closeout, Partial, Missing, executor[e].seen}
        /\ \/ Leave(e)
           \/ \E pc \in {"seal", "sync_closeout"} : executor' = [executor EXCEPT ![e].pc = pc]
    BY DEF Close, FillCloseout, SyncCloseout, UnwriteCloseout
  <1>4. EvidenceStands'
    <2>1. DOMAIN executor[e].seen = 1 .. Len(executor[e].seen)
      BY <1>2 DEF Seen
    <2>2. closeout' \notin {Missing, Partial}
            => \A c \in DOMAIN closeout' : evidence[c] = closeout'[c]
      BY <1>2, <1>3, <2>1 DEF StandInv, EvidenceStands
    <2>. QED
      BY <1>1, <2>2 DEF StandInv, EvidenceStands
  <1>5. Standing(e)'
    <2>1. CASE Leave(e)
      BY <2>1, LeaveKnows DEF Standing
    <2>2. ASSUME NEW pc \in {"seal", "sync_closeout"}, executor' = [executor EXCEPT ![e].pc = pc]
          PROVE  Standing(e)'
      <3>1. executor'[e].pc = pc /\ executor'[e].seen = executor[e].seen
        BY <2>2 DEF Inv, Shape
      <3>. QED
        BY <1>1, <1>2, <3>1 DEF Standing
    <2>. QED
      BY <1>3, <2>1, <2>2
  <1>. QED
    BY <1>4, <1>5 DEF StandInv, OneExecutor

\* Everything else leaves the files and the launches alone.
LEMMA OtherStands ==
  ASSUME Parameters, Inv, OneExecutor, StandInv, NEW e \in Executors,
         \/ Start(e) \/ TakeOver(e) \/ Refuse(e) \/ Decide(e) \/ CreateMarker(e)
         \/ FindMarker(e) \/ FillMarker(e) \/ SyncMarker(e) \/ UnwriteMarker(e)
         \/ Record(e) \/ Answer(e) \/ Crash(e)
  PROVE  StandInv'
  <1>1. UNCHANGED <<evidence, launches, closeout>>
    BY DEF Start, TakeOver, Refuse, Decide, CreateMarker, FindMarker, FillMarker, SyncMarker,
           UnwriteMarker, Record, Answer, Crash
  <1>2. CASE Leave(e)
    BY <1>1, <1>2, LeaveStands
  <1>3. CASE Start(e)
    <2>1. executor'[e].pc = "call" /\ executor'[e].seen = <<>>
      BY <1>3 DEF Start, Inv, Shape
    <2>2. Standing(e)'
      BY <2>1 DEF Standing
    <2>. QED
      BY <1>1, <2>2, CalmStands
  <1>4. CASE TakeOver(e)
    <2>1. /\ executor[e].pc \in AtCall /\ evidence[Here(e)] \in Statuses
          /\ AfterCall(e, evidence[Here(e)]) /\ UNCHANGED answers
      BY <1>4 DEF TakeOver, At, AtCall
    <2>2. evidence[Here(e)] \in answers[Here(e)]
      BY <2>1, CallFacts DEF Inv, EvidenceAnswered
    <2>. QED
      BY <1>1, <2>1, <2>2, AfterCallStands
  <1>5. ASSUME NEW pc \in {"mark", "fill", "sync", "launch"}, executor[e].pc # "idle",
               executor' = [executor EXCEPT ![e].pc = pc]
        PROVE  StandInv'
    <2>1. executor'[e].pc = pc /\ executor'[e].seen = executor[e].seen
      BY <1>5 DEF Inv, Shape
    <2>. QED
      BY <1>1, <1>5, <2>1, GoStands
  <1>6. CASE Record(e)
    BY <1>1, <1>6, GoStands DEF Record, At
  <1>7. CASE Answer(e)
    <2>1. executor[e].pc = "wait" /\ executor'[e].pc = "describe"
          /\ executor'[e].seen = executor[e].seen
      BY <1>7 DEF Answer, At, Inv, Shape
    <2>. QED
      BY <1>1, <2>1, GoStands
  <1>8. \/ Leave(e) \/ Start(e) \/ TakeOver(e) \/ Record(e) \/ Answer(e)
        \/ /\ executor[e].pc # "idle"
           /\ \E pc \in {"mark", "fill", "sync", "launch"} : executor' = [executor EXCEPT ![e].pc = pc]
    BY DEF Refuse, Decide, CreateMarker, FindMarker, FillMarker, SyncMarker, UnwriteMarker,
           Crash, At
  <1>. QED
    BY <1>2, <1>3, <1>4, <1>5, <1>6, <1>7, <1>8

\* With one executor, however often it dies and whatever it fails to flush: the
\* evidence that a sent call or a closeout of v6_canary.py's execute rests on is
\* there for good.
THEOREM EvidenceIsKept ==
  ASSUME Parameters, OneExecutor
  PROVE  Spec => []EvidenceStands
  <1>1. Init => Inv /\ StandInv
    <2>1. Init => StandInv
      BY DEF Init, StandInv, EvidenceStands, Standing, Idle
    <2>. QED
      BY <2>1, InvInit
  <1>2. Inv /\ StandInv /\ [Next]_vars => (Inv /\ StandInv)'
    <2>1. ASSUME Inv, StandInv, UNCHANGED vars PROVE StandInv'
      BY <2>1 DEF vars, StandInv, EvidenceStands, Standing, Open, Here
    <2>2. ASSUME Inv, StandInv, Next PROVE StandInv'
      BY <2>2, DescribeStands, LaunchStands, CloseStands, OtherStands DEF Next
    <2>. QED
      BY <2>1, <2>2, InvNext, InvStutter
  <1>3. StandInv => EvidenceStands
    BY DEF StandInv
  <1>. QED
    BY <1>1, <1>2, <1>3, PTL DEF Spec

-----------------------------------------------------------------------------
(* One executor: a call that was sent has a marker that says so. *)

Launching == {"mark", "fill", "sync", "launch"}

MarkInv ==
  /\ launches \in [Calls -> {0, 1}]
  /\ marker \in [Calls -> {Missing, Partial, "whole"}]
  /\ \A c \in Calls : launches[c] = 1 => marker[c] = "whole"
  /\ \A e \in Executors :
        /\ executor[e].pc \in Launching => launches[Here(e)] = 0
        /\ executor[e].pc \in {"sync", "launch"} => marker[Here(e)] = "whole"

\* Steps that neither mark nor send, and do not come to a call that is to be sent.
LEMMA QuietStep ==
  ASSUME OneExecutor, Inv, MarkInv, NEW e \in Executors,
         UNCHANGED <<marker, launches>>, executor'[e].pc \notin Launching
  PROVE  MarkInv'
  <1>1. \A f \in Executors : executor'[f].pc \notin Launching
    BY DEF OneExecutor
  <1>. QED
    BY <1>1 DEF MarkInv, Launching

\* What remains leaves the marker alone and goes elsewhere.
LEMMA ElsewhereStep ==
  ASSUME OneExecutor, Inv, MarkInv, NEW e \in Executors,
         \/ Start(e) \/ TakeOver(e) \/ Refuse(e) \/ Record(e) \/ Answer(e) \/ Describe(e)
         \/ FillEvidence(e) \/ SyncEvidence(e) \/ UnwriteEvidence(e)
         \/ Close(e) \/ FillCloseout(e) \/ SyncCloseout(e) \/ UnwriteCloseout(e) \/ Crash(e)
  PROVE  MarkInv'
  <1>1. UNCHANGED <<marker, launches>>
    BY DEF Start, TakeOver, Refuse, Record, Answer, Describe, FillEvidence, SyncEvidence,
           UnwriteEvidence, Close, FillCloseout, SyncCloseout, UnwriteCloseout, Crash
  <1>2. CASE Leave(e)
    <2>1. executor'[e].pc = "idle"
      BY <1>2 DEF Leave, Idle, Inv, Shape
    <2>. QED
      BY <1>1, <2>1, QuietStep DEF Launching
  <1>3. ASSUME NEW status, AfterCall(e, status) PROVE MarkInv'
    <2>1. executor'[e].pc \in {"call", "close"}
      BY <1>3 DEF AfterCall, Inv, Shape
    <2>. QED
      BY <1>1, <2>1, QuietStep DEF Launching
  <1>4. CASE Start(e)
    <2>1. executor'[e].pc = "call"
      BY <1>4 DEF Start, Inv, Shape
    <2>. QED
      BY <1>1, <2>1, QuietStep DEF Launching
  <1>5. CASE Record(e)
    <2>1. executor'[e].pc = "wait"
      BY <1>5 DEF Record, At
    <2>. QED
      BY <1>1, <2>1, QuietStep DEF Launching
  <1>6. CASE Answer(e)
    <2>1. executor'[e].pc = "describe"
      BY <1>6 DEF Answer, Inv, Shape
    <2>. QED
      BY <1>1, <2>1, QuietStep DEF Launching
  <1>7. ASSUME NEW pc \in {"flush", "sync_evidence", "seal", "sync_closeout"}, executor' = [executor EXCEPT ![e].pc = pc]
        PROVE  MarkInv'
    <2>1. executor'[e].pc = pc
      BY <1>7 DEF Inv, Shape
    <2>. QED
      BY <1>1, <1>7, <2>1, QuietStep DEF Launching
  <1>8. \/ Leave(e) \/ Start(e) \/ Record(e) \/ Answer(e)
        \/ \E status : AfterCall(e, status)
        \/ \E pc \in {"flush", "sync_evidence", "seal", "sync_closeout"} : executor' = [executor EXCEPT ![e].pc = pc]
    BY DEF TakeOver, Refuse, Describe, FillEvidence, SyncEvidence, UnwriteEvidence, Close,
           FillCloseout, SyncCloseout, UnwriteCloseout, Crash
  <1>. QED
    BY <1>2, <1>3, <1>4, <1>5, <1>6, <1>7, <1>8

\* Only a call that has no marker is decided for.
LEMMA DecideStep ==
  ASSUME Parameters, OneExecutor, Inv, MarkInv, NEW e \in Executors, Decide(e)
  PROVE  MarkInv'
  <1>1. /\ executor[e].pc = "call" /\ marker[Here(e)] = Missing
        /\ UNCHANGED <<marker, launches>>
    BY DEF Decide, MayLaunch, At
  <1>2. executor'[e].pc = "mark" /\ Here(e)' = Here(e)
    BY DEF Decide, Here, Inv, Shape
  <1>3. Here(e) \in Calls
    BY <1>1, CallFacts DEF AtCall
  <1>4. launches[Here(e)] = 0
    BY <1>1, <1>3 DEF MarkInv, Parameters
  <1>. QED
    BY <1>1, <1>2, <1>4 DEF MarkInv, OneExecutor, Launching

\* The marker is written, or not, before the call is sent.
LEMMA MarkerStep ==
  ASSUME Parameters, OneExecutor, Inv, MarkInv, NEW e \in Executors,
         CreateMarker(e) \/ FindMarker(e) \/ FillMarker(e) \/ SyncMarker(e) \/ UnwriteMarker(e)
  PROVE  MarkInv'
  <1>1. executor[e].pc \in Launching /\ launches' = launches
    BY DEF CreateMarker, FindMarker, FillMarker, SyncMarker, UnwriteMarker, At, Launching
  <1>2. Here(e) \in Calls /\ launches[Here(e)] = 0
    BY <1>1, CallFacts DEF AtCall, MarkInv, Launching
  <1>3. PICK m \in {Missing, Partial, "whole"} :
          /\ marker' = [marker EXCEPT ![Here(e)] = m]
          /\ \/ Leave(e)
             \/ executor' = [executor EXCEPT ![e].pc = "fill"]
             \/ /\ m = "whole"
                /\ \E pc \in {"sync", "launch"} : executor' = [executor EXCEPT ![e].pc = pc]
    <2>1. marker = [marker EXCEPT ![Here(e)] = marker[Here(e)]]
      BY <1>2 DEF MarkInv
    <2>2. marker[Here(e)] \in {Missing, Partial, "whole"}
      BY <1>2 DEF MarkInv
    <2>3. CASE CreateMarker(e)
      BY <2>3 DEF CreateMarker
    <2>4. CASE FindMarker(e)
      BY <2>1, <2>2, <2>4 DEF FindMarker
    <2>5. CASE FillMarker(e)
      BY <2>5 DEF FillMarker
    <2>6. CASE SyncMarker(e)
      <3>1. marker[Here(e)] = "whole"
        BY <2>6 DEF SyncMarker, At, MarkInv
      <3>. QED
        BY <2>1, <2>6, <3>1 DEF SyncMarker
    <2>7. CASE UnwriteMarker(e)
      BY <2>7 DEF UnwriteMarker
    <2>. QED
      BY <2>3, <2>4, <2>5, <2>6, <2>7
  <1>4. /\ marker' \in [Calls -> {Missing, Partial, "whole"}]
        /\ \A c \in Calls : launches'[c] = 1 => marker'[c] = "whole"
        /\ marker'[Here(e)] = m
    BY <1>1, <1>2, <1>3 DEF MarkInv
  <1>5. /\ executor'[e].pc \in Launching => Here(e)' = Here(e)
        /\ executor'[e].pc \in {"sync", "launch"} => m = "whole"
    <2>1. CASE Leave(e)
      BY <2>1 DEF Leave, Idle, Inv, Shape, Launching
    <2>2. CASE executor' = [executor EXCEPT ![e].pc = "fill"]
      BY <2>2 DEF Here, Inv, Shape
    <2>3. ASSUME m = "whole", NEW pc \in {"sync", "launch"},
                 executor' = [executor EXCEPT ![e].pc = pc]
          PROVE  Here(e)' = Here(e) /\ m = "whole"
      BY <2>3 DEF Here, Inv, Shape
    <2>. QED
      BY <1>3, <2>1, <2>2, <2>3
  <1>. QED
    BY <1>1, <1>2, <1>4, <1>5 DEF MarkInv, OneExecutor, Launching

\* A call is sent once its marker is whole.
LEMMA SendStep ==
  ASSUME Parameters, OneExecutor, Inv, MarkInv, NEW e \in Executors, Launch(e)
  PROVE  MarkInv'
  <1>1. /\ executor[e].pc = "launch" /\ marker' = marker
        /\ launches' = [launches EXCEPT ![Here(e)] = @ + 1]
    BY DEF Launch, At
  <1>2. Here(e) \in Calls /\ launches[Here(e)] = 0 /\ marker[Here(e)] = "whole"
    BY <1>1, CallFacts DEF AtCall, MarkInv, Launching
  <1>3. launches' = [launches EXCEPT ![Here(e)] = 1]
    BY <1>1, <1>2
  <1>4. executor'[e].pc = "wait"
    BY DEF Launch, Inv, Shape
  <1>. QED
    BY <1>1, <1>2, <1>3, <1>4 DEF MarkInv, OneExecutor, Launching

\* "Retries are zero": however often the one executor dies and is started again,
\* no call of v6_canary.py's execute is sent twice.
THEOREM NoCallIsSentTwice ==
  ASSUME Parameters, OneExecutor
  PROVE  Spec => []LaunchedOnce
  <1>1. Init => Inv /\ MarkInv
    <2>1. Init => MarkInv
      BY DEF Init, MarkInv, Idle, Launching
    <2>. QED
      BY <2>1, InvInit
  <1>2. Inv /\ MarkInv /\ [Next]_vars => (Inv /\ MarkInv)'
    <2>1. ASSUME Inv, MarkInv, UNCHANGED vars PROVE Inv' /\ MarkInv'
      BY <2>1, InvStutter DEF vars, MarkInv, Here
    <2>2. ASSUME Inv, MarkInv, Next PROVE Inv' /\ MarkInv'
      BY <2>2, InvNext, ElsewhereStep, DecideStep, MarkerStep, SendStep DEF Next
    <2>. QED
      BY <2>1, <2>2
  <1>3. MarkInv => LaunchedOnce
    BY DEF MarkInv, LaunchedOnce
  <1>. QED
    BY <1>1, <1>2, <1>3, PTL DEF Spec
=============================================================================
