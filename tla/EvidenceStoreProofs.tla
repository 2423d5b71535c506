------------------------- MODULE EvidenceStoreProofs -------------------------
(***************************************************************************)
(* Theorems about EvidenceStore, for any number of processes and records.  *)
(***************************************************************************)
EXTENDS EvidenceStore, TLAPS

\* What the theorems ask of the constants.
Parameters == Nobody \notin Processes /\ Missing \notin Acceptances

-----------------------------------------------------------------------------
(* The lock of a record keeps its verification to one process, and the start *)
(* that outlives the process keeps the run to one verification.              *)

\* The points at which a process holds the lock of its record.
Guarding == {"prior", "attempt", "fill_attempt", "start", "run", "receipt", "fill_receipt"}

ProcessOK(p) ==
  /\ At(p, "verify") => Item(p) \in Records
  /\ process[p].pc \in Guarding => Item(p) \in Records /\ busy[Item(p)] = p
  /\ At(p, "run") => Item(p) \in started /\ verdicts[Item(p)] = <<>>
  /\ process[p].pc \in {"receipt", "fill_receipt"}
       => verdicts[Item(p)] = <<process[p].acceptance>>

RecordOK(r) ==
  /\ r \notin started => verdicts[r] = <<>>
  /\ Len(verdicts[r]) <= 1
  /\ receipt[r] \in {"VERIFIED_PASS", "VERIFIED_FAIL"} => verdicts[r] = <<receipt[r]>>

Shape ==
  /\ DOMAIN process = Processes
  /\ busy \in [Records -> Processes \cup {Nobody}]
  /\ attempt \in [Records -> {Missing, "partial", "whole"}]
  /\ DOMAIN receipt = Records /\ DOMAIN verdicts = Records

Inv ==
  /\ Shape
  /\ \A p \in Processes : ProcessOK(p)
  /\ \A r \in Records : RecordOK(r)

\* A step of p that keeps the verdicts and the locks of the others keeps what
\* the others rely on.
LEMMA OthersKeep ==
  ASSUME Inv, NEW p \in Processes, NEW q \in Processes \ {p},
         process' = [process EXCEPT ![p] = process'[p]],
         started \subseteq started',
         process[q].pc \in Guarding
           => busy'[Item(q)] = busy[Item(q)] /\ verdicts'[Item(q)] = verdicts[Item(q)]
  PROVE  ProcessOK(q)'
  <1>1. process'[q] = process[q] /\ ProcessOK(q)
    BY DEF Inv, Shape
  <1>. QED
    BY <1>1 DEF ProcessOK, At, Item, Guarding

\* Leaving gives up no lock of another process.
LEMMA Leaving ==
  ASSUME Inv, NEW p \in Processes, Leave(p)
  PROVE  /\ process' = [process EXCEPT ![p] = process'[p]]
         /\ process'[p].pc = "idle"
         /\ busy' \in [Records -> Processes \cup {Nobody}]
         /\ \A q \in Processes \ {p} :
               process[q].pc \in Guarding => busy'[Item(q)] = busy[Item(q)]
  BY DEF Leave, Idle, Inv, Shape, ProcessOK

\* A step that touches no verification, and holds no lock longer than before.
LEMMA CalmStep ==
  ASSUME Inv, NEW p \in Processes, UNCHANGED <<started, receipt, verdicts>>,
         attempt' \in [Records -> {Missing, "partial", "whole"}],
         \/ Leave(p)
         \/ /\ process' = [process EXCEPT ![p] = process'[p]]
            /\ UNCHANGED busy /\ ProcessOK(p)'
  PROVE  Inv'
  <1>1. /\ process' = [process EXCEPT ![p] = process'[p]] /\ ProcessOK(p)'
        /\ busy' \in [Records -> Processes \cup {Nobody}]
        /\ \A q \in Processes \ {p} :
              process[q].pc \in Guarding => busy'[Item(q)] = busy[Item(q)]
    <2>1. CASE Leave(p)
      BY <2>1, Leaving DEF ProcessOK, At, Guarding
    <2>2. CASE ~Leave(p)
      BY <2>2 DEF Inv, Shape
    <2>. QED
      BY <2>1, <2>2
  <1>2. Shape'
    BY <1>1 DEF Inv, Shape
  <1>3. \A r \in Records : RecordOK(r)'
    BY DEF Inv, RecordOK
  <1>4. \A q \in Processes \ {p} : ProcessOK(q)'
    BY <1>1, OthersKeep
  <1>. QED
    BY <1>1, <1>2, <1>3, <1>4 DEF Inv

-----------------------------------------------------------------------------
(* The actions. *)

\* What is stored beside the verifications, and requests.
LEMMA StorageStep ==
  ASSUME Inv, NEW p \in Processes,
         \/ Ingest(p) \/ Confirm(p) \/ VerifyWorkspace(p) \/ TakeStoreLock(p)
         \/ StageRecord(p) \/ Publish(p) \/ Unstage(p)
         \/ CheckRoom(p) \/ OpenTarget(p) \/ MoveSnapshot(p) \/ Crash(p)
  PROVE  Inv'
  <1>1. UNCHANGED <<attempt, started, receipt, verdicts>>
    BY DEF Ingest, Confirm, VerifyWorkspace, Request, TakeStoreLock, StageRecord, Publish, Unstage,
           CheckRoom, OpenTarget, MoveSnapshot, Crash, Verifications
  <1>2. attempt' \in [Records -> {Missing, "partial", "whole"}]
    BY <1>1 DEF Inv, Shape
  <1>3. CASE Leave(p)
    BY <1>1, <1>2, <1>3, CalmStep
  <1>4. ASSUME NEW pc \in {"stage", "room", "publish", "move"}, Goto(p, pc), UNCHANGED busy
        PROVE  Inv'
    <2>1. process' = [process EXCEPT ![p] = process'[p]] /\ process'[p].pc = pc
      BY <1>4 DEF Goto, Inv, Shape
    <2>2. ProcessOK(p)'
      BY <2>1 DEF ProcessOK, At, Guarding
    <2>. QED
      BY <1>1, <1>2, <1>4, <2>1, <2>2, CalmStep
  <1>5. ASSUME Ingest(p) \/ Confirm(p) \/ VerifyWorkspace(p) PROVE Inv'
    <2>1. PICK item, pc : /\ process' = [process EXCEPT ![p] = [pc |-> pc, item |-> item]]
                          /\ UNCHANGED busy
                          /\ \/ pc \in {"ingest", "confirm"}
                             \/ pc = "verify" /\ item \in Records
      BY <1>5 DEF Ingest, Confirm, VerifyWorkspace, Request
    <2>2. process'[p] = [pc |-> pc, item |-> item]
      BY <2>1 DEF Inv, Shape
    <2>3. ProcessOK(p)'
      BY <2>1, <2>2 DEF ProcessOK, At, Item, Guarding
    <2>. QED
      BY <1>1, <1>2, <2>1, <2>2, <2>3, CalmStep
  <1>6. ASSUME process' = [process EXCEPT ![p] =
                 [pc |-> "target", item |-> Item(p), extra |-> extra]],
               UNCHANGED busy
        PROVE  Inv'
    <2>1. process'[p] = [pc |-> "target", item |-> Item(p), extra |-> extra]
      BY <1>6 DEF Inv, Shape
    <2>2. ProcessOK(p)'
      BY <2>1 DEF ProcessOK, At, Guarding
    <2>. QED
      BY <1>1, <1>2, <1>6, <2>1, <2>2, CalmStep
  <1>7. ASSUME TakeStoreLock(p) PROVE Inv'
    BY <1>4, <1>7 DEF TakeStoreLock
  <1>. QED
    BY <1>3, <1>4, <1>5, <1>6, <1>7
       DEF StageRecord, Publish, Unstage, CheckRoom, OpenTarget, MoveSnapshot, Crash

\* The lock of a record is taken when nobody has it.
LEMMA LockStep ==
  ASSUME Parameters, Inv, NEW p \in Processes, LockRecord(p)
  PROVE  Inv'
  <1>1. /\ UNCHANGED <<attempt, started, receipt, verdicts>>
        /\ At(p, "verify")
    BY DEF LockRecord, Verifications
  <1>2. attempt' \in [Records -> {Missing, "partial", "whole"}]
    BY <1>1 DEF Inv, Shape
  <1>3. CASE busy[Item(p)] # Nobody
    BY <1>1, <1>2, <1>3, CalmStep DEF LockRecord
  <1>4. CASE busy[Item(p)] = Nobody
    <2>1. /\ busy' = [busy EXCEPT ![Item(p)] = p] /\ process' = [process EXCEPT ![p].pc = "prior"]
          /\ Item(p) \in Records
      BY <1>1, <1>4 DEF LockRecord, Goto, Inv, ProcessOK
    <2>2. /\ process' = [process EXCEPT ![p] = process'[p]]
          /\ process'[p].pc = "prior" /\ process'[p].item = Item(p)
      BY <2>1 DEF Inv, Shape, Item
    <2>3. ProcessOK(p)'
      BY <2>1, <2>2 DEF ProcessOK, At, Item, Inv, Shape
    <2>4. ASSUME NEW q \in Processes \ {p} PROVE ProcessOK(q)'
      <3>1. process[q].pc \in Guarding => busy'[Item(q)] = busy[Item(q)]
        BY <1>4, <2>1 DEF Parameters, Inv, ProcessOK, Shape
      <3>. QED
        BY <1>1, <2>2, <3>1, OthersKeep
    <2>5. Shape'
      BY <1>1, <2>1, <2>2 DEF Inv, Shape
    <2>6. \A r \in Records : RecordOK(r)'
      BY <1>1 DEF Inv, RecordOK
    <2>. QED
      BY <2>3, <2>4, <2>5, <2>6 DEF Inv
  <1>. QED
    BY <1>3, <1>4

\* Up to the start, the holder of the lock has nothing to show.
LEMMA AttemptStep ==
  ASSUME Inv, NEW p \in Processes, Prior(p) \/ Attempt(p) \/ FillAttempt(p)
  PROVE  Inv'
  <1>1. /\ UNCHANGED <<started, receipt, verdicts>> /\ process[p].pc \in Guarding
    BY DEF Prior, Attempt, FillAttempt, Verifications, At, Guarding
  <1>2. Item(p) \in Records /\ busy[Item(p)] = p
    BY <1>1 DEF Inv, ProcessOK
  <1>3. attempt' \in [Records -> {Missing, "partial", "whole"}]
    BY <1>2 DEF Prior, Attempt, FillAttempt, Verifications, Inv, Shape
  <1>4. ASSUME NEW pc \in {"attempt", "fill_attempt", "start"}, Goto(p, pc), UNCHANGED busy
        PROVE  Inv'
    <2>1. /\ process' = [process EXCEPT ![p] = process'[p]]
          /\ process'[p].pc = pc /\ process'[p].item = Item(p)
      BY <1>4 DEF Goto, Inv, Shape, Item
    <2>2. ProcessOK(p)'
      BY <1>2, <1>4, <2>1 DEF ProcessOK, At, Item
    <2>. QED
      BY <1>1, <1>3, <1>4, <2>1, <2>2, CalmStep
  <1>5. CASE Leave(p)
    BY <1>1, <1>3, <1>5, CalmStep
  <1>6. attempt[Item(p)] \in {Missing, "partial", "whole"}
    BY <1>2 DEF Inv, Shape
  <1>7. CASE Attempt(p)
    BY <1>4, <1>5, <1>6, <1>7 DEF Attempt
  <1>. QED
    BY <1>4, <1>5, <1>7 DEF Prior, FillAttempt

\* A start is burnt by the one who makes it.
LEMMA StartStep ==
  ASSUME Inv, NEW p \in Processes, StartVerifier(p)
  PROVE  Inv'
  <1>1. /\ UNCHANGED <<attempt, receipt, verdicts>> /\ started' = started \cup {Item(p)}
        /\ At(p, "start")
    BY DEF StartVerifier
  <1>2. Item(p) \in Records /\ busy[Item(p)] = p
    BY <1>1 DEF Inv, ProcessOK, At, Guarding
  <1>3. /\ process' = [process EXCEPT ![p] = process'[p]] /\ ProcessOK(p)'
        /\ busy' \in [Records -> Processes \cup {Nobody}]
        /\ \A q \in Processes \ {p} :
              process[q].pc \in Guarding => busy'[Item(q)] = busy[Item(q)]
    <2>1. CASE Item(p) \in started
      <3>1. Leave(p)
        BY <2>1 DEF StartVerifier, Burnt
      <3>. QED
        BY <3>1, Leaving DEF ProcessOK, At, Guarding
    <2>2. CASE Item(p) \notin started
      <3>1. process' = [process EXCEPT ![p].pc = "run"] /\ busy' = busy
        BY <2>2 DEF StartVerifier, Burnt, Goto
      <3>2. /\ process' = [process EXCEPT ![p] = process'[p]]
            /\ process'[p].pc = "run" /\ process'[p].item = Item(p)
        BY <3>1 DEF Inv, Shape, Item
      <3>3. verdicts[Item(p)] = <<>>
        BY <1>2, <2>2 DEF Inv, RecordOK
      <3>4. ProcessOK(p)'
        BY <1>1, <1>2, <3>1, <3>2, <3>3 DEF ProcessOK, At, Item
      <3>. QED
        BY <3>1, <3>2, <3>4 DEF Inv, Shape
    <2>. QED
      BY <2>1, <2>2
  <1>4. \A q \in Processes \ {p} : ProcessOK(q)'
    BY <1>1, <1>3, OthersKeep
  <1>5. \A r \in Records : RecordOK(r)'
    BY <1>1 DEF Inv, RecordOK
  <1>6. Shape'
    BY <1>1, <1>3 DEF Inv, Shape
  <1>. QED
    BY <1>3, <1>4, <1>5, <1>6 DEF Inv

\* The verifier runs while its process holds the record, which has no verdict yet.
LEMMA RunStep ==
  ASSUME Inv, NEW p \in Processes, RunVerifier(p)
  PROVE  Inv'
  <1>1. PICK acceptance \in Acceptances :
           /\ verdicts' = [verdicts EXCEPT ![Item(p)] = Append(@, acceptance)]
           /\ process' = [process EXCEPT ![p] =
                [pc |-> "receipt", item |-> Item(p), acceptance |-> acceptance]]
    BY DEF RunVerifier
  <1>2. UNCHANGED <<attempt, started, receipt, busy>> /\ At(p, "run")
    BY DEF RunVerifier
  <1>3. /\ Item(p) \in Records /\ busy[Item(p)] = p /\ Item(p) \in started
        /\ verdicts[Item(p)] = <<>>
    BY <1>2 DEF Inv, ProcessOK, At, Guarding
  <1>4. /\ verdicts'[Item(p)] = <<acceptance>> /\ Len(verdicts'[Item(p)]) = 1
        /\ \A r \in Records \ {Item(p)} : verdicts'[r] = verdicts[r]
        /\ DOMAIN verdicts' = Records
    BY <1>1, <1>3 DEF Inv, Shape
  <1>5. /\ process'[p] = [pc |-> "receipt", item |-> Item(p), acceptance |-> acceptance]
        /\ process' = [process EXCEPT ![p] = process'[p]]
    BY <1>1 DEF Inv, Shape
  <1>6. ProcessOK(p)'
    <2>1. /\ process'[p].pc = "receipt" /\ process'[p].item = Item(p)
          /\ process'[p].acceptance = acceptance
      BY <1>5
    <2>. QED
      BY <1>2, <1>3, <1>4, <2>1 DEF ProcessOK, At, Item
  <1>7. ASSUME NEW q \in Processes \ {p} PROVE ProcessOK(q)'
    <2>1. process[q].pc \in Guarding => Item(q) \in Records \ {Item(p)}
      BY <1>3 DEF Inv, ProcessOK
    <2>. QED
      BY <1>2, <1>4, <1>5, <2>1, OthersKeep
  <1>8. ASSUME NEW r \in Records PROVE RecordOK(r)'
    <2>1. RecordOK(r)
      BY DEF Inv
    <2>2. CASE r = Item(p)
      <3>1. \A x : <<>> # <<x>>
        OBVIOUS
      <3>2. receipt[r] \notin {"VERIFIED_PASS", "VERIFIED_FAIL"}
        BY <1>3, <2>1, <2>2, <3>1 DEF RecordOK
      <3>3. r \in started' /\ receipt'[r] = receipt[r]
        BY <1>2, <1>3, <2>2
      <3>4. Len(verdicts'[r]) = 1
        BY <1>4, <2>2
      <3>5. Len(verdicts'[r]) <= 1
        BY <3>4
      <3>. QED
        BY <3>2, <3>3, <3>5 DEF RecordOK
    <2>3. CASE r # Item(p)
      BY <1>2, <1>4, <2>1, <2>3 DEF RecordOK
    <2>. QED
      BY <2>2, <2>3
  <1>9. Shape'
    BY <1>2, <1>4, <1>5 DEF Inv, Shape
  <1>. QED
    BY <1>6, <1>7, <1>8, <1>9 DEF Inv

\* The receipt repeats the verdict of its writer.
LEMMA ReceiptStep ==
  ASSUME Inv, NEW p \in Processes, CreateReceipt(p) \/ FillReceipt(p)
  PROVE  Inv'
  <1>1. UNCHANGED <<attempt, started, verdicts>> /\ process[p].pc \in {"receipt", "fill_receipt"}
    BY DEF CreateReceipt, FillReceipt, At
  <1>2. /\ Item(p) \in Records /\ busy[Item(p)] = p
        /\ verdicts[Item(p)] = <<process[p].acceptance>>
    BY <1>1 DEF Inv, ProcessOK, Guarding
  <1>3. PICK x : /\ receipt' = [receipt EXCEPT ![Item(p)] = x]
                 /\ x = "partial" \/ x = process[p].acceptance
    BY DEF CreateReceipt, FillReceipt
  <1>4. \A r \in Records : RecordOK(r)'
    BY <1>1, <1>2, <1>3 DEF Inv, Shape, RecordOK
  <1>5. /\ process' = [process EXCEPT ![p] = process'[p]] /\ ProcessOK(p)'
        /\ busy' \in [Records -> Processes \cup {Nobody}]
        /\ \A q \in Processes \ {p} :
              process[q].pc \in Guarding => busy'[Item(q)] = busy[Item(q)]
    <2>1. CASE CreateReceipt(p)
      <3>1. process' = [process EXCEPT ![p].pc = "fill_receipt"] /\ busy' = busy
        BY <2>1 DEF CreateReceipt, Goto
      <3>2. /\ process' = [process EXCEPT ![p] = process'[p]]
            /\ process'[p].pc = "fill_receipt" /\ process'[p].item = Item(p)
            /\ process'[p].acceptance = process[p].acceptance
        BY <3>1 DEF Inv, Shape, Item
      <3>3. ProcessOK(p)'
        BY <1>1, <1>2, <3>1, <3>2 DEF ProcessOK, At, Item
      <3>. QED
        BY <3>1, <3>2, <3>3 DEF Inv, Shape
    <2>2. CASE FillReceipt(p)
      <3>1. Leave(p)
        BY <2>2 DEF FillReceipt
      <3>. QED
        BY <3>1, Leaving DEF ProcessOK, At, Guarding
    <2>. QED
      BY <2>1, <2>2
  <1>6. \A q \in Processes \ {p} : ProcessOK(q)'
    BY <1>1, <1>5, OthersKeep
  <1>7. Shape'
    BY <1>1, <1>3, <1>5 DEF Inv, Shape
  <1>. QED
    BY <1>4, <1>5, <1>6, <1>7 DEF Inv

-----------------------------------------------------------------------------

\* However often verify_workspace is asked to verify a record, raced and killed,
\* the hidden verifier runs once at most, and a receipt that accepts or rejects
\* says what that run said.
THEOREM VerifiedOnce ==
  ASSUME Parameters
  PROVE  Spec => []OneVerification
  <1>1. Init => Inv
    BY DEF Parameters, Init, Idle, Inv, Shape, ProcessOK, RecordOK, At, Guarding, Acceptances
  <1>2. Inv /\ [Next]_vars => Inv'
    <2>1. ASSUME Inv, UNCHANGED vars PROVE Inv'
      BY <2>1 DEF vars, Inv, Shape, ProcessOK, RecordOK, At, Item
    <2>2. ASSUME Inv, Next PROVE Inv'
      BY <2>2, StorageStep, LockStep, AttemptStep, StartStep, RunStep, ReceiptStep DEF Next
    <2>. QED
      BY <2>1, <2>2
  <1>3. Inv => OneVerification
    BY DEF Inv, RecordOK, OneVerification
  <1>. QED
    BY <1>1, <1>2, <1>3, PTL DEF Spec

-----------------------------------------------------------------------------
(* The lock of the store keeps the room that confirm checked, but for the    *)
(* files that verifications add.                                             *)

Counting == MaxFiles \in Int /\ RecordFiles \in Int

\* The points at which a process holds the lock of the store.
Storing == {"stage", "publish", "room", "target", "move"}

RoomOK(p) ==
  /\ process[p].pc \in Storing => lock = p
  /\ process[p].pc \in {"target", "move"} => process[p].extra \in Int
  /\ At(p, "target")
       => Item(p) \in saved \/ files <= MaxFiles - 2 + (extra - process[p].extra)
  /\ At(p, "move")
       => Item(p) \in saved \/ files <= MaxFiles - 1 + (extra - process[p].extra)

RoomInv ==
  /\ files \in Int /\ extra \in Int
  /\ \A p \in Processes : RoomOK(p)

\* A step of p in which only verifications add files, as far as another process
\* that holds the lock of the store is concerned.
LEMMA RoomStep ==
  ASSUME Counting, Inv, RoomInv, NEW p \in Processes,
         process' = [process EXCEPT ![p] = process'[p]],
         files' \in Int, extra' \in Int, saved \subseteq saved', RoomOK(p)',
         \A q \in Processes \ {p} :
            process[q].pc \in Storing => lock' = q /\ files' - files <= extra' - extra
  PROVE  RoomInv'
  <1>. SUFFICES ASSUME NEW q \in Processes \ {p} PROVE RoomOK(q)'
    BY DEF RoomInv
  <1>1. process'[q] = process[q] /\ RoomOK(q)
    BY DEF Inv, Shape, RoomInv
  <1>2. ASSUME NEW n \in Int, process[q].pc \in {"target", "move"},
               files <= n + (extra - process[q].extra)
        PROVE  files' <= n + (extra' - process[q].extra)
    <2>1. process[q].extra \in Int /\ files' - files <= extra' - extra
      BY <1>1, <1>2 DEF RoomOK, Storing
    <2>2. files \in Int /\ extra \in Int
      BY DEF RoomInv
    <2>3. \A f, g, x, y, z \in Int : g - f <= y - x /\ f <= n + (x - z) => g <= n + (y - z)
      OBVIOUS
    <2>. QED
      BY <1>2, <2>1, <2>2, <2>3
  <1>3. MaxFiles - 2 \in Int /\ MaxFiles - 1 \in Int
    BY DEF Counting
  <1>4. At(q, "target")
          => Item(q) \in saved' \/ files' <= MaxFiles - 2 + (extra' - process[q].extra)
    BY <1>1, <1>2, <1>3 DEF RoomOK, At
  <1>5. At(q, "move")
          => Item(q) \in saved' \/ files' <= MaxFiles - 1 + (extra' - process[q].extra)
    BY <1>1, <1>2, <1>3 DEF RoomOK, At
  <1>6. /\ process[q].pc \in Storing => lock' = q
        /\ process[q].pc \in {"target", "move"} => process[q].extra \in Int
    BY <1>1 DEF RoomOK
  <1>. QED
    BY <1>1, <1>4, <1>5, <1>6 DEF RoomOK, At, Item

\* Leaving keeps the lock of another process.
LEMMA LeaveRoom ==
  ASSUME Inv, RoomInv, NEW p \in Processes, Leave(p)
  PROVE  /\ process' = [process EXCEPT ![p] = process'[p]]
         /\ RoomOK(p)'
         /\ \A q \in Processes \ {p} : process[q].pc \in Storing => lock' = q
  <1>1. process' = [process EXCEPT ![p] = process'[p]] /\ process'[p].pc = "idle"
    BY Leaving
  <1>2. RoomOK(p)'
    BY <1>1 DEF RoomOK, At, Storing
  <1>3. \A q \in Processes \ {p} : process[q].pc \in Storing => lock' = q
    BY DEF Leave, RoomInv, RoomOK
  <1>. QED
    BY <1>1, <1>2, <1>3

\* Verifications count what they add; requests and verifications hold no lock of
\* the store.
LEMMA SideRoom ==
  ASSUME Counting, Inv, RoomInv, NEW p \in Processes,
         \/ Ingest(p) \/ Confirm(p) \/ VerifyWorkspace(p) \/ Crash(p)
         \/ LockRecord(p) \/ Prior(p) \/ Attempt(p) \/ FillAttempt(p) \/ StartVerifier(p)
         \/ RunVerifier(p) \/ CreateReceipt(p) \/ FillReceipt(p)
  PROVE  RoomInv'
  <1>1. files \in Int /\ extra \in Int
    BY DEF RoomInv
  <1>2. PICK n \in {0, 1} : files' = files + n /\ extra' = extra + n
    <2>1. ASSUME UNCHANGED <<files, extra>>
          PROVE  \E n \in {0, 1} : files' = files + n /\ extra' = extra + n
      BY <1>1, <2>1
    <2>2. CASE LockRecord(p)
      BY <2>2 DEF LockRecord, Adds
    <2>3. CASE Attempt(p)
      <3>1. attempt[Item(p)] \in {Missing, "partial", "whole"}
        BY <2>3 DEF Attempt, Inv, Shape, ProcessOK, At, Guarding
      <3>. QED
        BY <2>1, <2>3, <3>1 DEF Attempt, Adds
    <2>4. CASE StartVerifier(p)
      BY <2>1, <2>4 DEF StartVerifier, Adds
    <2>5. CASE CreateReceipt(p)
      BY <2>5 DEF CreateReceipt, Adds
    <2>. QED
      BY <2>1, <2>2, <2>3, <2>4, <2>5
         DEF Ingest, Confirm, VerifyWorkspace, Request, Crash, Prior, FillAttempt, RunVerifier,
             FillReceipt
  <1>3. files' \in Int /\ extra' \in Int /\ files' - files <= extra' - extra
    BY <1>1, <1>2
  <1>4. saved' = saved
    BY DEF Ingest, Confirm, VerifyWorkspace, Request, Crash, LockRecord, Prior, Attempt,
           FillAttempt, StartVerifier, RunVerifier, CreateReceipt, FillReceipt
  <1>5. CASE Leave(p)
    BY <1>3, <1>4, <1>5, LeaveRoom, RoomStep
  <1>6. ASSUME process' = [process EXCEPT ![p] = process'[p]],
               process'[p].pc \notin Storing, UNCHANGED lock
        PROVE  RoomInv'
    <2>1. RoomOK(p)'
      BY <1>6 DEF RoomOK, At, Storing
    <2>. QED
      BY <1>3, <1>4, <1>6, <2>1, RoomStep DEF RoomInv, RoomOK
  <1>7. ASSUME NEW pc \in {"prior", "attempt", "fill_attempt", "start", "run", "fill_receipt"},
               Goto(p, pc), UNCHANGED lock
        PROVE  RoomInv'
    <2>1. process' = [process EXCEPT ![p] = process'[p]] /\ process'[p].pc = pc
      BY <1>7 DEF Goto, Inv, Shape
    <2>. QED
      BY <1>6, <1>7, <2>1 DEF Storing
  <1>8. ASSUME Ingest(p) \/ Confirm(p) \/ VerifyWorkspace(p) PROVE RoomInv'
    <2>1. PICK item, pc : /\ process' = [process EXCEPT ![p] = [pc |-> pc, item |-> item]]
                          /\ pc \in {"ingest", "confirm", "verify"} /\ UNCHANGED lock
      BY <1>8 DEF Ingest, Confirm, VerifyWorkspace, Request
    <2>2. process'[p] = [pc |-> pc, item |-> item]
      BY <2>1 DEF Inv, Shape
    <2>3. process' = [process EXCEPT ![p] = process'[p]]
      BY <2>1, <2>2
    <2>4. process'[p].pc \notin Storing
      BY <2>1, <2>2 DEF Storing
    <2>. QED
      BY <1>6, <2>1, <2>3, <2>4
  <1>9. CASE RunVerifier(p)
    <2>1. PICK acceptance :
             /\ process' = [process EXCEPT ![p] =
                  [pc |-> "receipt", item |-> Item(p), acceptance |-> acceptance]]
             /\ UNCHANGED lock
      BY <1>9 DEF RunVerifier
    <2>2. process'[p] = [pc |-> "receipt", item |-> Item(p), acceptance |-> acceptance]
      BY <2>1 DEF Inv, Shape
    <2>3. process' = [process EXCEPT ![p] = process'[p]]
      BY <2>1, <2>2
    <2>4. process'[p].pc \notin Storing
      BY <2>1, <2>2 DEF Storing
    <2>. QED
      BY <1>6, <2>1, <2>3, <2>4
  <1>10. CASE Attempt(p)
    <2>1. attempt[Item(p)] \in {Missing, "partial", "whole"}
      BY <1>10 DEF Attempt, Inv, Shape, ProcessOK, At, Guarding
    <2>. QED
      BY <1>5, <1>7, <1>10, <2>1 DEF Attempt
  <1>. QED
    BY <1>5, <1>7, <1>8, <1>9, <1>10
       DEF Crash, LockRecord, Prior, FillAttempt, StartVerifier, CreateReceipt, FillReceipt

\* Records and snapshots are stored under the lock of the store.
LEMMA StoreRoom ==
  ASSUME Parameters, Counting, Inv, RoomInv, NEW p \in Processes,
         \/ TakeStoreLock(p) \/ StageRecord(p) \/ Publish(p) \/ Unstage(p)
         \/ CheckRoom(p) \/ OpenTarget(p) \/ MoveSnapshot(p)
  PROVE  RoomInv'
  <1>1. files \in Int /\ extra \in Int /\ extra' = extra
    BY DEF RoomInv, TakeStoreLock, StageRecord, Publish, Unstage, CheckRoom, OpenTarget,
           MoveSnapshot
  <1>2. files' \in Int
    BY <1>1 DEF TakeStoreLock, StageRecord, Publish, Unstage, CheckRoom, OpenTarget, MoveSnapshot,
                Adds, Counting
  <1>3. saved \subseteq saved'
    BY DEF TakeStoreLock, StageRecord, Publish, Unstage, CheckRoom, OpenTarget, MoveSnapshot
  <1>4. ASSUME NEW q \in Processes \ {p}, process[q].pc \in Storing
        PROVE  TakeStoreLock(p) /\ lock # Nobody
    <2>1. lock = q
      BY <1>4 DEF RoomInv, RoomOK
    <2>2. process[p].pc \notin Storing
      BY <2>1 DEF RoomInv, RoomOK
    <2>. QED
      BY <2>1, <2>2 DEF Parameters, StageRecord, Publish, Unstage, CheckRoom, OpenTarget,
                        MoveSnapshot, At, Storing
  <1>5. \A q \in Processes \ {p} : process[q].pc \notin Storing
    BY <1>4 DEF TakeStoreLock, Waits, At
  <1>6. CASE Leave(p)
    BY <1>1, <1>2, <1>3, <1>5, <1>6, LeaveRoom, RoomStep
  <1>7. ASSUME process' = [process EXCEPT ![p] = process'[p]], RoomOK(p)'
        PROVE  RoomInv'
    BY <1>1, <1>2, <1>3, <1>5, <1>7, RoomStep
  <1>8. CASE TakeStoreLock(p)
    <2>1. PICK pc \in {"stage", "room"} : Goto(p, pc) /\ lock' = p
      BY <1>8 DEF TakeStoreLock, Waits, At
    <2>2. process' = [process EXCEPT ![p] = process'[p]] /\ process'[p].pc = pc
      BY <2>1 DEF Goto, Inv, Shape
    <2>3. RoomOK(p)'
      BY <2>1, <2>2 DEF RoomOK, At
    <2>. QED
      BY <1>7, <2>2, <2>3
  <1>9. CASE StageRecord(p) /\ ~Leave(p)
    <2>1. Goto(p, "publish") /\ lock' = lock /\ At(p, "stage")
      BY <1>9 DEF StageRecord
    <2>2. process' = [process EXCEPT ![p] = process'[p]] /\ process'[p].pc = "publish"
      BY <2>1 DEF Goto, Inv, Shape
    <2>3. RoomOK(p)'
      BY <2>1, <2>2 DEF RoomOK, RoomInv, At, Storing
    <2>. QED
      BY <1>7, <2>2, <2>3
  <1>10. CASE CheckRoom(p) /\ ~Leave(p)
    <2>1. /\ process' = [process EXCEPT ![p] =
               [pc |-> "target", item |-> Item(p), extra |-> extra]]
          /\ lock' = lock /\ At(p, "room") /\ UNCHANGED <<saved, files, extra>>
          /\ Item(p) \in saved \/ files <= MaxFiles - 2
      BY <1>10 DEF CheckRoom, HasRoom
    <2>2. /\ process' = [process EXCEPT ![p] = process'[p]]
          /\ process'[p].pc = "target" /\ process'[p].item = Item(p)
          /\ process'[p].extra = extra
      BY <2>1 DEF Inv, Shape
    <2>3. lock = p
      BY <2>1 DEF RoomInv, RoomOK, At, Storing
    <2>4. files <= MaxFiles - 2 => files <= MaxFiles - 2 + (extra - extra)
      BY <1>1 DEF Counting
    <2>5. RoomOK(p)'
      BY <1>1, <2>1, <2>2, <2>3, <2>4 DEF RoomOK, At, Item
    <2>. QED
      BY <1>7, <2>2, <2>5
  <1>11. CASE OpenTarget(p)
    <2>1. /\ process' = [process EXCEPT ![p].pc = "move"] /\ At(p, "target")
          /\ UNCHANGED <<saved, lock, extra>>
      BY <1>11 DEF OpenTarget, Goto
    <2>2. /\ process' = [process EXCEPT ![p] = process'[p]]
          /\ process'[p].pc = "move" /\ process'[p].item = Item(p)
          /\ process'[p].extra = process[p].extra
      BY <2>1 DEF Inv, Shape, Item
    <2>3. /\ lock = p /\ process[p].extra \in Int
          /\ Item(p) \in saved \/ files <= MaxFiles - 2 + (extra - process[p].extra)
      BY <2>1 DEF RoomInv, RoomOK, At, Storing
    <2>4. files' <= files + 1
      BY <1>1, <1>11 DEF OpenTarget, Adds
    <2>5. files <= MaxFiles - 2 + (extra - process[p].extra)
            => files' <= MaxFiles - 1 + (extra - process[p].extra)
      BY <1>1, <1>2, <2>3, <2>4 DEF Counting
    <2>6. RoomOK(p)'
      BY <2>1, <2>2, <2>3, <2>5 DEF RoomOK, At, Item
    <2>. QED
      BY <1>7, <2>2, <2>6
  <1>. QED
    BY <1>6, <1>8, <1>9, <1>10, <1>11 DEF Publish, Unstage, MoveSnapshot

\* A snapshot is moved into a store that has the room that confirm found, less
\* what verifications have added since.
LEMMA MoveInRoom ==
  ASSUME Counting, Inv, RoomInv, Next
  PROVE  SnapshotKeepsEnvelope
  <1>. SUFFICES ASSUME NEW p \in Processes, At(p, "move"), process'[p] = Idle, saved' # saved
                PROVE  files' <= MaxFiles + (extra - process[p].extra)
    BY DEF SnapshotKeepsEnvelope
  <1>1. process'[p].pc = "idle"
    BY DEF Idle
  <1>2. PICK q \in Processes :
          \/ q # p /\ process' = [process EXCEPT ![q] = process'[q]]
          \/ MoveSnapshot(p)
    <2>1. PICK q \in Processes : Publish(q) \/ MoveSnapshot(q)
      BY DEF Next, Ingest, Confirm, VerifyWorkspace, Request, TakeStoreLock, StageRecord, Unstage,
             CheckRoom, OpenTarget, LockRecord, Prior, Attempt, FillAttempt, StartVerifier,
             RunVerifier, CreateReceipt, FillReceipt, Crash
    <2>2. Leave(q)
      BY <2>1 DEF Publish, MoveSnapshot
    <2>. QED
      BY <2>1, <2>2, Leaving DEF Publish, At
  <1>3. MoveSnapshot(p)
    BY <1>1, <1>2 DEF Inv, Shape, At
  <1>4. Item(p) \notin saved /\ files' = files + 1
    BY <1>3 DEF MoveSnapshot, Adds
  <1>5. /\ files <= MaxFiles - 1 + (extra - process[p].extra)
        /\ files \in Int /\ extra \in Int /\ process[p].extra \in Int
    BY <1>4 DEF RoomInv, RoomOK, At
  <1>. QED
    BY <1>4, <1>5 DEF Counting

\* "A new snapshot cannot exceed the shared envelope": whatever number of
\* processes store records and snapshots, confirm takes the store past its limit
\* only by the files that verifications added since it checked.
THEOREM EnvelopeIsKept ==
  ASSUME Parameters, Counting
  PROVE  Spec => SnapshotsKeepEnvelope
  <1>1. Init => Inv /\ RoomInv
    <2>1. Init => Inv
      BY DEF Parameters, Init, Idle, Inv, Shape, ProcessOK, RecordOK, At, Guarding, Acceptances
    <2>2. Init => RoomInv
      BY DEF Init, Idle, RoomInv, RoomOK, At, Storing
    <2>. QED
      BY <2>1, <2>2
  <1>2. Inv /\ RoomInv /\ [Next]_vars => (Inv /\ RoomInv)'
    <2>1. ASSUME Inv, RoomInv, UNCHANGED vars PROVE Inv' /\ RoomInv'
      BY <2>1 DEF vars, Inv, Shape, ProcessOK, RecordOK, At, Item, RoomInv, RoomOK
    <2>2. ASSUME Inv, RoomInv, Next PROVE Inv' /\ RoomInv'
      BY <2>2, StorageStep, LockStep, AttemptStep, StartStep, RunStep, ReceiptStep,
         SideRoom, StoreRoom DEF Next
    <2>. QED
      BY <2>1, <2>2
  <1>3. Inv /\ RoomInv /\ [Next]_vars => [SnapshotKeepsEnvelope]_vars
    BY MoveInRoom
  <1>. QED
    BY <1>1, <1>2, <1>3, PTL DEF Spec, SnapshotsKeepEnvelope
=============================================================================
