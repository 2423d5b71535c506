------------------------------ MODULE TaskStore ------------------------------
(***************************************************************************)
(* The managed store of custom tasks (custom_eval/store.py): immutable     *)
(* snapshots under their content identity, and an index file that binds    *)
(* the id and version of a task to one snapshot.  Importers are processes  *)
(* that may die between any two file operations.  A product import         *)
(* (local_plans/tasks.py) holds a file lock around all of it, one from the *)
(* command line does not.                                                  *)
(***************************************************************************)
EXTENDS Integers

CONSTANTS
  Importers,
  Packages,    \* the packages offered, by managed snapshot identity
  TaskOf,      \* the id and version a package carries
  MaxImports,  \* bound: imports that get as far as building a record
  Nobody, Missing, Garbled

VARIABLES
  snapshot,  \* the record.json of each published snapshot, or Missing
  index,     \* the index file of each task: a record, Garbled or Missing
  importer,  \* what each process does
  lock,      \* who holds .product-import.lock
  clock,     \* imports so far: the time of the next one
  entries    \* the entry points in use, which stay what they are

vars == <<snapshot, index, importer, lock, clock, entries>>

EntryPoints == {"product", "command line"}

Tasks == {TaskOf[p] : p \in Packages}

\* A ManagedTaskRecord: which snapshot, and when it was imported.
Record == [package : Packages, imported_at : 1 .. MaxImports]

Idle == [pc |-> "idle"]

Empty ==
  /\ snapshot = [p \in Packages |-> Missing]
  /\ index = [t \in Tasks |-> Missing]
  /\ importer = [i \in Importers |-> Idle]
  /\ lock = Nobody
  /\ clock = 1

Init == Empty /\ entries \in SUBSET EntryPoints

At(i, pc) == importer[i].pc = pc

Goto(i, pc) == importer' = [importer EXCEPT ![i].pc = pc]

\* The import returns, raises or its process dies: the lock goes with it.
Leave(i) ==
  /\ importer' = [importer EXCEPT ![i] = Idle]
  /\ lock' = IF lock = i THEN Nobody ELSE lock

\* Mutant: the product import does not take its lock.
LockTaken_Never(i, entry) == lock
LockTaken(i, entry) == IF entry = "product" THEN i ELSE lock

\* The package is loaded and its record built, with the time of this import.
Begin(i, entry, p) ==
  /\ At(i, "idle") /\ clock <= MaxImports
  /\ entry = "product" => lock = Nobody
  /\ lock' = LockTaken(i, entry)
  /\ importer' = [importer EXCEPT ![i] =
       [pc |-> "look", record |-> [package |-> p, imported_at |-> clock]]]
  /\ clock' = clock + 1
  /\ UNCHANGED <<snapshot, index>>

\* A bound task is only compared, whatever the comparison says.
Bound(i) ==
  /\ At(i, "look") /\ index[TaskOf[importer[i].record.package]] # Missing
  /\ Leave(i)
  /\ UNCHANGED <<snapshot, index, clock>>

\* The index has no entry: a snapshot that is already there is adopted as it is.
Look(i) ==
  /\ At(i, "look") /\ index[TaskOf[importer[i].record.package]] = Missing
  /\ Goto(i, IF snapshot[importer[i].record.package] = Missing THEN "rename" ELSE "open")
  /\ UNCHANGED <<snapshot, index, lock, clock>>

\* The staged copy is renamed to its place; a place that is taken refuses it.
Rename(i) ==
  /\ At(i, "rename")
  /\ \/ /\ snapshot[importer[i].record.package] = Missing
        /\ snapshot' = [snapshot EXCEPT ![importer[i].record.package] = importer[i].record]
        /\ Goto(i, "open") /\ UNCHANGED lock
     \/ /\ snapshot[importer[i].record.package] # Missing
        /\ Leave(i) /\ UNCHANGED snapshot
  /\ UNCHANGED <<index, clock>>

\* _write_json opens the index file, which empties it ...
OpenIndex(i) ==
  /\ At(i, "open")
  /\ index' = [index EXCEPT ![TaskOf[importer[i].record.package]] = Garbled]
  /\ Goto(i, "write")
  /\ UNCHANGED <<snapshot, lock, clock>>

\* ... and writes it; over the bytes of another importer it leaves either.
WriteIndex(i) ==
  /\ At(i, "write")
  /\ LET t == TaskOf[importer[i].record.package]
     IN  \E bytes \in {importer[i].record} \cup (IF index[t] = Garbled THEN {} ELSE {Garbled}) :
           index' = [index EXCEPT ![t] = bytes]
  /\ Goto(i, "verify")
  /\ UNCHANGED <<snapshot, lock, clock>>

\* _verify_snapshot compares the record with the snapshot and changes nothing.
Verify(i) ==
  /\ At(i, "verify")
  /\ Leave(i)
  /\ UNCHANGED <<snapshot, index, clock>>

\* The process dies, or an operation on a file raises.
Fail(i) ==
  /\ ~At(i, "idle")
  /\ Leave(i)
  /\ UNCHANGED <<snapshot, index, clock>>

Next ==
  /\ \E i \in Importers :
       \/ \E entry \in entries, p \in Packages : Begin(i, entry, p)
       \/ Bound(i) \/ Look(i) \/ Rename(i) \/ OpenIndex(i) \/ WriteIndex(i) \/ Verify(i)
       \/ Fail(i)
  /\ UNCHANGED entries

Spec == Init /\ [][Next]_vars

-----------------------------------------------------------------------------
(* Properties. *)

Bindings == {t \in Tasks : index[t] \notin {Missing, Garbled}}

\* A published snapshot never changes, and a file that binds a task always names
\* a snapshot that is in place, whichever importers overlap and wherever they die.
EntriesNameSnapshots ==
  /\ \A p \in Packages : snapshot[p] # Missing => snapshot'[p] = snapshot[p]
  /\ \A t \in Bindings' : TaskOf[index'[t].package] = t /\ snapshot'[index'[t].package] # Missing

\* "index/<task-id>/<version>.json binds one custom id/version to one immutable
\* snapshot": where every import is a product import a binding never changes
\* either, through overlapping imports and retries of imports that died in between.
BindingsStay == \A t \in Bindings : index'[t] = index[t]
ProductOnly == entries = {"product"}

TasksAreImmutable == [][EntriesNameSnapshots /\ (ProductOnly => BindingsStay)]_vars

\* "Re-importing identical content is idempotent" (docs/CUSTOM_EVALUATION.md:15):
\* once every import has ended, whatever died on the way, a binding agrees with
\* the record of its snapshot, which every read compares.
ReimportsAgree ==
  (\A i \in Importers : At(i, "idle"))
    => \A t \in Bindings : index[t] = snapshot[index[t].package]
=============================================================================
