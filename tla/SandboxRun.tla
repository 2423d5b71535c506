------------------------------ MODULE SandboxRun ------------------------------
(***************************************************************************)
(* One run of a hidden verifier in a Docker sandbox (sandbox/runner.py).   *)
(* The client talks to the daemon through commands that it may kill, on a  *)
(* timeout or a cancellation, while the daemon goes on with what it was    *)
(* asked.  Whatever happens the container is removed, the listing of the   *)
(* daemon decides whether that worked, and only then the workspace is      *)
(* copied and the manifest written.                                        *)
(***************************************************************************)

CONSTANT Missing

VARIABLES
  client,     \* the step of the coroutine
  security,   \* the container has been inspected
  status,     \* what the manifest will say
  listed,     \* cleanup_verified
  container,  \* the daemon's: "absent", "created", "running" or "exited"
  requested,  \* the daemon has a create to carry out
  root,       \* the run root is there
  artifacts,  \* the artifact directory is there
  manifest,   \* Missing or [status, cleanup_verified]
  returned    \* a verifier result was returned

local == <<client, security, status, listed>>
disk == <<root, artifacts, manifest, returned>>
vars == <<local, container, requested, disk>>

Init ==
  /\ client = "idle" /\ security = FALSE /\ status = "FAILED" /\ listed = FALSE
  /\ container = "absent" /\ requested = FALSE
  /\ root = FALSE /\ artifacts = FALSE /\ manifest = Missing /\ returned = FALSE

Docker == <<container, requested>>

\* _reserve_run_root: a run root that is there refuses the run.
Reserve ==
  /\ client = "idle" /\ ~root
  /\ client' = "prepare" /\ security' = FALSE /\ status' = "FAILED" /\ listed' = FALSE
  /\ root' = TRUE
  /\ UNCHANGED <<Docker, artifacts, manifest, returned>>

\* Staging fails, or the artifact directory is there already, or both work.
Prepare ==
  /\ client = "prepare"
  /\ \/ /\ ~artifacts /\ artifacts' = TRUE
        /\ client' = "create"
     \/ client' = "clear" /\ UNCHANGED artifacts
  /\ UNCHANGED <<security, status, listed, Docker, root, manifest, returned>>

Create ==
  /\ client = "create"
  /\ requested' = TRUE
  /\ client' = "creating"
  /\ UNCHANGED <<security, status, listed, container, disk>>

\* The daemon carries out the create, whether or not anybody still waits for it.
DaemonCreates ==
  /\ requested /\ requested' = FALSE
  /\ container' = "created"
  /\ UNCHANGED <<local, disk>>

DaemonRefuses ==
  /\ requested /\ requested' = FALSE
  /\ client' = IF client = "creating" THEN "own" ELSE client
  /\ UNCHANGED <<security, status, listed, container, disk>>

Created ==
  /\ client = "creating" /\ container = "created"
  /\ client' = "inspect"
  /\ UNCHANGED <<security, status, listed, Docker, disk>>

\* A command fails or runs out of time before the container is started.
Abort ==
  /\ client \in {"creating", "inspect"}
  /\ client' = "own"
  /\ UNCHANGED <<security, status, listed, Docker, disk>>

\* The coroutine is cancelled before the container is started. A container that
\* is there by then is inspected after all.
CancelEarly ==
  /\ client \in {"creating", "inspect"}
  /\ status' = "CANCELLED"
  /\ security' \in IF container = "absent" THEN {FALSE} ELSE BOOLEAN
  /\ client' = "own"
  /\ UNCHANGED <<listed, Docker, disk>>

Inspect ==
  /\ client = "inspect"
  /\ security' = TRUE
  /\ client' = "wait"
  /\ UNCHANGED <<status, listed, Docker, disk>>

\* The daemon carries out start --attach.
Start ==
  /\ client = "wait" /\ container = "created"
  /\ container' = "running"
  /\ UNCHANGED <<local, requested, disk>>

Exit ==
  /\ container = "running" /\ container' = "exited"
  /\ UNCHANGED <<local, requested, disk>>

\* start --attach ends: the container has exited, time is up, the connection is
\* lost or the coroutine cancelled, while the container may go on; it has failed
\* when its exit code is not zero, or cannot be read.
Attached ==
  /\ client = "wait"
  /\ status' \in {"SUCCEEDED", "FAILED", "TIMEOUT", "CANCELLED"}
  /\ client' = "own"
  /\ UNCHANGED <<security, listed, Docker, disk>>

\* _remove_and_verify: a container that inspect finds is killed and removed ...
Own ==
  /\ client = "own"
  /\ client' \in IF container = "absent" THEN {"list"} ELSE {"kill", "list"}
  /\ UNCHANGED <<security, status, listed, Docker, disk>>

\* ... if the daemon obeys ...
Remove ==
  /\ client = "kill"
  /\ container' \in {container, "absent"}
  /\ client' = "list"
  /\ UNCHANGED <<security, status, listed, requested, disk>>

\* Mutant: the exit code of rm is trusted instead of the listing.
Absent_Assumed == {TRUE}
Absent == IF container = "absent" THEN BOOLEAN ELSE {FALSE}

\* ... and whether it is gone is what a listing says, if there is one.
List ==
  /\ client = "list"
  /\ listed' \in Absent
  /\ client' = "decide"
  /\ UNCHANGED <<security, status, Docker, disk>>

\* Without an inspected container nothing is recorded; without a verified
\* cleanup the workspace is not copied.
Decide ==
  /\ client = "decide"
  /\ client' = IF ~security THEN "clear" ELSE IF listed THEN "copy" ELSE "write"
  /\ status' = IF listed THEN status ELSE "CLEANUP_ERROR"
  /\ UNCHANGED <<security, listed, Docker, disk>>

\* ArtifactWriter.finalize copies the workspace, which may be unsafe ...
Copy ==
  /\ client = "copy"
  /\ status' \in {status, "ARTIFACT_ERROR"}
  /\ client' = "write"
  /\ UNCHANGED <<security, listed, Docker, disk>>

\* ... and writes the manifest.
Write ==
  /\ client = "write"
  /\ manifest' = [status |-> status, cleanup_verified |-> listed]
  /\ client' = "clear"
  /\ UNCHANGED <<security, status, listed, Docker, root, artifacts, returned>>

\* An error that only the caller handles: a command of the cleanup runs out of
\* time, an answer does not parse, an artifact cannot be written.
Raise ==
  /\ client \in {"own", "kill", "list", "decide", "copy", "write"}
  /\ client' = "clear" /\ status' = "FAILED"
  /\ UNCHANGED <<security, listed, Docker, disk>>

\* The staging is removed; a result is returned for a successful run, with a
\* report that can be read.
Clear ==
  /\ client = "clear"
  /\ root' \in BOOLEAN
  /\ returned' \in IF ~root' /\ manifest # Missing /\ status = "SUCCEEDED"
                   THEN BOOLEAN ELSE {returned}
  /\ client' = "idle"
  /\ UNCHANGED <<security, status, listed, Docker, artifacts, manifest>>

\* The process dies, or is cancelled again while it cleans up.
Crash ==
  /\ client # "idle"
  /\ client' = "idle"
  /\ UNCHANGED <<security, status, listed, Docker, disk>>

Next ==
  \/ Reserve \/ Prepare \/ Create \/ DaemonCreates \/ DaemonRefuses \/ Created
  \/ Abort \/ CancelEarly \/ Inspect \/ Start \/ Exit \/ Attached
  \/ Own \/ Remove \/ List \/ Decide \/ Copy \/ Write \/ Raise \/ Clear
  \/ Crash

Spec == Init /\ [][Next]_vars

-----------------------------------------------------------------------------
(* Properties. *)

\* "Unverified cleanup requires cleanup_error status; success is forbidden":
\* when the workspace is copied, and ever after a manifest says that the cleanup
\* was verified, there is no container and none can come, although a create
\* whose client was killed may still be carried out; and a result is returned
\* for such a manifest only.
RecordedMeansGone ==
  /\ client = "copy" \/ (manifest # Missing /\ manifest.cleanup_verified)
       => container = "absent" /\ ~requested
  /\ returned => manifest.status = "SUCCEEDED" /\ manifest.cleanup_verified
=============================================================================
