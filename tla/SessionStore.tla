---------------------------- MODULE SessionStore ----------------------------
(***************************************************************************)
(* CaptureSessionService: the sessions held in memory, and what of them is *)
(* on disk, seen from one session.                                         *)
(*                                                                         *)
(* A session is one mutable CaptureSession object, shared by every request *)
(* and every capture loop that fetched it; `_sessions` only decides        *)
(* whether a lookup still finds it.  On disk it is a metadata file         *)
(* (<id>.json) and a directory (<id>/).  Callers change the object in      *)
(* place and then await UpdateSessionAsync, so the object's status and the *)
(* file's drift apart and meet again; the steps of that call, and of a     *)
(* deletion, are separate actions here because every await between them    *)
(* lets other callers run.                                                 *)
(*                                                                         *)
(* Of the object only its Status is kept.                                  *)
(***************************************************************************)
EXTENDS FiniteSets

CONSTANTS
    Clients,    \* the tasks that call the service: request handlers, capture loops
    Faults      \* which I/O may fail: saving, removing a failed save's temporary
                \* file, deleting a session, logging an event

ASSUME FaultsAssumption == Faults \subseteq {"persist", "temp", "delete", "log"}

VARIABLES
    status,     \* CaptureSession.Status of the shared object
    listed,     \* `_sessions` contains the object
    directory,  \* the session's directory exists
    metadata,   \* the Status in <id>.json, or "none" when there is no such file
    call,       \* how far each client is in its call of the service
    copy,       \* the Status in each client's serialized copy, or "none"
    leaked      \* a call has ended without releasing `_persistLock`

storeVars == <<status, listed, directory, metadata, call, copy, leaked>>

Status == {"Ready", "Scheduled", "Capturing", "Paused",
           "Rendering", "Completed", "Failed", "Cancelled"}

Active == {"Capturing", "Scheduled"}
Finished == {"Completed", "Cancelled", "Failed"}

\* Where a client is: creating a session, waiting for `_persistLock`, holding it
\* while the temporary file is written, getting an exception, or at one of
\* DeleteSessionAsync's steps.
Call == {"none", "creating", "queued", "writing", "thrown",
         "removeDirectory", "removeMetadata", "confirm", "unlist"}

StoreTypeOK ==
    /\ status \in Status
    /\ listed \in BOOLEAN
    /\ directory \in BOOLEAN
    /\ metadata \in Status \cup {"none"}
    /\ call \in [Clients -> Call]
    /\ copy \in [Clients -> Status \cup {"none"}]
    /\ leaked \in BOOLEAN

-----------------------------------------------------------------------------
\* Mutant: a rendering that was interrupted is not normalized.
ReloadCapturingOnly(s) == IF s = "Capturing" THEN "Paused" ELSE s

\* Mutant: a capture that was interrupted is not normalized.
ReloadRenderingOnly(s) == IF s = "Rendering" THEN "Paused" ELSE s

\* NormalizeLoadedSession: work that was under way when the process died comes
\* back as Paused; every other status as it was written.
Reload(s) == IF s \in {"Capturing", "Rendering"} THEN "Paused" ELSE s

\* Either the process loaded the session from disk, or a client is creating it.
StoreInit ==
    /\ copy = [c \in Clients |-> "none"]
    /\ leaked = FALSE
    /\ \/ /\ \E s \in Status: metadata = s /\ status = Reload(s)
          /\ listed = TRUE
          /\ directory = TRUE
          /\ call = [c \in Clients |-> "none"]
       \/ /\ status = "Ready"
          /\ metadata = "none"
          /\ listed = FALSE
          /\ directory = FALSE
          /\ \E creator \in Clients:
                call = [c \in Clients |-> IF c = creator THEN "creating" ELSE "none"]

Goes(c, next) == call' = [call EXCEPT ![c] = next]

\* CreateSessionAsync up to its await: the directory, the entry in memory, and
\* the call of PersistSessionAsync.
CreateSession(c) ==
    /\ call[c] = "creating"
    /\ directory' = TRUE
    /\ listed' = TRUE
    /\ Goes(c, "queued")
    /\ UNCHANGED <<status, metadata, copy, leaked>>

\* A caller sets Status on the object (or leaves it alone) and calls
\* UpdateSessionAsync, which puts the object back into `_sessions` whether or
\* not it was still there and then waits for the lock.
UpdateSession(c, s) ==
    /\ call[c] = "none"
    /\ status' = s
    /\ listed' = TRUE
    /\ Goes(c, "queued")
    /\ UNCHANGED <<directory, metadata, copy, leaked>>

\* Mutant: without `_persistLock`.
SerializeUnlocked(c) ==
    /\ call[c] = "queued"
    /\ copy' = [copy EXCEPT ![c] = status]
    /\ Goes(c, "writing")
    /\ UNCHANGED <<status, listed, directory, metadata, leaked>>

\* PersistSessionAsync gets `_persistLock` and only then serializes the object,
\* into a temporary file.
Serialize(c) ==
    /\ call[c] = "queued"
    /\ ~leaked
    /\ \A d \in Clients: call[d] # "writing"
    /\ copy' = [copy EXCEPT ![c] = status]
    /\ Goes(c, "writing")
    /\ UNCHANGED <<status, listed, directory, metadata, leaked>>

\* The temporary file replaces the metadata file, or an exception is logged and
\* dropped; then what there is of the temporary file is removed and the lock
\* released.  If that removal fails too, the lock stays taken for good, and its
\* exception goes to the caller.
Replace(c) ==
    /\ call[c] = "writing"
    /\ \/ metadata' = copy[c] /\ Goes(c, "none") /\ UNCHANGED leaked
       \/ "persist" \in Faults /\ Goes(c, "none") /\ UNCHANGED <<metadata, leaked>>
       \/ "temp" \in Faults /\ Goes(c, "thrown") /\ leaked' = TRUE /\ UNCHANGED metadata
    /\ copy' = [copy EXCEPT ![c] = "none"]
    /\ UNCHANGED <<status, listed, directory>>

\* The caller gets the exception; what it does then is its own affair.
Throw(c) ==
    /\ call[c] = "thrown"
    /\ Goes(c, "none")
    /\ UNCHANGED <<status, listed, directory, metadata, copy, leaked>>

\* SaveFrameAsync, FFmpeg's output folder, GetSessionStoragePathAsync.
MakeDirectory ==
    /\ directory' = TRUE
    /\ UNCHANGED <<status, listed, metadata, call, copy, leaked>>

-----------------------------------------------------------------------------
(* DeleteSessionAsync.  It takes no lock, and each file operation can fail.  *)

DeleteSession(c) ==
    /\ call[c] = "none"
    /\ listed
    /\ Goes(c, "removeDirectory")
    /\ UNCHANGED <<status, listed, directory, metadata, copy, leaked>>

\* Mutant: the metadata is deleted although the directory could not be.
RemoveDirectoryOrGoOn(c) ==
    /\ call[c] = "removeDirectory"
    /\ directory' = FALSE \/ ("delete" \in Faults /\ UNCHANGED directory)
    /\ Goes(c, "removeMetadata")
    /\ UNCHANGED <<status, listed, metadata, copy, leaked>>

\* A path that is not there counts as removed; a path that cannot be removed
\* ends the call with a failure.
RemoveDirectory(c) ==
    /\ call[c] = "removeDirectory"
    /\ \/ directory' = FALSE /\ Goes(c, "removeMetadata")
       \/ "delete" \in Faults /\ directory /\ UNCHANGED directory /\ Goes(c, "none")
    /\ UNCHANGED <<status, listed, metadata, copy, leaked>>

RemoveMetadata(c) ==
    /\ call[c] = "removeMetadata"
    /\ \/ metadata' = "none" /\ Goes(c, "confirm")
       \/ /\ "delete" \in Faults
          /\ metadata # "none"
          /\ UNCHANGED metadata
          /\ Goes(c, "none")
    /\ UNCHANGED <<status, listed, directory, copy, leaked>>

\* The postcondition: both must be gone, or the deletion reports a failure.
Confirm(c) ==
    /\ call[c] = "confirm"
    /\ Goes(c, IF directory \/ metadata # "none" THEN "none" ELSE "unlist")
    /\ UNCHANGED <<status, listed, directory, metadata, copy, leaked>>

Unlist(c) ==
    /\ call[c] = "unlist"
    /\ listed' = FALSE
    /\ Goes(c, "none")
    /\ UNCHANGED <<status, directory, metadata, copy, leaked>>

-----------------------------------------------------------------------------
\* The process dies and starts again: calls are forgotten, a temporary file is
\* never loaded, and LoadSessionsFromDisk lists what has a metadata file.
Restart ==
    /\ listed' = (metadata # "none")
    /\ status' = IF metadata = "none" THEN status ELSE Reload(metadata)
    /\ call' = [c \in Clients |-> "none"]
    /\ copy' = [c \in Clients |-> "none"]
    /\ leaked' = FALSE
    /\ UNCHANGED <<directory, metadata>>

Persisting(c) == Serialize(c) \/ Replace(c)

Deleting(c) == RemoveDirectory(c) \/ RemoveMetadata(c) \/ Confirm(c) \/ Unlist(c)

\* What any set of callers can do with the session, in any order.
StoreNext ==
    \/ \E c \in Clients:
          \/ CreateSession(c)
          \/ \E s \in Status: UpdateSession(c, s)
          \/ Persisting(c) \/ Throw(c)
          \/ DeleteSession(c)
          \/ Deleting(c)
    \/ MakeDirectory
    \/ Restart

StoreSpec == StoreInit /\ [][StoreNext]_storeVars

\* The same service when its callers do nothing but delete a session that was
\* loaded from disk: overlapping retention runs.
DeletionInit ==
    /\ StoreInit
    /\ listed

DeletionNext ==
    \/ \E c \in Clients: DeleteSession(c) \/ Deleting(c)
    \/ Restart

DeletionSpec == DeletionInit /\ [][DeletionNext]_storeVars

-----------------------------------------------------------------------------
NobodyPersists == \A c \in Clients: call[c] \notin {"queued", "writing"}

\* Whenever no call of UpdateSessionAsync is still under way, a crash would
\* bring back the status the user sees (or Paused, for work that was under
\* way), whatever order overlapping updates changed the object and wrote the
\* file in.  Without "persist" and "temp" faults, which lose a save.
DiskCatchesUp ==
    NobodyPersists /\ metadata # "none" => Reload(metadata) = Reload(status)

\* A session that is no longer listed has left nothing on disk, at every
\* moment of overlapping deletions, failures of any of their steps, and a
\* restart between two of them: directory first, then metadata, then the list.
NothingLeftBehind == ~listed => ~directory /\ metadata = "none"

=============================================================================
