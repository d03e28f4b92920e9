--------------------------- MODULE FrameNumbering ---------------------------
(***************************************************************************)
(* The frames a session's capture loops store: their numbers, the count    *)
(* that is kept in memory and in the metadata file, and the space they     *)
(* take.                                                                   *)
(*                                                                         *)
(* A loop takes the number after the count, writes the file, and only then *)
(* moves the count on.  Between these steps a loop that was started after  *)
(* it may do the same, the process may die, and the session may be saved   *)
(* with the count of some other moment.                                    *)
(*                                                                         *)
(* The limit is one for everything below the data directory; what other    *)
(* sessions, videos and logs take is an input of each check.  It is        *)
(* compared with an estimate of the frame, and the snapshot that is then   *)
(* written may have any size that the camera client lets through.          *)
(***************************************************************************)
EXTENDS CaptureService, Naturals

CONSTANTS
    MaxStorageBytes,
    EstimatedFrameBytes,
    MaxSnapshotBytes,   \* the largest snapshot that CameraService accepts
    MostBytes   \* a size that was not measured lets no more frames in (bound)

ASSUME StorageAssumption ==
    /\ MaxStorageBytes \in Nat
    /\ EstimatedFrameBytes \in Nat \ {0}
    /\ MaxSnapshotBytes \in Nat \ {0}
    /\ MostBytes \in Nat
    /\ IsFiniteSet(Loops) /\ Loops # {}

VARIABLES
    count,      \* CapturedFrameCount of the shared object
    savedCount, \* CapturedFrameCount in <id>.json
    copyCount,  \* CapturedFrameCount in each client's serialized copy
    number,     \* the number of the frame that each loop is writing
    stored,     \* the numbers of which a file was written to its end
    bytes,      \* what the session's frames take, partial files included
    unmeasured  \* a frame was let in because the size could not be measured

countVars == <<count, savedCount, copyCount>>
frameVars == <<countVars, number, stored, bytes, unmeasured>>
allVars == <<vars, frameVars>>

FrameTypeOK ==
    /\ count \in Nat
    /\ savedCount \in Nat
    /\ copyCount \in [Clients -> Nat]
    /\ number \in [Loops -> Nat]
    /\ stored \subseteq Nat
    /\ bytes \in Nat
    /\ unmeasured \in BOOLEAN

\* The most that n snapshots take.
Snapshots(n) == n * MaxSnapshotBytes

\* The session as it was created, or with frames that keep to the limit.
FrameInit ==
    /\ Init
    /\ \E n \in IF listed THEN 0..MaxStorageBytes ELSE {0}:
          /\ count = n /\ savedCount = n /\ stored = 1..n
          /\ bytes \in n..Snapshots(n)
    /\ bytes <= MaxStorageBytes
    /\ copyCount = [c \in Clients |-> 0]
    /\ number = [l \in Loops |-> 0]
    /\ unmeasured = FALSE

-----------------------------------------------------------------------------
\* Mutant: the frame that is about to be stored is not counted in.
HasRoomAtTheLimit(others) == bytes + others <= MaxStorageBytes

\* Beside what everything else takes there is room for a frame of the estimated size.
HasRoom(others) == bytes + others + EstimatedFrameBytes <= MaxStorageBytes

\* CanStoreFrameAsync lets a frame in.  While somebody saves a session, its
\* temporary file may vanish under GetDirectorySize, which then answers 0.
\* (It may refuse by the drive's reserve as well: LoopRefused is always possible.)
CanStoreFrame ==
    /\ UNCHANGED <<countVars, number, stored, bytes>>
    /\ \/ (\E others \in 0..MaxStorageBytes: HasRoom(others)) /\ UNCHANGED unmeasured
       \/ /\ \E c \in Clients: call[c] = "writing"
          /\ bytes < MostBytes
          /\ unmeasured' = TRUE

\* Mutant: the number is counted before its file is written.
TakeNumberAtOnce(l) ==
    /\ number' = [number EXCEPT ![l] = count + 1]
    /\ count' = count + 1
    /\ UNCHANGED <<savedCount, copyCount, stored, bytes, unmeasured>>

\* SaveFrameAsync up to the write of the file ...
TakeNumber(l) ==
    /\ number' = [number EXCEPT ![l] = count + 1]
    /\ UNCHANGED <<countVars, stored, bytes, unmeasured>>

\* ... and after it, whatever size the snapshot has.  Two files of one number have
\* different times in their names.
CountFrame(l) ==
    /\ count' = number[l]
    /\ stored' = stored \cup {number[l]}
    /\ bytes' \in (bytes + 1)..(bytes + MaxSnapshotBytes)
    /\ number' = [number EXCEPT ![l] = 0]
    /\ UNCHANGED <<savedCount, copyCount, unmeasured>>

\* The write failed or was cancelled, perhaps in the middle.
LeavePart(l) ==
    /\ bytes' \in bytes..(bytes + MaxSnapshotBytes)
    /\ number' = [number EXCEPT ![l] = 0]
    /\ UNCHANGED <<countVars, stored, unmeasured>>

NumberedStep(l) ==
    \/ LoopBeginsCapture(l) /\ CanStoreFrame
    \/ LoopSnapshot(l) /\ TakeNumber(l)
    \/ LoopStoresFrame(l) /\ CountFrame(l)
    \/ LoopFrameLost(l) /\ LeavePart(l)

-----------------------------------------------------------------------------
\* What Replace leaves in the file: the copy's count, or the old one after an
\* exception.
SavedCounts(c) ==
    (IF metadata' = copy[c] THEN {copyCount[c]} ELSE {})
    \cup (IF {"persist", "temp"} \cap Faults # {} /\ metadata' = metadata
          THEN {savedCount} ELSE {})

\* The count is saved with the status it stands beside in the object.
SavedStep(c) ==
    /\ StoreStep(c)
    /\ \/ /\ call[c] = "queued"
          /\ copyCount' = [copyCount EXCEPT ![c] = count]
          /\ UNCHANGED savedCount
       \/ /\ call[c] = "writing"
          /\ savedCount' \in SavedCounts(c)
          /\ copyCount' = [copyCount EXCEPT ![c] = 0]
       \/ call[c] \notin {"queued", "writing"} /\ UNCHANGED <<savedCount, copyCount>>
    /\ bytes' = IF directory' THEN bytes ELSE 0
    /\ UNCHANGED <<count, number, stored, unmeasured>>

\* Files that were being written stay as they are, whole or not, or are not there.
CrashWhileStoring ==
    /\ Crash
    /\ count' = savedCount
    /\ copyCount' = [c \in Clients |-> 0]
    /\ number' = [l \in Loops |-> 0]
    /\ LET storing == {l \in Loops: loop[l] = "store"}
       IN  \E whole \in SUBSET storing:
              /\ stored' = stored \cup {number[l]: l \in whole}
              /\ bytes' \in (bytes + Cardinality(whole))..(bytes + Snapshots(Cardinality(storing)))
    /\ UNCHANGED <<savedCount, unmeasured>>

FramesNext ==
    \/ \E l \in Loops: NumberedStep(l)
    \/ \E c \in Clients: SavedStep(c)
    \/ CrashWhileStoring
    \/ /\ \/ \E l \in Loops: ControlStep(l)
          \/ \E r \in Requests: RequestStep(r) \/ Abandon(r) \/ \E o \in Operations: Receive(r, o)
          \/ PollerScans
          \/ PollerEnsures
       /\ UNCHANGED frameVars

FrameSpec == FrameInit /\ [][FramesNext]_allVars

-----------------------------------------------------------------------------
\* No number is skipped: whatever loops overlap and wherever the process dies, every
\* number up to the count, in memory as on disk, belongs to a frame that was
\* written to its end.  (Deleting a session deletes its frames; this is about
\* what was written.)
NoMissingFrame == \A n \in 1..count \cup 1..savedCount: n \in stored

\* The limit is checked before a frame is fetched and not again when it is written,
\* and the check is of an estimate: the session's frames pass the limit by less than
\* the largest snapshot for each loop, those told to stop included, as long as the
\* size could be measured.
StaysNearLimit ==
    ~unmeasured => bytes < MaxStorageBytes + Snapshots(Cardinality(Loops))

=============================================================================
