------------------------ MODULE FrameNumberingProofs ------------------------
(***************************************************************************)
(* What holds of the numbers of frames for any number of overlapping       *)
(* loops, any requests, with or without failing saves and crashes.         *)
(***************************************************************************)
EXTENDS FrameNumbering, CaptureServiceProofs, FiniteSetTheorems

-----------------------------------------------------------------------------
(* Types.                                                                    *)

\* What a crash leaves behind is counted.
LEMMA LeftoversAreCounted ==
    \A some \in SUBSET Loops: Cardinality(some) \in Nat
  BY FS_Subset, FS_CardinalityType, StorageAssumption

\* More snapshots take more, and each one at most the largest size.
LEMMA SnapshotsGrow ==
    ASSUME NEW n \in Nat
    PROVE  /\ Snapshots(n) \in Nat
           /\ \A m \in Nat: m <= n => Snapshots(m) <= Snapshots(n)
           /\ n # 0 => Snapshots(n - 1) + MaxSnapshotBytes = Snapshots(n)
<1> USE DEF Snapshots
<1>1. MaxSnapshotBytes \in Nat
  BY StorageAssumption
<1>2. Snapshots(n) \in Nat
  BY <1>1
<1>3. ASSUME NEW m \in Nat, m <= n
      PROVE  Snapshots(m) <= Snapshots(n)
  <2>1. PICK d \in Nat: n = m + d
    <3>1. n - m \in Nat /\ n = m + (n - m)
      BY <1>3
    <3>2. QED
      BY <3>1
  <2>2. n * MaxSnapshotBytes = m * MaxSnapshotBytes + d * MaxSnapshotBytes
    BY <1>1, <2>1
  <2>3. /\ d * MaxSnapshotBytes \in Nat
        /\ m * MaxSnapshotBytes \in Nat
    BY <1>1
  <2>4. QED
    BY <2>2, <2>3
<1>4. ASSUME n # 0
      PROVE  Snapshots(n - 1) + MaxSnapshotBytes = Snapshots(n)
  <2>1. PICK k \in Nat: k = n - 1
    BY <1>4
  <2>2. n = k + 1
    BY <2>1
  <2>3. (k + 1) * MaxSnapshotBytes = k * MaxSnapshotBytes + MaxSnapshotBytes
    BY <1>1
  <2>4. QED
    BY <2>1, <2>2, <2>3
<1>5. QED
  BY <1>2, <1>3, <1>4

LEMMA FrameTypeInit == FrameInit => FrameTypeOK
<1> SUFFICES ASSUME FrameInit
             PROVE  FrameTypeOK
  OBVIOUS
<1>1. PICK n \in 0..MaxStorageBytes \cup {0}:
        count = n /\ savedCount = n /\ stored = 1..n /\ bytes \in n..Snapshots(n)
  BY DEF FrameInit
<1>2. n \in Nat /\ bytes \in Nat
  <2>1. n \in Nat
    BY <1>1, StorageAssumption
  <2>2. Snapshots(n) \in Nat
    BY <2>1, SnapshotsGrow
  <2>3. QED
    BY <1>1, <2>1, <2>2
<1>3. /\ copyCount = [c \in Clients |-> 0] /\ number = [l \in Loops |-> 0]
      /\ unmeasured \in BOOLEAN
  BY DEF FrameInit
<1>4. QED
  BY <1>1, <1>2, <1>3 DEF FrameTypeOK

LEMMA FrameTypeStep == FrameTypeOK /\ [FramesNext]_allVars => FrameTypeOK'
<1> SUFFICES ASSUME FrameTypeOK, [FramesNext]_allVars
             PROVE  FrameTypeOK'
  OBVIOUS
<1> USE DEF FrameTypeOK
<1>1. ASSUME NEW l \in Loops, NumberedStep(l)
      PROVE  FrameTypeOK'
  <2>1. CASE CanStoreFrame
    <3>1. unmeasured' \in BOOLEAN
      BY <2>1 DEF CanStoreFrame
    <3>2. QED
      BY <2>1, <3>1 DEF CanStoreFrame, countVars
  <2>2. CASE TakeNumber(l)
    BY <2>2 DEF TakeNumber, countVars
  <2>3. CASE CountFrame(l)
    <3>1. /\ count' = number[l] /\ stored' = stored \cup {number[l]}
          /\ bytes' \in (bytes + 1)..(bytes + MaxSnapshotBytes)
          /\ number' = [number EXCEPT ![l] = 0]
          /\ UNCHANGED <<savedCount, copyCount>>
      BY <2>3 DEF CountFrame
    <3>2. unmeasured' \in BOOLEAN
      BY <2>3 DEF CountFrame
    <3>3. number[l] \in Nat
      OBVIOUS
    <3>4. number' \in [Loops -> Nat]
      BY <3>1
    <3>5. stored' \subseteq Nat
      BY <3>1, <3>3
    <3>6. bytes' \in Nat
      BY <3>1, StorageAssumption
    <3>7. QED
      BY <3>1, <3>2, <3>3, <3>4, <3>5, <3>6
  <2>4. CASE LeavePart(l)
    BY <2>4, StorageAssumption DEF LeavePart, countVars
  <2>5. QED
    BY <1>1, <2>1, <2>2, <2>3, <2>4 DEF NumberedStep
<1>2. ASSUME NEW c \in Clients, SavedStep(c)
      PROVE  FrameTypeOK'
  <2>1. savedCount' \in Nat
    BY <1>2 DEF SavedStep, SavedCounts
  <2>2. copyCount' \in [Clients -> Nat]
    BY <1>2 DEF SavedStep
  <2>3. bytes' \in Nat /\ UNCHANGED <<count, number, stored, unmeasured>>
    BY <1>2 DEF SavedStep
  <2>4. QED
    BY <2>1, <2>2, <2>3
<1>3. CASE CrashWhileStoring
  <2>1. PICK whole \in SUBSET Loops, storing \in SUBSET Loops:
          /\ stored' = stored \cup {number[l]: l \in whole}
          /\ bytes' \in (bytes + Cardinality(whole))..(bytes + Snapshots(Cardinality(storing)))
    BY <1>3 DEF CrashWhileStoring
  <2>2. bytes' \in Nat
    <3>1. Cardinality(whole) \in Nat /\ Snapshots(Cardinality(storing)) \in Nat
      BY LeftoversAreCounted, SnapshotsGrow
    <3>2. QED
      BY <2>1, <3>1
  <2>3. stored' \subseteq Nat
    BY <2>1
  <2>4. /\ count' = savedCount /\ UNCHANGED <<savedCount, unmeasured>>
        /\ copyCount' = [c \in Clients |-> 0] /\ number' = [l \in Loops |-> 0]
    BY <1>3 DEF CrashWhileStoring
  <2>5. QED
    BY <2>2, <2>3, <2>4
<1>4. CASE UNCHANGED frameVars
  BY <1>4 DEF frameVars, countVars
<1>5. QED
  BY <1>1, <1>2, <1>3, <1>4 DEF FramesNext, allVars

\* The frames' variables keep their types.
THEOREM FrameTypeCorrect == FrameSpec => []FrameTypeOK
<1>1. QED
  BY FrameTypeInit, FrameTypeStep, PTL DEF FrameSpec

-----------------------------------------------------------------------------
(* No number is skipped.  Neither the count in the file nor a loop's number   *)
(* can be told from the count in memory alone: a copy may be older, and a     *)
(* loop that was overtaken sets the count back to a number it took long ago.  *)
(* So all places that hold a count are asked for the same at once.            *)

AllStoredTo(n) == \A k \in 1..n: k \in stored

Gapless ==
    /\ FrameTypeOK
    /\ AllStoredTo(count)
    /\ AllStoredTo(savedCount)
    /\ \A c \in Clients: AllStoredTo(copyCount[c])
    /\ \A l \in Loops: AllStoredTo(number[l] - 1)

LEMMA GaplessInit == FrameInit => Gapless
<1> SUFFICES ASSUME FrameInit
             PROVE  Gapless
  OBVIOUS
<1>1. FrameTypeOK
  BY FrameTypeInit
<1>2. QED
  BY <1>1 DEF FrameInit, FrameTypeOK, Gapless, AllStoredTo

\* What was stored stays stored.
LEMMA StoredGrows ==
    ASSUME FrameTypeOK, NEW n \in Int, AllStoredTo(n), stored \subseteq stored'
    PROVE  AllStoredTo(n)'
  BY DEF AllStoredTo

LEMMA GaplessStep == Gapless /\ [FramesNext]_allVars => Gapless'
<1> SUFFICES ASSUME Gapless, [FramesNext]_allVars
             PROVE  Gapless'
  OBVIOUS
<1>1. FrameTypeOK /\ FrameTypeOK'
  BY FrameTypeStep DEF Gapless
<1>2. ASSUME NEW l \in Loops, NumberedStep(l)
      PROVE  Gapless'
  <2>1. CASE CanStoreFrame
    BY <1>1, <2>1 DEF CanStoreFrame, countVars, Gapless, AllStoredTo
  <2>2. CASE TakeNumber(l)
    \* The number is the one after the count.
    <3>1. \A k \in Loops: AllStoredTo(number[k] - 1)'
      BY <1>1, <2>2 DEF TakeNumber, countVars, Gapless, AllStoredTo, FrameTypeOK
    <3>2. QED
      BY <1>1, <2>2, <3>1 DEF TakeNumber, countVars, Gapless, AllStoredTo
  <2>3. CASE CountFrame(l)
    \* The count goes to this loop's number, forward or back.
    <3>1. AllStoredTo(count)'
      BY <1>1, <2>3 DEF CountFrame, Gapless, AllStoredTo, FrameTypeOK
    <3>2. \A k \in Loops: AllStoredTo(number[k] - 1)'
      BY <1>1, <2>3 DEF CountFrame, Gapless, AllStoredTo, FrameTypeOK
    <3>3. AllStoredTo(savedCount)' /\ \A c \in Clients: AllStoredTo(copyCount[c])'
      BY <1>1, <2>3 DEF CountFrame, Gapless, AllStoredTo, FrameTypeOK
    <3>4. QED
      BY <1>1, <3>1, <3>2, <3>3 DEF Gapless
  <2>4. CASE LeavePart(l)
    <3>1. \A k \in Loops: AllStoredTo(number[k] - 1)'
      BY <1>1, <2>4 DEF LeavePart, countVars, Gapless, AllStoredTo, FrameTypeOK
    <3>2. QED
      BY <1>1, <2>4, <3>1 DEF LeavePart, countVars, Gapless, AllStoredTo
  <2>5. QED
    BY <1>2, <2>1, <2>2, <2>3, <2>4 DEF NumberedStep
<1>3. ASSUME NEW c \in Clients, SavedStep(c)
      PROVE  Gapless'
  <2>1. UNCHANGED <<count, number, stored>>
    BY <1>3 DEF SavedStep
  <2>2. savedCount' \in {savedCount, copyCount[c]}
    BY <1>3 DEF SavedStep, SavedCounts
  <2>3. \A d \in Clients: copyCount'[d] \in {copyCount[d], count, 0}
    BY <1>1, <1>3 DEF SavedStep, FrameTypeOK
  <2>4. QED
    BY <1>1, <2>1, <2>2, <2>3 DEF Gapless, AllStoredTo, FrameTypeOK
<1>4. CASE CrashWhileStoring
  <2>1. /\ stored \subseteq stored'
        /\ count' = savedCount /\ savedCount' = savedCount
        /\ copyCount' = [c \in Clients |-> 0] /\ number' = [l \in Loops |-> 0]
    BY <1>4 DEF CrashWhileStoring
  <2>2. QED
    BY <1>1, <2>1 DEF Gapless, AllStoredTo, FrameTypeOK
<1>5. CASE UNCHANGED frameVars
  BY <1>1, <1>5 DEF frameVars, countVars, Gapless, AllStoredTo
<1>6. QED
  BY <1>2, <1>3, <1>4, <1>5 DEF FramesNext, allVars

\* Whatever loops overlap, whichever saves fail, and wherever the process dies,
\* every number up to the count, in memory and on disk, was written whole.
THEOREM NoFrameIsMissing == FrameSpec => []NoMissingFrame
<1>1. Gapless => NoMissingFrame
  BY DEF Gapless, NoMissingFrame, AllStoredTo, FrameTypeOK
<1>2. QED
  BY <1>1, GaplessInit, GaplessStep, PTL DEF FrameSpec
-----------------------------------------------------------------------------
(* Frames are counted beside the service, and change nothing it does.        *)

LEMMA FramesUseService == [FramesNext]_allVars => [Next]_vars
<1> SUFFICES ASSUME [FramesNext]_allVars
             PROVE  [Next]_vars
  OBVIOUS
<1>1. ASSUME NEW l \in Loops, NumberedStep(l) \/ ControlStep(l)
      PROVE  Next
  BY <1>1 DEF NumberedStep, LoopStep, FrameStep, Next
<1>2. ASSUME NEW c \in Clients, SavedStep(c)
      PROVE  Next
  BY <1>2 DEF SavedStep, Next
<1>3. CASE CrashWhileStoring
  BY <1>3 DEF CrashWhileStoring, Next
<1>4. CASE UNCHANGED allVars
  BY <1>4 DEF allVars
<1>5. QED
  BY <1>1, <1>2, <1>3, <1>4 DEF FramesNext, Next

\* The frames' specification implements the service's: what is proved of loops,
\* requests and the store holds where frames are counted.
THEOREM FramesImplementService == FrameSpec => Spec
<1>1. FrameInit => Init
  BY DEF FrameInit
<1>2. QED
  BY <1>1, FramesUseService, PTL DEF FrameSpec, Spec

-----------------------------------------------------------------------------
(* The limit.  A loop that was let in has not passed it yet: the largest      *)
(* snapshot is added for it to what is there.  When it was let in there was   *)
(* room for some of a frame, and there are at most all loops on their way.    *)

Underway == {l \in Loops: loop[l] \in {"camera", "store"}}

WithinReach ==
    ~unmeasured => bytes + Snapshots(Cardinality(Underway))
                      < MaxStorageBytes + Snapshots(Cardinality(Loops))

\* Loops can be counted.
LEMMA SomeLoops ==
    ASSUME NEW some, some \subseteq Loops
    PROVE  /\ IsFiniteSet(some) /\ Cardinality(some) \in Nat
           /\ Cardinality(Loops) \in Nat /\ Cardinality(some) <= Cardinality(Loops)
           /\ \A fewer \in SUBSET some: Cardinality(fewer) <= Cardinality(some)
           /\ \A l \in some: Cardinality(some \ {l}) = Cardinality(some) - 1
<1>1. IsFiniteSet(Loops) /\ some \in SUBSET Loops
  BY StorageAssumption
<1>2. IsFiniteSet(some) /\ Cardinality(some) <= Cardinality(Loops)
  BY <1>1, FS_Subset
<1>3. Cardinality(some) \in Nat /\ Cardinality(Loops) \in Nat
  BY <1>1, <1>2, FS_CardinalityType
<1>4. \A fewer \in SUBSET some: Cardinality(fewer) <= Cardinality(some)
  BY <1>2, FS_Subset
<1>5. \A l \in some: Cardinality(some \ {l}) = Cardinality(some) - 1
  BY <1>2, FS_RemoveElement
<1>6. QED
  BY <1>2, <1>3, <1>4, <1>5

LEMMA WithinReachInit == FrameInit => WithinReach
<1> SUFFICES ASSUME FrameInit
             PROVE  WithinReach
  OBVIOUS
<1>1. bytes \in Nat /\ bytes <= MaxStorageBytes
  <2>1. bytes \in Nat
    BY FrameTypeInit DEF FrameTypeOK
  <2>2. bytes <= MaxStorageBytes
    BY DEF FrameInit
  <2>3. QED
    BY <2>1, <2>2
<1>2. Underway = {}
  BY DEF FrameInit, Init, Underway
<1>3. Cardinality(Loops) \in Nat /\ Cardinality(Loops) # 0 /\ Cardinality({}) = 0
  BY FS_EmptySet, FS_CardinalityType, StorageAssumption
<1>4. /\ Snapshots(Cardinality(Loops)) \in Nat /\ Snapshots(Cardinality(Loops) - 1) \in Nat
      /\ Snapshots(Cardinality(Loops) - 1) + MaxSnapshotBytes = Snapshots(Cardinality(Loops))
  BY <1>3, SnapshotsGrow
<1>5. Snapshots(0) = 0
  BY StorageAssumption DEF Snapshots
<1>6. QED
  BY <1>1, <1>2, <1>3, <1>4, <1>5, StorageAssumption DEF WithinReach

\* No step but those of a frame takes a loop to the camera.
LEMMA ControlMoves ==
    ASSUME NEW l \in Loops, ControlStep(l)
    PROVE  \E step: /\ step \notin {"camera", "store"}
                    /\ loop' = [loop EXCEPT ![l] = step]
<1> USE DEF LoopGoes, LoopSteps
<1>1. CASE LoopTop(l) \/ LoopOutsideWindow(l) \/ LoopInsideWindow(l) \/ LoopResume(l)
  BY <1>1 DEF LoopTop, LoopOutsideWindow, LoopInsideWindow, LoopResume
<1>2. CASE LoopNotDue(l) \/ LoopDurationMet(l) \/ LoopRefused(l) \/ LoopSnapshotFails(l)
  BY <1>2 DEF LoopNotDue, LoopDurationMet, LoopRefused, LoopSnapshotFails
<1>3. CASE LoopCountsFailure(l) \/ LoopTolerates(l) \/ LoopGivesUp(l) \/ LoopBreaks(l)
           \/ LoopAdvances(l)
  BY <1>3 DEF LoopCountsFailure, LoopTolerates, LoopGivesUp, LoopBreaks, LoopAdvances
<1>4. CASE LoopEncodes(l) \/ LoopFfmpegEnds(l) \/ LoopPublishes(l)
  BY <1>4 DEF LoopEncodes, LoopFfmpegEnds, LoopPublishes
<1>5. CASE LoopLogs(l) \/ LoopCatches(l) \/ LoopDies(l) \/ LoopFinally(l)
  BY <1>5 DEF LoopLogs, LoopCatches, LoopDies, LoopFinally, AfterLog
<1>6. CASE LoopThrows(l)
  <2>1. LoopGoes(l, "finally") \/ LoopGoes(l, "caught")
    BY <1>6 DEF LoopThrows
  <2>2. QED
    BY <2>1
<1>7. QED
  BY <1>1, <1>2, <1>3, <1>4, <1>5, <1>6 DEF ControlStep

\* A request starts a loop at most, and a new loop has not been let in.
LEMMA RequestMoves ==
    ASSUME NEW r \in Requests, RequestStep(r)
    PROVE  UNCHANGED loop \/ \E l \in Loops: loop' = [loop EXCEPT ![l] = "top"]
<1> USE DEF loopVars
<1>1. CASE Log(r)
  BY <1>1 DEF Log, EnsureLoop
<1>2. CASE ~Log(r)
  BY <1>2 DEF RequestStep, Lookup, Unregister, Signal, SignalThrows, EnterGate, Check, Act,
              LogThrows, Find, Encode, EncodeThrows, RenderEnds, RenderAnswers, PreviewEnds,
              Select, Remove, Answer, RequestThrows
<1>3. QED
  BY <1>1, <1>2

\* What is done without frames lets no loop in.
LEMMA NobodyIsLetIn ==
    ASSUME Typed,
           \/ \E l \in Loops: ControlStep(l)
           \/ \E r \in Requests: RequestStep(r) \/ Abandon(r) \/ \E o \in Operations: Receive(r, o)
           \/ PollerScans
           \/ PollerEnsures
    PROVE  Underway' \subseteq Underway
<1>1. \/ UNCHANGED loop
      \/ \E l \in Loops: \E step: step \notin {"camera", "store"} /\ loop' = [loop EXCEPT ![l] = step]
  <2>1. ASSUME NEW l \in Loops, ControlStep(l)
        PROVE  \E step: step \notin {"camera", "store"} /\ loop' = [loop EXCEPT ![l] = step]
    BY <2>1, ControlMoves
  <2>2. ASSUME NEW r \in Requests, RequestStep(r)
        PROVE  UNCHANGED loop \/ \E l \in Loops: loop' = [loop EXCEPT ![l] = "top"]
    BY <2>2, RequestMoves
  <2>3. ASSUME NEW r \in Requests, Abandon(r) \/ \E o \in Operations: Receive(r, o)
        PROVE  UNCHANGED loop
    BY <2>3 DEF Abandon, Receive, loopVars
  <2>4. PollerScans => UNCHANGED loop
    BY DEF PollerScans, loopVars
  <2>5. PollerEnsures => UNCHANGED loop \/ \E l \in Loops: loop' = [loop EXCEPT ![l] = "top"]
    BY DEF PollerEnsures, EnsureLoop, loopVars
  <2>6. QED
    BY <2>1, <2>2, <2>3, <2>4, <2>5
<1>2. loop \in [Loops -> LoopSteps]
  BY DEF Typed, TypeOK
<1>3. QED
  BY <1>1, <1>2 DEF Underway

LEMMA WithinReachStep ==
    Typed /\ FrameTypeOK /\ WithinReach /\ [FramesNext]_allVars => WithinReach'
<1> DEFINE Within == bytes' + Snapshots(Cardinality(Underway'))
                        < MaxStorageBytes + Snapshots(Cardinality(Loops))
<1> SUFFICES ASSUME Typed, FrameTypeOK, WithinReach, [FramesNext]_allVars, ~unmeasured'
             PROVE  Within
  BY DEF WithinReach
<1>1. /\ bytes \in Nat /\ bytes' \in Nat
      /\ MaxStorageBytes \in Nat /\ MaxSnapshotBytes \in Nat \ {0} /\ EstimatedFrameBytes \in Nat \ {0}
      /\ loop \in [Loops -> LoopSteps]
  BY FrameTypeStep, StorageAssumption DEF FrameTypeOK, Typed, TypeOK
<1>2. Underway \subseteq Loops /\ Underway' \subseteq Loops
  BY DEF Underway
<1>3. /\ Cardinality(Loops) \in Nat
      /\ Cardinality(Underway) \in Nat /\ Cardinality(Underway') \in Nat
      /\ Cardinality(Underway') <= Cardinality(Loops)
      /\ \A fewer \in SUBSET Underway: Cardinality(fewer) <= Cardinality(Underway)
      /\ \A l \in Underway: Cardinality(Underway \ {l}) = Cardinality(Underway) - 1
  BY <1>2, SomeLoops
<1>4. /\ Snapshots(Cardinality(Loops)) \in Nat
      /\ Snapshots(Cardinality(Underway)) \in Nat /\ Snapshots(Cardinality(Underway')) \in Nat
      /\ Snapshots(Cardinality(Underway')) <= Snapshots(Cardinality(Loops))
  BY <1>3, SnapshotsGrow
<1>5. ASSUME ~unmeasured, Underway' \subseteq Underway, bytes' <= bytes
      PROVE  Within
  <2>1. Snapshots(Cardinality(Underway')) <= Snapshots(Cardinality(Underway))
    BY <1>3, <1>5, SnapshotsGrow
  <2>2. QED
    BY <1>1, <1>4, <1>5, <2>1 DEF WithinReach
\* A loop that leaves those that are on their way may leave a file.
<1>6. ASSUME NEW l \in Underway, ~unmeasured, Underway' = Underway \ {l},
             bytes' <= bytes + MaxSnapshotBytes
      PROVE  Within
  <2>1. Cardinality(Underway') = Cardinality(Underway) - 1
    BY <1>3, <1>6
  <2>2. Cardinality(Underway) # 0
    BY <1>3, <2>1
  <2>3. Snapshots(Cardinality(Underway')) + MaxSnapshotBytes = Snapshots(Cardinality(Underway))
    BY <1>3, <2>1, <2>2, SnapshotsGrow
  <2>4. QED
    BY <1>1, <1>4, <1>6, <2>3 DEF WithinReach
<1>7. ASSUME NEW l \in Loops, NumberedStep(l)
      PROVE  Within
  <2>1. CASE LoopBeginsCapture(l) /\ CanStoreFrame
    <3>1. PICK others \in 0..MaxStorageBytes: HasRoom(others)
      BY <2>1 DEF CanStoreFrame
    <3>2. bytes' = bytes
      BY <2>1 DEF CanStoreFrame
    <3>3. bytes < MaxStorageBytes
      BY <1>1, <3>1 DEF HasRoom
    <3>4. QED
      BY <1>1, <1>4, <3>2, <3>3
  <2>2. CASE LoopSnapshot(l) /\ TakeNumber(l)
    <3>1. bytes' = bytes /\ ~unmeasured
      BY <2>2 DEF TakeNumber
    <3>2. loop[l] = "camera" /\ loop' = [loop EXCEPT ![l] = "store"]
      BY <2>2 DEF LoopSnapshot, LoopAt, LoopGoes
    <3>3. Underway' \subseteq Underway
      BY <1>1, <3>2 DEF Underway
    <3>4. bytes' <= bytes
      BY <1>1, <3>1
    <3>5. QED
      BY <1>5, <3>1, <3>3, <3>4
  <2>3. CASE (LoopStoresFrame(l) /\ CountFrame(l)) \/ (LoopFrameLost(l) /\ LeavePart(l))
    <3>1. bytes' <= bytes + MaxSnapshotBytes /\ ~unmeasured
      BY <1>1, <2>3 DEF CountFrame, LeavePart
    <3>2. /\ loop[l] = "store"
          /\ \E step: step \notin {"camera", "store"} /\ loop' = [loop EXCEPT ![l] = step]
      BY <2>3 DEF LoopStoresFrame, LoopFrameLost, LoopAt, LoopGoes
    <3>3. l \in Underway /\ Underway' = Underway \ {l}
      BY <1>1, <3>2 DEF Underway
    <3>4. QED
      BY <1>6, <3>1, <3>3
  <2>4. QED
    BY <1>7, <2>1, <2>2, <2>3 DEF NumberedStep
<1>8. ASSUME NEW c \in Clients, SavedStep(c)
      PROVE  Within
  <2>1. bytes' \in {bytes, 0} /\ ~unmeasured
    BY <1>8 DEF SavedStep
  <2>2. Underway' \subseteq Underway
    BY <1>8 DEF SavedStep, StoreStep, loopVars, Underway
  <2>3. bytes' <= bytes
    BY <1>1, <2>1
  <2>4. QED
    BY <1>5, <2>1, <2>2, <2>3
\* What a crash leaves of the frames that were being written is some of those that
\* were on their way.
<1>9. CASE CrashWhileStoring
  <2>1. PICK storing \in SUBSET Underway: bytes' <= bytes + Snapshots(Cardinality(storing))
    <3>1. DEFINE written == {l \in Loops: loop[l] = "store"}
    <3>2. PICK whole \in SUBSET written:
             bytes' \in (bytes + Cardinality(whole))..(bytes + Snapshots(Cardinality(written)))
      BY <1>9 DEF CrashWhileStoring
    <3>3. written \subseteq Underway
      BY DEF Underway
    <3>4. Cardinality(whole) \in Nat /\ Snapshots(Cardinality(written)) \in Nat
      BY LeftoversAreCounted, SnapshotsGrow
    <3>5. bytes' <= bytes + Snapshots(Cardinality(written))
      BY <1>1, <3>2, <3>4
    <3>6. QED
      BY <3>3, <3>5
  <2>2. ~unmeasured /\ Underway' = {}
    BY <1>9 DEF CrashWhileStoring, Crash, Underway
  <2>3. Cardinality(storing) \in Nat /\ Cardinality(storing) <= Cardinality(Underway)
    BY <1>2, <1>3, SomeLoops
  <2>4. /\ Snapshots(Cardinality(storing)) \in Nat
        /\ Snapshots(Cardinality(storing)) <= Snapshots(Cardinality(Underway))
    BY <1>3, <2>3, SnapshotsGrow
  <2>5. Cardinality({}) = 0 /\ Snapshots(0) = 0
    BY FS_EmptySet, StorageAssumption DEF Snapshots
  <2>6. bytes' + 0 < MaxStorageBytes + Snapshots(Cardinality(Loops))
    BY <1>1, <1>4, <2>1, <2>2, <2>4 DEF WithinReach
  <2>7. QED
    BY <2>2, <2>5, <2>6
<1>10. CASE UNCHANGED frameVars /\ Underway' \subseteq Underway
  <2>1. bytes' = bytes /\ ~unmeasured
    BY <1>10 DEF frameVars
  <2>2. bytes' <= bytes
    BY <1>1, <2>1
  <2>3. QED
    BY <1>5, <1>10, <2>1, <2>2
<1>11. UNCHANGED allVars => UNCHANGED frameVars /\ Underway' \subseteq Underway
  BY DEF allVars, vars, loopVars, Underway
<1>12. QED
  BY <1>7, <1>8, <1>9, <1>10, <1>11, NobodyIsLetIn DEF FramesNext

\* Only an estimate is compared with the limit; still, as long as the size of the
\* storage could be measured, a session's frames pass the limit by less than the
\* largest snapshot for each loop, for any number of overlapping loops, any sizes
\* and any limit, with failing writes and crashes.
THEOREM StorageStaysNearLimit == FrameSpec => []StaysNearLimit
<1>1. Typed /\ FrameTypeOK /\ WithinReach => StaysNearLimit
  <2> SUFFICES ASSUME Typed, FrameTypeOK, WithinReach, ~unmeasured
               PROVE  bytes < MaxStorageBytes + Snapshots(Cardinality(Loops))
    BY DEF StaysNearLimit
  <2>1. Underway \subseteq Loops
    BY DEF Underway
  <2>2. /\ Snapshots(Cardinality(Underway)) \in Nat
        /\ Snapshots(Cardinality(Loops)) \in Nat
    BY <2>1, SomeLoops, SnapshotsGrow
  <2>3. QED
    BY <2>2, StorageAssumption DEF FrameTypeOK, WithinReach
<1>2. FrameSpec => []Typed
  BY FramesImplementService, TypedAlways, PTL
<1>3. FrameSpec => [](FrameTypeOK /\ WithinReach)
  <2>1. FrameInit => FrameTypeOK /\ WithinReach
    BY FrameTypeInit, WithinReachInit
  <2>2. Typed /\ FrameTypeOK /\ WithinReach /\ [FramesNext]_allVars => (FrameTypeOK /\ WithinReach)'
    BY FrameTypeStep, WithinReachStep
  <2>3. QED
    BY <2>1, <2>2, <1>2, PTL DEF FrameSpec
<1>4. QED
  BY <1>1, <1>2, <1>3, PTL

\* The same holds of the owners of loops: counting frames lets no second loop in.
THEOREM FramesKeepOneOwner == FrameSpec => []OneOwner
<1>1. QED
  BY FramesImplementService, OneOwnerAlways, PTL

=============================================================================
