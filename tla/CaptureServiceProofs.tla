------------------------ MODULE CaptureServiceProofs ------------------------
(***************************************************************************)
(* What holds of CaptureService for any number of loops and requests, any  *)
(* set of operations, with or without faults, schedules and crashes.       *)
(***************************************************************************)
EXTENDS CaptureService, SessionStoreProofs

-----------------------------------------------------------------------------
(* What a step may do to the store.                                          *)

\* A loop's step is one call of the store, or leaves it alone.
LEMMA LoopUsesStore ==
    ASSUME TypeOK, NEW l \in Loops, LoopStep(l)
    PROVE  [StoreNext]_storeVars
<1>1. l \in Clients
  BY TasksAssumption
<1>2. ASSUME NEW s \in Status, UpdateSession(l, s)
      PROVE  StoreNext
  BY <1>1, <1>2 DEF StoreNext
<1>3. ASSUME MakeDirectory
      PROVE  StoreNext
  BY <1>3 DEF StoreNext
<1>4. status \in Status
  BY DEF TypeOK, StoreTypeOK
<1>5. CASE LoopOutsideWindow(l) \/ LoopResume(l) \/ LoopDurationMet(l) \/ LoopRefused(l)
           \/ LoopStoresFrame(l) \/ LoopCountsFailure(l) \/ LoopGivesUp(l)
           \/ LoopAdvances(l) \/ LoopPublishes(l) \/ LoopDies(l)
  <2>1. \E s \in Status: UpdateSession(l, s)
    BY <1>4, <1>5 DEF LoopOutsideWindow, LoopResume, LoopDurationMet, LoopRefused,
          LoopStoresFrame, LoopCountsFailure, LoopGivesUp, LoopAdvances, LoopPublishes,
          LoopDies, Status
  <2>2. QED
    BY <2>1, <1>2
<1>6. CASE LoopSnapshot(l) \/ LoopEncodes(l)
  BY <1>3, <1>6 DEF LoopSnapshot, LoopEncodes
<1>7. CASE LoopTop(l) \/ LoopInsideWindow(l) \/ LoopNotDue(l) \/ LoopBeginsCapture(l)
           \/ LoopSnapshotFails(l) \/ LoopFrameLost(l) \/ LoopTolerates(l) \/ LoopBreaks(l)
           \/ LoopFfmpegEnds(l) \/ LoopLogs(l) \/ LoopCatches(l) \/ LoopFinally(l)
  BY <1>7 DEF LoopTop, LoopInsideWindow, LoopNotDue, LoopBeginsCapture, LoopSnapshotFails,
        LoopFrameLost, LoopTolerates, LoopBreaks, LoopFfmpegEnds, LoopLogs, LoopCatches,
        LoopFinally
<1>8. CASE LoopThrows(l)
  BY <1>1, <1>8 DEF LoopThrows, StoreNext
<1>9. QED
  BY <1>5, <1>6, <1>7, <1>8 DEF LoopStep, ControlStep, FrameStep

\* A loop's step moves that loop on, and nothing else outside the store, unless
\* it is the loop's end.
LEMMA LoopMoves ==
    ASSUME NEW l \in Loops, LoopStep(l), ~LoopFinally(l)
    PROVE  /\ loop[l] # "none"
           /\ \E step \in LoopSteps \ {"none"}: loop' = [loop EXCEPT ![l] = step]
           /\ UNCHANGED <<token, cancelled, requestVars, poller>>
<1> DEFINE Moves ==
      /\ loop[l] # "none"
      /\ \E step \in LoopSteps \ {"none"}: LoopGoes(l, step)
<1> USE DEF LoopAt, LoopSteps
<1>1. CASE LoopTop(l) \/ LoopOutsideWindow(l) \/ LoopInsideWindow(l) \/ LoopResume(l)
  <2>1. Moves
    BY <1>1 DEF LoopTop, LoopOutsideWindow, LoopInsideWindow, LoopResume
  <2>2. QED
    BY <2>1 DEF LoopGoes
<1>2. CASE LoopNotDue(l) \/ LoopDurationMet(l) \/ LoopRefused(l) \/ LoopBeginsCapture(l)
  <2>1. Moves
    BY <1>2 DEF LoopNotDue, LoopDurationMet, LoopRefused, LoopBeginsCapture
  <2>2. QED
    BY <2>1 DEF LoopGoes
<1>3. CASE LoopSnapshot(l) \/ LoopSnapshotFails(l) \/ LoopStoresFrame(l) \/ LoopFrameLost(l)
  <2>1. Moves
    BY <1>3 DEF LoopSnapshot, LoopSnapshotFails, LoopStoresFrame, LoopFrameLost
  <2>2. QED
    BY <2>1 DEF LoopGoes
<1>4. CASE LoopCountsFailure(l) \/ LoopTolerates(l) \/ LoopGivesUp(l) \/ LoopBreaks(l)
           \/ LoopAdvances(l)
  <2>1. Moves
    BY <1>4 DEF LoopCountsFailure, LoopTolerates, LoopGivesUp, LoopBreaks, LoopAdvances
  <2>2. QED
    BY <2>1 DEF LoopGoes
<1>5. CASE LoopEncodes(l) \/ LoopFfmpegEnds(l) \/ LoopPublishes(l)
  <2>1. Moves
    BY <1>5 DEF LoopEncodes, LoopFfmpegEnds, LoopPublishes
  <2>2. QED
    BY <2>1 DEF LoopGoes
<1>6. CASE LoopLogs(l) \/ LoopCatches(l) \/ LoopDies(l)
  <2>1. Moves
    BY <1>6 DEF LoopLogs, LoopCatches, LoopDies, AfterLog
  <2>2. QED
    BY <2>1 DEF LoopGoes
<1>7. CASE LoopThrows(l)
  <2>1. Moves
    BY <1>7 DEF LoopThrows
  <2>2. QED
    BY <2>1 DEF LoopGoes
<1>8. QED
  BY <1>1, <1>2, <1>3, <1>4, <1>5, <1>6, <1>7 DEF LoopStep, ControlStep, FrameStep

-----------------------------------------------------------------------------
(* Types.  What makes them inductive: the step a request is at fixes what it *)
(* asks for, so that a request that writes a status has one to write.        *)

RequestShape ==
    \A r \in Requests:
        /\ request[r] \in {"gate", "check", "act", "log"} => operation[r] \in DOMAIN Target
        /\ request[r] \in {"unregister", "signal"} => operation[r] \in DOMAIN Target
        /\ request[r] = "lookup" => operation[r] = "delete"
        /\ request[r] = "find" => operation[r] = "preview"
        /\ request[r] \in {"log", "encode", "ffmpeg"} /\ operation[r] = "render"
              => previous[r] \in Status

Typed == TypeOK /\ RequestShape

\* Whatever a request writes is a status.
LEMMA TargetsAreStatuses == \A o \in DOMAIN Target: Target[o] \subseteq Status
  BY DEF Target, Status, Active

\* A request's step is one call of the store, or leaves it alone.
LEMMA RequestUsesStore ==
    ASSUME Typed, NEW r \in Requests, RequestStep(r)
    PROVE  [StoreNext]_storeVars
<1>1. r \in Clients
  BY TasksAssumption
<1>2. ASSUME NEW s \in Status, UpdateSession(r, s)
      PROVE  StoreNext
  BY <1>1, <1>2 DEF StoreNext
<1>3. status \in Status
  BY DEF Typed, TypeOK, StoreTypeOK
<1>4. CASE Act(r)
  <2>1. Target[operation[r]] \subseteq Status
    BY <1>4, TargetsAreStatuses DEF Act, RequestAt, Typed, RequestShape
  <2>2. \E s \in Status: UpdateSession(r, s)
    BY <1>4, <2>1 DEF Act
  <2>3. QED
    BY <2>2, <1>2
<1>5. CASE RenderEnds(r)
  <2>1. previous[r] \in Status
    BY <1>5 DEF RenderEnds, RequestAt, Typed, RequestShape
  <2>2. \E s \in Status: UpdateSession(r, s)
    BY <1>5, <2>1 DEF RenderEnds, Status
  <2>3. QED
    BY <2>2, <1>2
<1>6. CASE PreviewEnds(r)
  BY <1>2, <1>3, <1>6 DEF PreviewEnds
<1>11. CASE RequestThrows(r)
  BY <1>1, <1>11 DEF RequestThrows, StoreNext
<1>7. CASE Encode(r)
  BY <1>7 DEF Encode, StoreNext
<1>8. CASE Remove(r)
  BY <1>1, <1>8 DEF Remove, StoreNext
<1>9. CASE Lookup(r) \/ Unregister(r) \/ Signal(r) \/ SignalThrows(r) \/ EnterGate(r)
           \/ Check(r) \/ Log(r) \/ LogThrows(r) \/ Find(r) \/ EncodeThrows(r)
           \/ RenderAnswers(r) \/ Select(r) \/ Answer(r)
  BY <1>9 DEF Lookup, Unregister, Signal, SignalThrows, EnterGate, Check, Log, LogThrows,
        Find, EncodeThrows, RenderAnswers, Select, Answer
<1>10. QED
  BY <1>4, <1>5, <1>6, <1>7, <1>8, <1>9, <1>11 DEF RequestStep

\* Every step of the service is a step that SessionStore allows its callers.
LEMMA ServiceUsesStore ==
    ASSUME Typed, [Next]_vars
    PROVE  [StoreNext]_storeVars
<1>1. ASSUME NEW l \in Loops, LoopStep(l)
      PROVE  [StoreNext]_storeVars
  BY <1>1, LoopUsesStore DEF Typed
<1>2. ASSUME NEW r \in Requests, RequestStep(r)
      PROVE  [StoreNext]_storeVars
  BY <1>2, RequestUsesStore
<1>3. ASSUME NEW r \in Requests, NEW o \in Operations, Receive(r, o)
      PROVE  [StoreNext]_storeVars
  BY <1>3 DEF Receive
<1>4. ASSUME NEW c \in Clients, StoreStep(c)
      PROVE  [StoreNext]_storeVars
  BY <1>4 DEF StoreStep, StoreNext
<1>5. CASE PollerScans \/ PollerEnsures
  BY <1>5 DEF PollerScans, PollerEnsures
<1>6. CASE Crash
  BY <1>6 DEF Crash, StoreNext
<1>7. CASE UNCHANGED vars
  BY <1>7 DEF vars
<1>8. ASSUME NEW r \in Requests, Abandon(r)
      PROVE  [StoreNext]_storeVars
  BY <1>8 DEF Abandon
<1>9. QED
  BY <1>1, <1>2, <1>3, <1>4, <1>5, <1>6, <1>7, <1>8 DEF Next

\* The variables outside the store, in their types.
ControlTypeOK ==
    /\ token \in Loops \cup {NoOne}
    /\ cancelled \in [Loops -> BOOLEAN]
    /\ loop \in [Loops -> LoopSteps]
    /\ gate \in Requests \cup {NoOne}
    /\ request \in [Requests -> RequestSteps]
    /\ operation \in [Requests -> AllOperations \cup {"none"}]
    /\ victim \in [Requests -> Loops \cup {NoOne}]
    /\ previous \in [Requests -> Status \cup {"none"}]
    /\ poller \in BOOLEAN
    /\ RequestShape

\* A registration keeps the loops in their types.
LEMMA EnsureLoopType ==
    ASSUME TypeOK, EnsureLoop
    PROVE  /\ token' \in Loops \cup {NoOne}
           /\ cancelled' \in [Loops -> BOOLEAN]
           /\ loop' \in [Loops -> LoopSteps]
  BY DEF TypeOK, EnsureLoop, loopVars, LoopSteps

\* A loop's step keeps the control in its types.
LEMMA LoopType ==
    ASSUME Typed, NEW l \in Loops, LoopStep(l)
    PROVE  ControlTypeOK'
<1> USE DEF Typed, TypeOK, ControlTypeOK, RequestShape
<1>1. CASE LoopFinally(l)
  BY <1>1 DEF LoopFinally, LoopSteps, requestVars
<1>2. CASE ~LoopFinally(l)
  <2>1. PICK step \in LoopSteps \ {"none"}: loop' = [loop EXCEPT ![l] = step]
    BY <1>2, LoopMoves
  <2>2. UNCHANGED <<token, cancelled, requestVars, poller>>
    BY <1>2, LoopMoves
  <2>3. QED
    BY <2>1, <2>2 DEF requestVars
<1>3. QED
  BY <1>1, <1>2

\* A request's step keeps the control in its types.
LEMMA RequestType ==
    ASSUME Typed, NEW r \in Requests, RequestStep(r)
    PROVE  ControlTypeOK'
<1> USE DEF Typed, TypeOK, ControlTypeOK, RequestShape, RequestSteps, RequestAt
<1>1. CASE Lookup(r) \/ Find(r) \/ Select(r)
  BY <1>1 DEF Lookup, Find, Select, RequestGoes, Answered, loopVars, Target
<1>2. CASE Unregister(r)
  BY <1>2 DEF Unregister
<1>3. CASE Signal(r)
  BY <1>3 DEF Signal
<1>4. CASE SignalThrows(r)
  BY <1>4 DEF SignalThrows, Answered, loopVars
<1>5. CASE EnterGate(r)
  BY <1>5 DEF EnterGate, RequestGoes, loopVars
<1>6. CASE Check(r)
  BY <1>6 DEF Check, AfterGate, RequestGoes, Answered, loopVars
<1>7. CASE Act(r)
  BY <1>7 DEF Act, loopVars, StoreTypeOK
<1>8. CASE Log(r)
  <2>1. CASE operation[r] = "start"
    <3>1. EnsureLoop /\ gate' = NoOne /\ Answered(r) /\ UNCHANGED victim
      BY <1>8, <2>1 DEF Log, AfterGate
    <3>2. QED
      BY <3>1, EnsureLoopType DEF Answered
  <2>2. CASE operation[r] # "start"
    BY <1>8, <2>2 DEF Log, AfterGate, RequestGoes, Answered, loopVars
  <2>3. QED
    BY <2>1, <2>2
<1>9. CASE LogThrows(r) \/ RenderAnswers(r) \/ EncodeThrows(r) \/ Answer(r) \/ RequestThrows(r)
  BY <1>9 DEF LogThrows, RenderAnswers, EncodeThrows, Answer, RequestThrows, Answered, loopVars
<1>10. CASE Encode(r) \/ RenderEnds(r)
  BY <1>10 DEF Encode, RenderEnds, RequestGoes, loopVars
<1>11. CASE PreviewEnds(r) \/ Remove(r)
  BY <1>11 DEF PreviewEnds, Remove, RequestGoes, loopVars
<1>12. QED
  BY <1>1, <1>2, <1>3, <1>4, <1>5, <1>6, <1>7, <1>8, <1>9, <1>10, <1>11 DEF RequestStep

\* Every step of the service keeps the control in its types.
LEMMA ControlType ==
    ASSUME Typed, [Next]_vars
    PROVE  ControlTypeOK'
<1> USE DEF Typed, TypeOK, ControlTypeOK, RequestShape
<1>1. ASSUME NEW l \in Loops, LoopStep(l)
      PROVE  ControlTypeOK'
  BY <1>1, LoopType
<1>2. ASSUME NEW r \in Requests, RequestStep(r)
      PROVE  ControlTypeOK'
  BY <1>2, RequestType
<1>3. ASSUME NEW r \in Requests, NEW o \in Operations, Receive(r, o)
      PROVE  ControlTypeOK'
  <2>1. o \in AllOperations
    BY OperationsAssumption
  <2>2. request' = [request EXCEPT ![r] = FirstStep[o]] /\ FirstStep[o] \in RequestSteps
    BY <1>3, <2>1 DEF Receive, FirstStep, AllOperations, RequestSteps
  <2>3. operation' = [operation EXCEPT ![r] = o]
    BY <1>3 DEF Receive
  <2>4. RequestShape'
    BY <1>3, <2>1, <2>2, <2>3 DEF Receive, FirstStep, AllOperations, Target
  <2>5. QED
    BY <1>3, <2>1, <2>2, <2>3, <2>4 DEF Receive, loopVars
<1>4. ASSUME NEW c \in Clients, StoreStep(c)
      PROVE  ControlTypeOK'
  BY <1>4 DEF StoreStep, loopVars, requestVars
<1>5. CASE PollerScans
  BY <1>5 DEF PollerScans, loopVars, requestVars
<1>6. CASE PollerEnsures
  BY <1>6, EnsureLoopType DEF PollerEnsures, requestVars
<1>7. CASE Crash
  BY <1>7 DEF Crash, LoopSteps, RequestSteps
<1>8. CASE UNCHANGED vars
  BY <1>8 DEF vars, loopVars, requestVars
<1>9. ASSUME NEW r \in Requests, Abandon(r)
      PROVE  ControlTypeOK'
  BY <1>9 DEF Abandon, Answered, RequestSteps, loopVars
<1>10. QED
  BY <1>1, <1>2, <1>3, <1>4, <1>5, <1>6, <1>7, <1>8, <1>9 DEF Next

\* The initial states are typed.
LEMMA InitTyped == Init => Typed
<1> SUFFICES ASSUME Init
             PROVE  Typed
  OBVIOUS
<1>1. StoreTypeOK
  <2>1. CASE listed = TRUE
    BY <2>1 DEF Init, StoreInit, StoreTypeOK, Status, Call, Reload
  <2>2. CASE listed = FALSE
    BY <2>2 DEF Init, StoreInit, StoreTypeOK, Status, Call
  <2>3. QED
    BY <2>1, <2>2 DEF Init, StoreInit
<1>2. /\ token = NoOne /\ gate = NoOne /\ poller = FALSE
      /\ cancelled = [l \in Loops |-> FALSE] /\ loop = [l \in Loops |-> "none"]
      /\ request \in [Requests -> {"none", "answer"}]
      /\ operation = [r \in Requests |-> "none"]
      /\ victim = [r \in Requests |-> NoOne]
      /\ previous = [r \in Requests |-> "none"]
  BY DEF Init
<1>3. TypeOK
  BY <1>1, <1>2 DEF TypeOK, LoopSteps, RequestSteps
<1>4. RequestShape
  BY <1>2 DEF RequestShape
<1>5. QED
  BY <1>3, <1>4 DEF Typed

\* Every reachable state is typed: no request writes a status it does not have,
\* whatever fails or is interrupted before it.
THEOREM TypedAlways == Spec => []Typed
<1>1. Typed /\ [Next]_vars => Typed'
  <2> SUFFICES ASSUME Typed, [Next]_vars
               PROVE  Typed'
    OBVIOUS
  <2>1. StoreTypeOK'
    BY ServiceUsesStore, StoreTypeStep DEF Typed, TypeOK
  <2>2. QED
    BY <2>1, ControlType DEF Typed, TypeOK, ControlTypeOK
<1>2. QED
  BY <1>1, InitTyped, PTL DEF Spec

\* Type correctness of the whole service.
THEOREM TypeCorrect == Spec => []TypeOK
<1>1. Typed => TypeOK
  BY DEF Typed
<1>2. QED
  BY <1>1, TypedAlways, PTL

\* Loops, requests and poller are callers of the store like any others, which is how
\* CaptureService is written; it makes what is proved of the store available here.
LEMMA ServiceImplementsStore == Spec => StoreSpec
<1>1. Init => StoreInit
  BY DEF Init
<1>2. Typed /\ [Next]_vars => [StoreNext]_storeVars
  BY ServiceUsesStore
<1>3. QED
  BY <1>1, <1>2, TypedAlways, PTL DEF Spec, StoreSpec

\* So a crash of the real service, at any moment when nothing is being
\* persisted, brings back the status the user saw.
THEOREM ServiceDiskCatchesUp ==
    ASSUME Faults \cap {"persist", "temp"} = {}
    PROVE  Spec => []DiskCatchesUp
<1>1. StoreSpec => []DiskCatchesUp
  BY DiskAlwaysCatchesUp
<1>2. QED
  BY <1>1, ServiceImplementsStore, PTL

-----------------------------------------------------------------------------
(* Ownership.  What makes it inductive: a token source that has been taken   *)
(* out of the dictionary is in the hands of a request about to cancel it,    *)
(* and only living loops are cancelled, so a new loop starts uncancelled.    *)

Owned ==
    /\ OneOwner
    /\ \A r \in Requests: request[r] = "signal" <=> victim[r] # NoOne
    /\ \A l \in Loops: cancelled[l] => loop[l] # "none"

\* Registering a loop where there is none keeps the loops owned.
LEMMA EnsureLoopOwned ==
    ASSUME Typed, Owned, EnsureLoop, UNCHANGED victim
    PROVE  /\ OneOwner'
           /\ \A l \in Loops: cancelled'[l] => loop'[l] # "none"
<1> USE DEF Typed, TypeOK, Owned, OneOwner, Running
<1>1. CASE token # NoOne
  BY <1>1 DEF EnsureLoop, loopVars
<1>2. CASE token = NoOne
  <2>1. PICK l \in Loops: Free(l) /\ token' = l /\ loop' = [loop EXCEPT ![l] = "top"]
    BY <1>2 DEF EnsureLoop
  <2>2. UNCHANGED cancelled
    BY <1>2 DEF EnsureLoop, loopVars
  <2>3. NoOne \notin Loops
    BY TasksAssumption
  <2>4. Running(l)'
    BY <2>1, <2>2 DEF Free
  <2>5. \A m \in Loops: m # l => ~Running(m)'
    BY <1>2, <2>1, <2>2, <2>3
  <2>6. QED
    BY <2>1, <2>2, <2>4, <2>5
<1>3. QED
  BY <1>1, <1>2

\* A request's step keeps the loops owned.
LEMMA RequestOwned ==
    ASSUME Typed, Owned, NEW r \in Requests, RequestStep(r)
    PROVE  Owned'
<1> USE DEF Typed, TypeOK, Owned, OneOwner, Running, RequestAt
<1>1. CASE Unregister(r)
  <2>1. victim[r] = NoOne /\ NoOne \notin Loops
    BY <1>1, TasksAssumption DEF Unregister
  <2>2. QED
    BY <1>1, <2>1 DEF Unregister
<1>2. CASE Signal(r)
  <2>1. victim[r] \in Loops /\ token # victim[r]
    BY <1>2 DEF Signal
  <2>2. QED
    BY <1>2, <2>1, TasksAssumption DEF Signal
<1>3. CASE SignalThrows(r)
  <2>1. /\ loop[victim[r]] = "none"
        /\ victim' = [victim EXCEPT ![r] = NoOne]
        /\ request' = [request EXCEPT ![r] = "none"]
        /\ UNCHANGED <<token, cancelled, loop>>
    BY <1>3 DEF SignalThrows, Answered, loopVars
  <2>2. ASSUME NEW l \in Loops
        PROVE  Running(l)' <=> Running(l)
    <3>1. CASE victim[r] = l
      BY <2>1, <3>1
    <3>2. CASE victim[r] # l
      <4>1. (\A q \in Requests: victim'[q] # l) <=> (\A q \in Requests: victim[q] # l)
        BY <2>1, <3>2, TasksAssumption
      <4>2. QED
        BY <2>1, <4>1
    <3>3. QED
      BY <3>1, <3>2
  <2>3. QED
    BY <2>1, <2>2
<1>4. CASE Log(r)
  <2>1. CASE operation[r] = "start"
    <3>1. EnsureLoop /\ Answered(r) /\ UNCHANGED victim
      BY <1>4, <2>1 DEF Log, AfterGate
    <3>2. QED
      BY <1>4, <3>1, EnsureLoopOwned DEF Answered, Log
  <2>2. CASE operation[r] # "start"
    BY <1>4, <2>2 DEF Log, AfterGate, RequestGoes, Answered, loopVars
  <2>3. QED
    BY <2>1, <2>2
<1>5. CASE \/ Lookup(r) \/ EnterGate(r) \/ Check(r) \/ Act(r) \/ LogThrows(r) \/ Find(r)
           \/ Encode(r) \/ EncodeThrows(r) \/ RenderEnds(r) \/ RenderAnswers(r)
           \/ PreviewEnds(r) \/ Select(r) \/ Remove(r) \/ Answer(r) \/ RequestThrows(r)
  <2>1. /\ UNCHANGED <<loopVars, victim>>
        /\ request[r] # "signal"
        /\ \E step \in RequestSteps \ {"signal"}: request' = [request EXCEPT ![r] = step]
    BY <1>5 DEF Lookup, EnterGate, Check, Act, LogThrows, Find, Encode, EncodeThrows,
          RenderEnds, RenderAnswers, PreviewEnds, Select, Remove, Answer, RequestThrows,
          AfterGate, RequestGoes, Answered, RequestSteps
  <2>2. QED
    BY <2>1 DEF loopVars
<1>6. QED
  BY <1>1, <1>2, <1>3, <1>4, <1>5 DEF RequestStep

\* A loop's step keeps the loops owned: it stays alive, or it is the end, which
\* unregisters that loop and no other.
LEMMA LoopOwned ==
    ASSUME Typed, Owned, NEW l \in Loops, LoopStep(l)
    PROVE  Owned'
<1> USE DEF Typed, TypeOK, Owned, OneOwner, Running
<1>1. CASE LoopFinally(l)
  BY <1>1, TasksAssumption DEF LoopFinally, LoopAt, requestVars
<1>2. CASE ~LoopFinally(l)
  <2>1. PICK step \in LoopSteps \ {"none"}: loop' = [loop EXCEPT ![l] = step]
    BY <1>2, LoopMoves
  <2>2. loop[l] # "none" /\ UNCHANGED <<token, cancelled, requestVars, poller>>
    BY <1>2, LoopMoves
  <2>3. QED
    BY <2>1, <2>2 DEF requestVars
<1>3. QED
  BY <1>1, <1>2

\* For any number of loops and requests: the loops nobody has told to stop are
\* exactly the registered one, so two of them never capture side by side.
THEOREM OneOwnerAlways == Spec => []OneOwner
<1>1. Init => Owned
  BY TasksAssumption DEF Init, Owned, OneOwner, Running
<1>2. Typed /\ Owned /\ [Next]_vars => Owned'
  <2> SUFFICES ASSUME Typed, Owned, [Next]_vars
               PROVE  Owned'
    OBVIOUS
  <2>1. ASSUME NEW l \in Loops, LoopStep(l)
        PROVE  Owned'
    BY <2>1, LoopOwned
  <2>2. ASSUME NEW r \in Requests, RequestStep(r)
        PROVE  Owned'
    BY <2>2, RequestOwned
  <2>3. ASSUME NEW r \in Requests, NEW o \in Operations, Receive(r, o)
        PROVE  Owned'
    <3>1. o \in AllOperations
      BY OperationsAssumption
    <3>2. FirstStep[o] # "signal" /\ request[r] = "none"
      BY <2>3, <3>1 DEF Receive, RequestAt, FirstStep, AllOperations
    <3>3. QED
      BY <2>3, <3>2 DEF Receive, Typed, TypeOK, Owned, OneOwner, Running, loopVars
  <2>4. CASE PollerEnsures
    BY <2>4, EnsureLoopOwned DEF PollerEnsures, Owned, requestVars
  <2>5. CASE Crash
    BY <2>5, TasksAssumption DEF Crash, Owned, OneOwner, Running
  <2>6. CASE \/ \E c \in Clients: StoreStep(c)
             \/ PollerScans
             \/ UNCHANGED vars
    <3>1. UNCHANGED <<loopVars, requestVars>>
      BY <2>6 DEF StoreStep, PollerScans, vars
    <3>2. QED
      BY <3>1 DEF Owned, OneOwner, Running, loopVars, requestVars
  <2>7. ASSUME NEW r \in Requests, Abandon(r)
        PROVE  Owned'
    BY <2>7 DEF Abandon, RequestAt, Answered, Typed, TypeOK, Owned, OneOwner, Running, loopVars
  <2>8. QED
    BY <2>1, <2>2, <2>3, <2>4, <2>5, <2>6, <2>7 DEF Next
<1>3. Owned => OneOwner
  BY DEF Owned
<1>4. QED
  BY <1>1, <1>2, <1>3, TypedAlways, PTL DEF Spec
-----------------------------------------------------------------------------
(* One FFmpeg at a time.  While nobody cancels a loop, the registered loop is *)
(* the only one.  What makes it inductive: a loop captures only an active     *)
(* session, an active session refuses to be rendered, and between its look at *)
(* the status and its change of it a render holds the gate.                   *)

\* Where a loop is only while the session is active, and where it encodes.
Capturing == {"window", "resume", "logCapturing", "due", "camera", "store", "exhausted",
              "failing", "logFrame", "dying"}
Encoding == {"logRendering", "encode", "ffmpeg", "publish"}

Uncancelled ==
    /\ \A l \in Loops: ~cancelled[l]
    /\ \A r \in Requests:
          /\ victim[r] = NoOne
          /\ operation[r] \notin {"pause", "cancel", "delete"}
          /\ request[r] \notin {"lookup", "unregister", "signal"}

OneLoop == \A l \in Loops: loop[l] # "none" <=> token = l

Holds(r) ==
    \/ request[r] \in {"check", "act", "log", "logEnd"}
    \/ operation[r] = "render" /\ request[r] \in {"encode", "ffmpeg"}

Gated == \A r \in Requests: Holds(r) => gate = r

StatusFits ==
    /\ \A l \in Loops:
          /\ loop[l] \in Capturing => status \in Active
          /\ loop[l] \in Encoding => status \in Active \cup {"Rendering"}
    /\ \A r \in Requests: operation[r] = "render" =>
          /\ request[r] = "act" => status \notin Active \cup {"Rendering"}
          /\ request[r] \in {"log", "encode", "ffmpeg"} =>
                status = "Rendering" /\ \A l \in Loops: loop[l] \notin Encoding

Exclusive == Typed /\ Uncancelled /\ OneLoop /\ Gated /\ StatusFits

\* What a step of a loop does to the status, by where it comes from and goes to.
LEMMA LoopChangesStatus ==
    ASSUME TypeOK, NEW l \in Loops, LoopStep(l)
    PROVE  /\ loop'[l] \in Capturing =>
                 \/ loop[l] \in Capturing /\ status' \in {status} \cup Active
                 \/ status \in Active /\ status' = status
           /\ loop'[l] \in Encoding =>
                 \/ loop[l] \in Capturing /\ status' = "Rendering"
                 \/ loop[l] \in Encoding /\ status' = status
           /\ status' # status => loop[l] \in Capturing \cup {"publish"}
           /\ \A k \in Loops: k # l => loop'[k] = loop[k]
<1> USE DEF TypeOK, Capturing, Encoding, LoopAt, LoopGoes, Active, storeVars
<1>1. CASE LoopTop(l) \/ LoopInsideWindow(l) \/ LoopNotDue(l) \/ LoopBeginsCapture(l)
  BY <1>1 DEF LoopTop, LoopInsideWindow, LoopNotDue, LoopBeginsCapture
<1>2. CASE LoopOutsideWindow(l) \/ LoopResume(l) \/ LoopDurationMet(l) \/ LoopRefused(l)
  BY <1>2 DEF LoopOutsideWindow, LoopResume, LoopDurationMet, LoopRefused, UpdateSession
<1>3. CASE LoopSnapshot(l) \/ LoopSnapshotFails(l) \/ LoopFrameLost(l)
  BY <1>3 DEF LoopSnapshot, LoopSnapshotFails, LoopFrameLost, MakeDirectory
<1>4. CASE LoopStoresFrame(l) \/ LoopCountsFailure(l) \/ LoopGivesUp(l) \/ LoopAdvances(l)
  BY <1>4 DEF LoopStoresFrame, LoopCountsFailure, LoopGivesUp, LoopAdvances, UpdateSession
<1>5. CASE LoopTolerates(l) \/ LoopBreaks(l) \/ LoopCatches(l) \/ LoopFinally(l)
  BY <1>5 DEF LoopTolerates, LoopBreaks, LoopCatches, LoopFinally
<1>6. CASE LoopEncodes(l) \/ LoopFfmpegEnds(l)
  BY <1>6 DEF LoopEncodes, LoopFfmpegEnds, MakeDirectory
<1>7. CASE LoopPublishes(l) \/ LoopDies(l)
  BY <1>7 DEF LoopPublishes, LoopDies, UpdateSession
<1>8. CASE LoopLogs(l) \/ LoopThrows(l)
  BY <1>8 DEF LoopLogs, AfterLog, LoopThrows, Throw
<1>9. QED
  BY <1>1, <1>2, <1>3, <1>4, <1>5, <1>6, <1>7, <1>8 DEF LoopStep, ControlStep, FrameStep

\* A loop's step, when it is the only loop there is.
LEMMA LoopExclusive ==
    ASSUME Exclusive, NEW l \in Loops, LoopStep(l)
    PROVE  Uncancelled' /\ OneLoop' /\ Gated' /\ StatusFits'
<1> USE DEF Exclusive, Typed
<1>1. /\ loop[l] # "none"
      /\ UNCHANGED requestVars
      /\ \/ UNCHANGED <<token, cancelled>> /\ loop'[l] # "none"
         \/ token' = NoOne /\ loop'[l] = "none" /\ cancelled' = [cancelled EXCEPT ![l] = FALSE]
  <2>1. CASE LoopFinally(l)
    <3>1. token = l
      BY <2>1 DEF LoopFinally, LoopAt, OneLoop
    <3>2. QED
      BY <2>1, <3>1 DEF LoopFinally, LoopAt, TypeOK
  <2>2. CASE ~LoopFinally(l)
    BY <2>2, LoopMoves DEF TypeOK
  <2>3. QED
    BY <2>1, <2>2
<1>2. /\ \A k \in Loops: k # l => loop'[k] = loop[k] /\ loop[k] = "none"
      /\ token = l /\ l # NoOne
  BY <1>1, LoopChangesStatus, TasksAssumption DEF OneLoop
<1>3. Uncancelled' /\ Gated'
  BY <1>1 DEF Uncancelled, Gated, Holds, requestVars, TypeOK
<1>4. OneLoop'
  BY <1>1, <1>2, TasksAssumption DEF OneLoop
<1>5. StatusFits'
  <2>1. /\ loop'[l] \in Capturing => status' \in Active
        /\ loop'[l] \in Encoding => status' \in Active \cup {"Rendering"}
    BY LoopChangesStatus DEF StatusFits
  <2>2. \A k \in Loops: loop'[k] \notin Capturing \cup Encoding \/ k = l
    BY <1>2 DEF Capturing, Encoding
  <2>3. ASSUME NEW r \in Requests, operation'[r] = "render"
        PROVE  /\ request'[r] = "act" => status' \notin Active \cup {"Rendering"}
               /\ request'[r] \in {"log", "encode", "ffmpeg"} =>
                     status' = "Rendering" /\ \A k \in Loops: loop'[k] \notin Encoding
    <3>1. operation[r] = "render" /\ request'[r] = request[r]
      BY <1>1, <2>3 DEF requestVars
    <3>2. CASE request[r] = "act"
      <4>1. status \notin Active \cup {"Rendering"}
        BY <3>1, <3>2 DEF StatusFits
      <4>2. loop[l] \notin Capturing \cup {"publish"}
        BY <4>1 DEF StatusFits, Encoding
      <4>3. QED
        BY <3>1, <3>2, <4>1, <4>2, LoopChangesStatus
    <3>3. CASE request[r] \in {"log", "encode", "ffmpeg"}
      <4>1. status = "Rendering" /\ \A k \in Loops: loop[k] \notin Encoding
        BY <3>1, <3>3 DEF StatusFits
      <4>2. loop[l] \notin Capturing \cup Encoding
        BY <4>1 DEF StatusFits, Active
      <4>3. status' = status /\ loop'[l] \notin Encoding
        BY <4>2, LoopChangesStatus DEF Encoding
      <4>4. QED
        BY <3>1, <3>3, <4>1, <4>3, <1>2 DEF Encoding
    <3>4. QED
      BY <3>1, <3>2, <3>3
  <2>4. QED
    BY <2>1, <2>2, <2>3 DEF StatusFits
<1>6. QED
  BY <1>3, <1>4, <1>5

\* A loop is registered where there is none: the new one has read nothing yet.
LEMMA EnsureLoopExclusive ==
    ASSUME Exclusive, EnsureLoop
    PROVE  /\ OneLoop'
           /\ UNCHANGED cancelled
           /\ \A l \in Loops: loop'[l] = loop[l] \/ loop'[l] = "top"
<1> USE DEF Exclusive, Typed, TypeOK, OneLoop
<1>1. CASE token # NoOne
  BY <1>1 DEF EnsureLoop, loopVars
<1>2. CASE token = NoOne
  <2>1. PICK l \in Loops: token' = l /\ loop' = [loop EXCEPT ![l] = "top"] /\ UNCHANGED cancelled
    BY <1>2 DEF EnsureLoop, loopVars
  <2>2. QED
    BY <1>2, <2>1, TasksAssumption
<1>3. QED
  BY <1>1, <1>2

\* A request's step: what it does to the status, and to the gate.
LEMMA RequestExclusive ==
    ASSUME Exclusive, NEW r \in Requests, RequestStep(r)
    PROVE  Uncancelled' /\ OneLoop' /\ Gated' /\ StatusFits'
<1> USE DEF Exclusive, Typed, TypeOK, RequestAt, storeVars
<1>1. r \notin Loops /\ NoOne \notin Requests
  BY TasksAssumption
<1>2. CASE EnterGate(r)
  <2>1. /\ gate = NoOne /\ gate' = r /\ request[r] = "gate"
        /\ request' = [request EXCEPT ![r] = "check"]
        /\ UNCHANGED <<operation, victim, status, token, cancelled, loop>>
    BY <1>2 DEF EnterGate, RequestGoes, loopVars
  <2>2. Uncancelled' /\ OneLoop' /\ StatusFits'
    BY <2>1 DEF Uncancelled, OneLoop, StatusFits
  <2>3. Gated'
    BY <2>1, <1>1 DEF Gated, Holds
  <2>4. QED
    BY <2>2, <2>3
<1>3. CASE Check(r)
  <2>1. /\ request[r] = "check" /\ gate = r /\ operation[r] # "delete"
        /\ UNCHANGED <<status, token, cancelled, loop, victim>>
        /\ \/ /\ Accepts(operation[r]) /\ UNCHANGED <<gate, operation>>
              /\ request' = [request EXCEPT ![r] = "act"]
           \/ /\ gate' = NoOne
              /\ request' = [request EXCEPT ![r] = "none"]
              /\ operation' = [operation EXCEPT ![r] = "none"]
    BY <1>3 DEF Check, AfterGate, RequestGoes, Answered, loopVars, Gated, Holds, Uncancelled
  <2>2. operation[r] = "render" /\ Accepts(operation[r]) => status \notin Active \cup {"Rendering"}
    BY DEF Accepts, Active
  <2>3. QED
    BY <2>1, <2>2, <1>1 DEF Uncancelled, OneLoop, StatusFits, Gated, Holds
<1>4. CASE Act(r)
  <2>1. /\ request[r] = "act" /\ gate = r
        /\ request' = [request EXCEPT ![r] = "log"]
        /\ UNCHANGED <<gate, token, cancelled, loop, victim, operation>>
    BY <1>4 DEF Act, loopVars, Gated, Holds
  <2>2. operation[r] \in {"start", "render"}
    BY <2>1 DEF RequestShape, Uncancelled, Target
  <2>3. /\ operation[r] = "start" => status' \in Active
        /\ operation[r] = "render" => status' = "Rendering"
    BY <1>4, <2>2 DEF Act, Target, UpdateSession, Active
  <2>4. \A q \in Requests: q # r => ~Holds(q)
    BY <2>1 DEF Gated
  <2>5. operation[r] = "render" =>
           \A l \in Loops: loop[l] \notin Capturing \cup Encoding
    BY <2>1 DEF StatusFits
  <2>6. StatusFits'
    BY <2>1, <2>2, <2>3, <2>4, <2>5 DEF StatusFits, Holds, Active
  <2>7. QED
    BY <2>1, <2>6 DEF Uncancelled, OneLoop, Gated, Holds
<1>5. CASE Log(r)
  <2>1. /\ request[r] = "log" /\ gate = r /\ UNCHANGED <<status, victim>>
        /\ \/ /\ operation[r] = "start" /\ EnsureLoop /\ gate' = NoOne
              /\ request' = [request EXCEPT ![r] = "none"]
              /\ operation' = [operation EXCEPT ![r] = "none"]
           \/ /\ operation[r] = "render" /\ UNCHANGED <<gate, operation, token, cancelled, loop>>
              /\ request' = [request EXCEPT ![r] = "encode"]
    BY <1>5 DEF Log, AfterGate, RequestGoes, Answered, loopVars, Gated, Holds, Uncancelled
  <2>2. \A q \in Requests: q # r => ~Holds(q)
    BY <2>1 DEF Gated
  <2>3. CASE operation[r] = "start"
    <3>1. /\ OneLoop' /\ UNCHANGED cancelled
          /\ \A l \in Loops: loop'[l] = loop[l] \/ loop'[l] = "top"
      BY <2>1, <2>3, EnsureLoopExclusive
    <3>2. QED
      BY <2>1, <2>2, <2>3, <3>1 DEF Uncancelled, StatusFits, Gated, Holds, Capturing, Encoding
  <2>4. CASE operation[r] = "render"
    BY <2>1, <2>2, <2>4 DEF Uncancelled, OneLoop, StatusFits, Gated, Holds
  <2>5. QED
    BY <2>1, <2>3, <2>4
<1>6. CASE Encode(r)
  <2>1. /\ request[r] = "encode"
        /\ request' = [request EXCEPT ![r] = "ffmpeg"]
        /\ UNCHANGED <<status, gate, operation, victim, token, cancelled, loop>>
    BY <1>6 DEF Encode, MakeDirectory, RequestGoes, loopVars
  <2>2. QED
    BY <2>1 DEF Uncancelled, OneLoop, StatusFits, Gated, Holds
<1>7. CASE RenderEnds(r)
  <2>1. /\ request[r] = "ffmpeg" /\ operation[r] = "render" /\ gate = r /\ status = "Rendering"
        /\ request' = [request EXCEPT ![r] = "logEnd"]
        /\ UNCHANGED <<gate, operation, victim, token, cancelled, loop>>
        /\ \A l \in Loops: loop[l] \notin Encoding
    BY <1>7 DEF RenderEnds, RequestGoes, loopVars, Gated, Holds, StatusFits
  <2>2. \A q \in Requests: q # r => ~Holds(q)
    BY <2>1 DEF Gated
  <2>3. \A l \in Loops: loop[l] \notin Capturing
    BY <2>1 DEF StatusFits, Active
  <2>4. QED
    BY <2>1, <2>2, <2>3 DEF Uncancelled, OneLoop, StatusFits, Gated, Holds
<1>8. CASE \/ LogThrows(r) \/ RenderAnswers(r) \/ EncodeThrows(r) \/ PreviewEnds(r)
           \/ Remove(r) \/ Answer(r) \/ RequestThrows(r)
  <2>1. /\ gate' = gate \/ gate = r \/ Holds(r)
        /\ \/ /\ request' = [request EXCEPT ![r] = "none"]
              /\ operation' = [operation EXCEPT ![r] = "none"]
           \/ request' = [request EXCEPT ![r] = "answer"] /\ UNCHANGED operation
        /\ UNCHANGED <<victim, token, cancelled, loop>>
    BY <1>8 DEF LogThrows, RenderAnswers, EncodeThrows, PreviewEnds, Remove, Answer,
          RequestThrows, RequestGoes, Answered, loopVars, Holds
  <2>2. status' = status
    BY <1>8 DEF LogThrows, RenderAnswers, EncodeThrows, PreviewEnds, Remove, Answer,
          RequestThrows, Throw, UpdateSession, DeleteSession
  <2>3. \A q \in Requests: q # r /\ Holds(q) => gate' = q
    BY <2>1 DEF Gated
  <2>4. QED
    BY <2>1, <2>2, <2>3 DEF Uncancelled, OneLoop, StatusFits, Gated, Holds
<1>9. CASE Find(r) \/ Select(r)
  <2>1. /\ UNCHANGED <<status, gate, victim, token, cancelled, loop>>
        /\ \/ /\ request' = [request EXCEPT ![r] = "none"]
              /\ operation' = [operation EXCEPT ![r] = "none"]
           \/ /\ request' = [request EXCEPT ![r] = "encode"]
              /\ operation[r] = "preview" /\ UNCHANGED operation
           \/ /\ request' = [request EXCEPT ![r] = "remove"] /\ UNCHANGED operation
    BY <1>9 DEF Find, Select, RequestGoes, Answered, loopVars, RequestShape
  <2>2. QED
    BY <2>1 DEF Uncancelled, OneLoop, StatusFits, Gated, Holds
<1>10. CASE Lookup(r) \/ Unregister(r) \/ Signal(r) \/ SignalThrows(r)
  BY <1>10 DEF Lookup, Unregister, Signal, SignalThrows, Uncancelled
<1>11. QED
  BY <1>2, <1>3, <1>4, <1>5, <1>6, <1>7, <1>8, <1>9, <1>10 DEF RequestStep

LEMMA AlwaysExclusive ==
    ASSUME Operations \subseteq {"start", "render", "preview", "retention"}
    PROVE  Spec => []Exclusive
<1>1. Init => Uncancelled /\ OneLoop /\ Gated /\ StatusFits
  BY TasksAssumption DEF Init, Uncancelled, OneLoop, Gated, Holds, StatusFits, Capturing, Encoding
<1>2. Exclusive /\ [Next]_vars => (Uncancelled /\ OneLoop /\ Gated /\ StatusFits)'
  <2> SUFFICES ASSUME Exclusive, [Next]_vars
               PROVE  (Uncancelled /\ OneLoop /\ Gated /\ StatusFits)'
    OBVIOUS
  <2> USE DEF Exclusive, Typed, TypeOK
  <2>1. ASSUME NEW l \in Loops, LoopStep(l)
        PROVE  (Uncancelled /\ OneLoop /\ Gated /\ StatusFits)'
    BY <2>1, LoopExclusive
  <2>2. ASSUME NEW r \in Requests, RequestStep(r)
        PROVE  (Uncancelled /\ OneLoop /\ Gated /\ StatusFits)'
    BY <2>2, RequestExclusive
  <2>3. ASSUME NEW r \in Requests, NEW o \in Operations, Receive(r, o)
        PROVE  (Uncancelled /\ OneLoop /\ Gated /\ StatusFits)'
    <3>1. o \in {"start", "render", "preview", "retention"}
      OBVIOUS
    <3>2. /\ request' = [request EXCEPT ![r] = FirstStep[o]]
          /\ operation' = [operation EXCEPT ![r] = o]
          /\ FirstStep[o] \in {"gate", "find", "select"}
          /\ UNCHANGED <<status, token, cancelled, loop, gate, victim>>
      BY <2>3, <3>1 DEF Receive, FirstStep, loopVars, storeVars
    <3>3. QED
      BY <3>1, <3>2 DEF Uncancelled, OneLoop, Gated, Holds, StatusFits
  <2>4. CASE PollerEnsures
    <3>1. /\ OneLoop' /\ UNCHANGED cancelled
          /\ \A l \in Loops: loop'[l] = loop[l] \/ loop'[l] = "top"
      BY <2>4, EnsureLoopExclusive DEF PollerEnsures
    <3>2. UNCHANGED <<status, gate, request, operation, victim>>
      BY <2>4 DEF PollerEnsures, requestVars, storeVars
    <3>3. QED
      BY <3>1, <3>2 DEF Uncancelled, Gated, Holds, StatusFits, Capturing, Encoding
  <2>5. CASE Crash
    BY <2>5, TasksAssumption DEF Crash, Uncancelled, OneLoop, Gated, Holds, StatusFits,
          Capturing, Encoding
  <2>6. CASE (\E c \in Clients: StoreStep(c)) \/ PollerScans \/ UNCHANGED vars
    <3>1. /\ UNCHANGED <<token, cancelled, loop, gate, request, operation, victim>>
          /\ status' = status
      BY <2>6 DEF StoreStep, PollerScans, vars, loopVars, requestVars, storeVars,
            CreateSession, Persisting, Serialize, Replace, Deleting, RemoveDirectory,
            RemoveMetadata, Confirm, Unlist
    <3>2. QED
      BY <3>1 DEF Uncancelled, OneLoop, Gated, Holds, StatusFits
  <2>7. ASSUME NEW r \in Requests, Abandon(r)
        PROVE  (Uncancelled /\ OneLoop /\ Gated /\ StatusFits)'
    <3>1. /\ request' = [request EXCEPT ![r] = "none"]
          /\ operation' = [operation EXCEPT ![r] = "none"]
          /\ UNCHANGED <<status, token, cancelled, loop, gate, victim>>
      BY <2>7 DEF Abandon, Answered, loopVars, storeVars
    <3>2. QED
      BY <3>1 DEF Uncancelled, OneLoop, Gated, Holds, StatusFits
  <2>8. QED
    BY <2>1, <2>2, <2>3, <2>4, <2>5, <2>6, <2>7 DEF Next
<1>3. QED
  BY <1>1, <1>2, TypedAlways, PTL DEF Spec, Exclusive

\* With any schedule, faults and crashes, for any number of loops and requests:
\* FFmpeg never runs twice for a session that nobody pauses, cancels or deletes.
\* (A paused or cancelled loop may still be in FFmpeg when the next render starts:
\* nobody waits for it.)
THEOREM OneEncoderAlways ==
    ASSUME Operations \subseteq {"start", "render", "preview", "retention"}
    PROVE  Spec => []OneEncoder
<1>1. Exclusive => OneEncoder
  <2> SUFFICES ASSUME Exclusive, NEW p \in Clients, NEW q \in Clients, Rendering(p), Rendering(q)
               PROVE  p = q
    BY DEF OneEncoder
  <2> USE DEF Exclusive
  <2>1. ASSUME NEW l \in Loops, Rendering(l) PROVE loop[l] \in Encoding /\ token = l
    BY <2>1, TasksAssumption DEF Rendering, Encoding, OneLoop
  <2>2. ASSUME NEW r \in Requests, Rendering(r)
        PROVE  gate = r /\ \A l \in Loops: loop[l] \notin Encoding
    BY <2>2, TasksAssumption DEF Rendering, Gated, Holds, StatusFits
  <2>3. QED
    BY <2>1, <2>2, TasksAssumption
<1>2. QED
  BY <1>1, AlwaysExclusive, PTL

-----------------------------------------------------------------------------
(* Who ends a rendering.  While sessions are not deleted and their events can *)
(* be logged, nothing throws between a status and the step that replaces it.  *)
(* What makes it inductive: whoever is past its lookup finds the session      *)
(* listed and its directory in place, so no exception ends it early.          *)

Present ==
    /\ listed \/ metadata # "none" \/ ~NobodyPersists => directory
    /\ \A c \in Clients:
          /\ call[c] \in {"none", "creating", "queued", "writing"}
          /\ call[c] = "creating" => ~listed /\ status = "Ready"
          /\ \A d \in Clients: call[c] = "creating" /\ call[d] = "creating" => c = d
    /\ \A l \in Loops:
          /\ loop[l] # "none" => listed
          /\ loop[l] \notin {"caught", "dying"}
    /\ \A r \in Requests:
          /\ request[r] \in {"act", "log", "encode", "ffmpeg", "logEnd"} => listed
          /\ request[r] \notin {"select", "remove"}
    /\ poller => listed

Rendered ==
    /\ RenderingHasRenderer
    /\ \A r \in Requests: previous[r] # "Rendering"


\* What a loop leaves behind when nothing is thrown and nobody cancels it.
LEMMA LoopIsKept ==
    ASSUME Exclusive, Present, Faults \subseteq {"persist", "delete"}, NEW l \in Loops, LoopStep(l)
    PROVE  /\ listed' /\ directory' /\ UNCHANGED metadata
           /\ call' = call \/ call' = [call EXCEPT ![l] = "queued"]
           /\ loop'[l] \notin {"caught", "dying"}
           /\ status' = "Rendering" /\ status # "Rendering" => loop'[l] = "logRendering"
           /\ loop[l] \in Encoding => loop'[l] \in Encoding \/ status' # "Rendering"
           /\ loop'[l] = "logEnd" => status' # "Capturing"
           /\ loop'[l] = "finally" =>
                 status' = status /\ (status # "Capturing" \/ loop[l] = "logEnd")
<1> USE DEF Exclusive, Typed, TypeOK, StoreTypeOK, LoopAt, LoopGoes, Active, Encoding, storeVars, Goes
<1>1. /\ ~cancelled[l] /\ loop[l] \notin {"caught", "dying"} /\ l \in Clients
      /\ loop[l] # "none" => listed /\ directory
  BY TasksAssumption DEF Uncancelled, Present
<1>2. loop[l] # "none"
  BY LoopMoves DEF LoopFinally
<1>3. listed /\ directory /\ CanLog /\ ~CanThrow
  BY <1>1, <1>2 DEF CanLog, CanThrow
<1>4. CASE LoopTop(l) \/ LoopInsideWindow(l) \/ LoopNotDue(l) \/ LoopBeginsCapture(l)
  BY <1>1, <1>3, <1>4 DEF LoopTop, LoopInsideWindow, LoopNotDue, LoopBeginsCapture
<1>5. CASE LoopOutsideWindow(l) \/ LoopResume(l) \/ LoopDurationMet(l) \/ LoopRefused(l)
  BY <1>1, <1>3, <1>5 DEF LoopOutsideWindow, LoopResume, LoopDurationMet, LoopRefused,
        UpdateSession
<1>6. CASE LoopSnapshot(l) \/ LoopSnapshotFails(l) \/ LoopFrameLost(l)
  BY <1>1, <1>3, <1>6 DEF LoopSnapshot, LoopSnapshotFails, LoopFrameLost, MakeDirectory
<1>7. CASE LoopStoresFrame(l) \/ LoopCountsFailure(l) \/ LoopGivesUp(l) \/ LoopAdvances(l)
  BY <1>1, <1>3, <1>7 DEF LoopStoresFrame, LoopCountsFailure, LoopGivesUp, LoopAdvances,
        UpdateSession
<1>8. CASE LoopTolerates(l) \/ LoopBreaks(l) \/ LoopCatches(l) \/ LoopFinally(l)
  BY <1>1, <1>3, <1>8 DEF LoopTolerates, LoopBreaks, LoopCatches, LoopFinally
<1>9. CASE LoopEncodes(l) \/ LoopFfmpegEnds(l)
  BY <1>1, <1>3, <1>9 DEF LoopEncodes, LoopFfmpegEnds, MakeDirectory
<1>10. CASE LoopPublishes(l) \/ LoopDies(l)
  BY <1>1, <1>3, <1>10 DEF LoopPublishes, LoopDies, UpdateSession
<1>11. CASE LoopLogs(l)
  <2>1. PICK step \in DOMAIN AfterLog:
           LoopAt(l, step) /\ LoopGoes(l, AfterLog[step]) /\ UNCHANGED storeVars
    BY <1>1, <1>3, <1>11 DEF LoopLogs
  <2>2. QED
    BY <1>1, <1>3, <2>1 DEF AfterLog
<1>12. CASE LoopThrows(l)
  BY <1>1, <1>12 DEF LoopThrows, Throw, Present
<1>13. QED
  BY <1>4, <1>5, <1>6, <1>7, <1>8, <1>9, <1>10, <1>11, <1>12 DEF LoopStep, ControlStep, FrameStep

LEMMA LoopPresent ==
    ASSUME Exclusive, Present, Rendered, Faults \subseteq {"persist", "delete"}, NEW l \in Loops, LoopStep(l)
    PROVE  Present' /\ Rendered'
<1> USE DEF Exclusive, Typed, TypeOK, StoreTypeOK
<1>1. /\ loop[l] # "none" /\ UNCHANGED requestVars /\ UNCHANGED poller
      /\ \A k \in Loops: k # l => loop'[k] = loop[k]
  BY LoopMoves, LoopChangesStatus DEF LoopFinally, LoopAt
<1>2. listed /\ listed' /\ directory'
  BY <1>1, LoopIsKept DEF Present
<1>3. Present'
  <2>1. \A c \in Clients: call'[c] = call[c] \/ call'[c] = "queued"
    BY LoopIsKept, TasksAssumption
  <2>2. \A k \in Loops: loop'[k] \notin {"caught", "dying"}
    BY <1>1, LoopIsKept DEF Present
  <2>3. QED
    BY <1>1, <1>2, <2>1, <2>2 DEF Present, requestVars
<1>4. Rendered'
  <2>1. ASSUME status' = "Rendering" PROVE \E p \in Clients: Rendering(p)'
    <3>1. CASE status = "Rendering"
      <4>1. PICK p \in Clients: Rendering(p)
        BY <1>2, <3>1 DEF Rendered, RenderingHasRenderer
      <4>2. CASE p = l
        <5>1. loop[l] \in Encoding
          BY <4>1, <4>2, TasksAssumption DEF Rendering, Encoding
        <5>2. loop'[l] \in Encoding
          BY <2>1, <5>1, LoopIsKept
        <5>3. QED
          BY <5>2, TasksAssumption DEF Rendering, Encoding
      <4>3. CASE p # l
        BY <1>1, <4>1, <4>3 DEF Rendering, requestVars
      <4>4. QED
        BY <4>2, <4>3
    <3>2. CASE status # "Rendering"
      BY <2>1, <3>2, LoopIsKept, TasksAssumption DEF Rendering
    <3>3. QED
      BY <3>1, <3>2
  <2>2. QED
    BY <1>1, <2>1 DEF Rendered, RenderingHasRenderer, requestVars
<1>5. QED
  BY <1>3, <1>4

\* What a request does: it ends, or goes on, and changes the status under the gate.
LEMMA RequestPresent ==
    ASSUME Exclusive, Present, Rendered, Faults \subseteq {"persist", "delete"}, NEW r \in Requests, RequestStep(r)
    PROVE  Present' /\ Rendered'
<1> USE DEF Exclusive, Typed, TypeOK, StoreTypeOK, RequestAt, storeVars, Rendered, RenderingHasRenderer
<1>1. r \in Clients /\ r \notin Loops /\ NoOne \notin Loops
  BY TasksAssumption
<1>2. \A p \in Clients: p # r => p \in Loops \/ p \in Requests
  BY TasksAssumption
<1>3. CASE EnterGate(r) \/ Find(r) \/ Check(r)
  <2>1. /\ UNCHANGED <<status, listed, directory, metadata, call, copy, loop, poller>>
        /\ \/ /\ request' = [request EXCEPT ![r] = "none"]
              /\ operation' = [operation EXCEPT ![r] = "none"]
              /\ previous' = [previous EXCEPT ![r] = "none"]
           \/ /\ \E step \in {"check", "act", "encode"}:
                    /\ step # "check" => listed
                    /\ request' = [request EXCEPT ![r] = step]
              /\ UNCHANGED <<operation, previous>>
        /\ request[r] \in {"gate", "check", "find"}
    BY <1>3 DEF EnterGate, Find, Check, Accepts, AfterGate, RequestGoes, Answered, loopVars,
          Uncancelled
  <2>2. Present'
    BY <2>1 DEF Present, NobodyPersists
  <2>3. \A p \in Clients: Rendering(p) => Rendering(p)'
    BY <2>1, <1>1 DEF Rendering
  <2>4. QED
    BY <2>1, <2>2, <2>3
<1>4. CASE Act(r)
  <2>1. /\ request[r] = "act" /\ listed /\ directory
        /\ request' = [request EXCEPT ![r] = "log"]
        /\ listed' = TRUE /\ call' = [call EXCEPT ![r] = "queued"]
        /\ UNCHANGED <<directory, metadata, loop, operation, poller>>
    BY <1>4 DEF Act, loopVars, UpdateSession, Goes, Present
  <2>2. operation[r] \in {"start", "render"}
    BY <2>1 DEF RequestShape, Uncancelled, Target
  <2>3. /\ operation[r] = "start" => status' \in Active /\ UNCHANGED previous
        /\ operation[r] = "render" =>
              previous' = [previous EXCEPT ![r] = status] /\ status # "Rendering"
    BY <1>4, <2>1, <2>2 DEF Act, Target, UpdateSession, Active, StatusFits
  <2>4. Present'
    BY <2>1 DEF Present
  <2>5. operation[r] = "render" => Rendering(r)'
    BY <2>1, <1>1 DEF Rendering
  <2>6. QED
    BY <2>2, <2>3, <2>4, <2>5, <1>1 DEF Active
<1>5. CASE Log(r)
  <2>1. /\ request[r] = "log" /\ listed
        /\ UNCHANGED <<status, listed, directory, metadata, call, copy, poller>>
        /\ \/ /\ operation[r] = "start" /\ EnsureLoop
              /\ request' = [request EXCEPT ![r] = "none"]
              /\ operation' = [operation EXCEPT ![r] = "none"]
              /\ previous' = [previous EXCEPT ![r] = "none"]
           \/ /\ operation[r] = "render" /\ UNCHANGED <<operation, loop, previous>>
              /\ request' = [request EXCEPT ![r] = "encode"]
    BY <1>5 DEF Log, AfterGate, RequestGoes, Answered, loopVars, Uncancelled, Present
  <2>2. \A l \in Loops: loop'[l] = loop[l] \/ (loop[l] = "none" /\ loop'[l] = "top")
    BY <2>1 DEF EnsureLoop, Free, loopVars
  <2>3. Present'
    BY <2>1, <2>2 DEF Present, NobodyPersists
  <2>4. \A p \in Clients: Rendering(p) => Rendering(p)'
    BY <2>1, <2>2, <1>1 DEF Rendering
  <2>5. QED
    BY <2>1, <2>3, <2>4
<1>6. CASE Encode(r)
  <2>1. /\ request[r] = "encode" /\ listed /\ directory
        /\ UNCHANGED <<status, listed, directory, metadata, call, copy, loop, poller, operation, previous>>
        /\ request' = [request EXCEPT ![r] = "ffmpeg"]
    BY <1>6 DEF Encode, MakeDirectory, RequestGoes, loopVars, Present
  <2>2. Present'
    BY <2>1 DEF Present, NobodyPersists
  <2>3. \A p \in Clients: Rendering(p) => Rendering(p)'
    BY <2>1, <1>1 DEF Rendering
  <2>4. QED
    BY <2>1, <2>2, <2>3
<1>7. CASE RenderEnds(r)
  <2>1. /\ request[r] = "ffmpeg" /\ listed /\ directory
        /\ request' = [request EXCEPT ![r] = "logEnd"]
        /\ listed' = TRUE /\ call' = [call EXCEPT ![r] = "queued"]
        /\ UNCHANGED <<directory, metadata, loop, operation, poller, previous>>
        /\ status' # "Rendering"
    BY <1>7 DEF RenderEnds, RequestGoes, loopVars, UpdateSession, Goes, Present
  <2>2. Present'
    BY <2>1 DEF Present
  <2>3. QED
    BY <2>1, <2>2
<1>8. CASE RenderAnswers(r) \/ PreviewEnds(r) \/ Answer(r)
  <2>1. /\ \/ /\ request' = [request EXCEPT ![r] = "none"]
              /\ operation' = [operation EXCEPT ![r] = "none"]
              /\ previous' = [previous EXCEPT ![r] = "none"]
              /\ request[r] \in {"answer", "logEnd"}
           \/ /\ request' = [request EXCEPT ![r] = "answer"]
              /\ UNCHANGED <<operation, previous>>
              /\ request[r] = "ffmpeg" /\ operation[r] = "preview"
        /\ request[r] = "answer" \/ (listed /\ directory)
        /\ UNCHANGED <<status, directory, metadata, loop, poller>>
        /\ listed' = listed
        /\ call' = call \/ (request[r] # "answer" /\ call' = [call EXCEPT ![r] = "queued"])
    BY <1>8 DEF RenderAnswers, PreviewEnds, Answer, RequestGoes, Answered, loopVars,
          UpdateSession, Goes, Present
  <2>2. Present'
    BY <2>1 DEF Present, NobodyPersists
  <2>3. \A p \in Clients: Rendering(p) => Rendering(p)'
    BY <2>1, <1>1 DEF Rendering
  <2>4. QED
    BY <2>1, <2>2, <2>3
<1>9. CASE LogThrows(r) \/ EncodeThrows(r) \/ Select(r) \/ Remove(r) \/ RequestThrows(r)
  BY <1>1, <1>9 DEF LogThrows, EncodeThrows, Select, Remove, RequestThrows, Throw, Present,
        CanThrow
<1>10. CASE Lookup(r) \/ Unregister(r) \/ Signal(r) \/ SignalThrows(r)
  BY <1>10 DEF Lookup, Unregister, Signal, SignalThrows, Uncancelled
<1>11. QED
  BY <1>3, <1>4, <1>5, <1>6, <1>7, <1>8, <1>9, <1>10 DEF RequestStep

\* A step inside a call of the store, when nobody deletes.
LEMMA StorePresent ==
    ASSUME Exclusive, Present, Rendered, Faults \subseteq {"persist", "delete"},
           NEW c \in Clients, StoreStep(c)
    PROVE  Present' /\ Rendered'
<1> USE DEF Exclusive, Typed, TypeOK, StoreTypeOK, Rendered, RenderingHasRenderer
<1>1. /\ UNCHANGED <<status, loop, request, operation, previous, poller>>
      /\ \/ /\ call[c] = "creating" /\ listed' = TRUE /\ directory' = TRUE /\ ~listed
            /\ status = "Ready" /\ call' = [call EXCEPT ![c] = "queued"]
            /\ UNCHANGED metadata
         \/ /\ call[c] \in {"queued", "writing"} /\ directory
            /\ UNCHANGED <<listed, directory>>
            /\ call' = [call EXCEPT ![c] = "writing"] \/ call' = [call EXCEPT ![c] = "none"]
  BY DEF StoreStep, loopVars, requestVars, CreateSession, Persisting, Serialize, Replace,
         Deleting, RemoveDirectory, RemoveMetadata, Confirm, Unlist, Goes, Present,
         NobodyPersists
<1>2. Present'
  <2>1. CASE call[c] = "creating"
    BY <1>1, <2>1 DEF Present
  <2>2. CASE call[c] # "creating"
    BY <1>1, <2>2 DEF Present
  <2>3. QED
    BY <2>1, <2>2
<1>3. \A p \in Clients: Rendering(p) => Rendering(p)'
  BY <1>1 DEF Rendering
<1>4. QED
  BY <1>1, <1>2, <1>3

LEMMA ServicePresent ==
    ASSUME Operations \subseteq {"start", "render", "preview"}, Faults \subseteq {"persist", "delete"},
           Exclusive, Present, Rendered, [Next]_vars
    PROVE  Present' /\ Rendered'
<1> USE DEF Exclusive, Typed, TypeOK, StoreTypeOK, storeVars
<1>1. ASSUME NEW l \in Loops, LoopStep(l) PROVE Present' /\ Rendered'
  BY <1>1, LoopPresent
<1>2. ASSUME NEW r \in Requests, RequestStep(r) PROVE Present' /\ Rendered'
  BY <1>2, RequestPresent
<1>3. ASSUME NEW c \in Clients, StoreStep(c) PROVE Present' /\ Rendered'
  BY <1>3, StorePresent
<1>4. ASSUME NEW r \in Requests, NEW o \in Operations, Receive(r, o)
      PROVE  Present' /\ Rendered'
  <2>1. o \in {"start", "render", "preview"}
    OBVIOUS
  <2>2. /\ request[r] = "none"
        /\ request' = [request EXCEPT ![r] = FirstStep[o]]
        /\ FirstStep[o] \in {"gate", "find"}
        /\ operation' = [operation EXCEPT ![r] = o]
        /\ UNCHANGED <<status, listed, directory, metadata, call, copy, loop, poller, previous>>
    BY <1>4, <2>1 DEF Receive, RequestAt, FirstStep, loopVars
  <2>3. Present'
    BY <2>2 DEF Present, NobodyPersists
  <2>4. \A p \in Clients: Rendering(p) => Rendering(p)'
    BY <2>2, TasksAssumption DEF Rendering
  <2>5. QED
    BY <2>2, <2>3, <2>4 DEF Rendered, RenderingHasRenderer
<1>5. CASE PollerScans \/ PollerEnsures
  <2>1. /\ UNCHANGED <<status, listed, directory, metadata, call, copy, request, operation, previous>>
        /\ listed
        /\ \A l \in Loops: loop'[l] = loop[l] \/ (loop[l] = "none" /\ loop'[l] = "top")
    BY <1>5 DEF PollerScans, PollerEnsures, EnsureLoop, Free, loopVars, requestVars, Present
  <2>2. Present'
    BY <2>1 DEF Present, NobodyPersists
  <2>3. \A p \in Clients: Rendering(p) => Rendering(p)'
    BY <2>1, TasksAssumption DEF Rendering
  <2>4. QED
    BY <2>1, <2>2, <2>3 DEF Rendered, RenderingHasRenderer
<1>6. CASE Crash
  <2>1. /\ listed' = (metadata # "none") /\ UNCHANGED <<directory, metadata>>
        /\ call' = [c \in Clients |-> "none"] /\ poller' = FALSE
        /\ loop' = [l \in Loops |-> "none"] /\ request' = [r \in Requests |-> "none"]
        /\ previous' = [r \in Requests |-> "none"]
        /\ metadata # "none" => status' # "Rendering"
    BY <1>6 DEF Crash, Restart, Reload
  <2>2. Present'
    BY <2>1 DEF Present, NobodyPersists
  <2>3. QED
    BY <2>1, <2>2 DEF Rendered, RenderingHasRenderer
<1>7. ASSUME NEW r \in Requests, Abandon(r) PROVE Present' /\ Rendered'
  <2>1. /\ request[r] = "gate"
        /\ request' = [request EXCEPT ![r] = "none"]
        /\ operation' = [operation EXCEPT ![r] = "none"]
        /\ previous' = [previous EXCEPT ![r] = "none"]
        /\ UNCHANGED <<status, listed, directory, metadata, call, copy, loop, poller>>
    BY <1>7 DEF Abandon, Answered, RequestAt, loopVars
  <2>2. Present'
    BY <2>1 DEF Present, NobodyPersists
  <2>3. \A p \in Clients: Rendering(p) => Rendering(p)'
    BY <2>1, TasksAssumption DEF Rendering
  <2>4. QED
    BY <2>1, <2>2, <2>3 DEF Rendered, RenderingHasRenderer
<1>8. CASE UNCHANGED vars
  <2>1. Present'
    BY <1>8 DEF vars, loopVars, requestVars, Present, NobodyPersists
  <2>2. \A p \in Clients: Rendering(p) <=> Rendering(p)'
    BY <1>8 DEF vars, loopVars, requestVars, Rendering
  <2>3. QED
    BY <1>8, <2>1, <2>2 DEF vars, loopVars, requestVars, Rendered, RenderingHasRenderer
<1>9. QED
  BY <1>1, <1>2, <1>3, <1>4, <1>5, <1>6, <1>7, <1>8 DEF Next

LEMMA InitPresent == Init => Present /\ Rendered
<1> SUFFICES ASSUME Init
             PROVE  Present /\ Rendered
  OBVIOUS
<1>1. /\ loop = [l \in Loops |-> "none"] /\ request \in [Requests -> {"none", "answer"}]
      /\ previous = [r \in Requests |-> "none"] /\ poller = FALSE
      /\ status # "Rendering"
      /\ \/ /\ listed = TRUE /\ directory = TRUE /\ call = [c \in Clients |-> "none"]
         \/ /\ status = "Ready" /\ metadata = "none" /\ listed = FALSE
            /\ \E creator \in Clients:
                  call = [c \in Clients |-> IF c = creator THEN "creating" ELSE "none"]
  BY DEF Init, StoreInit, Reload
<1>2. Present
  BY <1>1 DEF Present, NobodyPersists
<1>3. QED
  BY <1>1, <1>2 DEF Rendered, RenderingHasRenderer

LEMMA AlwaysPresent ==
    ASSUME Operations \subseteq {"start", "render", "preview"}, Faults \subseteq {"persist", "delete"}
    PROVE  Spec => [](Exclusive /\ Present /\ Rendered)
<1>1. Operations \subseteq {"start", "render", "preview", "retention"}
  OBVIOUS
<1>2. Spec => []Exclusive
  BY <1>1, AlwaysExclusive
<1>3. Exclusive /\ Present /\ Rendered /\ [Next]_vars => (Present /\ Rendered)'
  BY ServicePresent
<1>4. QED
  BY <1>2, <1>3, InitPresent, PTL DEF Spec

\* With any schedule, failing saves and crashes, for any number of loops and
\* requests: while a session that is started, rendered and previewed says
\* Rendering, there is somebody whose next steps end that status.  (A pause can
\* take that somebody away, and the session stays Rendering: run stuck_rendering.)
THEOREM RenderingAlwaysHasRenderer ==
    ASSUME Operations \subseteq {"start", "render", "preview"}, Faults \subseteq {"persist", "delete"}
    PROVE  Spec => []RenderingHasRenderer
<1>1. Rendered => RenderingHasRenderer
  BY DEF Rendered
<1>2. QED
  BY <1>1, AlwaysPresent, PTL

-----------------------------------------------------------------------------
(* The lifecycle, for a session without a schedule.  What makes it inductive: *)
(* whoever starts a loop holds the gate and has seen that there is none, and  *)
(* the only status a render remembers is one it may go back to.               *)

Driven ==
    /\ status # "Scheduled" /\ metadata # "Scheduled" /\ ~poller
    /\ \A c \in Clients: copy[c] # "Scheduled"
    /\ listed /\ status = "Capturing" =>
          token # NoOne \/ \E r \in Requests: operation[r] = "start" /\ request[r] = "log"
    /\ \A l \in Loops:
          /\ loop[l] \notin {"resume", "logCapturing"}
          /\ loop[l] \in Encoding => status = "Rendering"
          /\ loop[l] \in {"finally", "logEnd"} => status # "Capturing"
    /\ \A r \in Requests:
          /\ operation[r] = "start" /\ request[r] \in {"act", "log"} => token = NoOne
          /\ operation[r] = "start" /\ request[r] = "act" => status \in {"Ready", "Paused", "Failed"}
          /\ request[r] = "logEnd" => operation[r] = "render" /\ status \notin Active \cup {"Rendering"}
          /\ previous[r] # "none" =>
                operation[r] = "render" /\ request[r] \in {"log", "encode", "ffmpeg", "logEnd"}
          /\ previous[r] \notin Active

Safe == Exclusive /\ Present /\ Rendered /\ Driven

\* There is nowhere a Cancelled to come from.
NeverCancelled ==
    /\ status # "Cancelled" /\ metadata # "Cancelled"
    /\ \A c \in Clients: copy[c] # "Cancelled"
    /\ \A r \in Requests: previous[r] # "Cancelled"

\* Without a schedule a loop turns only the Capturing that a start wrote, into
\* Rendering or Failed, and only its own Rendering, into Completed or Failed.
LEMMA LoopFollows ==
    ASSUME TypeOK, ~HasSchedule, Driven, NEW l \in Loops, LoopStep(l)
    PROVE  /\ loop'[l] \notin {"resume", "logCapturing"}
           /\ UNCHANGED copy
           /\ \/ status' = status
              \/ loop[l] \in Capturing /\ status' = "Rendering"
              \/ loop[l] \in Capturing /\ status' = "Failed" /\ loop'[l] \notin Encoding
              \/ loop[l] = "publish" /\ status' \in {"Completed", "Failed"} /\ loop'[l] \notin Encoding
<1> USE DEF TypeOK, Driven, Capturing, Encoding, LoopAt, LoopGoes, storeVars
<1>1. CASE LoopTop(l) \/ LoopInsideWindow(l) \/ LoopNotDue(l) \/ LoopBeginsCapture(l)
  BY <1>1 DEF LoopTop, LoopInsideWindow, LoopNotDue, LoopBeginsCapture
<1>2. CASE LoopOutsideWindow(l) \/ LoopResume(l) \/ LoopDurationMet(l) \/ LoopRefused(l)
  BY <1>2 DEF LoopOutsideWindow, LoopResume, LoopDurationMet, LoopRefused, UpdateSession
<1>3. CASE LoopSnapshot(l) \/ LoopSnapshotFails(l) \/ LoopFrameLost(l)
  BY <1>3 DEF LoopSnapshot, LoopSnapshotFails, LoopFrameLost, MakeDirectory
<1>4. CASE LoopStoresFrame(l) \/ LoopCountsFailure(l) \/ LoopGivesUp(l) \/ LoopAdvances(l)
  BY <1>4 DEF LoopStoresFrame, LoopCountsFailure, LoopGivesUp, LoopAdvances, UpdateSession
<1>5. CASE LoopTolerates(l) \/ LoopBreaks(l) \/ LoopCatches(l) \/ LoopFinally(l)
  BY <1>5 DEF LoopTolerates, LoopBreaks, LoopCatches, LoopFinally
<1>6. CASE LoopEncodes(l) \/ LoopFfmpegEnds(l)
  BY <1>6 DEF LoopEncodes, LoopFfmpegEnds, MakeDirectory
<1>7. CASE LoopPublishes(l) \/ LoopDies(l)
  BY <1>7 DEF LoopPublishes, LoopDies, UpdateSession
<1>8. CASE LoopLogs(l) \/ LoopThrows(l)
  BY <1>8 DEF LoopLogs, AfterLog, LoopThrows, Throw
<1>9. QED
  BY <1>1, <1>2, <1>3, <1>4, <1>5, <1>6, <1>7, <1>8 DEF LoopStep, ControlStep, FrameStep

LifecycleStep == [Lifecycle!Next \/ Crash]_(Lifecycle!view)

LEMMA LoopDriven ==
    ASSUME Safe, ~HasSchedule, Faults \subseteq {"persist", "delete"}, NEW l \in Loops, LoopStep(l)
    PROVE  Driven' /\ LifecycleStep
<1> USE DEF Safe, Exclusive, Typed, TypeOK, StoreTypeOK
<1>1. /\ loop[l] # "none" /\ UNCHANGED requestVars /\ UNCHANGED poller /\ UNCHANGED metadata
      /\ token = l /\ l # NoOne
      /\ \A k \in Loops: k # l => loop'[k] = loop[k] /\ loop[k] = "none"
  BY LoopMoves, LoopChangesStatus, LoopIsKept, TasksAssumption DEF LoopFinally, LoopAt, OneLoop
<1>2. token' = l \/ (loop[l] = "finally" /\ status' = status)
  BY <1>1, LoopMoves DEF LoopFinally, LoopAt, storeVars
<1>3. loop[l] \in Capturing => status = "Capturing"
  BY DEF StatusFits, Driven, Active
<1>4. Driven'
  <2>1. status' # "Scheduled" /\ (status' = "Capturing" => status = "Capturing")
    BY LoopFollows DEF Driven
  <2>2. listed' /\ status' = "Capturing" => token' # NoOne
    BY <1>1, <1>2, <2>1 DEF Driven
  <2>3. /\ loop'[l] \notin {"resume", "logCapturing"} /\ UNCHANGED copy
        /\ loop'[l] \in Encoding => status' = "Rendering"
    BY LoopFollows, LoopChangesStatus DEF Driven
  <2>4. loop'[l] \in {"finally", "logEnd"} => status' # "Capturing"
    BY LoopIsKept DEF Driven
  <2>5. \A k \in Loops: k # l => loop'[k] = "none"
    BY <1>1
  <2>6. ASSUME NEW r \in Requests, request[r] = "logEnd"
        PROVE  status' = status
    <3>1. status \notin Active \cup {"Rendering"}
      BY <2>6 DEF Driven
    <3>2. loop[l] \notin Capturing \cup Encoding
      BY <3>1 DEF StatusFits
    <3>3. QED
      BY <3>2, LoopFollows DEF Encoding
  <2>7. \A r \in Requests: ~(operation[r] = "start" /\ request[r] \in {"act", "log"})
    BY <1>1 DEF Driven
  <2>8. QED
    BY <1>1, <2>1, <2>2, <2>3, <2>4, <2>5, <2>6, <2>7 DEF Driven, requestVars, Encoding
<1>5. LifecycleStep
  <2>1. UNCHANGED <<gate, previous>>
    BY <1>1 DEF requestVars
  <2>2. CASE status' = status
    BY <2>1, <2>2 DEF LifecycleStep, Lifecycle!view
  <2>3. CASE loop[l] \in Capturing /\ status' = "Rendering"
    <3>1. gate # NoOne => previous[gate] = "none"
      BY <1>3, <2>3 DEF StatusFits, Driven, Active
    <3>2. Lifecycle!Complete
      BY <1>3, <2>1, <2>3, <3>1 DEF Lifecycle!Complete
    <3>3. QED
      BY <3>2 DEF LifecycleStep, Lifecycle!Next
  <2>4. CASE loop[l] \in Capturing /\ status' = "Failed"
    <3>1. Lifecycle!Fail
      BY <1>3, <2>4 DEF Lifecycle!Fail, Lifecycle!Active
    <3>2. QED
      BY <3>1 DEF LifecycleStep, Lifecycle!Next
  <2>5. CASE loop[l] = "publish" /\ status' \in {"Completed", "Failed"}
    <3>1. status = "Rendering"
      BY <2>5 DEF Driven, Encoding
    <3>2. Lifecycle!Rendered
      BY <2>5, <3>1 DEF Lifecycle!Rendered
    <3>3. QED
      BY <3>2 DEF LifecycleStep, Lifecycle!Next
  <2>6. QED
    BY <2>2, <2>3, <2>4, <2>5, LoopFollows
<1>6. QED
  BY <1>4, <1>5

\* Nobody else is between "check" and "logEnd" while a request holds the gate.
LEMMA HolderAlone ==
    ASSUME Safe, NEW r \in Requests, Holds(r)
    PROVE  /\ gate = r /\ r # NoOne
           /\ \A q \in Requests: q # r => ~Holds(q) /\ previous[q] = "none"
  BY TasksAssumption DEF Safe, Exclusive, Gated, Holds, Driven

LEMMA RequestDriven ==
    ASSUME Safe, ~HasSchedule, Faults \subseteq {"persist", "delete"}, NEW r \in Requests, RequestStep(r)
    PROVE  Driven' /\ (status # "Cancelled" => LifecycleStep)
<1> USE DEF Safe, Exclusive, Typed, TypeOK, StoreTypeOK, RequestAt, storeVars
<1>1. r \in Clients /\ r \notin Loops /\ r # NoOne
  BY TasksAssumption
<1>2. CASE EnterGate(r) \/ Find(r)
  <2>1. /\ UNCHANGED <<status, listed, metadata, copy, token, loop, poller>>
        /\ request[r] \in {"gate", "find"} /\ previous[r] = "none"
        /\ \/ /\ request' = [request EXCEPT ![r] = "none"]
              /\ operation' = [operation EXCEPT ![r] = "none"]
              /\ previous' = [previous EXCEPT ![r] = "none"]
              /\ UNCHANGED gate
           \/ /\ \E step \in {"check", "encode"}: request' = [request EXCEPT ![r] = step]
              /\ UNCHANGED <<operation, previous>>
              /\ gate' = gate \/ (gate = NoOne /\ gate' = r)
    BY <1>2 DEF EnterGate, Find, RequestGoes, Answered, loopVars, Driven
  <2>2. Driven'
    BY <2>1 DEF Driven
  <2>3. UNCHANGED Lifecycle!view
    BY <2>1 DEF Lifecycle!view
  <2>4. QED
    BY <2>2, <2>3 DEF LifecycleStep
<1>3. CASE Check(r)
  <2>1. /\ UNCHANGED <<status, listed, metadata, copy, token, loop, poller>>
        /\ request[r] = "check" /\ previous[r] = "none" /\ gate = r
        /\ \A q \in Requests: q # r => request[q] \notin {"act", "log"}
        /\ \/ /\ request' = [request EXCEPT ![r] = "none"]
              /\ operation' = [operation EXCEPT ![r] = "none"]
              /\ previous' = [previous EXCEPT ![r] = "none"]
              /\ gate' = NoOne
           \/ /\ request' = [request EXCEPT ![r] = "act"] /\ Accepts(operation[r])
              /\ UNCHANGED <<operation, previous, gate>>
    BY <1>3, HolderAlone DEF Check, AfterGate, RequestGoes, Answered, loopVars, Driven, Holds,
          Uncancelled
  <2>2. operation[r] = "start" /\ Accepts(operation[r]) =>
           token = NoOne /\ status \in {"Ready", "Paused", "Failed"}
    <3>1. operation[r] = "start" /\ Accepts(operation[r]) =>
             listed /\ token = NoOne /\ status \notin {"Completed", "Cancelled", "Rendering"}
      BY DEF Accepts
    <3>2. listed /\ token = NoOne => status # "Capturing"
      BY <2>1 DEF Driven
    <3>3. QED
      BY <3>1, <3>2 DEF Driven, Status
  <2>3. Driven'
    BY <2>1, <2>2 DEF Driven
  <2>4. UNCHANGED Lifecycle!view
    BY <2>1 DEF Lifecycle!view
  <2>5. QED
    BY <2>3, <2>4 DEF LifecycleStep
<1>4. CASE Act(r)
  <2>1. /\ request[r] = "act" /\ listed /\ gate = r
        /\ request' = [request EXCEPT ![r] = "log"]
        /\ UNCHANGED <<metadata, copy, token, loop, operation, poller, gate>>
        /\ \A q \in Requests: q # r => ~Holds(q) /\ previous[q] = "none"
    BY <1>4, HolderAlone DEF Act, loopVars, UpdateSession, Present, Holds
  <2>2. operation[r] \in {"start", "render"}
    BY <2>1 DEF RequestShape, Uncancelled, Target
  <2>3. CASE operation[r] = "start"
    <3>1. /\ status' = "Capturing" /\ UNCHANGED previous /\ token = NoOne
          /\ status \in {"Ready", "Paused", "Failed"}
      BY <1>4, <2>1, <2>3 DEF Act, Target, UpdateSession, Driven
    <3>2. \A l \in Loops: loop[l] = "none"
      BY <3>1, TasksAssumption DEF OneLoop
    <3>3. Driven'
      BY <2>1, <2>3, <3>1, <3>2 DEF Driven, Holds, Encoding
    <3>4. Lifecycle!Start
      BY <3>1 DEF Lifecycle!Start, Lifecycle!Active
    <3>5. QED
      BY <3>3, <3>4 DEF LifecycleStep, Lifecycle!Next
  <2>4. CASE operation[r] = "render"
    <3>1. /\ status' = "Rendering" /\ previous' = [previous EXCEPT ![r] = status]
          /\ status \notin Active \cup {"Rendering"}
      BY <1>4, <2>1, <2>4 DEF Act, Target, UpdateSession, StatusFits
    <3>2. Driven'
      BY <2>1, <2>4, <3>1 DEF Driven, Holds, Encoding
    <3>3. previous'[r] = status /\ gate' = r
      BY <2>1, <3>1
    <3>4. status \in Lifecycle!Resting
      BY <3>1 DEF Lifecycle!Resting, Status, Active
    <3>5. status # "Cancelled" => Lifecycle!Render
      BY <1>1, <3>1, <3>3, <3>4 DEF Lifecycle!Render, Lifecycle!RenderFrom
    <3>6. QED
      BY <3>2, <3>5 DEF LifecycleStep, Lifecycle!Next
  <2>5. QED
    BY <2>2, <2>3, <2>4
<1>5. CASE Log(r)
  <2>1. /\ request[r] = "log" /\ gate = r
        /\ UNCHANGED <<status, listed, metadata, copy, poller>>
        /\ \/ /\ operation[r] = "start" /\ EnsureLoop
              /\ request' = [request EXCEPT ![r] = "none"]
              /\ operation' = [operation EXCEPT ![r] = "none"]
              /\ previous' = [previous EXCEPT ![r] = "none"]
              /\ gate' = NoOne
           \/ /\ operation[r] = "render" /\ UNCHANGED <<operation, token, loop, previous, gate>>
              /\ request' = [request EXCEPT ![r] = "encode"]
        /\ \A q \in Requests: q # r => ~Holds(q)
    BY <1>5, HolderAlone DEF Log, AfterGate, RequestGoes, Answered, loopVars, Uncancelled, Holds
  <2>2. CASE operation[r] = "start"
    <3>1. token = NoOne /\ previous[r] = "none"
      BY <2>1, <2>2 DEF Driven
    <3>2. PICK l \in Loops: token' = l /\ loop' = [loop EXCEPT ![l] = "top"]
      BY <2>1, <2>2, <3>1 DEF EnsureLoop
    <3>3. token' # NoOne
      BY <3>2, TasksAssumption
    <3>4. \A k \in Loops: loop'[k] = loop[k] \/ loop'[k] = "top"
      BY <3>2
    <3>5. Driven'
      BY <2>1, <2>2, <3>1, <3>3, <3>4 DEF Driven, Holds, Encoding
    <3>6. UNCHANGED Lifecycle!view
      BY <2>1, <2>2, <3>1 DEF Lifecycle!view
    <3>7. QED
      BY <3>5, <3>6 DEF LifecycleStep
  <2>3. CASE operation[r] = "render"
    <3>1. Driven'
      BY <2>1, <2>3 DEF Driven
    <3>2. UNCHANGED Lifecycle!view
      BY <2>1, <2>3 DEF Lifecycle!view
    <3>3. QED
      BY <3>1, <3>2 DEF LifecycleStep
  <2>4. QED
    BY <2>1, <2>2, <2>3
<1>6. CASE Encode(r)
  <2>1. /\ request[r] = "encode" /\ request' = [request EXCEPT ![r] = "ffmpeg"]
        /\ UNCHANGED <<status, listed, metadata, copy, token, loop, poller, operation, previous, gate>>
    BY <1>6 DEF Encode, MakeDirectory, RequestGoes, loopVars
  <2>2. Driven'
    BY <2>1 DEF Driven
  <2>3. UNCHANGED Lifecycle!view
    BY <2>1 DEF Lifecycle!view
  <2>4. QED
    BY <2>2, <2>3 DEF LifecycleStep
<1>7. CASE RenderEnds(r)
  <2>1. /\ request[r] = "ffmpeg" /\ operation[r] = "render" /\ gate = r /\ status = "Rendering"
        /\ request' = [request EXCEPT ![r] = "logEnd"]
        /\ UNCHANGED <<metadata, copy, token, loop, operation, poller, previous, gate>>
        /\ status' \in {"Completed", "Failed", previous[r]}
        /\ \A q \in Requests: q # r => ~Holds(q)
        /\ \A l \in Loops: loop[l] \notin Encoding
    BY <1>7, HolderAlone DEF RenderEnds, RequestGoes, loopVars, UpdateSession, Holds, StatusFits
  <2>2. previous[r] \in Status /\ previous[r] \notin Active \cup {"Rendering"}
    BY <2>1 DEF RequestShape, Driven, Rendered
  <2>3. status' \notin Active \cup {"Rendering"}
    BY <2>1, <2>2 DEF Active
  <2>4. Driven'
    BY <2>1, <2>3 DEF Driven, Holds, Active
  <2>5. Lifecycle!Rendered
    BY <1>1, <2>1, <2>2, <2>3 DEF Lifecycle!Rendered, Status
  <2>6. QED
    BY <2>4, <2>5 DEF LifecycleStep, Lifecycle!Next
<1>8. CASE RenderAnswers(r) \/ Answer(r)
  <2>1. /\ request' = [request EXCEPT ![r] = "none"]
        /\ operation' = [operation EXCEPT ![r] = "none"]
        /\ previous' = [previous EXCEPT ![r] = "none"]
        /\ UNCHANGED <<status, listed, metadata, copy, token, loop, poller>>
        /\ \/ gate' = NoOne /\ gate = r /\ status # "Rendering" /\ request[r] = "logEnd"
           \/ UNCHANGED gate /\ request[r] = "answer"
    BY <1>8, HolderAlone DEF RenderAnswers, Answer, Answered, loopVars, Holds, Driven
  <2>2. /\ request[r] = "logEnd" \/ previous[r] = "none"
        /\ request[r] \in {"logEnd", "answer"}
    BY <2>1 DEF Driven
  <2>3. Driven'
    <3>1. \A q \in Requests: q # r =>
             request'[q] = request[q] /\ operation'[q] = operation[q] /\ previous'[q] = previous[q]
      BY <2>1
    <3>2. request'[r] = "none" /\ operation'[r] = "none" /\ previous'[r] = "none"
      BY <2>1
    <3>3. listed' /\ status' = "Capturing" =>
             \/ token' # NoOne
             \/ \E q \in Requests: operation'[q] = "start" /\ request'[q] = "log"
      BY <2>1, <2>2, <3>1 DEF Driven
    <3>4. QED
      BY <2>1, <3>1, <3>2, <3>3 DEF Driven, Active
  <2>4. UNCHANGED Lifecycle!view
    BY <2>1, <2>2 DEF Lifecycle!view
  <2>5. QED
    BY <2>3, <2>4 DEF LifecycleStep
<1>9. CASE LogThrows(r) \/ EncodeThrows(r) \/ Select(r) \/ Remove(r) \/ RequestThrows(r)
  BY <1>1, <1>9 DEF LogThrows, EncodeThrows, Select, Remove, RequestThrows, Throw, Present,
        CanThrow
<1>10. CASE Lookup(r) \/ Unregister(r) \/ Signal(r) \/ SignalThrows(r)
  BY <1>10 DEF Lookup, Unregister, Signal, SignalThrows, Uncancelled
<1>11. CASE PreviewEnds(r)
  <2>1. /\ request[r] = "ffmpeg" /\ operation[r] = "preview"
        /\ request' = [request EXCEPT ![r] = "answer"]
        /\ UNCHANGED <<status, metadata, copy, token, loop, operation, poller, previous, gate>>
        /\ listed' = listed
    BY <1>11 DEF PreviewEnds, RequestGoes, loopVars, UpdateSession, Present
  <2>2. Driven'
    BY <2>1 DEF Driven
  <2>3. UNCHANGED Lifecycle!view
    BY <2>1 DEF Lifecycle!view
  <2>4. QED
    BY <2>2, <2>3 DEF LifecycleStep
<1>12. QED
  BY <1>2, <1>3, <1>4, <1>5, <1>6, <1>7, <1>8, <1>9, <1>10, <1>11 DEF RequestStep

LEMMA ServiceDriven ==
    ASSUME Operations \subseteq {"start", "render", "preview"}, Faults \subseteq {"persist", "delete"}, ~HasSchedule,
           Safe, [Next]_vars
    PROVE  Driven' /\ (status # "Cancelled" => LifecycleStep)
<1> USE DEF Safe, Exclusive, Typed, TypeOK, StoreTypeOK, storeVars
<1>1. ASSUME NEW l \in Loops, LoopStep(l) PROVE Driven' /\ (status # "Cancelled" => LifecycleStep)
  BY <1>1, LoopDriven
<1>2. ASSUME NEW r \in Requests, RequestStep(r) PROVE Driven' /\ (status # "Cancelled" => LifecycleStep)
  BY <1>2, RequestDriven
<1>3. ASSUME NEW c \in Clients, StoreStep(c) PROVE Driven' /\ (status # "Cancelled" => LifecycleStep)
  <2>1. /\ UNCHANGED <<status, token, loop, gate, request, operation, previous, poller>>
        /\ metadata' # "Scheduled" /\ \A d \in Clients: copy'[d] # "Scheduled"
        /\ listed' => listed \/ status = "Ready"
    BY <1>3 DEF StoreStep, loopVars, requestVars, CreateSession, Persisting, Serialize, Replace,
          Deleting, RemoveDirectory, RemoveMetadata, Confirm, Unlist, Driven, Present
  <2>2. Driven'
    BY <2>1 DEF Driven
  <2>3. UNCHANGED Lifecycle!view
    BY <2>1 DEF Lifecycle!view
  <2>4. QED
    BY <2>2, <2>3 DEF LifecycleStep
<1>4. ASSUME NEW r \in Requests, NEW o \in Operations, Receive(r, o)
      PROVE  Driven' /\ (status # "Cancelled" => LifecycleStep)
  <2>1. o \in {"start", "render", "preview"}
    OBVIOUS
  <2>2. /\ request[r] = "none"
        /\ request' = [request EXCEPT ![r] = FirstStep[o]]
        /\ FirstStep[o] \in {"gate", "find"}
        /\ operation' = [operation EXCEPT ![r] = o]
        /\ UNCHANGED <<status, listed, metadata, copy, token, loop, gate, poller, previous>>
    BY <1>4, <2>1 DEF Receive, RequestAt, FirstStep, loopVars
  <2>3. Driven'
    BY <2>2 DEF Driven
  <2>4. UNCHANGED Lifecycle!view
    BY <2>2 DEF Lifecycle!view
  <2>5. QED
    BY <2>3, <2>4 DEF LifecycleStep
<1>5. CASE PollerScans \/ PollerEnsures
  BY <1>5 DEF PollerScans, PollerEnsures, Driven
<1>6. CASE Crash
  <2>1. /\ listed' = (metadata # "none") /\ UNCHANGED metadata
        /\ copy' = [c \in Clients |-> "none"] /\ poller' = FALSE
        /\ loop' = [l \in Loops |-> "none"] /\ request' = [r \in Requests |-> "none"]
        /\ previous' = [r \in Requests |-> "none"] /\ token' = NoOne
        /\ status' # "Scheduled"
        /\ metadata # "none" => status' # "Capturing"
    BY <1>6 DEF Crash, Restart, Reload, Driven
  <2>2. Driven'
    BY <2>1 DEF Driven, Encoding, Active
  <2>3. QED
    BY <1>6, <2>2 DEF LifecycleStep
<1>7. ASSUME NEW r \in Requests, Abandon(r) PROVE Driven' /\ (status # "Cancelled" => LifecycleStep)
  <2>1. /\ request[r] = "gate" /\ previous[r] = "none"
        /\ request' = [request EXCEPT ![r] = "none"]
        /\ operation' = [operation EXCEPT ![r] = "none"]
        /\ previous' = [previous EXCEPT ![r] = "none"]
        /\ UNCHANGED <<status, listed, metadata, copy, token, loop, gate, poller>>
    BY <1>7 DEF Abandon, Answered, RequestAt, loopVars, Driven
  <2>2. Driven'
    BY <2>1 DEF Driven
  <2>3. UNCHANGED Lifecycle!view
    BY <2>1 DEF Lifecycle!view
  <2>4. QED
    BY <2>2, <2>3 DEF LifecycleStep
<1>8. CASE UNCHANGED vars
  <2>1. Driven'
    BY <1>8 DEF vars, loopVars, requestVars, Driven
  <2>2. UNCHANGED Lifecycle!view
    BY <1>8 DEF vars, loopVars, requestVars, Lifecycle!view
  <2>3. QED
    BY <2>1, <2>2 DEF LifecycleStep
<1>9. QED
  BY <1>1, <1>2, <1>3, <1>4, <1>5, <1>6, <1>7, <1>8 DEF Next

LEMMA InitDriven ==
    ASSUME Init, ~HasSchedule
    PROVE  Driven /\ Lifecycle!Init
<1>1. /\ token = NoOne /\ gate = NoOne /\ poller = FALSE
      /\ loop = [l \in Loops |-> "none"] /\ request \in [Requests -> {"none", "answer"}]
      /\ previous = [r \in Requests |-> "none"] /\ copy = [c \in Clients |-> "none"]
      /\ status # "Scheduled" /\ metadata # "Scheduled"
      /\ status \in Status \ {"Capturing", "Rendering"}
  BY DEF Init, StoreInit, Reload, Status
<1>2. Driven
  BY <1>1 DEF Driven, Encoding, Active
<1>3. Lifecycle!Init
  BY <1>1 DEF Lifecycle!Init, Lifecycle!Resting, Status
<1>4. QED
  BY <1>2, <1>3

LEMMA AlwaysSafe ==
    ASSUME Operations \subseteq {"start", "render", "preview"}, Faults \subseteq {"persist", "delete"}, ~HasSchedule
    PROVE  Spec => []Safe
<1>1. Spec => [](Exclusive /\ Present /\ Rendered)
  BY AlwaysPresent
<1>2. Safe /\ [Next]_vars => Driven'
  BY ServiceDriven
<1>3. Init => Driven
  BY InitDriven
<1>4. QED
  BY <1>1, <1>2, <1>3, PTL DEF Spec, Safe

\* With failing saves and crashes, for any number of loops and requests: a session
\* without a schedule that says Capturing has a loop, or the request that holds the
\* gate is about to register one; nobody else would.
THEOREM CapturingAlwaysHasLoop ==
    ASSUME Operations \subseteq {"start", "render", "preview"}, Faults \subseteq {"persist", "delete"}, ~HasSchedule
    PROVE  Spec => []CapturingHasLoop
<1>1. Safe => CapturingHasLoop
  <2> SUFFICES ASSUME Safe, listed, status = "Capturing", token = NoOne
               PROVE  \E r \in Requests: gate = r /\ operation[r] = "start" /\ request[r] = "log"
    BY DEF CapturingHasLoop
  <2>1. PICK r \in Requests: operation[r] = "start" /\ request[r] = "log"
    BY DEF Safe, Driven
  <2>2. gate = r
    BY <2>1, HolderAlone DEF Holds
  <2>3. QED
    BY <2>1, <2>2
<1>2. QED
  BY <1>1, AlwaysSafe, PTL

\* A session that was not Cancelled before does not become so.
LEMMA NeverCancelledStep ==
    ASSUME Operations \subseteq {"start", "render", "preview"}, Faults \subseteq {"persist", "delete"}, ~HasSchedule,
           Safe, NeverCancelled, [Next]_vars
    PROVE  NeverCancelled'
<1> USE DEF Safe, Exclusive, Typed, TypeOK, StoreTypeOK, storeVars, NeverCancelled
<1>1. ASSUME NEW l \in Loops, LoopStep(l) PROVE NeverCancelled'
  <2>1. UNCHANGED <<copy, metadata>> /\ status' # "Cancelled"
    BY <1>1, LoopFollows, LoopIsKept
  <2>2. UNCHANGED previous
    BY <1>1, LoopMoves DEF LoopFinally, requestVars
  <2>3. QED
    BY <2>1, <2>2
<1>2. ASSUME NEW r \in Requests, RequestStep(r) PROVE NeverCancelled'
  <2>1. CASE Act(r)
    <3>1. operation[r] \in {"start", "render"}
      BY <2>1 DEF Act, RequestAt, RequestShape, Uncancelled, Target
    <3>2. status' # "Cancelled" /\ UNCHANGED <<copy, metadata>>
      BY <2>1, <3>1 DEF Act, Target, UpdateSession, Active
    <3>3. \A q \in Requests: previous'[q] \in {previous[q], status}
      BY <2>1 DEF Act
    <3>4. QED
      BY <3>2, <3>3
  <2>2. CASE RenderEnds(r)
    <3>1. status' \in {"Completed", "Failed", previous[r]} /\ UNCHANGED <<copy, metadata, previous>>
      BY <2>2 DEF RenderEnds, RequestGoes, UpdateSession
    <3>2. QED
      BY <3>1
  <2>3. CASE \/ EnterGate(r) \/ Check(r) \/ Log(r) \/ Find(r) \/ Encode(r) \/ RenderAnswers(r)
             \/ PreviewEnds(r) \/ Answer(r)
    <3>1. /\ UNCHANGED <<status, copy, metadata>>
          /\ previous' = previous \/ previous' = [previous EXCEPT ![r] = "none"]
      BY <2>3 DEF EnterGate, Check, AfterGate, Log, Find, Encode, MakeDirectory, RenderAnswers,
            PreviewEnds, UpdateSession, Answer, RequestGoes, Answered
    <3>2. QED
      BY <3>1
  <2>4. CASE LogThrows(r) \/ EncodeThrows(r) \/ Select(r) \/ Remove(r) \/ RequestThrows(r)
    BY <2>4, TasksAssumption DEF LogThrows, EncodeThrows, Select, Remove, RequestThrows, Throw,
          Present, CanThrow, RequestAt
  <2>5. CASE Lookup(r) \/ Unregister(r) \/ Signal(r) \/ SignalThrows(r)
    BY <2>5 DEF Lookup, Unregister, Signal, SignalThrows, Uncancelled, RequestAt
  <2>6. QED
    BY <1>2, <2>1, <2>2, <2>3, <2>4, <2>5 DEF RequestStep
<1>3. ASSUME NEW c \in Clients, StoreStep(c) PROVE NeverCancelled'
  <2>1. /\ UNCHANGED <<status, previous>>
        /\ metadata' \in {metadata, copy[c], "none"}
        /\ \A d \in Clients: copy'[d] \in {copy[d], status, "none"}
    BY <1>3 DEF StoreStep, requestVars, CreateSession, Persisting, Serialize, Replace, Deleting,
          RemoveDirectory, RemoveMetadata, Confirm, Unlist
  <2>2. QED
    BY <2>1
<1>4. ASSUME NEW r \in Requests, NEW o \in Operations, Receive(r, o) PROVE NeverCancelled'
  BY <1>4 DEF Receive
<1>5. CASE PollerScans \/ PollerEnsures \/ UNCHANGED vars
  BY <1>5 DEF PollerScans, PollerEnsures, vars, requestVars
<1>6. CASE Crash
  BY <1>6 DEF Crash, Restart, Reload
<1>7. ASSUME NEW r \in Requests, Abandon(r) PROVE NeverCancelled'
  BY <1>7 DEF Abandon, Answered
<1>8. QED
  BY <1>1, <1>2, <1>3, <1>4, <1>5, <1>6, <1>7 DEF Next

\* The refinement: for any number of loops and requests that start, render and
\* preview a session that is not Cancelled, with failing saves, between two crashes,
\* each step of theirs is a step of the session's lifecycle or does not show.
THEOREM ServiceFollowsLifecycle ==
    ASSUME Operations \subseteq {"start", "render", "preview"}, Faults \subseteq {"persist", "delete"}, ~HasSchedule
    PROVE  UncancelledSpec => FollowsLifecycle
<1>1. Init => Lifecycle!Init
  BY InitDriven
<1>2. Safe /\ NeverCancelled /\ [Next]_vars => [Lifecycle!Next \/ Crash]_(Lifecycle!view)
  BY ServiceDriven DEF LifecycleStep, NeverCancelled
<1>3. Init /\ status # "Cancelled" => NeverCancelled
  BY DEF Init, StoreInit, Reload, NeverCancelled
<1>4. Safe /\ NeverCancelled /\ [Next]_vars => NeverCancelled'
  BY NeverCancelledStep
<1>5. Spec => []Safe
  BY AlwaysSafe
<1>6. QED
  BY <1>1, <1>2, <1>3, <1>4, <1>5, PTL DEF Spec, UncancelledSpec, UncancelledInit, FollowsLifecycle

=============================================================================
