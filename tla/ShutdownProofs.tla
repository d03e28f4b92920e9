--------------------------- MODULE ShutdownProofs ---------------------------
(***************************************************************************)
(* What holds of a shutdown for any number of loops and requests, with or  *)
(* without faults.                                                         *)
(***************************************************************************)
EXTENDS Shutdown, CaptureServiceProofs

-----------------------------------------------------------------------------
(* Types.  Most steps are steps of the service; the others write tokens only. *)

LEMMA ShutdownUsesService ==
    ASSUME [ShutdownNext]_allVars
    PROVE  [Next]_vars \/ PollerFinishes \/ CancelAllLoops \/ CancelStoppingToken
<1>1. ASSUME NEW l \in Loops, LoopRuns(l)
      PROVE  Next
  BY <1>1 DEF LoopRuns, Next
<1>2. ASSUME NEW r \in Requests, RequestRuns(r)
      PROVE  Next
  BY <1>2 DEF RequestRuns, Next
<1>3. ASSUME NEW r \in Requests, Arrives(r)
      PROVE  Next
  BY <1>3 DEF Arrives, Next
<1>4. ASSUME NEW c \in Clients, StoreRuns(c)
      PROVE  Next
  BY <1>4 DEF StoreRuns, Next
<1>5. CASE PollerRuns
  BY <1>5 DEF PollerRuns, Next
<1>6. CASE \/ \E s \in Starters: StoreTask(s)
           \/ StopApplication \/ LookUpTasks \/ StopAsyncReturns
           \/ UNCHANGED allVars
  BY <1>6 DEF StoreTask, StopApplication, LookUpTasks, StopAsyncReturns, allVars
<1>7. QED
  BY <1>1, <1>2, <1>3, <1>4, <1>5, <1>6 DEF ShutdownNext, StopStep

LEMMA ShutdownTyped == Typed /\ [ShutdownNext]_allVars => Typed'
<1> SUFFICES ASSUME Typed, [ShutdownNext]_allVars
             PROVE  Typed'
  OBVIOUS
<1>1. CASE [Next]_vars
  <2>1. StoreTypeOK'
    BY <1>1, ServiceUsesStore, StoreTypeStep DEF Typed, TypeOK
  <2>2. QED
    BY <1>1, <2>1, ControlType DEF Typed, TypeOK, ControlTypeOK
<1> USE DEF Typed, TypeOK, RequestShape, requestVars
<1>2. CASE PollerFinishes \/ CancelAllLoops \/ CancelStoppingToken
  <2>1. UNCHANGED <<storeVars, requestVars>>
    BY <1>2 DEF PollerFinishes, CancelAllLoops, CancelStoppingToken
  <2>2. StoreTypeOK'
    BY <2>1, StoreTypeStep DEF StoreTypeOK, storeVars
  <2>3. /\ token' \in Loops \cup {NoOne}
        /\ cancelled' \in [Loops -> BOOLEAN]
        /\ loop' \in [Loops -> LoopSteps]
        /\ poller' \in BOOLEAN
    BY <1>2 DEF PollerFinishes, CancelAllLoops, CancelStoppingToken, loopVars, LoopSteps
  <2>4. QED
    BY <2>1, <2>2, <2>3
<1>3. QED
  BY <1>1, <1>2, ShutdownUsesService

-----------------------------------------------------------------------------
(* Nobody is left to start a loop: requests have ended before the loops are   *)
(* cancelled, and what the poller still starts is cancelled from the          *)
(* beginning.  That is why the tokens can be cancelled once and for all.      *)

Quiet ==
    /\ loop \in [Loops -> LoopSteps]
    /\ cancelled \in [Loops -> BOOLEAN]
    /\ phase \notin {"serving", "draining"} => \A r \in Requests: request[r] = "none"
    /\ phase \in {"stopping", "waiting", "stopped"} =>
           \A l \in Loops: loop[l] # "none" => cancelled[l]
    /\ phase \in {"waiting", "stopped"} => ~poller

\* A request that has been answered does nothing.
LEMMA AnsweredIsIdle ==
    ASSUME NEW r \in Requests, RequestStep(r)
    PROVE  request[r] # "none"
  BY DEF RequestStep, RequestAt, Lookup, Unregister, Signal, SignalThrows, EnterGate, Check,
      Act, Log, LogThrows, Find, Encode, EncodeThrows, RenderEnds, RenderAnswers, PreviewEnds,
      Select, Remove, Answer, RequestThrows

\* What a request may do to the loops.
LEMMA RequestOnLoops ==
    ASSUME NEW r \in Requests, RequestStep(r), loop \in [Loops -> LoopSteps],
           cancelled \in [Loops -> BOOLEAN]
    PROVE  /\ loop' \in [Loops -> LoopSteps]
           /\ cancelled' \in [Loops -> BOOLEAN]
           /\ UNCHANGED poller
<1> USE DEF RequestGoes, Answered, LoopSteps
<1>1. CASE Lookup(r) \/ Find(r) \/ Select(r) \/ EnterGate(r) \/ Encode(r) \/ RenderEnds(r)
  BY <1>1 DEF Lookup, Find, Select, EnterGate, Encode, RenderEnds, loopVars
<1>2. CASE Unregister(r) \/ Signal(r) \/ SignalThrows(r)
  BY <1>2 DEF Unregister, Signal, SignalThrows, loopVars
<1>3. CASE Check(r) \/ Act(r)
  BY <1>3 DEF Check, Act, AfterGate, loopVars
<1>4. CASE Log(r)
  BY <1>4 DEF Log, EnsureLoop, AfterGate, loopVars
<1>5. CASE \/ LogThrows(r) \/ EncodeThrows(r) \/ RenderAnswers(r) \/ PreviewEnds(r) \/ Remove(r)
           \/ Answer(r) \/ RequestThrows(r)
  BY <1>5 DEF LogThrows, EncodeThrows, RenderAnswers, PreviewEnds, Remove, Answer, RequestThrows,
        loopVars
<1>6. QED
  BY <1>1, <1>2, <1>3, <1>4, <1>5 DEF RequestStep

LEMMA QuietInit == ShutdownInit => Quiet
  BY DEF ShutdownInit, Init, Quiet, LoopSteps

LEMMA QuietStep == Quiet /\ [ShutdownNext]_allVars => Quiet'
<1> SUFFICES ASSUME Quiet, [ShutdownNext]_allVars
             PROVE  Quiet'
  OBVIOUS
<1>1. ASSUME NEW l \in Loops, LoopRuns(l)
      PROVE  Quiet'
  <2>1. CASE LoopFinally(l)
    BY <1>1, <2>1 DEF LoopRuns, LoopFinally, requestVars, Quiet, LoopSteps
  <2>2. CASE ~LoopFinally(l)
    <3>1. LoopStep(l) /\ UNCHANGED phase
      BY <1>1 DEF LoopRuns
    <3>2. loop[l] # "none" /\ UNCHANGED <<cancelled, requestVars, poller>>
      BY <2>2, <3>1, LoopMoves
    <3>3. PICK step \in LoopSteps \ {"none"}: loop' = [loop EXCEPT ![l] = step]
      BY <2>2, <3>1, LoopMoves
    <3>4. QED
      BY <3>1, <3>2, <3>3 DEF Quiet, requestVars
  <2>3. QED
    BY <2>1, <2>2
<1>2. ASSUME NEW r \in Requests, RequestRuns(r)
      PROVE  Quiet'
  <2>1. RequestStep(r) /\ UNCHANGED phase
    BY <1>2 DEF RequestRuns
  <2>2. phase \in {"serving", "draining"}
    BY <2>1, AnsweredIsIdle DEF Quiet
  <2>3. QED
    BY <2>1, <2>2, RequestOnLoops DEF Quiet
<1>3. ASSUME NEW r \in Requests, Arrives(r)
      PROVE  Quiet'
  BY <1>3 DEF Arrives, Abandon, Receive, Answered, loopVars, stopVars, Quiet
<1>4. ASSUME NEW c \in Clients, StoreRuns(c)
      PROVE  Quiet'
  BY <1>4 DEF StoreRuns, StoreStep, loopVars, requestVars, stopVars, Quiet
<1>5. ASSUME NEW s \in Starters, StoreTask(s)
      PROVE  Quiet'
  BY <1>5 DEF StoreTask, vars, loopVars, requestVars, Quiet
<1>6. CASE PollerRuns
  BY <1>6 DEF PollerRuns, PollerScans, PollerEnsures, EnsureLoop, loopVars, requestVars, Quiet,
        LoopSteps
<1>7. CASE PollerFinishes
  BY <1>7 DEF PollerFinishes, loopVars, requestVars, Quiet, LoopSteps
<1>8. CASE StopApplication \/ CancelAllLoops
  BY <1>8 DEF StopApplication, CancelAllLoops, RequestAt, vars, loopVars, requestVars, Quiet
<1>9. CASE CancelStoppingToken
  BY <1>9 DEF CancelStoppingToken, requestVars, Quiet
<1>10. CASE LookUpTasks \/ StopAsyncReturns
  BY <1>10 DEF LookUpTasks, StopAsyncReturns, vars, loopVars, requestVars, Quiet
<1>11. CASE UNCHANGED allVars
  BY <1>11 DEF allVars, vars, loopVars, requestVars, stopVars, Quiet
<1>12. QED
  BY <1>1, <1>2, <1>3, <1>4, <1>5, <1>6, <1>7, <1>8, <1>9, <1>10, <1>11
     DEF ShutdownNext, StopStep

\* However many loops there are, and whoever was starting or stopping them when the
\* service stopped, each one that outlives StopAsync has been told to stop.
THEOREM NoLoopEverGoesOn == ShutdownSpec => []NoLoopGoesOn
<1>1. Quiet => NoLoopGoesOn
  BY DEF Quiet, NoLoopGoesOn
<1>2. QED
  BY <1>1, QuietInit, QuietStep, PTL DEF ShutdownSpec

-----------------------------------------------------------------------------
(* The registry.  Without a schedule only requests register loops, one after  *)
(* the other: the next start comes to its registration when the last one has  *)
(* stored its task.                                                          *)

NeverScheduled ==
    /\ status # "Scheduled"
    /\ \A r \in Requests: previous[r] # "Scheduled"
    /\ ~poller

TaskKept ==
    /\ NeverScheduled
    /\ loop \in [Loops -> LoopSteps]
    /\ token \in Loops \cup {NoOne}
    /\ storing \in [Starters -> Loops \cup {NoOne}]
    /\ storing["poller"] = NoOne
    /\ token # NoOne => loop[token] # "none"
    /\ token # NoOne => task = token \/ storing["start"] = token
    /\ storing["start"] # NoOne => token \in {NoOne, storing["start"]}

\* The status a step writes.
LEMMA UpdateOnly ==
    ASSUME NEW c, NEW s, UpdateSession(c, s)
    PROVE  status' = s
  BY DEF UpdateSession

LEMMA LoopsWriteNoSchedule ==
    ASSUME ~HasSchedule, status # "Scheduled", NEW l \in Loops, LoopStep(l)
    PROVE  status' # "Scheduled"
<1>1. CASE LoopResume(l) \/ LoopDurationMet(l) \/ LoopRefused(l)
           \/ LoopStoresFrame(l) \/ LoopCountsFailure(l) \/ LoopGivesUp(l)
           \/ LoopAdvances(l) \/ LoopPublishes(l) \/ LoopDies(l)
  BY <1>1, UpdateOnly DEF LoopResume, LoopDurationMet, LoopRefused,
        LoopStoresFrame, LoopCountsFailure, LoopGivesUp, LoopAdvances, LoopPublishes, LoopDies
<1>2. CASE LoopSnapshot(l) \/ LoopEncodes(l)
  BY <1>2 DEF LoopSnapshot, LoopEncodes, MakeDirectory, storeVars
<1>3. CASE LoopTop(l) \/ LoopInsideWindow(l) \/ LoopNotDue(l) \/ LoopBeginsCapture(l)
           \/ LoopSnapshotFails(l) \/ LoopFrameLost(l) \/ LoopTolerates(l) \/ LoopBreaks(l)
           \/ LoopFfmpegEnds(l) \/ LoopLogs(l) \/ LoopCatches(l) \/ LoopFinally(l)
           \/ LoopThrows(l)
  BY <1>3 DEF LoopTop, LoopInsideWindow, LoopNotDue, LoopBeginsCapture, LoopSnapshotFails,
        LoopFrameLost, LoopTolerates, LoopBreaks, LoopFfmpegEnds, LoopLogs, LoopCatches,
        LoopFinally, LoopThrows, Throw, storeVars
<1>4. QED
  BY <1>1, <1>2, <1>3 DEF LoopStep, ControlStep, FrameStep, LoopOutsideWindow

LEMMA RequestsWriteNoSchedule ==
    ASSUME Typed, ~HasSchedule, NeverScheduled, NEW r \in Requests, RequestStep(r)
    PROVE  NeverScheduled'
<1> USE DEF NeverScheduled, RequestGoes, Answered, storeVars
<1>0. previous \in [Requests -> Status \cup {"none"}]
  BY DEF Typed, TypeOK
<1>1. CASE Lookup(r) \/ Find(r) \/ Select(r) \/ EnterGate(r)
  BY <1>0, <1>1 DEF Lookup, Find, Select, EnterGate
<1>2. CASE Unregister(r) \/ Signal(r) \/ SignalThrows(r)
  BY <1>0, <1>2 DEF Unregister, Signal, SignalThrows
<1>3. CASE Check(r)
  BY <1>0, <1>3 DEF Check, AfterGate
<1>4. CASE Log(r)
  BY <1>0, <1>4 DEF Log, AfterGate
<1>5. CASE Act(r)
  <2>1. operation[r] \in DOMAIN Target
    BY <1>5 DEF Act, RequestAt, Typed, RequestShape
  <2>2. \A o \in DOMAIN Target: "Scheduled" \notin Target[o]
    BY DEF Target
  <2>3. status' # "Scheduled" /\ UNCHANGED poller
    BY <1>5, <2>1, <2>2, UpdateOnly DEF Act
  <2>4. previous' = previous \/ previous' = [previous EXCEPT ![r] = status]
    BY <1>5 DEF Act
  <2>5. QED
    BY <1>0, <2>3, <2>4
<1>6. CASE RenderEnds(r)
  BY <1>0, <1>6, UpdateOnly DEF RenderEnds
<1>7. CASE PreviewEnds(r)
  BY <1>0, <1>7, UpdateOnly DEF PreviewEnds
<1>8. CASE Encode(r)
  BY <1>0, <1>8 DEF Encode, MakeDirectory
<1>9. CASE Remove(r)
  BY <1>0, <1>9 DEF Remove, DeleteSession
<1>10. CASE LogThrows(r) \/ EncodeThrows(r) \/ RenderAnswers(r) \/ Answer(r) \/ RequestThrows(r)
  BY <1>0, <1>10 DEF LogThrows, EncodeThrows, RenderAnswers, Answer, RequestThrows, Throw
<1>11. QED
  BY <1>1, <1>2, <1>3, <1>4, <1>5, <1>6, <1>7, <1>8, <1>9, <1>10 DEF RequestStep

\* What a request may do to the token: nothing, take it out, or register a loop.
LEMMA RequestOnToken ==
    ASSUME NEW r \in Requests, RequestStep(r), loop \in [Loops -> LoopSteps]
    PROVE  \/ UNCHANGED <<token, loop>>
           \/ token' = NoOne /\ UNCHANGED loop
           \/ token = NoOne /\ token' \in Loops /\ loop' = [loop EXCEPT ![token'] = "top"]
<1>1. CASE Lookup(r) \/ Find(r) \/ Select(r) \/ EnterGate(r) \/ Encode(r) \/ RenderEnds(r)
  BY <1>1 DEF Lookup, Find, Select, EnterGate, Encode, RenderEnds, loopVars
<1>2. CASE Unregister(r) \/ Signal(r) \/ SignalThrows(r)
  BY <1>2 DEF Unregister, Signal, SignalThrows, loopVars
<1>3. CASE Check(r) \/ Act(r)
  BY <1>3 DEF Check, Act, loopVars
<1>4. CASE Log(r)
  BY <1>4 DEF Log, EnsureLoop, loopVars
<1>5. CASE \/ LogThrows(r) \/ EncodeThrows(r) \/ RenderAnswers(r) \/ PreviewEnds(r) \/ Remove(r)
           \/ Answer(r) \/ RequestThrows(r)
  BY <1>5 DEF LogThrows, EncodeThrows, RenderAnswers, PreviewEnds, Remove, Answer, RequestThrows,
        loopVars
<1>6. QED
  BY <1>1, <1>2, <1>3, <1>4, <1>5 DEF RequestStep

LEMMA TaskKeptInit ==
    ASSUME ~HasSchedule
    PROVE  ShutdownInit => TaskKept
<1> SUFFICES ASSUME ShutdownInit
             PROVE  TaskKept
  OBVIOUS
<1>1. status # "Scheduled"
  BY DEF ShutdownInit, Init
<1>2. /\ token = NoOne /\ ~poller
      /\ loop = [l \in Loops |-> "none"]
      /\ previous = [r \in Requests |-> "none"]
      /\ storing = [s \in Starters |-> NoOne]
  BY DEF ShutdownInit, Init
<1>3. QED
  BY <1>1, <1>2 DEF TaskKept, NeverScheduled, LoopSteps, Starters

LEMMA TaskKeptStep ==
    ASSUME ~HasSchedule
    PROVE  Typed /\ TaskKept /\ [ShutdownNext]_allVars => TaskKept'
<1> SUFFICES ASSUME Typed, TaskKept, [ShutdownNext]_allVars
             PROVE  TaskKept'
  OBVIOUS
<1> USE DEF Starters
<1>0. NoOne \notin Loops
  BY TasksAssumption
<1>1. ASSUME NEW l \in Loops, LoopRuns(l)
      PROVE  TaskKept'
  <2>1. LoopStep(l) /\ UNCHANGED storing
    BY <1>1 DEF LoopRuns
  <2>2. status' # "Scheduled"
    BY <2>1, LoopsWriteNoSchedule DEF TaskKept, NeverScheduled
  <2>3. CASE LoopFinally(l)
    <3>1. NeverScheduled'
      BY <2>2, <2>3 DEF LoopFinally, requestVars, TaskKept, NeverScheduled
    <3>2. task' = IF task = l THEN NoOne ELSE task
      BY <1>1, <2>3 DEF LoopRuns, LoopFinally, Forget, TaskKept
    <3>3. /\ token' = IF token = l THEN NoOne ELSE token
          /\ loop' = [loop EXCEPT ![l] = "none"]
      BY <2>3 DEF LoopFinally
    <3>4. QED
      BY <1>0, <2>1, <3>1, <3>2, <3>3 DEF TaskKept, LoopSteps
  <2>4. CASE ~LoopFinally(l)
    <3>1. UNCHANGED <<token, requestVars, poller>>
      BY <2>1, <2>4, LoopMoves
    <3>2. PICK step \in LoopSteps \ {"none"}: loop' = [loop EXCEPT ![l] = step]
      BY <2>1, <2>4, LoopMoves
    <3>3. UNCHANGED task
      BY <1>1, <3>2 DEF LoopRuns, TaskKept
    <3>4. NeverScheduled'
      BY <2>2, <3>1 DEF requestVars, TaskKept, NeverScheduled
    <3>5. QED
      BY <2>1, <3>1, <3>2, <3>3, <3>4 DEF TaskKept
  <2>5. QED
    BY <2>3, <2>4
<1>2. ASSUME NEW r \in Requests, RequestRuns(r)
      PROVE  TaskKept'
  <2>1. RequestStep(r) /\ Registered("start") /\ UNCHANGED task
    BY <1>2 DEF RequestRuns
  <2>2. NeverScheduled'
    BY <2>1, RequestsWriteNoSchedule DEF TaskKept
  <2>3. CASE UNCHANGED <<token, loop>> \/ (token' = NoOne /\ UNCHANGED loop)
    <3>1. UNCHANGED storing
      BY <2>1, <2>3 DEF Registered
    <3>2. QED
      BY <2>1, <2>2, <2>3, <3>1 DEF TaskKept
  <2>4. CASE token = NoOne /\ token' \in Loops /\ loop' = [loop EXCEPT ![token'] = "top"]
    <3>1. storing' = [storing EXCEPT !["start"] = token']
      BY <1>0, <2>1, <2>4 DEF Registered
    <3>2. QED
      BY <2>1, <2>2, <2>4, <3>1 DEF TaskKept, LoopSteps
  <2>5. QED
    BY <2>1, <2>3, <2>4, RequestOnToken DEF TaskKept
<1>3. ASSUME NEW r \in Requests, Arrives(r)
      PROVE  TaskKept'
  <2>1. previous \in [Requests -> Status \cup {"none"}]
    BY DEF Typed, TypeOK
  <2>2. /\ UNCHANGED <<storeVars, loopVars, stopVars, poller>>
        /\ previous' = previous \/ previous' = [previous EXCEPT ![r] = "none"]
    BY <1>3 DEF Arrives, Abandon, Receive, Answered
  <2>3. NeverScheduled'
    BY <2>1, <2>2 DEF storeVars, TaskKept, NeverScheduled
  <2>4. QED
    BY <2>2, <2>3 DEF loopVars, stopVars, TaskKept
<1>4. ASSUME NEW c \in Clients, StoreRuns(c)
      PROVE  TaskKept'
  BY <1>4 DEF StoreRuns, StoreStep, CreateSession, Persisting, Serialize, Replace, Deleting,
        RemoveDirectory, RemoveMetadata, Confirm, Unlist, loopVars, requestVars, stopVars,
        TaskKept, NeverScheduled
<1>5. ASSUME NEW s \in Starters, StoreTask(s)
      PROVE  TaskKept'
  <2>1. s = "start"
    BY <1>5 DEF StoreTask, TaskKept
  <2>2. UNCHANGED vars
    BY <1>5 DEF StoreTask
  <2>3. /\ task' = IF loop[storing["start"]] = "none" THEN NoOne ELSE storing["start"]
        /\ storing["start"] # NoOne
        /\ storing' = [storing EXCEPT !["start"] = NoOne]
    BY <1>5, <2>1 DEF StoreTask
  <2>4. QED
    <3>1. NeverScheduled' /\ UNCHANGED <<loop, token>>
      BY <2>2 DEF vars, storeVars, loopVars, requestVars, TaskKept, NeverScheduled
    <3>2. token = NoOne \/ task' = token
      BY <1>0, <2>3 DEF TaskKept
    <3>3. QED
      BY <2>3, <3>1, <3>2 DEF TaskKept
<1>6. CASE PollerRuns \/ PollerFinishes
  BY <1>6 DEF PollerRuns, PollerFinishes, PollerScans, PollerEnsures, TaskKept, NeverScheduled
<1>7. CASE StopApplication \/ StopStep
  BY <1>7 DEF StopApplication, StopStep, CancelAllLoops, CancelStoppingToken, LookUpTasks,
        StopAsyncReturns, vars, storeVars, loopVars, requestVars, TaskKept, NeverScheduled
<1>8. CASE UNCHANGED allVars
  BY <1>8 DEF allVars, vars, storeVars, loopVars, requestVars, stopVars, TaskKept, NeverScheduled
<1>9. QED
  BY <1>1, <1>2, <1>3, <1>4, <1>5, <1>6, <1>7, <1>8 DEF ShutdownNext

\* For a session without a schedule, however many loops were told to stop and are
\* still running, the task that shutdown will find is the registered loop's.
THEOREM OwnerIsAlwaysAwaited ==
    ASSUME ~HasSchedule
    PROVE  ShutdownSpec => []OwnerIsAwaited
<1>1. TaskKept => OwnerIsAwaited
  BY TasksAssumption DEF TaskKept, OwnerIsAwaited, Starters
<1>2. ShutdownInit => Typed
  BY InitTyped DEF ShutdownInit
<1>3. QED
  BY <1>1, <1>2, TaskKeptInit, TaskKeptStep, ShutdownTyped, PTL DEF ShutdownSpec

=============================================================================
