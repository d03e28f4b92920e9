--------------------------- MODULE CaptureService ---------------------------
(***************************************************************************)
(* CaptureBackgroundService: the life of one session under its capture     *)
(* loops, the HTTP requests that act on it, the poller that wakes          *)
(* scheduled sessions, and retention.                                      *)
(*                                                                         *)
(* What makes this hard: Pause and Cancel ask a loop to stop but never     *)
(* wait for it, the gate that serializes requests is not taken by loops,   *)
(* previews, deletions or the poller, and everybody writes the status of   *)
(* one shared object.  So every `await` is a step boundary, and so is the  *)
(* gap between reading the status and writing it, since requests and loops *)
(* run on different threads.                                               *)
(*                                                                         *)
(* Time is abstract: whether the window is open, the next frame due and    *)
(* the duration met is chosen freely at each turn of a loop, and so is     *)
(* what the camera and FFmpeg answer.                                      *)
(***************************************************************************)
EXTENDS SessionStore

CONSTANTS
    Loops,      \* capture loops that may be alive at once (bound)
    Requests,   \* requests that may be under way at once (bound)
    NoOne,      \* nobody holds the gate, no loop is registered
    Operations, \* the operations requests may ask for
    HasSchedule,\* the session has a start time or windows, outside of which it waits
    Crashes     \* whether the process may die

ASSUME TasksAssumption ==
    /\ Clients = Loops \cup Requests
    /\ Loops \cap Requests = {}
    /\ NoOne \notin Clients

AllOperations == {"start", "pause", "cancel", "render", "preview", "delete", "retention"}

ASSUME OperationsAssumption ==
    /\ Operations \subseteq AllOperations
    /\ HasSchedule \in BOOLEAN
    /\ Crashes \in BOOLEAN

VARIABLES
    token,      \* the loop whose token source `_sessionTokens` holds, or NoOne
    cancelled,  \* which loops' token sources have been cancelled
    loop,       \* where each capture loop is ("none": ended, token source disposed)
    gate,       \* the request that holds the session's semaphore, or NoOne
    request,    \* where each request is
    operation,  \* what each request asks for
    victim,     \* the loop whose token source a request has taken out to cancel
    previous,   \* RenderVideoAsync's previousStatus
    poller      \* the poller has seen the session as Scheduled

loopVars == <<token, cancelled, loop>>
requestVars == <<gate, request, operation, victim, previous>>
vars == <<storeVars, loopVars, requestVars, poller>>

LoopSteps == {"none", "top", "window", "resume", "due", "camera", "store", "exhausted",
              "failing", "advance", "encode", "ffmpeg", "publish", "caught", "dying",
              "finally", "logCapturing", "logFrame", "logFailed", "logRendering", "logEnd"}

RequestSteps == {"none", "lookup", "unregister", "signal", "gate", "check", "act", "log",
                 "encode", "ffmpeg", "logEnd", "remove", "find", "select", "answer"}

TypeOK ==
    /\ StoreTypeOK
    /\ token \in Loops \cup {NoOne}
    /\ cancelled \in [Loops -> BOOLEAN]
    /\ loop \in [Loops -> LoopSteps]
    /\ gate \in Requests \cup {NoOne}
    /\ request \in [Requests -> RequestSteps]
    /\ operation \in [Requests -> AllOperations \cup {"none"}]
    /\ victim \in [Requests -> Loops \cup {NoOne}]
    /\ previous \in [Requests -> Status \cup {"none"}]
    /\ poller \in BOOLEAN

-----------------------------------------------------------------------------
\* A process is at a step when it has returned from its last call of the store.
LoopAt(l, step) == loop[l] = step /\ call[l] = "none"
RequestAt(r, step) == request[r] = step /\ call[r] = "none"

\* AppendEventAsync: says nothing about a session that is not listed, fails
\* when the directory is gone, and may fail as any write may.
CanLog == listed => directory
CanThrow == listed /\ (~directory \/ "log" \in Faults)

LoopGoes(l, step) ==
    /\ loop' = [loop EXCEPT ![l] = step]
    /\ UNCHANGED <<token, cancelled, requestVars, poller>>

-----------------------------------------------------------------------------
(* RunCaptureLoopAsync.                                                      *)

\* Mutant: the top of the loop does not look at the token.
LoopTopUncancelled(l) ==
    /\ LoopAt(l, "top")
    /\ LoopGoes(l, IF ~listed \/ status \notin Active THEN "finally" ELSE "window")
    /\ UNCHANGED storeVars

\* The token, the lookup and the status test at the top of the loop.
LoopTop(l) ==
    /\ LoopAt(l, "top")
    /\ LoopGoes(l, IF cancelled[l] \/ ~listed \/ status \notin Active
                   THEN "finally" ELSE "window")
    /\ UNCHANGED storeVars

\* The schedule's window is closed; after the update the loop sleeps until the
\* recheck, and a cancelled sleep ends it as the test at the top would.
LoopOutsideWindow(l) ==
    /\ LoopAt(l, "window")
    /\ HasSchedule
    /\ UpdateSession(l, "Scheduled")
    /\ LoopGoes(l, "top")

LoopInsideWindow(l) ==
    /\ LoopAt(l, "window")
    /\ LoopGoes(l, IF status = "Scheduled" THEN "resume" ELSE "due")
    /\ UNCHANGED storeVars

LoopResume(l) ==
    /\ LoopAt(l, "resume")
    /\ UpdateSession(l, "Capturing")
    /\ LoopGoes(l, "logCapturing")

\* The frame is not due: a cancellable sleep.
LoopNotDue(l) ==
    /\ LoopAt(l, "due")
    /\ LoopGoes(l, "top")
    /\ UNCHANGED storeVars

\* The duration is met: CompleteSessionAsync up to its first await.
LoopDurationMet(l) ==
    /\ LoopAt(l, "due")
    /\ UpdateSession(l, "Rendering")
    /\ LoopGoes(l, "logRendering")

\* A frame is due, but storage refuses it or the camera profile is gone.
LoopRefused(l) ==
    /\ LoopAt(l, "due")
    /\ UpdateSession(l, "Failed")
    /\ LoopGoes(l, "logFailed")

LoopBeginsCapture(l) ==
    /\ LoopAt(l, "due")
    /\ LoopGoes(l, "camera")
    /\ UNCHANGED storeVars

\* An attempt succeeds (a cancelled token may come too late to stop it), and
\* SaveFrameAsync creates the images directory before it writes the frame.
LoopSnapshot(l) ==
    /\ LoopAt(l, "camera")
    /\ MakeDirectory
    /\ LoopGoes(l, "store")

\* An attempt fails: its event is logged, and the attempts run out, or the
\* token ends them, or logging throws.  (Another attempt: the loop stays.)
LoopSnapshotFails(l) ==
    /\ LoopAt(l, "camera")
    /\ \/ CanLog /\ LoopGoes(l, "exhausted")
       \/ cancelled[l] /\ LoopGoes(l, "finally")
       \/ CanThrow /\ LoopGoes(l, "caught")
    /\ UNCHANGED storeVars

LoopStoresFrame(l) ==
    /\ LoopAt(l, "store")
    /\ directory
    /\ UpdateSession(l, status)
    /\ LoopGoes(l, "logFrame")

LoopFrameLost(l) ==
    /\ LoopAt(l, "store")
    /\ \/ cancelled[l] /\ LoopGoes(l, "finally")
       \/ (~directory \/ "log" \in Faults) /\ LoopGoes(l, "caught")
    /\ UNCHANGED storeVars

LoopCountsFailure(l) ==
    /\ LoopAt(l, "exhausted")
    /\ UpdateSession(l, status)
    /\ LoopGoes(l, "failing")

\* MaxConsecutiveFailures is not reached yet, or the diagnostic could not be
\* sent on a cancelled token.
LoopTolerates(l) ==
    /\ LoopAt(l, "failing")
    /\ \/ LoopGoes(l, "advance")
       \/ cancelled[l] /\ LoopGoes(l, "finally")
    /\ UNCHANGED storeVars

LoopGivesUp(l) ==
    /\ LoopAt(l, "failing")
    /\ UpdateSession(l, "Failed")
    /\ LoopGoes(l, "logFailed")

\* Back in the loop: a session that is now Failed ends it.
LoopBreaks(l) ==
    /\ LoopAt(l, "advance")
    /\ status = "Failed"
    /\ LoopGoes(l, "finally")
    /\ UNCHANGED storeVars

LoopAdvances(l) ==
    /\ LoopAt(l, "advance")
    /\ status # "Failed"
    /\ UpdateSession(l, status)
    /\ LoopGoes(l, "top")

-----------------------------------------------------------------------------
(* CompleteSessionAsync after its first update.                              *)

\* The frames are listed and FFmpeg's output folder is created, unless there
\* are too few frames, or the list cannot be read, or the token is cancelled.
LoopEncodes(l) ==
    /\ LoopAt(l, "encode")
    /\ \/ MakeDirectory /\ LoopGoes(l, "ffmpeg")
       \/ UNCHANGED storeVars /\ LoopGoes(l, "ffmpeg")
       \/ cancelled[l] /\ UNCHANGED storeVars /\ LoopGoes(l, "finally")
       \/ "log" \in Faults /\ UNCHANGED storeVars /\ LoopGoes(l, "caught")

\* FFmpeg runs to its end even when the token is cancelled; the token is looked
\* at afterwards.
LoopFfmpegEnds(l) ==
    /\ LoopAt(l, "ffmpeg")
    /\ LoopGoes(l, IF cancelled[l] THEN "finally" ELSE "publish")
    /\ UNCHANGED storeVars

LoopPublishes(l) ==
    /\ LoopAt(l, "publish")
    /\ \E result \in {"Completed", "Failed"}: UpdateSession(l, result)
    /\ LoopGoes(l, "logEnd")

-----------------------------------------------------------------------------
(* The events a loop logs after an update, and how it ends.                  *)

AfterLog == [logCapturing |-> "due", logFrame |-> "advance", logFailed |-> "advance",
             logRendering |-> "encode", logEnd |-> "finally"]

\* Only the frame's event is logged on the loop's token.
LoopLogs(l) ==
    /\ \E step \in DOMAIN AfterLog:
          /\ LoopAt(l, step)
          /\ \/ CanLog /\ LoopGoes(l, AfterLog[step])
             \/ CanThrow /\ LoopGoes(l, "caught")
             \/ step = "logFrame" /\ cancelled[l] /\ LoopGoes(l, "finally")
    /\ UNCHANGED storeVars

\* The catch block reads the status, and then FailSessionAsync writes it.
LoopCatches(l) ==
    /\ LoopAt(l, "caught")
    /\ LoopGoes(l, IF listed /\ status \in Active THEN "dying" ELSE "finally")
    /\ UNCHANGED storeVars

LoopDies(l) ==
    /\ LoopAt(l, "dying")
    /\ UpdateSession(l, "Failed")
    /\ LoopGoes(l, "finally")

\* An update throws: the catch block, or out of it.
LoopThrows(l) ==
    /\ loop[l] # "none"
    /\ Throw(l)
    /\ LoopGoes(l, IF loop[l] = "finally" THEN "finally" ELSE "caught")

\* Mutant: the finally block takes out whatever token source is registered.
LoopFinallyAny(l) ==
    /\ LoopAt(l, "finally")
    /\ token' = NoOne
    /\ loop' = [loop EXCEPT ![l] = "none"]
    /\ cancelled' = [cancelled EXCEPT ![l] = FALSE]
    /\ UNCHANGED <<storeVars, requestVars, poller>>

\* The finally block takes this loop's token source out, and only this loop's,
\* and disposes it.
LoopFinally(l) ==
    /\ LoopAt(l, "finally")
    /\ token' = IF token = l THEN NoOne ELSE token
    /\ loop' = [loop EXCEPT ![l] = "none"]
    /\ cancelled' = [cancelled EXCEPT ![l] = FALSE]
    /\ UNCHANGED <<storeVars, requestVars, poller>>

\* The steps that make a frame, and the others.
FrameStep(l) ==
    LoopBeginsCapture(l) \/ LoopSnapshot(l) \/ LoopStoresFrame(l) \/ LoopFrameLost(l)

ControlStep(l) ==
    \/ LoopTop(l) \/ LoopOutsideWindow(l) \/ LoopInsideWindow(l) \/ LoopResume(l)
    \/ LoopNotDue(l) \/ LoopDurationMet(l) \/ LoopRefused(l)
    \/ LoopSnapshotFails(l) \/ LoopCountsFailure(l) \/ LoopTolerates(l) \/ LoopGivesUp(l)
    \/ LoopBreaks(l) \/ LoopAdvances(l)
    \/ LoopEncodes(l) \/ LoopFfmpegEnds(l) \/ LoopPublishes(l)
    \/ LoopLogs(l) \/ LoopCatches(l) \/ LoopDies(l) \/ LoopThrows(l) \/ LoopFinally(l)

LoopStep(l) == ControlStep(l) \/ FrameStep(l)

-----------------------------------------------------------------------------
(* EnsureLoopAsync: TryAdd lets one caller register a loop.  A loop's name is *)
(* free again once it has ended and nobody still holds its token source.     *)

Free(l) == loop[l] = "none" /\ \A r \in Requests: victim[r] # l

EnsureLoop ==
    \/ token # NoOne /\ UNCHANGED loopVars
    \/ /\ token = NoOne
       /\ \E l \in Loops:
             /\ Free(l)
             /\ token' = l
             /\ loop' = [loop EXCEPT ![l] = "top"]
       /\ UNCHANGED cancelled

\* ExecuteAsync's poll: a list of the scheduled sessions, then a loop for each.
PollerScans ==
    /\ ~poller
    /\ listed /\ status = "Scheduled"
    /\ poller' = TRUE
    /\ UNCHANGED <<storeVars, loopVars, requestVars>>

\* Mutant: the poller only lists what it should wake.
PollerForgets ==
    /\ poller
    /\ poller' = FALSE
    /\ UNCHANGED <<storeVars, loopVars, requestVars>>

PollerEnsures ==
    /\ poller
    /\ EnsureLoop
    /\ poller' = FALSE
    /\ UNCHANGED <<storeVars, requestVars>>

-----------------------------------------------------------------------------
(* Requests.                                                                 *)

FirstStep == [start |-> "gate", pause |-> "unregister", cancel |-> "unregister",
              render |-> "gate", preview |-> "find", delete |-> "lookup",
              retention |-> "select"]

RequestGoes(r, step) ==
    /\ request' = [request EXCEPT ![r] = step]
    /\ UNCHANGED <<operation, victim, previous, poller>>

\* The request is answered, or dies of an exception.
Answered(r) ==
    /\ request' = [request EXCEPT ![r] = "none"]
    /\ operation' = [operation EXCEPT ![r] = "none"]
    /\ previous' = [previous EXCEPT ![r] = "none"]
    /\ UNCHANGED poller

\* The last call of the store has returned.
Answer(r) ==
    /\ RequestAt(r, "answer")
    /\ Answered(r)
    /\ UNCHANGED <<storeVars, loopVars, gate, victim>>

\* An update throws, and only the gate is released.
RequestThrows(r) ==
    /\ request[r] \in {"log", "logEnd", "answer"}
    /\ Throw(r)
    /\ gate' = IF gate = r THEN NoOne ELSE gate
    /\ Answered(r)
    /\ UNCHANGED <<loopVars, victim>>

Receive(r, o) ==
    /\ RequestAt(r, "none")
    /\ operation' = [operation EXCEPT ![r] = o]
    /\ request' = [request EXCEPT ![r] = FirstStep[o]]
    /\ UNCHANGED <<storeVars, loopVars, gate, victim, previous, poller>>

\* The client of a render hangs up while it waits for the gate.
Abandon(r) ==
    /\ RequestAt(r, "gate")
    /\ operation[r] = "render"
    /\ Answered(r)
    /\ UNCHANGED <<storeVars, loopVars, gate, victim>>

\* DELETE answers 404 before it cancels anything.
Lookup(r) ==
    /\ RequestAt(r, "lookup")
    /\ IF listed THEN RequestGoes(r, "unregister") ELSE Answered(r) /\ UNCHANGED victim
    /\ UNCHANGED <<storeVars, loopVars, gate>>

\* CancelLoop takes the token source out of the dictionary ...
Unregister(r) ==
    /\ RequestAt(r, "unregister")
    /\ victim' = [victim EXCEPT ![r] = token]
    /\ token' = NoOne
    /\ request' = [request EXCEPT ![r] = IF token = NoOne THEN "gate" ELSE "signal"]
    /\ UNCHANGED <<storeVars, cancelled, loop, gate, operation, previous, poller>>

\* ... and then cancels it.
Signal(r) ==
    /\ RequestAt(r, "signal")
    /\ loop[victim[r]] # "none"
    /\ cancelled' = [cancelled EXCEPT ![victim[r]] = TRUE]
    /\ victim' = [victim EXCEPT ![r] = NoOne]
    /\ request' = [request EXCEPT ![r] = "gate"]
    /\ UNCHANGED <<storeVars, token, loop, gate, operation, previous, poller>>

\* The loop ended in between: its token source is disposed, Cancel throws, and
\* the request dies before it has done anything.
SignalThrows(r) ==
    /\ RequestAt(r, "signal")
    /\ loop[victim[r]] = "none"
    /\ victim' = [victim EXCEPT ![r] = NoOne]
    /\ Answered(r)
    /\ UNCHANGED <<storeVars, loopVars, gate>>

EnterGate(r) ==
    /\ RequestAt(r, "gate")
    /\ gate = NoOne
    /\ gate' = r
    /\ RequestGoes(r, "check")
    /\ UNCHANGED <<storeVars, loopVars>>

\* Mutant: a render does not refuse a session that is being rendered.
AcceptsSecondRender(o) ==
    /\ listed
    /\ CASE o = "start" -> status \notin {"Completed", "Cancelled", "Rendering"} /\ token = NoOne
         [] o = "pause" -> status \in Active
         [] o = "render" -> status \notin Active
         [] OTHER -> TRUE

\* Mutant: a start does not refuse a completed session.
AcceptsRestart(o) ==
    /\ listed
    /\ CASE o = "start" -> status \notin {"Cancelled", "Rendering"} /\ token = NoOne
         [] o = "pause" -> status \in Active
         [] o = "render" -> status \notin Active \cup {"Rendering"}
         [] OTHER -> TRUE

Accepts(o) ==
    /\ listed
    /\ CASE o = "start" -> status \notin {"Completed", "Cancelled", "Rendering"} /\ token = NoOne
         [] o = "pause" -> status \in Active
         [] o = "render" -> status \notin {"Capturing", "Scheduled", "Rendering"}
         [] OTHER -> TRUE

\* DELETE goes on to the deletion whatever CancelSessionAsync answered.
AfterGate(r) ==
    IF operation[r] = "delete" THEN RequestGoes(r, "remove")
                               ELSE Answered(r) /\ UNCHANGED victim

Check(r) ==
    /\ RequestAt(r, "check")
    /\ \/ /\ Accepts(operation[r])
          /\ RequestGoes(r, "act")
          /\ UNCHANGED gate
       \/ /\ ~Accepts(operation[r])
          /\ gate' = NoOne
          /\ AfterGate(r)
    /\ UNCHANGED <<storeVars, loopVars>>

\* The status an accepted request writes; a start asks the schedule.
Target == [start |-> IF HasSchedule THEN Active ELSE {"Capturing"}, pause |-> {"Paused"}, cancel |-> {"Cancelled"},
           delete |-> {"Cancelled"}, render |-> {"Rendering"}]

\* Mutant: a render does not keep the status it replaces.
ActForgets(r) ==
    /\ RequestAt(r, "act")
    /\ \E s \in Target[operation[r]]: UpdateSession(r, s)
    /\ request' = [request EXCEPT ![r] = "log"]
    /\ UNCHANGED <<loopVars, gate, operation, victim, previous, poller>>

Act(r) ==
    /\ RequestAt(r, "act")
    /\ \E s \in Target[operation[r]]: UpdateSession(r, s)
    /\ previous' = IF operation[r] = "render" THEN [previous EXCEPT ![r] = status]
                                             ELSE previous
    /\ request' = [request EXCEPT ![r] = "log"]
    /\ UNCHANGED <<loopVars, gate, operation, victim, poller>>

\* The new status is logged, and the request does what is left: a start makes
\* sure of a loop, a render goes on to the frames.
Log(r) ==
    /\ RequestAt(r, "log")
    /\ CanLog
    /\ \/ operation[r] = "start" /\ EnsureLoop /\ gate' = NoOne /\ AfterGate(r)
       \/ operation[r] = "render" /\ RequestGoes(r, "encode") /\ UNCHANGED <<loopVars, gate>>
       \/ /\ operation[r] \in {"pause", "cancel", "delete"}
          /\ gate' = NoOne
          /\ AfterGate(r)
          /\ UNCHANGED loopVars
    /\ UNCHANGED storeVars

\* Mutant: the gate is not released on the way out.
LogThrowsUnderGate(r) ==
    /\ request[r] \in {"log", "logEnd"}
    /\ call[r] = "none"
    /\ CanThrow
    /\ Answered(r)
    /\ UNCHANGED <<storeVars, loopVars, gate, victim>>

\* Logging throws, and only the gate is released.
LogThrows(r) ==
    /\ request[r] \in {"log", "logEnd"}
    /\ call[r] = "none"
    /\ CanThrow
    /\ gate' = NoOne
    /\ Answered(r)
    /\ UNCHANGED <<storeVars, loopVars, victim>>

-----------------------------------------------------------------------------
(* RenderVideoAsync after its first update, under the gate, and              *)
(* RenderPreviewVideoAsync, which takes no gate.                             *)

Find(r) ==
    /\ RequestAt(r, "find")
    /\ IF listed THEN RequestGoes(r, "encode") ELSE Answered(r) /\ UNCHANGED victim
    /\ UNCHANGED <<storeVars, loopVars, gate>>

Encode(r) ==
    /\ RequestAt(r, "encode")
    /\ MakeDirectory \/ UNCHANGED storeVars
    /\ RequestGoes(r, "ffmpeg")
    /\ UNCHANGED <<loopVars, gate>>

\* The frames cannot be read: nothing but a cancellation is caught here.
EncodeThrows(r) ==
    /\ RequestAt(r, "encode")
    /\ "log" \in Faults
    /\ gate' = IF gate = r THEN NoOne ELSE gate
    /\ Answered(r)
    /\ UNCHANGED <<storeVars, loopVars, victim>>

\* Success, an error, or the client hung up, which restores the old status.
RenderEnds(r) ==
    /\ RequestAt(r, "ffmpeg")
    /\ operation[r] = "render"
    /\ \E s \in {"Completed", "Failed", previous[r]}: UpdateSession(r, s)
    /\ RequestGoes(r, "logEnd")
    /\ UNCHANGED <<loopVars, gate>>

RenderAnswers(r) ==
    /\ RequestAt(r, "logEnd")
    /\ CanLog
    /\ gate' = NoOne
    /\ Answered(r)
    /\ UNCHANGED <<storeVars, loopVars, victim>>

\* A finished preview sets HasPartialVideo on the object it fetched before FFmpeg
\* ran; a failed or abandoned one changes nothing.
PreviewEnds(r) ==
    /\ RequestAt(r, "ffmpeg")
    /\ operation[r] = "preview"
    /\ UpdateSession(r, status) \/ UNCHANGED storeVars
    /\ RequestGoes(r, "answer")
    /\ UNCHANGED <<loopVars, gate>>

-----------------------------------------------------------------------------
(* Deletion: of the DELETE request, and of ApplyRetentionAsync, which picks   *)
(* finished sessions (old enough, which is left open) and measures them       *)
(* before it deletes them.                                                   *)

Select(r) ==
    /\ RequestAt(r, "select")
    /\ IF listed /\ status \in Finished THEN RequestGoes(r, "remove")
                                        ELSE Answered(r) /\ UNCHANGED victim
    /\ UNCHANGED <<storeVars, loopVars, gate>>

Remove(r) ==
    /\ RequestAt(r, "remove")
    /\ IF listed THEN DeleteSession(r) ELSE UNCHANGED storeVars
    /\ RequestGoes(r, "answer")
    /\ UNCHANGED <<loopVars, gate>>

RequestStep(r) ==
    \/ Lookup(r) \/ Unregister(r) \/ Signal(r) \/ SignalThrows(r)
    \/ EnterGate(r) \/ Check(r) \/ Act(r) \/ Log(r) \/ LogThrows(r)
    \/ Find(r) \/ Encode(r) \/ EncodeThrows(r) \/ RenderEnds(r) \/ RenderAnswers(r)
    \/ PreviewEnds(r) \/ Select(r) \/ Remove(r) \/ Answer(r) \/ RequestThrows(r)

-----------------------------------------------------------------------------
\* A step inside a call of the store.
StoreStep(c) ==
    /\ CreateSession(c) \/ Persisting(c) \/ Deleting(c)
    /\ UNCHANGED <<loopVars, requestVars, poller>>

Crash ==
    /\ Crashes
    /\ Restart
    /\ token' = NoOne
    /\ cancelled' = [l \in Loops |-> FALSE]
    /\ loop' = [l \in Loops |-> "none"]
    /\ gate' = NoOne
    /\ request' = [r \in Requests |-> "none"]
    /\ operation' = [r \in Requests |-> "none"]
    /\ victim' = [r \in Requests |-> NoOne]
    /\ previous' = [r \in Requests |-> "none"]
    /\ poller' = FALSE

\* Sessions are created by requests, so no loop is the creator of StoreInit, and who
\* creates one is at its last call; only a session with a schedule can have been
\* saved as Scheduled.
Init ==
    /\ StoreInit
    /\ status = "Scheduled" => HasSchedule
    /\ \A l \in Loops: call[l] = "none"
    /\ token = NoOne
    /\ cancelled = [l \in Loops |-> FALSE]
    /\ loop = [l \in Loops |-> "none"]
    /\ gate = NoOne
    /\ request = [r \in Requests |-> IF call[r] = "none" THEN "none" ELSE "answer"]
    /\ operation = [r \in Requests |-> "none"]
    /\ victim = [r \in Requests |-> NoOne]
    /\ previous = [r \in Requests |-> "none"]
    /\ poller = FALSE

Next ==
    \/ \E l \in Loops: LoopStep(l)
    \/ \E r \in Requests: RequestStep(r) \/ Abandon(r) \/ \E o \in Operations: Receive(r, o)
    \/ \E c \in Clients: StoreStep(c)
    \/ PollerScans
    \/ PollerEnsures
    \/ Crash

Spec == Init /\ [][Next]_vars

\* The service for a session that is not Cancelled to begin with.
UncancelledInit == Init /\ status # "Cancelled"
UncancelledSpec == UncancelledInit /\ [][Next]_vars

-----------------------------------------------------------------------------
\* A loop that nobody has cancelled and nobody is about to cancel.
Running(l) == loop[l] # "none" /\ ~cancelled[l] /\ \A r \in Requests: victim[r] # l

\* Two loops never capture one session side by side: whatever requests, poller
\* and dying loops overlap, the only loop not told to stop is the registered one.
OneOwner == \A l \in Loops: Running(l) <=> token = l

Rendering(p) ==
    \/ p \in Loops /\ loop[p] \in {"logRendering", "encode", "ffmpeg", "publish"}
    \/ p \in Requests /\ operation[p] = "render" /\ request[p] \in {"log", "encode", "ffmpeg"}

\* While a session says Rendering, somebody is rendering it, and will end that
\* status: no request can (start, render and pause all refuse it).
RenderingHasRenderer ==
    listed /\ status = "Rendering" => \E p \in Clients: Rendering(p)

\* While a session says Capturing, a loop is registered for it or the request
\* that started it holds the gate and has yet to register one; nobody else would
\* (the poller only looks for Scheduled).
CapturingHasLoop ==
    listed /\ status = "Capturing" =>
        \/ token # NoOne
        \/ \E r \in Requests: gate = r /\ operation[r] = "start" /\ request[r] = "log"

\* FFmpeg never writes timelapse.mp4 for a loop and for a request at once.
OneEncoder ==
    \A p, q \in Clients: Rendering(p) /\ Rendering(q) => p = q

\* The statuses that the interleavings of loops and requests go through between
\* two restarts are those of the lifecycle: no Completed session captures again, no
\* Paused one fails, and a rendering the user gave up leaves the status it found.
\* It is stated for UncancelledSpec, since a Cancelled session is rendered, too, in
\* which the code leaves the documented lifecycle; and for requests that neither
\* pause nor cancel, since a loop told to stop may still write over either.
Lifecycle == INSTANCE SessionLifecycle WITH
    before <- IF status = "Rendering" /\ gate # NoOne
              THEN previous[gate] ELSE "none"

FollowsLifecycle == Lifecycle!Init /\ [][Lifecycle!Next \/ Crash]_(Lifecycle!view)

\* A session whose deletion has succeeded does not come back into the list.
DeletedStaysGone ==
    [][~listed /\ (\A c \in Clients: call[c] # "creating") => ~listed']_listed

-----------------------------------------------------------------------------
\* Every task runs: the thread pool starves nobody, FFmpeg and the camera client
\* return, and a semaphore that is released again and again lets everyone in.
\* Nothing is assumed of Receive, Abandon and Crash; the poller polls.
Fairness ==
    /\ \A l \in Loops: WF_vars(LoopStep(l))
    /\ \A r \in Requests: WF_vars(RequestStep(r)) /\ SF_vars(EnterGate(r))
    /\ \A c \in Clients: SF_vars(StoreStep(c))
    /\ WF_vars(PollerScans)
    /\ WF_vars(PollerEnsures)

FairSpec == Spec /\ Fairness

\* A loop told to stop does stop, wherever it was: this is all the promise Pause
\* and Cancel make, since they wait for nothing.  It waits for ever only behind a
\* save that has kept the persist lock.
CancelledLoopEnds ==
    \A l \in Loops: cancelled[l] ~> loop[l] = "none" \/ leaked

\* Every request, to the return of its last call of the store, comes to an end: the
\* one path that keeps the gate or the persist lock is that of a failed save whose
\* temporary file cannot be removed, and it then keeps them from all.
RequestsEnd ==
    \A r \in Requests: request[r] # "none" ~> request[r] = "none" \/ leaked

\* A scheduled session does not stay without a loop to wake it, also after a
\* restart or a start that died half-way, while sessions can be saved.
ScheduledIsWatched ==
    listed /\ status = "Scheduled"
        ~> ~listed \/ status # "Scheduled" \/ token # NoOne \/ leaked

=============================================================================
