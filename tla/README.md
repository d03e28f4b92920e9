# IPCamLapse: formal verification

TLA+ specifications of IPCamLapse (`src/IPCamLapse`), a web application that
takes a picture from an IP camera every few seconds or minutes, for hours or
months, and renders the pictures into a time-lapse video. The specifications
follow the C# code, one action per handler or per step between two `await`s;
TLC checks them on small instances, and TLAPS proves their safety properties for
every value of the constants.

## The system

One process; ASP.NET Core handlers, background services and capture loops run
concurrently on the thread pool, and everything they know is kept in memory
and in files under one data directory.

| Component | State | Operations | What is hard |
|---|---|---|---|
| Session store (`CaptureSessionService`) | `_sessions`; per session a JSON file and a directory; `_persistLock` | create, get, update and persist, delete, load at start | one mutable object shared by all callers; overlapping updates; deletion in three steps that can each fail; restarts |
| Capture service (`CaptureBackgroundService`) | one gate per session, `_sessionTokens`, `_sessionTasks`, one loop per running session | start, pause, cancel, render, preview; the loop; the poller; shutdown | nobody waits for a cancelled loop; loops, previews and deletions do not take the gate; a status is read before and written after an `await` |
| Active time and deadlines (`CaptureSession`, `CaptureTimeline`) | accumulated seconds, open segment, next deadline | begin and end a segment, next deadline | pauses, closed windows, slow requests, restarts |
| Schedule (`CaptureScheduleService`) | none (a time zone) | `GetAvailability`, `ConvertWallTimeToUtc` | windows over midnight, skipped and repeated hours |
| Activity log (`FrameCatalogService`) | `events.jsonl`, a semaphore for each session, a cached line count | append, read the last events with sequence numbers | readers take no lock; writes in several parts; torn lines |
| Retention and storage budget (`StorageService`, `StorageMaintenanceService`) | none (files, settings) | preview, apply, may a frame be stored | acts on a selection that ages; check, then write |
| Video (`VideoService`) | output files | run FFmpeg | FFmpeg is not stopped by a cancellation |
| Settings (`ApplicationSettingsService`) | an object and a file | save, load at start | a file written in place |
| Page shell (`site.js`, `_Layout.cshtml`) | the sidebar, the keyboard's focus, messages with a timer each | toggle, links, Escape, resize, notify, dismiss | script and style sheet disagree on what is narrow; timers that outlive their message |
| Session page (`Details.cshtml`, `ProgressHub`) | what the page was rendered for, disabled buttons, the timeline, the hub's connection, polls | actions, load more, messages, polls, reload | requests that fail; frames that arrive meanwhile; a hub that is lost for good |
| Camera profiles | a dictionary, a file | save, delete, read | readers without the lock; a file written in place |
| Camera client, other pages, middleware, health, OpenCamInterop | none that matters here | HTTP, forms, formats | |

How they interact: a request handler calls the capture service, which takes the
session's gate, changes the shared `CaptureSession` object, awaits
`UpdateSessionAsync` (which waits for the store's lock and writes the file), and
appends to the activity log. A loop does the same without the gate. Pause and
cancel remove a loop's token source from a dictionary and cancel it. The poller
registers a loop for every Scheduled session each five seconds. DELETE cancels
and then deletes; retention deletes only. A page asks the server through
`ipCamLapseFetch`, hears of a change through the hub or a poll, and is then
loaded again. When the application stops, the web server finishes its requests;
then `StopAsync` cancels the loops and waits for the tasks that are registered.

What makes each component correct:

- store: memory and disk agree once nothing is under way; a deletion leaves nothing, or the session stays listed;
- capture service: one loop per session; no status that nobody will end; the status goes through its lifecycle; whatever is told to stop stops; every request ends;
- clock: progress is the time spent capturing inside the windows, and a short overrun of each; frames stay on their timeline; a loop is late by a save at most; the schedule is open when the wall clock says so;
- log: sequence numbers never change; what was logged is read;
- frames: no number is skipped; a session's frames keep to the storage limit within a known excess, in bytes;
- retention: an expired session goes, and lost settings never delete more;
- page: what it shows catches up with the server; the timeline skips no frame; an open sidebar can be closed; a message stays its time;
- shutdown: it ends, and no loop goes on.

## Modules

| Module | Models |
|---|---|
| `SessionStore` | `CaptureSessionService` for any set of callers. Of the object only `status` is kept; `listed`, `directory`, `metadata` are its places. `call` and `copy` say how far each caller is in a persist or a deletion, `leaked` that a save has kept `_persistLock` for good. |
| `CaptureService` | `CaptureBackgroundService`, DELETE and retention on top of it (EXTENDS `SessionStore`). One process per loop (`loop[l]`) and per request (`request[r]`); a step inside the store is `StoreStep`. |
| `SessionLifecycle` | The abstract specification of a session's status as `docs/ARCHITECTURE.md` has it, with no processes; Cancelled is terminal. `CaptureService` implements it for a session that is not Cancelled (`FollowsLifecycle`, with `before` mapped to `previousStatus` of the request that holds the gate). `RenderCancelled`, which the code has and the lifecycle has not, is for the modules that take the server's moves from here. |
| `CaptureSchedule` | The arithmetic of `CaptureScheduleService`, and the reference definition `OpenByTheWallClock`. |
| `CaptureClock` | One session in time: segments, deadlines, sleeps and the saves before them (EXTENDS `CaptureSchedule`). |
| `EventLog` | The activity log of `FrameCatalogService`. |
| `FrameNumbering` | The number, count and files of the frames the loops store, and the storage limit in bytes (EXTENDS `CaptureService`: its steps, with these variables beside them). |
| `Shutdown` | `StopAsync`, and `_sessionTasks` with the continuations (EXTENDS `CaptureService` likewise). |
| `ApplicationSettings` | `ApplicationSettingsService`: the period in memory and in the file. |
| `Retention` | `ApplyRetentionAsync` over one session, on top of `SessionStore` and `ApplicationSettings`; the dates by which a session ages come from the steps of `SessionLifecycle`. |
| `PageShell` | The sidebar of `site.js`: width, classes, `openTrigger`, focus. |
| `Messages` | `ipCamLapseNotify` of `site.js`: messages and their timers. |
| `FrameGallery` | The timeline: the server's pages of frames and the cards of the page; the labels of C# and JavaScript. |
| `SessionPage` | `Details.cshtml`: composes the three above with the actions, the hub, the polls and reloads; its server is `SessionLifecycle`. |
| `MC...` | Symmetry and small sets for TLC. |
| `...Proofs` | Theorems about the module of that name; `SessionPageProofs` has those of the page's parts, `CaptureClockProofs` those of the schedule. |

How code maps to actions:

- Every `await` that lets others run ends a step. So does the gap between reading
  `Status` and writing it (`LoopAt(l, "window")`, `RequestAt(r, "act")`), since
  handlers and loops run on different threads.
- `UpdateSession` is the part of `UpdateSessionAsync` up to the wait for
  `_persistLock`; `Serialize` is after it, and reads the object as it is *then*;
  `Replace` moves the file and releases the lock. A caller goes on only when its
  call has returned (`call = "none"`); a request is at `answer` until its last
  one has. When a save fails and its temporary file cannot be removed, the
  `finally` leaves before it releases the lock: `leaked`, and the exception goes
  through the caller (`Throw`, as `RequestThrows` and `LoopThrows`).
- `Unregister` and `Signal` are the two halves of `CancelLoop`; in between the
  loop may have disposed its token source (`SignalThrows`).
- `CanLog` and `CanThrow` say what `AppendEventAsync` does with a session that is
  no longer listed or has lost its directory. An exception leaves the handler
  through its `finally` (`LogThrows`), or the loop through its `catch`
  (`LoopCatches`, then `LoopDies`, which is `FailSessionAsync`).
- Time is abstract in `CaptureService`: whether the window is open, the frame
  due and the duration met is free at each turn. `CaptureClock` has the time,
  and no interleavings: there a request takes effect at once. A turn of the loop
  is one action at the time it reads at its top, and what it awaits afterwards
  (the save and the hub, up to `MaxLag`) delays when it is awake again
  (`NoSoonerThan`), since the delay is reckoned from that time.
- `CanStoreFrame` compares what there is and an estimate with the limit, whatever
  else may be there; `CountFrame` and `LeavePart` then add a snapshot of any size up
  to `MaxSnapshotBytes`, or a part of one.
- Definitions that begin with "Mutant:" in their comment are not part of any
  specification; each is a plausible bug that a property must find.

## Runs

| Run | Instance | Shows |
|---|---|---|
| `lifecycle` | 2 loops, 3 requests of start, render, preview, no schedule, failing saves, restarts, any status but Cancelled at first | `RenderingHasRenderer`, `CapturingHasLoop`, `OneEncoder`, and refinement of `SessionLifecycle` |
| `operations` | 1 loop, 1 request of any kind, schedule, failing log writes, saves that keep the lock, fair | `TypeOK`, `CancelledLoopEnds`, `RequestsEnd`, `ScheduledIsWatched` |
| `frames` | 2 loops, 1 request of start and pause, restarts, a limit of 2 bytes, frames of 1 (the estimate) or 2 | `OneOwner`, `DiskCatchesUp`, `NoMissingFrame`, `StaysNearLimit` |
| `retention` | the background service and the page, failing deletions, lost settings, restarts, 4 days | `TypeOK`, `NothingLeftBehind`, `RestartKeepsSessions`, `ExpiredGoes` |
| `page` | 2 actions at once, pages of 2 of at most 6 frames, 3 messages, every width | `TypeOK`, `OpenWhereClosable`, `FocusComesBack`, `NoGap`, `RemovedAtTheEnd`, `SameLabel`, `NoticesTheEnd`, `ButtonsComeBack`, `StaysItsTime`, `MessagesGo` |
| `shutdown` | 1 loop, 1 request of start, pause, render, schedule, fair | `NoLoopGoesOn`, `ShutdownEnds` |
| `clock` | 3 zones, all daily and two days' weekly windows of an 8-tick day | `TypeOK`, `OpenAsTheWallClockShows`, `NextStartIsKept`, `NothingIsOverslept`, `ActiveTimeIsTimeInWindows`, `DeadlinesKeepTheTimeline` |
| `event_log` | 3 events, 2 writers, 2 readers that ask for 1 or 3 events | `TypeOK`, `StableSequence`, `LoggedIsRead` |
| `stuck_rendering`, `deleted`, `clock_restart`, `retention_age` | smallest instances | the disagreements below |

### Bounds, and why they are enough

- *Loops and requests.* Two loops are a loop and its successor; a third would only
  be another successor. In `frames` one request pauses and starts again and
  again, which is what puts two loops beside each other. `lifecycle` has two
  requests that race for the gate and a third that renders, previews or starts
  beside them. In `operations` and `shutdown` there is one of each, as what is
  asked there is what a single operation does under a fault, and whether it
  ends; the theorems have any number.
- *Operations by run.* `frames` asks about ownership and saving, which only start,
  pause and cancel touch (cancel and DELETE share pause's code for it; the
  theorems have them all). `lifecycle` leaves out pause, cancel and deletion
  because with them its properties do not hold in the code
  (`stuck_rendering`, `deleted`, and the notes under "hazards"); it has no
  schedule because a start racing the poller for a Scheduled session can leave
  Capturing without a loop.
- *Faults by run.* Each fault is in the run whose properties it could break:
  failing saves in `lifecycle`, log writes and saves that keep the lock in
  `operations`, deletions in `retention`. The theorems are about all of them together, except where their
  statement says otherwise.
- *Frames.* With a limit of two bytes and frames that are estimated at one and may
  take two, both loops pass the check before either has written, with a session
  that is empty or almost full. A size that could not be measured counts as 0
  in the code and lets frames in without a limit; `MostBytes` bounds those, and
  `unmeasured` remembers it.
- *Days.* Four days and periods of none, one and two (`DaysChoices`) leave room for
  a session that expires, for settings that change in between, and for a
  day at the cutoff itself.
- *The page.* A visit is spent on the sidebar, the messages, the timeline or the
  session (`Uses`), which share nothing but the reload. Two actions at once
  (`Pressed`) are a pause beside a deletion. Six frames are three pages of
  two, and up to six arrive. The sizes are those of the timeline's test and
  every one at which a label rounds or changes its unit, with its neighbours.
  One poll is under way at a time. Three messages are one that was dismissed,
  one that its timer could take by mistake, and one after them.
- *Time.* A day of 8 ticks leaves room for a shift of 2 that lies inside, at the
  edge of, or outside a window of each length; the change of offset is at tick
  4; the horizon of 13 ticks goes over midnight. For a week of 7 days the look-ahead of eight days
  is the code's. `clock` evaluates every schedule at every instant; it starts
  sessions only for the windows that the change falls into (`StartedChoices`),
  since the others do not interact with the session differently. A camera
  request takes up to two ticks and a save one (`MaxRequest`, `MaxLag`); an
  interval of three is longer than the longest sleep (`NotDueSleep`), so that a
  frame is waited for in two turns. The day's window of four ticks is as long as
  the duration: some captures are done in one window, some go on to the next, and
  requests and sleeps outlast the window. The user pauses or cancels once, which
  is enough for two segments; the proofs have no such bounds.
- *The log.* Three events are what a gap in the numbers needs: one before, one
  torn, one after. Two readers are one that stores an old count over a new one.

`CHECK_DEADLOCK FALSE` appears where a model stops because a bound is reached
(the horizon of the clock and of retention, all events logged), because the user
has left the page or the application has stopped, or, in `operations`, because a
save has kept the persist lock and everybody waits for it.

### Fairness

`FairSpec` assumes weak fairness of each loop's, each request's and the poller's
next step: the thread pool runs what can run, the camera client has a time
limit, and FFmpeg is taken to return. Strong fairness is assumed for entering
the gate and for steps that wait for `_persistLock`: a `SemaphoreSlim` serves
its waiters in the end. A lock that was never released lets nobody in, with any
fairness: the properties of `operations` say `\/ leaked`, and that nothing else
blocks anybody. Nothing is assumed of users, clients that hang up,
restarts, or that I/O succeeds.

`FairShutdownSpec` assumes the same of the same steps, and weak fairness of
`StopAsync` and of the store of a task; not that somebody stops the application.
The host's time limit, after which it kills the process, is `Crash` of
`CaptureService` and is left out: `ShutdownEnds` says that it is not needed.

`FinishedSpec` (retention) assumes strong fairness of the maintenance service:
that it selects and deletes when its timer fires, and that no single step of a
deletion fails for ever. `Spec` of `SessionPage` assumes that a reload ends, that
the buttons' requests are answered or fail, that timers fire, and that of polls that
are repeated for ever some are answered; nothing of the user or the hub.

## Where documents and code disagree

1. `stuck_rendering`. Pausing while the loop renders cancels the loop and is then
   refused, so the session stays Rendering for good. The page offers Pause there.
2. `deleted`. A loop that was told to stop but not waited for brings a deleted
   session back into the list and onto the disk.
3. `clock_restart`. A session interrupted before its first frame is credited
   with the time the process was down.
4. `retention_age`. A rendering that fails sets no date, so that a session made
   long ago counts as finished since its creation, and the next run of
   retention may delete it, although the user could still render it again.

Noticed while modelling, with no run of their own:

- After an append that failed in the middle of its line, the cached count of
  `events.jsonl` is one too high, so that event numbers shift (and shift back
  after a restart), and the event glued to the torn line is lost
  (`docs/ARCHITECTURE.md:78` calls the sequence stable). `TornSpec` of
  `EventLog` has such appends; `StableSequence` does not hold of it.
- A loop that was paused and overtaken by a new start is awaited by nobody when
  the application stops, since `_sessionTasks` has one place for each session;
  it has been told to stop (`NoLoopGoesOn`), but may still store a frame or
  save the session after `StopAsync` has returned (`CHANGELOG.md:31`: "Running
  capture loops are awaited during application shutdown"). With a schedule, a
  poller that is preempted before it stores its task can overwrite the task of
  the running loop as well.
- `docs/ARCHITECTURE.md:36` calls Cancelled "a terminal user action". In the code
  it is not: `RenderVideoAsync` refuses Capturing, Scheduled and Rendering only
  (`CaptureBackgroundService.cs:179`), so that a cancelled session is rendered and
  is then Completed; and a loop that was told to stop but not waited for may write
  Capturing, Scheduled, Rendering or Failed over Cancelled, and over Paused, since
  it writes what it decided before. The lifecycle keeps to the document, and
  `FollowsLifecycle` is stated for what is left: sessions that are not Cancelled,
  and requests that neither pause nor cancel.
- `PersistSessionAsync` removes the temporary file before it releases
  `_persistLock`, both in one `finally` (`CaptureSessionService.cs:251-256`). When a
  save has failed and its temporary file cannot be removed either, the lock stays
  taken: every later save of every session waits for ever, under the gate of the
  request that made it, until the process restarts.
- The same line of `docs/ARCHITECTURE.md` has waiting outside a window consume no
  active capture time. A session stays Capturing after its window has closed,
  until its loop wakes or its camera has answered: each closing adds up to 15
  seconds, or up to a camera request with its retries, to the progress
  (`ActiveTimeIsTimeInWindows` gives the bound, in `overrun` and `late`), and the
  session ends that much short of its duration inside the windows.
- The storage limit is checked against the average or an assumed size
  (`CaptureBackgroundService.cs:369` passes none), and then a snapshot of any size
  is written; and it is one limit for all sessions, videos and logs, which check
  it beside each other. `StaysNearLimit` bounds one session's frames; all sessions
  together may pass the limit by a snapshot for each loop of each of them, and a
  video is not checked at all.
- The comment in `DeleteSessionAsync` says that a failed deletion can be retried,
  which retention does, but DELETE cannot once the directory is gone (its
  cancellation fails to log first). A DELETE beside retention can leave the
  metadata file of a session that is listed no more.
- Loops that overlap take one frame number twice and set the count back; no
  number is skipped. A size that cannot be read counts as 0 for the limit.
- The timeline repeats cards when frames arrive between two pages, also when a
  failed request is repeated (`CHANGELOG.md:30`: "a retry cannot duplicate frames").
- On the session page: the cancellation inside DELETE announces a new status, on
  which the page reloads and gives up its own DELETE request; after an automatic
  reconnect it is no longer in its session's group; a page that was rendered
  while Rendering never updates; the 404 of a deleted session is taken for a
  failed poll. The keyboard can reach the links of a sidebar that is outside of
  the screen.

## Proofs

All proofs are for any number of loops, requests, callers and any constants
that satisfy the modules' `ASSUME`s. Theorems that hold without some faults say
so in their hypotheses.

- **Store** (`SessionStoreProofs`). `StoreTypeCorrect`. `DiskAlwaysCatchesUp`: when
  nobody persists, disk and memory agree, if no save is lost to a fault. It is not
  inductive: with a persist under way the file may hold anything. The invariant
  `CatchingUp` adds that a caller in the queue will serialize the status as it
  is then, that only one caller writes at a time, and that a writer's copy is
  the current status unless another caller is still queued. `DeletionsLeaveNothing` rests on the order of a
  deletion: each later step of a caller knows that the earlier ones' files are
  gone, and nothing in `DeletionSpec` makes files.
- **Service** (`CaptureServiceProofs`). `TypedAlways` strengthens the types with the
  shape of requests: a request is only at a step, and only asks for an
  operation, for which it has a status to write; so `TypeCorrect`. Every step is
  a step of `SessionStore` or leaves it alone, by construction (the lemma
  `ServiceImplementsStore`), so that the store's theorem holds of the service
  (`ServiceDiskCatchesUp`). `OneOwnerAlways`: a token source that is out of the
  dictionary is in the hands of a request that is about to cancel it, and only
  living loops are cancelled.
- **Rendering and the lifecycle** (`CaptureServiceProofs`). Four theorems whose
  hypotheses name the operations, since the code breaks the properties with the
  others. `OneEncoderAlways` (start, render, preview, retention; any schedule,
  fault and crash): nobody is cancelled, so the loops that live are the
  registered one, and the status tells whether it encodes (`Exclusive`); a
  cancelled loop may still be in FFmpeg when the next render starts.
  `RenderingAlwaysHasRenderer` (start, render, preview; the log can be written and
  a failed save releases its lock):
  whoever is past its look-up finds the session and its directory in place, so
  that nothing throws between the status and the step that ends it (`Present`,
  `Rendered`); a pause or an exception takes the renderer away
  (`stuck_rendering`). `CapturingAlwaysHasLoop` and `ServiceFollowsLifecycle`
  (the same, and no schedule): whoever starts a loop holds the gate and has seen
  that there is none, and a render remembers only a status it may go back to
  (`Driven`), and the latter that a session that was not Cancelled never is
  (`NeverCancelled`); with a schedule, a start racing the poller breaks both. Saves
  may fail and the process may die in all four.
- **Frames** (`FrameNumberingProofs`). `NoFrameIsMissing`. That every number up to
  the count has its file is not inductive: an overtaken loop sets the count
  back, and an old copy may reach the disk after a new one. `Gapless` asks it of
  every place that holds a count at once (memory, disk, each copy), and of the
  number below the one each loop is writing. `FramesImplementService`: counting
  frames changes nothing of the service, so that its theorems hold here
  (`FramesKeepOneOwner`). `StorageStaysNearLimit`: `WithinReach` reserves the
  largest snapshot for each loop that was let in, beside the bytes there are, and
  at most all loops are (`StorageAssumption`: they are finitely many); a step
  that writes less gives the rest back (`SnapshotsGrow`).
- **Shutdown** (`ShutdownProofs`). `NoLoopEverGoesOn`: `Quiet` says that from the
  cancellation of the stopping token on every loop that runs has been told to
  stop, that no request is left, and that a poller that goes on starts only
  cancelled loops. `OwnerIsAlwaysAwaited`, for sessions without a schedule: the stored
  task is the registered loop's unless a start is about to store it. Without
  Scheduled sessions the poller starts nothing (`NeverScheduled`), and a
  continuation removes no task but its own loop's.
- **Retention** (`RetentionProofs`). `RetentionDeletes`: its steps are steps of
  `DeletionSpec` or leave the store alone, so that the store's theorem gives
  `RetentionLeavesNothing`. `RestartAlwaysKeepsSessions` rests on `FileIsKnown`:
  the file holds the period in force or the one being entered, or nothing that
  can be read. `RetentionTypeCorrect`, for both specifications: what a save
  enters is never the default (`Settled`).
- **Event log** (`EventLogProofs`), for appends that are not torn. What a cached
  count is worth cannot be said of the cache alone, since readers and appends
  store counts of files that they saw at different times. `Counted` says that
  there is one function from the file's lengths to its numbers of lines with
  which every count agrees, wherever it is: in the cache, with a reader, with an
  append. With `Prefix` (what a reader opened is how the file began) the number
  of an event is its line for good: `NumbersAreStable`. `ConfirmedIsRead` rests
  on `Written` and `Placed`, and on `LastOnes`: of the last lines of a file, as
  many are selected as there are, up to the limit. `LogTypeCorrect`.
- **Timeline** (`SessionPageProofs`). `TimelineHasNoGap`. The offset counts cards,
  and the server's list grows at its top, so that a page never begins below
  the last card. `Growing` says that with the bounds on what an answer under
  way may hold; `NextPage` is the arithmetic of one page. `LabelsAlwaysAgree`:
  the two ways of rounding are one for every natural number (`RoundingsAgree`),
  and not only for the sizes of the run.
- **Page** (`SessionPageProofs`). `PageImplementsTimeline`: every step of the page is
  a step of the timeline, its reload, or leaves it alone; both timeline theorems
  follow for the page. `SidebarIsClosable` and `FocusAlwaysComesBack` rest on
  `Closable`: an open sidebar has a trigger and no wide window; the latter is about
  the top bar's button, which disappears exactly where nothing of the sidebar can
  be off the screen.
  `MessagesStayTheirTime`: every message that is shown has a timer, and no two
  timers are for one message (`Timed`). `PageTypeCorrect` needs `Growing` for the
  cards that an answer adds.
- **Schedule** (`CaptureClockProofs`). That `EvaluateRecurring` is right is proved in
  three steps, each for any zone and any window. What a window's intervals are,
  whichever of its two times show once, twice or never (`WindowIs`), and that
  an instant is in one of them exactly when the wall clock shows a time between
  the two, moved out of the gap (`ShownInWindow`). That only the windows of an
  instant's date and of the date before can hold it (`WindowOfTheDay`), so that
  looking from yesterday on finds it: `OpenByTheClock`. And how answers go on:
  nothing opens before the next start, nor within a day if there is none
  (`ClosedUntilNext`); eight dates hold a day of each week day and a window
  that a gap cannot swallow opens on its date (`OpensOnItsDate`), so that a tick
  later the next start is the same (`AnswerStays`). `LeastNatural` and
  `MinAbove` say that `Min` is what it should be where sets are not finite.
- **Clock** (`CaptureClockProofs`). `ClockTypeCorrect`, restarts included: a loop
  sleeps at least a tick and, but for the saving before it, not past the next
  start (`RecheckWithin`).
  `AlwaysOpenAsTheWallClockShows`. `NothingIsEverOverslept`: `Rested` says that the
  schedule stays closed for as long as a Scheduled session sleeps, less the saving
  before it, and that a Capturing one sleeps until its frame is due at the latest.
  `NextStartIsAlwaysKept`. `NextDeadlineOnTimeline` is the arithmetic of
  `GetNextDeadline` (`Quotient` and `Multiple` about integer division). The
  invariant `OnTimeline` says that a request under way was due when it began;
  from both, `DeadlinesAlwaysKeepTheTimeline`, restarts included.
  `ActiveTimeIsAlwaysTimeInWindows` rests on `Accounted` (a segment is open exactly
  while the session is Capturing) and on `Punctual`: whatever a loop was in when
  its window closed has only its remaining length to go, and every tick of overrun
  takes from that.

Two hypotheses of the schedule's theorems say where the code stops being right;
the zones and windows of the run, which has all the shorter windows as well,
meet the first.

- `ChangesWithinADay(z)`: the times that a change skips, the times they move to
  and the times it repeats belong to one date. Almost every zone's changes do. A
  gap just before midnight (23:00 to 24:00, as in America/Nuuk) moves its times
  to the next date: an overnight window of almost a whole day whose end is
  skipped ends two dates after it began, while `EvaluateRecurring` looks back
  one date only, and is closed too early (`docs/ARCHITECTURE.md:44` has such an
  end move forward by the gap).
- `Outlasts(z, s)`, for `NextStartIsAlwaysKept`: the window is longer than the gap.
  A gap swallows a shorter one that it falls into; when that is the week's only
  one, the following week's can be more than eight days away, and no next start
  is shown until it is not. With it goes that a recurring schedule has no
  `startAt`: `GetAvailability` announces that instant although the window may
  be closed then (plan, item 2).

What the constants must satisfy (`ASSUME`) is what the code has: a day has ticks,
a week at most eight days (`EvaluateRecurring` looks that far), the sleep outside
a window is at most a day (30 seconds), wall times are times of the day, loops
are finitely many, intervals and durations are positive.

Only model-checked: the liveness properties (`CancelledLoopEnds`, `RequestsEnd`,
`ScheduledIsWatched`, `ExpiredGoes`, `NoticesTheEnd`, `ButtonsComeBack`, `MessagesGo`,
`ShutdownEnds`), since fairness and ENABLED are out of the prover's reach. Every
invariant and action property of a passing run is proved. Proved and not
model-checked by a run: `OwnerIsAlwaysAwaited`, which takes two loops.

## Not modelled, and the plan

In the order of importance:

1. `CameraProfiles`: readers without the lock over a dictionary that is not
   concurrent, a file written in place, and a deletion that looks for sessions
   that use the profile before it deletes.
2. The start time that the create page keeps beside a recurring schedule, as an
   input of `CaptureClock`.
3. Proofs: `CapturingHasLoop` and the lifecycle with a schedule, for which the
   race of a start with the poller has to be told from the rest; the number of
   frames in the directory when sizes cannot be measured.
4. Frames of deleted sessions in `FrameNumbering`, where a deletion only empties
   the directory; the numbers a page shows while capturing.
5. The event lab of OpenCamInterop.

Not planned: the camera client and address policy, FFmpeg's arguments, the forms,
the filter for local addresses, health and key ring, and the adapters and
encoders of OpenCamInterop (stateless functions over formats).
