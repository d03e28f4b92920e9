------------------------------ MODULE Shutdown ------------------------------
(***************************************************************************)
(* CaptureBackgroundService.StopAsync, and the registry of tasks by which  *)
(* it waits for the capture loops: `_sessionTasks` has one place for each  *)
(* session.                                                                *)
(*                                                                         *)
(* A loop runs from the moment its token source is registered, and its     *)
(* task is stored after that; a continuation removes the task when the     *)
(* loop has ended.  Loops that were told to stop go on meanwhile, and so   *)
(* does the poller, until both have noticed.  (A host that loses patience  *)
(* and ends the process is Crash of CaptureService, and left out here.)    *)
(***************************************************************************)
EXTENDS CaptureService

VARIABLES
    task,       \* the loop whose task `_sessionTasks` holds, or NoOne
    storing,    \* the loop that each starter has registered but not stored
    phase,      \* of the shutdown
    awaited     \* captureTasks

stopVars == <<task, storing, phase, awaited>>
allVars == <<vars, stopVars>>

\* Who calls EnsureLoopAsync: a start, under the gate, or the poller.
Starters == {"start", "poller"}

Phases == {"serving", "draining", "cancelling", "stopping", "waiting", "stopped"}

ShutdownTypeOK ==
    /\ TypeOK
    /\ task \in Loops \cup {NoOne}
    /\ storing \in [Starters -> Loops \cup {NoOne}]
    /\ phase \in Phases
    /\ awaited \subseteq Loops

ShutdownInit ==
    /\ Init
    /\ task = NoOne
    /\ storing = [s \in Starters |-> NoOne]
    /\ phase = "serving"
    /\ awaited = {}

-----------------------------------------------------------------------------
(* The registry.                                                             *)

\* EnsureLoopAsync between TryAdd and the store of the task.  (A start holds the
\* gate until the end, so that another one waits; and the name of a loop is not
\* used again before.)
Registered(s) ==
    \/ token' \in {token, NoOne} /\ UNCHANGED storing
    \/ /\ token' \notin {token, NoOne}
       /\ storing[s] = NoOne
       /\ \A other \in Starters: storing[other] # token'
       /\ storing' = [storing EXCEPT ![s] = token']

\* The task is stored over the one that is there, and its continuation attached,
\* which runs at once when the loop has ended already.
StoreTask(s) ==
    /\ storing[s] # NoOne
    /\ task' = IF loop[storing[s]] = "none" THEN NoOne ELSE storing[s]
    /\ storing' = [storing EXCEPT ![s] = NoOne]
    /\ UNCHANGED <<vars, phase, awaited>>

\* The continuation removes the task of this loop only.
Forget(l) == task' = IF task = l THEN NoOne ELSE task

LoopRuns(l) ==
    /\ LoopStep(l)
    /\ \/ loop'[l] = "none" /\ Forget(l)
       \/ loop'[l] # "none" /\ UNCHANGED task
    /\ UNCHANGED <<storing, phase, awaited>>

RequestRuns(r) ==
    /\ RequestStep(r)
    /\ Registered("start")
    /\ UNCHANGED <<task, phase, awaited>>

StoreRuns(c) == StoreStep(c) /\ UNCHANGED stopVars

Arrives(r) ==
    /\ phase = "serving"
    /\ \/ Abandon(r)
       \/ \E o \in Operations: Receive(r, o)
    /\ UNCHANGED stopVars

-----------------------------------------------------------------------------
(* The poller, before and after its token is cancelled.                      *)

PollerRuns ==
    /\ phase \in {"serving", "draining", "cancelling"}
    /\ PollerScans \/ PollerEnsures
    /\ Registered("poller")
    /\ UNCHANGED <<task, phase, awaited>>

\* Mutant: a loop's token source is not linked to the stopping token.
PollerFinishesUnlinked ==
    /\ phase = "stopping"
    /\ PollerEnsures
    /\ Registered("poller")
    /\ UNCHANGED <<task, phase, awaited>>

\* The poller goes on to the end of its list; the token of a loop that it starts
\* now is cancelled from the beginning.
PollerFinishes ==
    /\ phase = "stopping"
    /\ poller
    /\ poller' = FALSE
    /\ \/ token # NoOne /\ UNCHANGED loopVars
       \/ /\ token = NoOne
          /\ \E l \in Loops:
                /\ Free(l)
                /\ token' = l
                /\ loop' = [loop EXCEPT ![l] = "top"]
                /\ cancelled' = [cancelled EXCEPT ![l] = TRUE]
    /\ Registered("poller")
    /\ UNCHANGED <<storeVars, requestVars, task, phase, awaited>>

-----------------------------------------------------------------------------
(* The host stops: the web server first, which answers the requests it has,  *)
(* then this service.                                                        *)

StopApplication ==
    /\ phase = "serving"
    /\ phase' = "draining"
    /\ UNCHANGED <<vars, task, storing, awaited>>

CancelAllLoops ==
    /\ phase = "draining"
    /\ \A r \in Requests: RequestAt(r, "none")
    /\ storing["start"] = NoOne
    /\ cancelled' = [l \in Loops |-> cancelled[l] \/ token = l]
    /\ phase' = "cancelling"
    /\ UNCHANGED <<storeVars, token, loop, requestVars, poller, task, storing, awaited>>

\* base.StopAsync cancels the stopping token, and with it every loop's ...
CancelStoppingToken ==
    /\ phase = "cancelling"
    /\ cancelled' = [l \in Loops |-> cancelled[l] \/ loop[l] # "none"]
    /\ phase' = "stopping"
    /\ UNCHANGED <<storeVars, token, loop, requestVars, poller, task, storing, awaited>>

\* ... and waits for the poller, before the tasks are looked up.
LookUpTasks ==
    /\ phase = "stopping"
    /\ ~poller /\ storing["poller"] = NoOne
    /\ awaited' = {task} \ {NoOne}
    /\ phase' = "waiting"
    /\ UNCHANGED <<vars, task, storing>>

StopAsyncReturns ==
    /\ phase = "waiting"
    /\ \A l \in awaited: loop[l] = "none"
    /\ phase' = "stopped"
    /\ UNCHANGED <<vars, task, storing, awaited>>

StopStep == CancelAllLoops \/ CancelStoppingToken \/ LookUpTasks \/ StopAsyncReturns

-----------------------------------------------------------------------------
ShutdownNext ==
    \/ \E l \in Loops: LoopRuns(l)
    \/ \E r \in Requests: RequestRuns(r) \/ Arrives(r)
    \/ \E c \in Clients: StoreRuns(c)
    \/ \E s \in Starters: StoreTask(s)
    \/ PollerRuns \/ PollerFinishes
    \/ StopApplication \/ StopStep

ShutdownSpec == ShutdownInit /\ [][ShutdownNext]_allVars

\* As in CaptureService; that somebody stops the application is not assumed.
ShutdownFairness ==
    /\ \A l \in Loops: WF_allVars(LoopRuns(l))
    /\ \A r \in Requests: WF_allVars(RequestRuns(r))
                          /\ SF_allVars(EnterGate(r) /\ UNCHANGED stopVars)
    /\ \A c \in Clients: SF_allVars(StoreRuns(c))
    /\ \A s \in Starters: WF_allVars(StoreTask(s))
    /\ WF_allVars(PollerRuns)
    /\ WF_allVars(PollerFinishes)
    /\ WF_allVars(StopStep)

FairShutdownSpec == ShutdownSpec /\ ShutdownFairness

-----------------------------------------------------------------------------
\* Once StopAsync has looked its tasks up, no loop begins another round: each one
\* that still runs has been told to stop, also one that the poller started, or
\* that pause and a new start overtook, while the service stopped.
NoLoopGoesOn ==
    phase \in {"waiting", "stopped"} =>
        \A l \in Loops: loop[l] # "none" => cancelled[l]

\* The running loop is the one that shutdown waits for: between two calls of
\* EnsureLoopAsync the task that is stored is the registered loop's, whatever
\* overtaken loops end meanwhile.  (Proved for sessions without a schedule.)
OwnerIsAwaited ==
    token # NoOne /\ (\A s \in Starters: storing[s] = NoOne) => task = token

\* A shutdown comes to an end by itself, whatever the requests, the poller and the
\* loops were doing when it began.
ShutdownEnds == phase = "draining" ~> phase = "stopped"

=============================================================================
