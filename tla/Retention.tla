----------------------------- MODULE Retention ------------------------------
(***************************************************************************)
(* StorageService.ApplyRetentionAsync, seen from one session: runs of the  *)
(* background service and of the settings page select it when it has been  *)
(* finished for RetentionDays, and delete it.                              *)
(*                                                                         *)
(* Runs overlap and take no lock, a deletion can fail at each of its steps *)
(* and is left to the next run, the settings change under a run, and the   *)
(* process may die anywhere.                                               *)
(***************************************************************************)
EXTENDS SessionStore, ApplicationSettings

CONSTANTS
    Maintenance,\* the client that is StorageMaintenanceService
    Never,      \* no CompletedAt
    Horizon     \* the last day (bound)

ASSUME RetentionAssumption ==
    /\ Maintenance \in Clients
    /\ Never \notin Nat
    /\ Horizon \in Nat

VARIABLES
    now,        \* in days since the session was created
    run,        \* where each client is in ApplyRetentionAsync: "none", "selected"
    completedAt,\* CompletedAt of the shared object
    savedCompletedAt,   \* CompletedAt in <id>.json
    copyCompletedAt,    \* CompletedAt in each client's serialized copy
    before,     \* the status a rendering goes back to
    finishedAt  \* when the session was last finished, whatever CompletedAt says

stampVars == <<completedAt, savedCompletedAt, copyCompletedAt>>
vars == <<storeVars, settingsVars, now, run, stampVars, before, finishedAt>>

Lifecycle == INSTANCE SessionLifecycle

Stamps == 0..Horizon \cup {Never}

TypeOK ==
    /\ StoreTypeOK
    /\ SettingsTypeOK
    /\ now \in 0..Horizon
    /\ run \in [Clients -> {"none", "selected"}]
    /\ completedAt \in Stamps
    /\ savedCompletedAt \in Stamps
    /\ copyCompletedAt \in [Clients -> Stamps]
    /\ before \in Status \cup {"none"}
    /\ finishedAt \in 0..Horizon

-----------------------------------------------------------------------------
(* Eligibility.                                                              *)

CreatedAt == 0

FinishedSince == IF completedAt = Never THEN CreatedAt ELSE completedAt

\* TryGetCutoff and SelectExpired: at the cutoff itself a session is kept.
Expired ==
    /\ days > 0
    /\ listed
    /\ status \in Finished
    /\ FinishedSince + days < now

\* Mutant: the background service looks once, when the process starts.
SelectAtStart(c) ==
    /\ c = Maintenance => now = 0
    /\ call[c] = "none"
    /\ run[c] = "none"
    /\ Expired
    /\ run' = [run EXCEPT ![c] = "selected"]
    /\ UNCHANGED <<storeVars, settingsVars, now, stampVars, before, finishedAt>>

\* A run selects its sessions; one that selects nothing changes nothing.
Select(c) ==
    /\ call[c] = "none"
    /\ run[c] = "none"
    /\ Expired
    /\ run' = [run EXCEPT ![c] = "selected"]
    /\ UNCHANGED <<storeVars, settingsVars, now, stampVars, before, finishedAt>>

\* The session is measured, and deleted unless it is gone.
Remove(c) ==
    /\ call[c] = "none"
    /\ run[c] = "selected"
    /\ IF listed THEN DeleteSession(c) ELSE UNCHANGED storeVars
    /\ run' = [run EXCEPT ![c] = "none"]
    /\ UNCHANGED <<settingsVars, now, stampVars, before, finishedAt>>

DeletionStep(c) ==
    /\ Deleting(c)
    /\ UNCHANGED <<settingsVars, now, run, stampVars, before, finishedAt>>

RunStep(c) == Remove(c) \/ DeletionStep(c)

\* The browser of a run started on the page hangs up before the session's turn.
HangUp(c) ==
    /\ c # Maintenance
    /\ run[c] = "selected"
    /\ run' = [run EXCEPT ![c] = "none"]
    /\ UNCHANGED <<storeVars, settingsVars, now, stampVars, before, finishedAt>>

-----------------------------------------------------------------------------
DayPasses ==
    /\ now < Horizon
    /\ now' = now + 1
    /\ UNCHANGED <<storeVars, settingsVars, run, stampVars, before, finishedAt>>

SettingsStep ==
    /\ Saving \/ \E d \in DaysChoices: Save(d)
    /\ UNCHANGED <<storeVars, now, run, stampVars, before, finishedAt>>

Crash ==
    /\ Restart
    /\ SettingsReload
    /\ run' = [c \in Clients |-> "none"]
    /\ completedAt' = savedCompletedAt
    /\ copyCompletedAt' = [c \in Clients |-> Never]
    /\ before' = "none"
    /\ UNCHANGED <<now, savedCompletedAt, finishedAt>>

-----------------------------------------------------------------------------
(* Runs over a finished session that nobody else works on.                   *)

RetentionInit ==
    /\ StoreInit
    /\ listed
    /\ SettingsInit
    /\ now = 0
    /\ run = [c \in Clients |-> "none"]
    /\ completedAt \in {Never, 0}
    /\ status \in {"Completed", "Cancelled"} => completedAt # Never
    /\ status = "Ready" => completedAt = Never
    /\ savedCompletedAt = completedAt
    /\ copyCompletedAt = [c \in Clients |-> Never]
    /\ before = "none"
    /\ finishedAt = 0

FinishedInit == RetentionInit /\ status \in Finished

RunNext ==
    \/ \E c \in Clients: Select(c) \/ RunStep(c) \/ HangUp(c)
    \/ DayPasses
    \/ SettingsStep

FinishedNext == RunNext \/ Crash

\* The service runs every six hours, and the process lives, again and again, long
\* enough for the next step of a run; a deletion that is repeated for ever does
\* not fail for ever.  Nothing is assumed of users.
DeletionSucceeds(c, step) ==
    /\ call[c] = step
    /\ DeletionStep(c)
    /\ listed' => call'[c] # "none"

Fairness ==
    /\ SF_vars(Select(Maintenance))
    /\ SF_vars(Remove(Maintenance))
    /\ \A step \in {"removeDirectory", "removeMetadata", "confirm", "unlist"}:
          SF_vars(DeletionSucceeds(Maintenance, step))

FinishedSpec == FinishedInit /\ [][FinishedNext]_vars /\ Fairness

-----------------------------------------------------------------------------
(* And over one that is captured, rendered and cancelled beside them: the     *)
(* lifecycle of CaptureService, with the date each step leaves on the session *)
(* (and no restart, which may bring back an earlier date with its status).    *)

\* StartSessionAsync, PauseSessionAsync and the loop leave the date alone.
Works ==
    /\ \/ Lifecycle!Start \/ Lifecycle!Window \/ Lifecycle!Complete
       \/ Lifecycle!Render \/ Lifecycle!RenderCancelled \/ Lifecycle!Pause
    /\ UNCHANGED <<completedAt, finishedAt>>

\* FailSessionAsync and CancelSessionAsync.
Ends ==
    /\ Lifecycle!Fail \/ Lifecycle!Cancel
    /\ completedAt' = now
    /\ finishedAt' = now

\* RenderVideoAsync and CompleteSessionAsync: a video, an error, or the old status
\* back for a user who hung up.
Rendered ==
    /\ Lifecycle!Rendered
    /\ \/ status' = "Completed" /\ completedAt' = now /\ finishedAt' = now
       \/ status' = "Failed" /\ UNCHANGED completedAt /\ finishedAt' = now
       \/ status' = before /\ UNCHANGED <<completedAt, finishedAt>>

Work(c) ==
    /\ c # Maintenance
    /\ run[c] = "none"
    /\ \E s \in Status: UpdateSession(c, s)
    /\ Works \/ Ends \/ Rendered
    /\ UNCHANGED <<settingsVars, now, run, savedCompletedAt, copyCompletedAt>>

\* The date goes to the disk with the status beside it.
PersistStep(c) ==
    /\ \/ /\ Serialize(c)
          /\ copyCompletedAt' = [copyCompletedAt EXCEPT ![c] = completedAt]
          /\ UNCHANGED savedCompletedAt
       \/ /\ Replace(c)
          /\ savedCompletedAt' = copyCompletedAt[c]
          /\ copyCompletedAt' = [copyCompletedAt EXCEPT ![c] = Never]
    /\ UNCHANGED <<settingsVars, now, run, completedAt, before, finishedAt>>

Next ==
    \/ \E c \in Clients: Work(c) \/ PersistStep(c)
    \/ RunNext

Spec == RetentionInit /\ [][Next]_vars

-----------------------------------------------------------------------------
\* A session that is past its time goes, whichever runs, restarts and failing
\* deletions it takes, unless the user changes the settings so that it may stay.
ExpiredGoes == Expired ~> ~listed \/ ~Expired

\* Settings that get lost make retention keep sessions, never delete more: a restart
\* brings back the period that was in force, one the user entered and could not
\* save in full, or none.
RestartKeepsSessions == [][Crash => days' \in {days, entered, 0}]_vars

\* A run takes a session only when it has been finished for the period that is in
\* force.
FinishedLongEnough ==
    [][\A c \in Clients: Select(c) => finishedAt + days < now]_vars

=============================================================================
