------------------------ MODULE ApplicationSettings -------------------------
(***************************************************************************)
(* ApplicationSettingsService: the settings in memory, and the file they   *)
(* come back from.  Of the settings only RetentionDays is kept; the limits *)
(* of the storage go the same way beside it.                               *)
(*                                                                         *)
(* The file is written in place, under a lock that readers of the memory   *)
(* do not take, and the write can be cut short: by the end of the process, *)
(* by the disk, or by the browser that hangs up.                           *)
(***************************************************************************)
EXTENDS Naturals

CONSTANTS
    DaysChoices,\* what users enter for RetentionDays (0: keep sessions)
    Torn        \* a file that cannot be read

ASSUME DaysAssumption == DaysChoices \subseteq Nat /\ Torn \notin Nat

VARIABLES
    days,       \* _current.RetentionDays
    file,       \* what the settings file says: none at all is Torn as well
    saving,     \* SaveAsync: "idle", "writing" the file, or "written"
    entered     \* what the save that is under way, or was the last, saves

settingsVars == <<days, file, saving, entered>>

\* Mutant: another default.
OneDay == 1

\* `new ApplicationSettings()`
DefaultDays == 0

SettingsTypeOK ==
    /\ days \in DaysChoices \cup {DefaultDays}
    /\ file \in DaysChoices \cup {Torn}
    /\ saving \in {"idle", "writing", "written"}
    /\ entered \in DaysChoices \cup {DefaultDays}

\* Mutant: what cannot be read is not caught.
LoadUncaught(text) == text

Load(text) == IF text = Torn THEN DefaultDays ELSE text

SettingsInit ==
    /\ file \in DaysChoices \cup {Torn}
    /\ days = Load(file)
    /\ saving = "idle"
    /\ entered = days

\* OnPostAsync, once the lock is free: opening the file to write it empties it.
Save(d) ==
    /\ saving = "idle"
    /\ entered' = d
    /\ file' = Torn
    /\ saving' = "writing"
    /\ UNCHANGED days

SaveWritten ==
    /\ saving = "writing"
    /\ file' = entered
    /\ saving' = "written"
    /\ UNCHANGED <<days, entered>>

\* The write throws, with or without its last part on the disk.
SaveThrows ==
    /\ saving = "writing"
    /\ file' \in {Torn, entered}
    /\ saving' = "idle"
    /\ UNCHANGED <<days, entered>>

SaveReturns ==
    /\ saving = "written"
    /\ days' = entered
    /\ saving' = "idle"
    /\ UNCHANGED <<file, entered>>

Saving == SaveWritten \/ SaveThrows \/ SaveReturns

SettingsReload ==
    /\ days' = Load(file)
    /\ saving' = "idle"
    /\ UNCHANGED <<file, entered>>

=============================================================================
