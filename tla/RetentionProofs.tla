--------------------------- MODULE RetentionProofs --------------------------
(***************************************************************************)
(* What holds of retention for any number of overlapping runs, any         *)
(* settings and any length of time.                                        *)
(***************************************************************************)
EXTENDS Retention, SessionStoreProofs

-----------------------------------------------------------------------------
(* Runs do nothing to the store but delete.                                  *)

LEMMA RunsOnlyDelete == [FinishedNext]_vars => [DeletionNext]_storeVars
<1> SUFFICES ASSUME [FinishedNext]_vars
             PROVE  [DeletionNext]_storeVars
  OBVIOUS
<1>1. ASSUME NEW c \in Clients, Select(c) \/ RunStep(c) \/ HangUp(c)
      PROVE  [DeletionNext]_storeVars
  <2>1. CASE Select(c) \/ HangUp(c)
    BY <2>1 DEF Select, HangUp
  <2>2. CASE Remove(c)
    BY <2>2 DEF Remove, DeletionNext
  <2>3. CASE DeletionStep(c)
    BY <2>3 DEF DeletionStep, DeletionNext
  <2>4. QED
    BY <1>1, <2>1, <2>2, <2>3 DEF RunStep
<1>2. CASE DayPasses \/ SettingsStep
  BY <1>2 DEF DayPasses, SettingsStep
<1>3. CASE Crash
  BY <1>3 DEF Crash, DeletionNext
<1>4. CASE UNCHANGED vars
  BY <1>4 DEF vars
<1>5. QED
  BY <1>1, <1>2, <1>3, <1>4 DEF FinishedNext, RunNext

\* Retention implements the store's deletions ...
THEOREM RetentionDeletes == FinishedSpec => DeletionSpec
<1>1. FinishedInit => DeletionInit
  BY DEF FinishedInit, RetentionInit, DeletionInit
<1>2. QED
  BY <1>1, RunsOnlyDelete, PTL DEF FinishedSpec, DeletionSpec

\* ... and so leaves nothing of a session that is no longer listed, whichever runs
\* overlap, fail and are interrupted.
THEOREM RetentionLeavesNothing == FinishedSpec => []NothingLeftBehind
<1>1. QED
  BY RetentionDeletes, DeletionsLeaveNothing, PTL

-----------------------------------------------------------------------------
(* The settings' file holds the period in force, the one entered last, or     *)
(* nothing that can be read.                                                  *)

FileIsKnown ==
    /\ days \in Nat /\ entered \in Nat
    /\ file \in {days, entered, Torn}
    /\ saving = "written" => file = entered

LEMMA FileIsKnownInit == FinishedInit => FileIsKnown
  BY DaysAssumption DEF FinishedInit, RetentionInit, SettingsInit, FileIsKnown, Load, DefaultDays

LEMMA FileIsKnownStep == FileIsKnown /\ [FinishedNext]_vars => FileIsKnown'
<1> SUFFICES ASSUME FileIsKnown, [FinishedNext]_vars
             PROVE  FileIsKnown'
  OBVIOUS
<1>1. CASE SettingsStep
  <2>1. CASE Saving
    BY <2>1 DEF Saving, SaveWritten, SaveThrows, SaveReturns, FileIsKnown
  <2>2. ASSUME NEW d \in DaysChoices, Save(d)
        PROVE  FileIsKnown'
    BY <2>2, DaysAssumption DEF Save, FileIsKnown
  <2>3. QED
    BY <1>1, <2>1, <2>2 DEF SettingsStep
<1>2. CASE Crash
  BY <1>2 DEF Crash, SettingsReload, Load, DefaultDays, FileIsKnown
<1>3. CASE UNCHANGED settingsVars
  BY <1>3 DEF settingsVars, FileIsKnown
<1>4. ASSUME NEW c \in Clients, Select(c) \/ RunStep(c) \/ HangUp(c)
      PROVE  UNCHANGED settingsVars
  BY <1>4 DEF Select, RunStep, Remove, DeletionStep, HangUp
<1>5. DayPasses \/ UNCHANGED vars => UNCHANGED settingsVars
  BY DEF DayPasses, vars
<1>6. QED
  BY <1>1, <1>2, <1>3, <1>4, <1>5 DEF FinishedNext, RunNext

\* A restart brings back the period that was in force, the one entered last, or
\* none: settings that are lost never make retention delete more.
THEOREM RestartAlwaysKeepsSessions == FinishedSpec => RestartKeepsSessions
<1>1. FileIsKnown /\ [FinishedNext]_vars => [Crash => days' \in {days, entered, 0}]_vars
  BY DEF FileIsKnown, Crash, SettingsReload, Load, DefaultDays
<1>2. QED
  BY <1>1, FileIsKnownInit, FileIsKnownStep, PTL DEF FinishedSpec, RestartKeepsSessions
-----------------------------------------------------------------------------
(* Types.  What is saved was entered: it is never the default.                *)

Settled ==
    /\ SettingsTypeOK
    /\ saving # "idle" => entered \in DaysChoices

LEMMA SettledStep == Settled /\ (SettingsStep \/ SettingsReload) => Settled'
<1> USE DEF Settled, SettingsTypeOK
<1>1. ASSUME Settled, Saving
      PROVE  Settled'
  BY <1>1 DEF Saving, SaveWritten, SaveThrows, SaveReturns
<1>2. ASSUME Settled, NEW d \in DaysChoices, Save(d)
      PROVE  Settled'
  BY <1>2 DEF Save
<1>3. ASSUME Settled, SettingsReload
      PROVE  Settled'
  BY <1>3 DEF SettingsReload, Load
<1>4. QED
  BY <1>1, <1>2, <1>3 DEF SettingsStep

\* The variables of retention itself.
RunsTypeOK ==
    /\ now \in 0..Horizon
    /\ run \in [Clients -> {"none", "selected"}]
    /\ completedAt \in Stamps
    /\ savedCompletedAt \in Stamps
    /\ copyCompletedAt \in [Clients -> Stamps]
    /\ before \in Status \cup {"none"}
    /\ finishedAt \in 0..Horizon

Typed == StoreTypeOK /\ Settled /\ RunsTypeOK

LEMMA TypedInit == RetentionInit => Typed
<1> SUFFICES ASSUME RetentionInit
             PROVE  Typed
  OBVIOUS
<1>1. StoreTypeOK
  BY DEF RetentionInit, StoreInit, StoreTypeOK, Status, Call, Reload
<1>2. Settled
  BY DEF RetentionInit, SettingsInit, Settled, SettingsTypeOK, Load
<1>3. RunsTypeOK
  BY RetentionAssumption DEF RetentionInit, RunsTypeOK, Stamps
<1>4. QED
  BY <1>1, <1>2, <1>3 DEF Typed

\* A rendering goes back to a status that the session had.
LEMMA BeforeIsAStatus ==
    ASSUME status \in Status, before \in Status \cup {"none"}, Works \/ Ends \/ Rendered
    PROVE  before' \in Status \cup {"none"}
<1>1. CASE Works
  BY <1>1 DEF Works, Lifecycle!Start, Lifecycle!Window, Lifecycle!Complete, Lifecycle!Render,
              Lifecycle!RenderCancelled, Lifecycle!RenderFrom, Lifecycle!Pause
<1>2. CASE Ends
  BY <1>2 DEF Ends, Lifecycle!Fail, Lifecycle!Cancel
<1>3. CASE Rendered
  BY <1>3 DEF Rendered, Lifecycle!Rendered
<1>4. QED
  BY <1>1, <1>2, <1>3

LEMMA TypedStep == Typed /\ [Next \/ FinishedNext]_vars => Typed'
<1> SUFFICES ASSUME Typed, [Next \/ FinishedNext]_vars
             PROVE  Typed'
  OBVIOUS
<1>1. ASSUME NEW c \in Clients, Work(c)
      PROVE  Typed'
  <2>1. StoreTypeOK'
    <3>1. StoreNext
      BY <1>1 DEF Work, StoreNext
    <3>2. QED
      BY <3>1, StoreTypeStep DEF Typed
  <2>2. Settled'
    BY <1>1 DEF Typed, Settled, SettingsTypeOK, Work, settingsVars
  <2>3. before' \in Status \cup {"none"}
    BY <1>1, BeforeIsAStatus DEF Work, Typed, StoreTypeOK, RunsTypeOK
  <2>4. /\ completedAt' \in {completedAt, now}
        /\ finishedAt' \in {finishedAt, now}
    BY <1>1 DEF Work, Works, Ends, Rendered
  <2>5. QED
    BY <1>1, <2>1, <2>2, <2>3, <2>4 DEF Typed, RunsTypeOK, Work, Stamps
<1>2. ASSUME NEW c \in Clients, PersistStep(c)
      PROVE  Typed'
  <2>1. StoreTypeOK'
    <3>1. StoreNext
      BY <1>2 DEF PersistStep, StoreNext, Persisting
    <3>2. QED
      BY <3>1, StoreTypeStep DEF Typed
  <2>2. Settled'
    BY <1>2 DEF Typed, Settled, SettingsTypeOK, PersistStep, settingsVars
  <2>3. QED
    BY <1>2, <2>1, <2>2 DEF Typed, RunsTypeOK, PersistStep, Stamps
<1>3. ASSUME [FinishedNext]_vars
      PROVE  Typed'
  <2>1. StoreTypeOK'
    <3>1. [StoreNext]_storeVars
      BY <1>3, RunsOnlyDelete DEF DeletionNext, StoreNext
    <3>2. QED
      BY <3>1, StoreTypeStep DEF Typed
  <2>2. \/ SettingsStep \/ SettingsReload
        \/ UNCHANGED settingsVars
    BY <1>3 DEF FinishedNext, RunNext, Select, RunStep, Remove, DeletionStep, HangUp, DayPasses,
                Crash, vars
  <2>3. Settled'
    BY <2>2, SettledStep DEF Typed, Settled, SettingsTypeOK, settingsVars
  <2>4. RunsTypeOK'
    <3> USE DEF Typed, RunsTypeOK, Stamps, stampVars
    <3>1. ASSUME NEW c \in Clients, Select(c) \/ RunStep(c) \/ HangUp(c)
          PROVE  RunsTypeOK'
      BY <3>1 DEF Select, RunStep, Remove, DeletionStep, HangUp
    <3>2. CASE DayPasses
      BY <3>2, RetentionAssumption DEF DayPasses
    <3>3. CASE SettingsStep
      BY <3>3 DEF SettingsStep
    <3>4. CASE Crash
      BY <3>4 DEF Crash
    <3>5. CASE UNCHANGED vars
      BY <3>5 DEF vars
    <3>6. QED
      BY <1>3, <3>1, <3>2, <3>3, <3>4, <3>5 DEF FinishedNext, RunNext
  <2>5. QED
    BY <2>1, <2>3, <2>4 DEF Typed
<1>4. QED
  BY <1>1, <1>2, <1>3 DEF Next, FinishedNext

\* Retention keeps the session, the settings and the dates in their types, for any
\* number of overlapping runs and any settings, with failures and restarts, and
\* beside the work that goes on with the session.
THEOREM RetentionTypeCorrect == (FinishedSpec => []TypeOK) /\ (Spec => []TypeOK)
<1>1. Typed => TypeOK
  BY DEF Typed, Settled, RunsTypeOK, TypeOK
<1>2. FinishedSpec => []Typed
  <2>1. FinishedInit => Typed
    BY TypedInit DEF FinishedInit
  <2>2. Typed /\ [FinishedNext]_vars => Typed'
    BY TypedStep
  <2>3. QED
    BY <2>1, <2>2, PTL DEF FinishedSpec
<1>3. Spec => []Typed
  <2>1. Typed /\ [Next]_vars => Typed'
    BY TypedStep
  <2>2. QED
    BY <2>1, TypedInit, PTL DEF Spec
<1>4. QED
  BY <1>1, <1>2, <1>3, PTL

=============================================================================
