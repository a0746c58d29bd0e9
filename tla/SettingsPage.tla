---------------------------- MODULE SettingsPage ----------------------------
(***************************************************************************)
(* The life of the settings in the program (main, interactSettings): they  *)
(* are loaded, applied and reconciled with the autostart entry at start-   *)
(* up, toggled from the live view, edited on the settings page, and saved  *)
(* and applied when the page is left.  The program may be stopped (Ctrl-C, *)
(* a crash) between any two steps; files are edited by hand while it is    *)
(* down.                                                                   *)
(***************************************************************************)
EXTENDS SettingsManager, AppAutostartManager

VARIABLES
    pc,      \* where the main thread is
    starting,\* the settings are applied for the first time
    runtime  \* what the components were given by applySettingsToRuntime

store == <<file, tmp, memory, dirty>>
settingsVars == <<store, autostart, pc, starting, runtime>>

RecoveryHysteresis == 5 * Percent   \* recovery_hysteresis

\* applySettingsToRuntime, setRules and setHistoryMaxSamples.
Applied(s) ==
    [notify |-> s.notify, warning |-> s.warning, critical |-> s.critical,
     recovery |-> IF Below(s.warning, RecoveryHysteresis) THEN 0
                  ELSE IF s.warning = NaN THEN NaN ELSE s.warning - RecoveryHysteresis,
     rules |-> s.rules]

SettingsInit ==
    /\ file \in Contents /\ tmp = NoFile /\ memory = Defaults /\ dirty = FALSE
    /\ entry \in EntryStates /\ agreed = FALSE
    /\ pc = "down" /\ starting = TRUE /\ runtime = Applied(Defaults)

-----------------------------------------------------------------------------
(* Start-up.                                                               *)

\* The first launch goes on to write the defaults.
Boot ==
    /\ pc = "down"
    /\ \E readable \in BOOLEAN : Load(readable)
    /\ pc' = IF file.kind = "none" THEN "write" ELSE "apply"
    /\ UNCHANGED <<file, tmp, autostart, starting, runtime>>

Apply ==
    /\ pc = "apply"
    /\ runtime' = Applied(memory)
    /\ pc' = IF starting THEN "sync" ELSE "live"
    /\ starting' = FALSE
    /\ UNCHANGED <<store, autostart>>

Sync ==
    /\ pc = "sync"
    /\ Synchronize(memory.autostart)
    /\ pc' = "live"
    /\ UNCHANGED <<store, starting, runtime>>

-----------------------------------------------------------------------------
(* The live view and the settings page.                                    *)

ToggleNotifications ==
    /\ pc = "live"
    /\ Update([memory EXCEPT !.notify = ~@])
    /\ runtime' = Applied(memory')
    /\ UNCHANGED <<file, tmp, autostart, pc, starting>>

OpenPage ==
    /\ pc = "live"
    /\ pc' = "page"
    /\ UNCHANGED <<store, autostart, starting, runtime>>

\* editAlerts and interactNetworkTrafficAlerts; the other editors change values of the
\* same kinds.
Edits(s) ==
    {[s EXCEPT !.warning = c[1], !.critical = c[2]] : c \in ThresholdPairs}
        \cup {[s EXCEPT !.rules = r] : r \in RuleLists}

Edit ==
    /\ pc = "page"
    /\ \E next \in Edits(memory) : Update(next)
    /\ UNCHANGED <<file, tmp, autostart, pc, starting, runtime>>

EditStartup(desired) ==
    /\ pc = "page"
    /\ Update([memory EXCEPT !.autostart = desired])
    /\ IF desired THEN Enable ELSE Disable
    /\ UNCHANGED <<file, tmp, pc, starting, runtime>>

KeepsEntry == Succeeds(entry)
DisablesEntry == IF IsManaged THEN Disable ELSE Succeeds(entry)

ResetAll ==
    /\ pc = "page"
    /\ Reset
    /\ DisablesEntry
    /\ UNCHANGED <<file, tmp, pc, starting, runtime>>

LeavePage ==
    /\ pc = "page"
    /\ pc' = IF dirty THEN "write" ELSE "apply"
    /\ UNCHANGED <<store, autostart, starting, runtime>>

-----------------------------------------------------------------------------
(* writeSettingsFile, called by load on the first launch and by save.      *)

AfterWrite(ok) == "apply"

OpenTmp ==
    /\ pc = "write"
    /\ \/ Truncates /\ pc' = "flush"
       \/ UNCHANGED <<file, tmp>> /\ pc' = AfterWrite(FALSE)
    /\ UNCHANGED <<memory, dirty, autostart, starting, runtime>>

FlushTmp ==
    /\ pc = "flush"
    /\ \/ Flushes /\ pc' = "rename"
       \/ UNCHANGED <<file, tmp>> /\ pc' = AfterWrite(FALSE)   \* disk full
    /\ UNCHANGED <<memory, dirty, autostart, starting, runtime>>

RenameTmp ==
    /\ pc = "rename"
    /\ \/ Renames /\ pc' = AfterWrite(TRUE)
       \/ RenameFails /\ pc' = AfterWrite(FALSE)
    /\ UNCHANGED <<memory, autostart, starting, runtime>>

-----------------------------------------------------------------------------
(* The outside.                                                            *)

\* There is no other way to leave the main loop than to be stopped in it.
Stop ==
    /\ pc # "down"
    /\ pc' = "down" /\ starting' = TRUE
    /\ memory' = Defaults /\ dirty' = FALSE /\ runtime' = Applied(Defaults)
    /\ UNCHANGED <<file, tmp, autostart>>

EditFile ==
    /\ pc = "down"
    /\ file' \in Contents
    /\ UNCHANGED <<tmp, memory, dirty, autostart, pc, starting, runtime>>

EditEntry ==
    /\ entry' \in EntryStates \ {entry} /\ agreed' = FALSE
    /\ UNCHANGED <<store, pc, starting, runtime>>

SettingsNext ==
    \/ Boot \/ Apply \/ Sync
    \/ ToggleNotifications \/ OpenPage
    \/ Edit \/ (\E desired \in BOOLEAN : EditStartup(desired)) \/ ResetAll \/ LeavePage
    \/ OpenTmp \/ FlushTmp \/ RenameTmp
    \/ Stop \/ EditFile \/ EditEntry

SettingsSpec == SettingsInit /\ [][SettingsNext]_settingsVars

-----------------------------------------------------------------------------
\* Two levels that differ, but not in their first six digits.
Collapsed(s) == AtLeast(SixDigits(s.warning), SixDigits(s.critical))

\* What a restart makes of the content of a file are these settings, to the six digits a
\* file keeps; but for levels that are the same in six digits, which no file can hold and
\* a restart replaces by those of the defaults.
KeptIn(content, s) ==
    LET reloaded == Serialized(LoadedFrom(content)) IN
    \/ reloaded = Serialized(s)
    \/ /\ Collapsed(s)
       /\ reloaded = [Serialized(s) EXCEPT !.warning = Defaults.warning,
                                           !.critical = Defaults.critical]

\* A stop or a failure in the middle of a save never leaves a half-written config.toml, and
\* settings that are not marked as changed are those a restart would load: through failed
\* saves, repairs, first launches and newer or broken files, no change is forgotten without
\* the mark.
CleanReloads ==
    /\ file.kind # "half"
    /\ pc # "down" /\ ~dirty => file.kind = "config" /\ KeptIn(file.content, memory)

\* In the live view the entry agrees with the preference in memory, unless the last
\* operation on it failed or somebody else changed it: start-up, the startup editor
\* and the reset all keep the two together.
EntryFollowsPreference ==
    pc \in {"live", "page"} /\ agreed => (IsManaged <=> memory.autostart)

\* Violated.  "Keep the settings manager (single source of truth) and the runtime
\* notification manager in sync; the change is saved on exit" (main.cpp:8514): where the
\* program is left from the live view, the file is one a restart accepts, and nothing but
\* the notification switch could differ, it does not differ either.  No way out of the main
\* loop passes by the save at the end of main().
Accepted == file.kind = "config" /\ Valid(LoadedFrom(file.content))
ButForTheSwitch == [LoadedFrom(file.content) EXCEPT !.notify = memory.notify] = memory

SavedOnExit ==
    [][pc = "live" /\ pc' = "down" /\ Accepted /\ ButForTheSwitch =>
          LoadedFrom(file.content).notify = memory.notify]_settingsVars
=============================================================================
