------------------------ MODULE AppAutostartManager ------------------------
(***************************************************************************)
(* The desktop entry of the program in the user's autostart directory      *)
(* (app_autostart_manager.cpp).  An entry without the ownership marker is  *)
(* somebody else's.  Each operation is one step: its write goes through a  *)
(* temporary file and a rename.                                            *)
(***************************************************************************)

EntryStates == {"none", "foreign", "current", "outdated"}  \* outdated: another Exec=

VARIABLES
    entry,  \* arch-task-manager.desktop
    agreed  \* ghost: the last operation on the entry succeeded, and nobody else
            \* has touched it since

autostart == <<entry, agreed>>

IsManaged == entry \in {"current", "outdated"}   \* isEnabled, entryLooksManaged

Succeeds(next) == entry' = next /\ agreed' = TRUE
Fails == UNCHANGED entry /\ agreed' = FALSE

Enable ==
    \/ entry # "foreign" /\ Succeeds("current")
    \/ Fails   \* left alone; no executable path, directory or disk space

Disable ==
    \/ entry = "none" /\ Succeeds("none")
    \/ IsManaged /\ Succeeds("none")
    \/ entry # "none" /\ Fails   \* left alone; or the entry can not be removed

\* synchronizeWithSettings: an entry of an earlier binary counts as enabled.
Synchronize(desired) ==
    IF ~desired THEN Disable
    ELSE IF IsManaged THEN Succeeds(entry)
    ELSE Enable
=============================================================================
