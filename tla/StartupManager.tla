---------------------------- MODULE StartupManager ----------------------------
(***************************************************************************)
(* The page of the applications that start at login (startup_manager.cpp,  *)
(* interactStartupDetail).  An application is a file of one of three       *)
(* directories, two of the system and the user's own, which shadows them.  *)
(* The program writes only into the last.  What it lists is the            *)
(* directories as it last read them; other programs install, remove and    *)
(* edit files at any time.                                                 *)
(***************************************************************************)
EXTENDS Naturals

CONSTANTS
    Apps,        \* ids: file names
    EditedTo,    \* the files that others write or, by Absent, remove
    MaxEdits     \* bound: what others do to the directories

VARIABLES
    files,       \* external: [directory -> [id -> file]]
    apps,        \* apps_
    asked,       \* what the page waits to have confirmed: an id and the wish
    chosen,      \* ghost: what the program last achieved with the user's file of an id
    edits

startupVars == <<files, apps, asked, chosen, edits>>

Places == {"etc", "extra", "user"}
\* A file: none, or one with or without a [Desktop Entry] group: what Hidden says, whether
\* X-GNOME-Autostart-enabled is set and not true, what OnlyShowIn and NotShowIn make of the
\* desktop at hand, whether Type is missing or Application, and whether the first two keys
\* come again further down, where the last line of a key is the one that is read.
Absent == [there |-> FALSE]
DesktopFiles == [there : {TRUE}, group : BOOLEAN, hidden : BOOLEAN, disabled : BOOLEAN,
                 shown : BOOLEAN, application : BOOLEAN, repeated : BOOLEAN]
Files == {Absent} \cup DesktopFiles
PlainFile == [there |-> TRUE, group |-> TRUE, hidden |-> FALSE, disabled |-> FALSE,
              shown |-> TRUE, application |-> TRUE, repeated |-> FALSE]

ASSUME StartupConstants == MaxEdits \in Nat /\ EditedTo \subseteq Files

NothingAsked == [id |-> "", enable |-> FALSE]

\* applyEnabledState
StartsAtLogin(file) == ~ file.hidden /\ ~ file.disabled /\ file.shown

\* refresh(): later system directories replace earlier ones and the user's replaces
\* them all; what has no group, or another Type, is passed over.
Readable(id, place) ==
    files[place][id].there /\ files[place][id].group /\ files[place][id].application
SystemFirst(id) ==
    IF Readable(id, "extra") THEN "extra" ELSE IF Readable(id, "etc") THEN "etc" ELSE "user"
Precedence(id) ==
    IF Readable(id, "user") THEN "user" ELSE IF Readable(id, "extra") THEN "extra" ELSE "etc"
Found == {id \in Apps : \E place \in Places : Readable(id, place)}
Listing ==
    [id \in Found |->
        [place |-> Precedence(id), enabled |-> StartsAtLogin(files[Precedence(id)][id]),
         overrides |-> Readable(id, "user") /\ (Readable(id, "etc") \/ Readable(id, "extra"))]]

StartupInit ==
    /\ files \in [Places -> [Apps -> {Absent, PlainFile, [PlainFile EXCEPT !.shown = FALSE]}]]
    /\ apps = Listing
    /\ asked = NothingAsked /\ chosen = [id \in Apps |-> ""] /\ edits = 0

-----------------------------------------------------------------------------
\* A package or the user changes a file; the user's own is no longer as we left it.
OthersEdit ==
    /\ edits < MaxEdits /\ edits' = edits + 1
    /\ \E place \in Places, id \in Apps, file \in EditedTo :
          /\ file # files[place][id]
          /\ files' = [files EXCEPT ![place][id] = file]
          /\ chosen' = IF place = "user" THEN [chosen EXCEPT ![id] = ""] ELSE chosen
    /\ UNCHANGED <<apps, asked>>

\* Actions 1 and 2: an application that is listed, and the question about it.
AsksForApp ==
    /\ asked = NothingAsked
    /\ \E id \in DOMAIN apps, enable \in BOOLEAN : asked' = [id |-> id, enable |-> enable]
    /\ UNCHANGED <<files, apps, chosen, edits>>

Refuses ==
    /\ asked # NothingAsked /\ asked' = NothingAsked
    /\ UNCHANGED <<files, apps, chosen, edits>>

\* Action 6.
RefreshesList ==
    /\ asked = NothingAsked
    /\ apps' = Listing
    /\ UNCHANGED <<files, asked, chosen, edits>>

\* The file the change is made in: the user's, or a copy of the one that was listed,
\* which may be gone by now.
Source(id) == IF files["user"][id] # Absent THEN files["user"][id] ELSE files[apps[id].place][id]

\* updateDesktopKeys: there is a group, and the first line of both keys in it is set; Type
\* and whatever else there is are kept, further lines of the two keys too.
Updated(file, enable) ==
    [file EXCEPT !.group = TRUE,
                 !.hidden = IF file.repeated THEN @ ELSE ~ enable,
                 !.disabled = IF file.repeated THEN @ ELSE ~ enable]

\* What a failed write leaves of such a file: nothing, a part of the group's name, or the
\* group with its keys up to one that may be cut short.
CutShort(file, enable) ==
    {[PlainFile EXCEPT !.group = FALSE]} \cup
    {left \in DesktopFiles :
        /\ left.group
        /\ left.hidden => (file.hidden \/ ~ enable)
        /\ left.repeated => file.repeated}

\* enableApp, disableApp, confirmed, and carried out: the list is read again.
SetsEnabled ==
    /\ asked # NothingAsked /\ asked' = NothingAsked
    /\ LET id == asked.id IN
       /\ Source(id) # Absent
       /\ files' = [files EXCEPT !["user"][id] = Updated(Source(id), asked.enable)]
       /\ chosen' = [chosen EXCEPT ![id] = IF asked.enable THEN "on" ELSE "off"]
    /\ apps' = Listing'
    /\ UNCHANGED edits

\* The directory, the copy or the writing fails: the file is as it was, copied, or what
\* the failed writing left of it.
SetEnabledFails ==
    /\ asked # NothingAsked /\ asked' = NothingAsked
    /\ \E left \in {files["user"][asked.id], Source(asked.id)} \cup
                   (IF Source(asked.id) = Absent THEN {}
                    ELSE CutShort(Source(asked.id), asked.enable)) :
          /\ files' = [files EXCEPT !["user"][asked.id] = left]
          /\ chosen' = IF left = files["user"][asked.id] THEN chosen
                       ELSE [chosen EXCEPT ![asked.id] = ""]
    /\ UNCHANGED <<apps, edits>>

StartupNext == OthersEdit \/ AsksForApp \/ Refuses \/ RefreshesList \/ SetsEnabled \/ SetEnabledFails

StartupSpec == StartupInit /\ [][StartupNext]_startupVars

-----------------------------------------------------------------------------
\* The list takes the file for an entry, and its keys for what the program wrote.
Heeded(file) == file.application /\ ~ file.repeated

\* What the user achieved with the page lasts, whatever packages do to the system
\* directories afterwards: an application that was disabled does not start at the next
\* login and is listed so, one that was enabled starts wherever its entry admits the
\* desktop; and its entry is never gone from the list.  Not so where the user's file is of
\* another Type, or has the keys twice: the program says that it succeeded, and nothing
\* has changed.
ChoiceLasts ==
    \A id \in Apps :
        (chosen[id] # "" /\ Heeded(files["user"][id])) =>
            /\ id \in DOMAIN Listing /\ id \in DOMAIN apps
            /\ Listing[id].enabled <=> chosen[id] = "on" /\ files["user"][id].shown
            /\ apps[id].place = "user" => apps[id].enabled = Listing[id].enabled
=============================================================================
