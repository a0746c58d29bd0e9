------------------------------ MODULE PagesProofs ------------------------------
(***************************************************************************)
(* Theorems about the main loop and about the pages that change something  *)
(* outside the program - the start-up applications, the packages, the      *)
(* settings with their file and the services - for every value of their    *)
(* constants.                                                              *)
(***************************************************************************)
EXTENDS MainLoop, StartupManager, PackageTransaction, SettingsPage, SystemdManager,
        SubsequencesProofs, TLAPS

(* The main loop.                                                          *)

\* What is held between two turns is from the last refresh, but for the parts the refresh
\* after the process page leaves out, for the memory of a failed one and for the start-up
\* applications, which are as they were last listed.
HeldInv ==
    /\ refresh \in Nat \ {0}
    /\ DOMAIN held = Locals \cup Kept
    /\ \A p \in (Locals \cup Kept) \ {"network", "pressure", "load", "startup"} :
          \/ held[p] = refresh
          \/ p = "filesystems" /\ refresh = 1
          \/ p = "memory" /\ held[p] \in {0, refresh + 1}
    /\ turn = "sleeping" => held["startup"] = listed

\* Everything that is fed has seen the refreshes so far and nothing else, but for two
\* histories, which end with the reading that is held.
FedInv ==
    /\ DOMAIN fed = Fed
    /\ \A c \in FedAtOnce : fed[c] = 1 .. refresh
    /\ \A part \in {"pressure", "load"} :
          /\ held[part] \in fed[HistoryOf(part)]
          /\ \A r \in fed[HistoryOf(part)] : r \in Nat /\ r <= held[part]
          /\ held[part] \in Nat /\ held[part] <= refresh

LoopInv ==
    /\ HeldInv /\ FedInv
    /\ \A part \in DOMAIN screen.parts : Shown(part)
    /\ \A h \in Histories : sizes[h] = wanted

LEMMA FedByRefresh ==
  ASSUME HeldInv, FedInv, refresh' = refresh + 1,
         \/ fed' = Given(FedAtOnce) /\ held' = Taken(Assigned)
         \/ fed' = Given(Fed) /\ held' = Taken(Locals \cup Kept)
  PROVE  FedInv'
<1>1. DOMAIN fed' = Fed BY DEF Given
<1>2. \A c \in FedAtOnce : fed'[c] = fed[c] \cup {refresh + 1}
  BY DEF Given, FedAtOnce
<1>3. (1 .. refresh) \cup {refresh + 1} = 1 .. refresh' BY DEF HeldInv
<1>4. ASSUME NEW part \in {"pressure", "load"}
      PROVE  /\ held'[part] \in fed'[HistoryOf(part)]
             /\ \A r \in fed'[HistoryOf(part)] : r \in Nat /\ r <= held'[part]
             /\ held'[part] \in Nat /\ held'[part] <= refresh'
  <2>1. /\ part \in Locals \cup Kept /\ part \notin Assigned /\ part # "startup"
        /\ HistoryOf(part) \in Fed /\ HistoryOf(part) \notin FedAtOnce
    BY DEF Locals, Assigned, HistoryOf, Fed, FedAtOnce
  <2>2. CASE fed' = Given(FedAtOnce) /\ held' = Taken(Assigned)
    <3>1. held'[part] = held[part] /\ fed'[HistoryOf(part)] = fed[HistoryOf(part)]
      BY <2>1, <2>2 DEF Given, Taken
    <3> QED BY <3>1 DEF FedInv, HeldInv
  <2>3. CASE fed' = Given(Fed) /\ held' = Taken(Locals \cup Kept)
    <3>1. held'[part] = refresh + 1 BY <2>1, <2>3 DEF Taken
    <3>2. fed'[HistoryOf(part)] = fed[HistoryOf(part)] \cup {refresh + 1}
      BY <2>1, <2>3 DEF Given
    <3>3. /\ refresh \in Nat /\ held[part] \in Nat /\ held[part] <= refresh
          /\ \A r \in fed[HistoryOf(part)] : r \in Nat /\ r <= held[part]
      BY DEF FedInv, HeldInv
    <3> QED BY <3>1, <3>2, <3>3
  <2> QED BY <2>2, <2>3
<1> QED BY <1>1, <1>2, <1>3, <1>4 DEF FedInv

\* A frame drawn from what a refresh took shows that refresh.
LEMMA FrameAfterRefresh ==
  ASSUME HeldInv, NEW parts, parts \in {Assigned, Locals \cup Kept},
         held' = Taken(parts), screen' = Frame(held', refresh + 1), refresh' = refresh + 1,
         listed' = listed
  PROVE  HeldInv' /\ \A part \in DOMAIN screen.parts' : Shown(part)'
<1>1. \A p \in (Locals \cup Kept) \ {"network", "pressure", "load", "startup"} :
        held'[p] = refresh'
  BY DEF Taken, Assigned
<1>2. DOMAIN held' = Locals \cup Kept /\ held'["startup"] = listed'
  BY DEF Taken, Assigned, Locals
<1>3. HeldInv' BY <1>1, <1>2 DEF HeldInv
<1>4. /\ screen'.parts = [p \in Locals \cup Kept |-> IF p = "network" THEN refresh + 1 ELSE held'[p]]
      /\ DOMAIN screen'.parts = Locals \cup Kept
  BY DEF Frame
<1>5. \A part \in Locals \cup Kept : Shown(part)'
  BY <1>1, <1>2, <1>4 DEF Late, Shown
<1> QED BY <1>3, <1>4, <1>5

\* A page shows what is held, of the parts it is given.
LEMMA PagePartsHeld ==
  ASSUME NEW opened \in Pages
  PROVE  /\ PageParts(opened) \subseteq (Locals \cup Kept) \ {"pressure", "load"}
         /\ "network" \in PageParts(opened) => opened = "network"
         /\ "startup" \in PageParts(opened) => opened = "startup"
  BY DEF PageParts, Pages, Locals, Kept

LEMMA LoopInvStep ==
  ASSUME LoopInv, LoopNext
  PROVE  LoopInv'
<1>1. CASE NoCommand
  BY <1>1 DEF NoCommand, LoopInv, HeldInv, FedInv, Late, Shown
<1>2. CASE \E to \in {"list", "tree"} : SetView(to)
  BY <1>2 DEF SetView, LoopInv, HeldInv, FedInv, Late, Shown
<1>3. ASSUME NEW cpu \in BOOLEAN, NEW mem \in BOOLEAN, Manage(cpu, mem) PROVE LoopInv'
  <2>1. CASE cpu /\ mem
    <3>1. /\ held' = Taken(Assigned) /\ fed' = Given(FedAtOnce) /\ refresh' = refresh + 1
          /\ screen' = Frame(held', refresh + 1) /\ UNCHANGED <<listed, wanted, sizes>>
      BY <1>3, <2>1 DEF Manage
    <3>2. HeldInv' /\ FedInv'
      BY <3>1, FrameAfterRefresh, FedByRefresh DEF LoopInv
    <3>3. \A part \in DOMAIN screen.parts' : Shown(part)'
      BY <3>1, FrameAfterRefresh DEF LoopInv
    <3> QED BY <3>1, <3>2, <3>3 DEF LoopInv
  <2>2. CASE ~(cpu /\ mem)
    <3>1. /\ held' = [held EXCEPT !["memory"] = IF mem THEN refresh + 1 ELSE 0]
          /\ UNCHANGED <<turn, listed, fed, screen, refresh, wanted, sizes>>
      BY <1>3, <2>2 DEF Manage
    <3>2. /\ DOMAIN held' = DOMAIN held /\ \A p \in DOMAIN held \ {"memory"} : held'[p] = held[p]
          /\ "memory" \in DOMAIN held => held'["memory"] \in {0, refresh + 1}
      BY <3>1
    <3>3. HeldInv' BY <3>1, <3>2 DEF LoopInv, HeldInv, Locals
    <3>4. FedInv' BY <3>1, <3>2 DEF LoopInv, HeldInv, FedInv, Locals, HistoryOf
    <3>5. \A part \in DOMAIN screen.parts : Shown(part)'
      BY <3>1, <3>2 DEF LoopInv, HeldInv, Shown, Late, Locals
    <3> QED BY <3>1, <3>3, <3>4, <3>5 DEF LoopInv
  <2> QED BY <2>1, <2>2
<1>4. ASSUME NEW opened \in Pages, Opens(opened) PROVE LoopInv'
  <2>1. HeldInv' /\ FedInv' BY <1>4 DEF Opens, LoopInv, HeldInv, FedInv
  <2>2. CASE view = "list"
    <3>1. /\ screen' = [of |-> opened, parts |-> [p \in PageParts(opened) |-> held[p]]]
          /\ opened # "startup" => listed' = listed
      BY <1>4, <2>2 DEF Opens
    <3>2. /\ DOMAIN screen'.parts = PageParts(opened) /\ screen'.of = opened
          /\ \A p \in PageParts(opened) : screen'.parts[p] = held[p]
      BY <3>1
    <3>3. ASSUME NEW part \in PageParts(opened) PROVE Shown(part)'
      <4>1. UNCHANGED <<held, refresh>> BY <1>4 DEF Opens
      <4>2. CASE part = "startup" BY <3>2, <4>2, PagePartsHeld DEF Shown
      <4>3. CASE part # "startup"
        BY <3>2, <3>3, <4>1, <4>3, PagePartsHeld DEF Shown, Late, LoopInv, HeldInv
      <4> QED BY <4>2, <4>3
    <3> QED BY <1>4, <2>1, <3>2, <3>3 DEF Opens, LoopInv
  <2>3. CASE view # "list"
    BY <1>4, <2>1, <2>3 DEF Opens, LoopInv, Late, Shown
  <2> QED BY <2>2, <2>3
<1>5. ASSUME NEW size \in Sizes, VisitSettings(size) PROVE LoopInv'
  BY <1>5 DEF VisitSettings, Resized, LoopInv, HeldInv, FedInv, Late, Shown
<1>6. CASE PressNotifications
  BY <1>6 DEF PressNotifications, Resized, LoopInv, HeldInv, FedInv, Late, Shown
<1>7. CASE Tick
  <2>1. CASE turn' = "sleeping"
    <3>1. /\ held' = Taken(Locals \cup Kept) /\ fed' = Given(Fed) /\ refresh' = refresh + 1
          /\ screen' = Frame(held', held'["network"]) /\ UNCHANGED <<listed, wanted, sizes>>
      BY <1>7, <2>1 DEF Tick
    <3>2. held'["network"] = refresh + 1 BY <3>1 DEF Taken, Locals
    <3>3. HeldInv' /\ FedInv'
      BY <3>1, <3>2, FrameAfterRefresh, FedByRefresh DEF LoopInv
    <3>4. \A part \in DOMAIN screen.parts' : Shown(part)'
      BY <3>1, <3>2, FrameAfterRefresh DEF LoopInv
    <3> QED BY <3>1, <3>3, <3>4 DEF LoopInv
  <2>2. CASE turn' # "sleeping"
    BY <1>7, <2>2 DEF Tick, LoopInv, HeldInv, FedInv, Late, Shown
  <2> QED BY <2>1, <2>2
<1> QED BY <1>1, <1>2, <1>3, <1>4, <1>5, <1>6, <1>7 DEF LoopNext

\* Whatever sequence of keys led there, the screen shows the last refresh and the last list
\* of start-up applications, everything that is fed by refreshes has seen each of them - but
\* for the histories of pressure and load, which end with what is shown of the two - and the
\* histories have the configured size.
THEOREM ScreenIsOfOneRefresh == LoopSpec => []ScreenAgrees
<1>1. LoopInit => LoopInv
  <2> SUFFICES ASSUME LoopInit PROVE LoopInv OBVIOUS
  <2>1. HeldInv BY DEF LoopInit, HeldInv, Locals, Kept
  <2>2. /\ refresh = 1 /\ fed = [c \in Fed |-> {1}]
        /\ held = [p \in Locals \cup Kept |-> IF p \in {"filesystems", "startup"} THEN 0 ELSE 1]
    BY DEF LoopInit
  <2>3. held["pressure"] = 1 /\ held["load"] = 1 BY <2>2 DEF Locals
  <2>4. /\ \A c \in Fed : fed[c] = {1}
        /\ FedAtOnce \subseteq Fed /\ "pressure history" \in Fed /\ "load history" \in Fed
    BY <2>2 DEF Fed, FedAtOnce
  <2>5. 1 .. refresh = {1} BY <2>2
  <2>6. FedInv
    <3>1. DOMAIN fed = Fed BY <2>2
    <3>2. \A c \in FedAtOnce : fed[c] = 1 .. refresh BY <2>4, <2>5
    <3>3. \A part \in {"pressure", "load"} : held[part] = 1 /\ fed[HistoryOf(part)] = {1}
      BY <2>3, <2>4 DEF HistoryOf
    <3>4. refresh = 1 BY <2>2
    <3> QED BY <3>1, <3>2, <3>3, <3>4 DEF FedInv
  <2>7. \A part \in DOMAIN screen.parts : Shown(part)
    BY DEF LoopInit, Shown, Late, Locals, Kept
  <2> QED BY <2>1, <2>6, <2>7 DEF LoopInv, LoopInit
<1>2. LoopInv /\ [LoopNext]_loopVars => LoopInv'
  <2>1. LoopInv /\ UNCHANGED loopVars => LoopInv'
    BY DEF loopVars, LoopInv, HeldInv, FedInv, Late, Shown
  <2> QED BY <2>1, LoopInvStep
<1>3. LoopInv => ScreenAgrees BY DEF LoopInv, FedInv, ScreenAgrees
<1> QED BY <1>1, <1>2, <1>3, PTL DEF LoopSpec

-----------------------------------------------------------------------------
(* The start-up applications.                                              *)

StartupTypeOK ==
    /\ files \in [Places -> [Apps -> Files]]
    /\ DOMAIN apps \subseteq Apps
    /\ \A id \in DOMAIN apps : apps[id].place \in Places
    /\ asked # NothingAsked => asked.id \in DOMAIN apps /\ asked.enable \in BOOLEAN
    /\ chosen \in [Apps -> {"", "on", "off"}]

\* While a choice stands the user's own file carries it, unless its keys come again, and the
\* list, which was read when it was made, shows that file, unless its Type keeps it out.
Carries(desktop, wish) ==
    /\ desktop \in DesktopFiles /\ desktop.group
    /\ ~desktop.repeated => /\ desktop.hidden <=> wish = "off"
                            /\ desktop.disabled <=> wish = "off"

Shows(row, desktop) == row.place = "user" /\ row.enabled = StartsAtLogin(desktop)

ChoiceInv ==
    \A id \in Apps : chosen[id] # "" =>
        /\ Carries(files["user"][id], chosen[id])
        /\ files["user"][id].application =>
              id \in DOMAIN apps /\ Shows(apps[id], files["user"][id])

\* The list as refresh() builds it: what has an entry in some directory, from the user's
\* if that is one.
LEMMA ListingFacts ==
  /\ DOMAIN Listing \subseteq Apps
  /\ \A id \in DOMAIN Listing : Listing[id].place \in Places
  /\ \A id \in Apps : Readable(id, "user") =>
        id \in DOMAIN Listing /\ Shows(Listing[id], files["user"][id])
  BY DEF Listing, Shows, Found, Precedence, Readable, Places

\* Listing reads nothing but the files.
LEMMA ListingFactsPrime ==
  /\ DOMAIN Listing' \subseteq Apps
  /\ \A id \in DOMAIN Listing' : Listing'[id].place \in Places
  /\ \A id \in Apps : Readable(id, "user")' =>
        id \in DOMAIN Listing' /\ Shows(Listing'[id], files'["user"][id])
  BY DEF Listing, Shows, Found, Precedence, Readable, Places

\* Which fields a file has.
LEMMA FileShapes ==
  ASSUME NEW desktop \in Files, desktop # Absent
  PROVE  desktop \in DesktopFiles
  BY DEF Files

\* The file as it is written has a group, its keys say what was asked for unless they come
\* again, and its Type is what it was.
LEMMA UpdatedFacts ==
  ASSUME NEW desktop \in DesktopFiles, NEW enable \in BOOLEAN
  PROVE  /\ Updated(desktop, enable) \in Files
         /\ Carries(Updated(desktop, enable), IF enable THEN "on" ELSE "off")
<1> DEFINE new == Updated(desktop, enable)
           key(old) == IF desktop.repeated THEN old ELSE ~enable
<1>1. new = [desktop EXCEPT !.group = TRUE, !.hidden = key(@), !.disabled = key(@)]
  BY DEF Updated
<1>2. /\ desktop.hidden \in BOOLEAN /\ desktop.disabled \in BOOLEAN /\ (~enable) \in BOOLEAN
      /\ TRUE \in BOOLEAN
  BY Zenon DEF DesktopFiles
<1>3. key(desktop.hidden) \in BOOLEAN /\ key(desktop.disabled) \in BOOLEAN
  BY <1>2, Zenon
<1>4. /\ new.group = TRUE /\ new.hidden = key(desktop.hidden)
      /\ new.disabled = key(desktop.disabled) /\ new.repeated = desktop.repeated
  BY <1>1, Zenon DEF DesktopFiles
<1>5. new \in DesktopFiles
  BY <1>1, <1>2, <1>3, Zenon DEF DesktopFiles
<1> HIDE DEF new
<1>6. ~new.repeated => new.hidden = ~enable /\ new.disabled = ~enable
  BY <1>4, Zenon
<1>7. enable => (IF enable THEN "on" ELSE "off") # "off" OBVIOUS
<1>8. ~enable => (IF enable THEN "on" ELSE "off") = "off" OBVIOUS
<1>9. Carries(new, IF enable THEN "on" ELSE "off")
  BY <1>4, <1>5, <1>6, <1>7, <1>8, Zenon DEF Carries
<1> QED BY <1>5, <1>9, Zenon DEF Files, new

LEMMA SourceType ==
  ASSUME StartupTypeOK, NEW id \in DOMAIN apps
  PROVE  /\ Source(id) \in Files
         /\ Source(id) # Absent => Source(id) \in DesktopFiles
<1>1. Source(id) \in Files BY DEF StartupTypeOK, Source, Places
<1> QED BY <1>1, FileShapes

LEMMA CutShortType ==
  ASSUME NEW desktop, NEW enable PROVE CutShort(desktop, enable) \subseteq Files
<1>1. [PlainFile EXCEPT !.group = FALSE] \in DesktopFiles
  BY Zenon DEF PlainFile, DesktopFiles
<1> QED BY <1>1 DEF CutShort, Files

LEMMA StartupTypeStep ==
  ASSUME StartupTypeOK, StartupNext PROVE StartupTypeOK'
<1> USE DEF StartupTypeOK
<1>1. CASE OthersEdit
  <2>1. PICK place \in Places, id \in Apps, desktop \in EditedTo :
          /\ files' = [files EXCEPT ![place][id] = desktop]
          /\ chosen' = IF place = "user" THEN [chosen EXCEPT ![id] = ""] ELSE chosen
    BY <1>1 DEF OthersEdit
  <2>2. files' \in [Places -> [Apps -> Files]] BY <2>1, StartupConstants
  <2> QED BY <1>1, <2>1, <2>2 DEF OthersEdit
<1>2. CASE AsksForApp
  <2>1. PICK id \in DOMAIN apps, enable \in BOOLEAN : asked' = [id |-> id, enable |-> enable]
    BY <1>2 DEF AsksForApp
  <2>2. asked'.id \in DOMAIN apps /\ asked'.enable \in BOOLEAN BY <2>1
  <2> QED BY <1>2, <2>2 DEF AsksForApp
<1>3. CASE Refuses BY <1>3 DEF Refuses
<1>4. CASE RefreshesList BY <1>4, ListingFacts DEF RefreshesList
<1>5. CASE SetsEnabled
  <2>1. asked.id \in DOMAIN apps /\ asked.enable \in BOOLEAN BY <1>5 DEF SetsEnabled
  <2>2. files' \in [Places -> [Apps -> Files]]
    <3>1. Updated(Source(asked.id), asked.enable) \in Files
      BY <1>5, <2>1, SourceType, UpdatedFacts DEF SetsEnabled
    <3>2. files' = [files EXCEPT !["user"][asked.id] = Updated(Source(asked.id), asked.enable)]
      BY <1>5 DEF SetsEnabled
    <3> QED BY <2>1, <3>1, <3>2
  <2> QED BY <1>5, <2>1, <2>2, ListingFactsPrime DEF SetsEnabled
<1>6. CASE SetEnabledFails
  <2>1. asked.id \in DOMAIN apps BY <1>6 DEF SetEnabledFails
  <2>2. files["user"][asked.id] \in Files BY <2>1 DEF Places
  <2>3. PICK left \in {files["user"][asked.id], Source(asked.id)} \cup
                       (IF Source(asked.id) = Absent THEN {}
                        ELSE CutShort(Source(asked.id), asked.enable)) :
          /\ files' = [files EXCEPT !["user"][asked.id] = left]
          /\ chosen' = IF left = files["user"][asked.id] THEN chosen
                       ELSE [chosen EXCEPT ![asked.id] = ""]
    BY <1>6 DEF SetEnabledFails
  <2>4. CutShort(Source(asked.id), asked.enable) \subseteq Files
    BY Zenon, CutShortType
  <2>5. left \in Files BY <2>1, <2>2, <2>3, <2>4, SourceType
  <2>6. files' \in [Places -> [Apps -> Files]] BY <2>1, <2>3, <2>5
  <2>7. asked' = NothingAsked /\ apps' = apps BY <1>6 DEF SetEnabledFails
  <2> QED BY <2>3, <2>6, <2>7
<1> QED BY <1>1, <1>2, <1>3, <1>4, <1>5, <1>6 DEF StartupNext

LEMMA ChoiceInvStep ==
  ASSUME StartupTypeOK, ChoiceInv, StartupNext PROVE ChoiceInv'
<1>1. CASE OthersEdit
  <2>1. PICK place \in Places, id \in Apps, desktop \in EditedTo :
          /\ files' = [files EXCEPT ![place][id] = desktop]
          /\ chosen' = IF place = "user" THEN [chosen EXCEPT ![id] = ""] ELSE chosen
    BY <1>1 DEF OthersEdit
  <2>2. apps' = apps BY <1>1 DEF OthersEdit
  <2>3. ASSUME NEW i \in Apps, chosen'[i] # ""
        PROVE  files'["user"][i] = files["user"][i] /\ chosen'[i] = chosen[i]
    BY <2>1, <2>3 DEF StartupTypeOK, Places
  <2> QED BY <2>2, <2>3 DEF ChoiceInv
<1>2. CASE AsksForApp BY <1>2 DEF AsksForApp, ChoiceInv
<1>3. CASE Refuses BY <1>3 DEF Refuses, ChoiceInv
<1>4. CASE RefreshesList
  BY <1>4, ListingFacts DEF RefreshesList, ChoiceInv, Carries, Readable, DesktopFiles
<1>5. CASE SetsEnabled
  <2> DEFINE id == asked.id
             new == Updated(Source(id), asked.enable)
  <2>1. id \in DOMAIN apps /\ id \in Apps /\ asked.enable \in BOOLEAN
    BY <1>5 DEF SetsEnabled, StartupTypeOK
  <2>2. /\ files' = [files EXCEPT !["user"][id] = new]
        /\ chosen' = [chosen EXCEPT ![id] = IF asked.enable THEN "on" ELSE "off"]
        /\ apps' = Listing'
    BY <1>5 DEF SetsEnabled
  <2>3. Carries(new, IF asked.enable THEN "on" ELSE "off")
    BY <1>5, <2>1, SourceType, UpdatedFacts DEF SetsEnabled
  <2> HIDE DEF new
  <2>4. files'["user"][id] = new /\ chosen'[id] = IF asked.enable THEN "on" ELSE "off"
    BY <2>1, <2>2 DEF StartupTypeOK, Places
  <2>5. \A i \in Apps \ {id} : files'["user"][i] = files["user"][i] /\ chosen'[i] = chosen[i]
    BY <2>1, <2>2 DEF StartupTypeOK, Places
  <2>6. \A i \in Apps : chosen'[i] # "" => Carries(files'["user"][i], chosen'[i])
    BY <2>3, <2>4, <2>5 DEF ChoiceInv
  <2> QED BY <2>2, <2>6, ListingFactsPrime DEF ChoiceInv, Carries, Readable, DesktopFiles
<1>6. CASE SetEnabledFails
  <2>1. asked.id \in Apps BY <1>6 DEF SetEnabledFails, StartupTypeOK
  <2>2. PICK left \in {files["user"][asked.id], Source(asked.id)} \cup
                       (IF Source(asked.id) = Absent THEN {}
                        ELSE CutShort(Source(asked.id), asked.enable)) :
          /\ files' = [files EXCEPT !["user"][asked.id] = left]
          /\ chosen' = IF left = files["user"][asked.id] THEN chosen
                       ELSE [chosen EXCEPT ![asked.id] = ""]
    BY <1>6 DEF SetEnabledFails
  <2>3. apps' = apps BY <1>6 DEF SetEnabledFails
  <2>4. ASSUME NEW i \in Apps, chosen'[i] # ""
        PROVE  files'["user"][i] = files["user"][i] /\ chosen'[i] = chosen[i]
    BY <2>1, <2>2, <2>4 DEF StartupTypeOK, Places
  <2> QED BY <2>3, <2>4 DEF ChoiceInv
<1> QED BY <1>1, <1>2, <1>3, <1>4, <1>5, <1>6 DEF StartupNext

\* What the user achieved with the page lasts whatever packages do to the system
\* directories, and the list shows it, wherever the list heeds the file that was written.
THEOREM ChoicesLast == StartupSpec => []ChoiceLasts
<1>1. StartupInit => StartupTypeOK
  <2> DEFINE Plain == {Absent, PlainFile, [PlainFile EXCEPT !.shown = FALSE]}
  <2>1. Plain \subseteq Files
    <3>1. PlainFile \in DesktopFiles /\ [PlainFile EXCEPT !.shown = FALSE] \in DesktopFiles
      BY Zenon DEF PlainFile, DesktopFiles
    <3> QED BY <3>1 DEF Files
  <2>2. StartupInit => files \in [Places -> [Apps -> Files]]
    <3>1. StartupInit => files \in [Places -> [Apps -> Plain]] BY DEF StartupInit
    <3> HIDE DEF Plain
    <3> QED BY <2>1, <3>1
  <2>3. StartupInit => chosen \in [Apps -> {"", "on", "off"}] BY DEF StartupInit
  <2> QED BY <2>2, <2>3, ListingFacts DEF StartupInit, StartupTypeOK
<1>2. StartupInit => ChoiceInv BY DEF StartupInit, ChoiceInv
<1>3. StartupTypeOK /\ ChoiceInv /\ [StartupNext]_startupVars => (StartupTypeOK /\ ChoiceInv)'
  <2>1. StartupTypeOK /\ ChoiceInv /\ UNCHANGED startupVars => (StartupTypeOK /\ ChoiceInv)'
    BY DEF startupVars, StartupTypeOK, ChoiceInv
  <2> QED BY <2>1, StartupTypeStep, ChoiceInvStep
<1>4. StartupTypeOK /\ ChoiceInv => ChoiceLasts
  <2> SUFFICES ASSUME StartupTypeOK, ChoiceInv, NEW id \in Apps, chosen[id] # "",
                      Heeded(files["user"][id])
               PROVE  /\ id \in DOMAIN Listing /\ id \in DOMAIN apps
                      /\ Listing[id].enabled <=> chosen[id] = "on" /\ files["user"][id].shown
                      /\ apps[id].place = "user" => apps[id].enabled = Listing[id].enabled
    BY DEF ChoiceLasts
  <2>1. /\ id \in DOMAIN Listing
        /\ Listing[id].enabled = StartsAtLogin(files["user"][id])
    BY ListingFacts DEF ChoiceInv, Carries, Shows, Readable, DesktopFiles, Heeded
  <2>2. StartsAtLogin(files["user"][id]) <=> chosen[id] = "on" /\ files["user"][id].shown
    <3> DEFINE desktop == files["user"][id]
    <3>1. chosen[id] = "on" <=> ~(chosen[id] = "off") BY DEF StartupTypeOK
    <3>2. Carries(desktop, chosen[id]) /\ ~desktop.repeated
      BY Zenon DEF ChoiceInv, Heeded
    <3> HIDE DEF desktop
    <3>3. /\ desktop.hidden <=> chosen[id] = "off"
          /\ desktop.disabled <=> chosen[id] = "off"
      BY <3>2, Zenon DEF Carries
    <3>4. StartsAtLogin(desktop) <=> chosen[id] = "on" /\ desktop.shown
      BY <3>1, <3>3, Zenon DEF StartsAtLogin
    <3> QED BY <3>4 DEF desktop
  <2> QED BY <2>1, <2>2, Zenon DEF ChoiceInv, Shows, Heeded
<1> QED BY <1>1, <1>2, <1>3, <1>4, PTL DEF StartupSpec

-----------------------------------------------------------------------------
(* The packages.                                                           *)

Plans == [upgrade : SUBSET Packages, install : SUBSET Packages, remove : SUBSET Packages]
Outcomes ==
    {"cancelled", "failed"} \cup
    [upgraded : SUBSET Packages, installed : SUBSET Packages, removed : SUBSET Packages]
Handles == {Closed} \cup [open : {TRUE}, local : Versions, sync : Versions]

PackageTypeOK ==
    /\ installed \in Versions /\ mirror \in Versions /\ synced \in Versions
    /\ txHandle \in Handles
    /\ preview \in Plans
    /\ recent \in Seq(Outcomes)

Asked == {"Continue?", "Continue anyway?", "Proceed?"}

\* While the questions are asked, what is shown is what the handle will carry out, and the
\* questions passed so far have been agreed to, all of them once the program commits; it
\* holds the lock exactly while it commits.
QuestionInv ==
    /\ question \in Asked \cup {"committing"} => preview = Plan(txHandle)
    /\ question \in {"Continue anyway?", "Proceed?", "committing"} => "Continue?" \in answered
    /\ question \in {"Proceed?", "committing"} /\ preview.remove # {} =>
          "Continue anyway?" \in answered
    /\ question = "committing" => "Proceed?" \in answered /\ txHandle.open
    /\ question = "committing" <=> dbLock = "own"

\* An open handle has its databases.
LEMMA OpenHandle ==
  ASSUME NEW handle \in Handles, handle.open
  PROVE  handle \in [open : {TRUE}, local : Versions, sync : Versions]
<1>1. ~Closed.open BY DEF Closed
<1>2. handle # Closed BY <1>1, Zenon
<1> QED BY <1>2 DEF Handles

LEMMA PlanType ==
  ASSUME NEW handle PROVE Plan(handle) \in Plans
  BY PackageConstants DEF Plan, Plans

\* What a plan upgrades or installs is none of what it removes, and the repositories
\* have it.
LEMMA PlanFacts ==
  ASSUME NEW handle \in Handles, handle.open
  PROVE  /\ \A p \in Plan(handle).upgrade \cup Plan(handle).install :
               p \notin Plan(handle).remove /\ handle.sync[p] > 0
         /\ Plan(handle) \in Plans
<1>1. handle.local \in Versions /\ handle.sync \in Versions BY OpenHandle
<1>2. \A p \in Packages : handle.local[p] \in Nat /\ handle.sync[p] \in Nat
  BY <1>1, PackageConstants DEF Versions
<1>3. \A p \in Plan(handle).upgrade : p \notin Plan(handle).remove /\ handle.sync[p] > 0
  BY <1>2 DEF Plan
<1>4. \A p \in Plan(handle).install :
        p \in Packages /\ handle.local[p] = 0 /\ handle.sync[p] > 0
  BY PackageConstants DEF Plan
<1>5. \A p \in Plan(handle).remove : handle.local[p] > 0
  BY DEF Plan
<1> QED BY <1>2, <1>3, <1>4, <1>5, PlanType

\* Carrying out a part of a plan touches that part, takes away what the plan removes and
\* brings the rest to the version of the repositories.
LEMMA InstalledFacts ==
  ASSUME PackageTypeOK, txHandle.open, NEW done
  PROVE  LET plan == Plan(txHandle)
             after == Installed(plan, txHandle, done)
         IN  /\ after \in Versions
             /\ \A p \in Packages : after[p] # installed[p] => p \in done
             /\ \A p \in plan.remove : p \in done => after[p] = 0
             /\ \A p \in plan.upgrade \cup plan.install : p \in done => after[p] > 0
<1> DEFINE plan == Plan(txHandle)
           after == Installed(plan, txHandle, done)
<1>1. txHandle.sync \in Versions /\ installed \in Versions
  BY OpenHandle DEF PackageTypeOK
<1>2. /\ plan \in Plans
      /\ \A p \in plan.upgrade \cup plan.install : p \notin plan.remove /\ txHandle.sync[p] > 0
  BY PlanFacts DEF PackageTypeOK
<1> HIDE DEF plan
<1>3. after \in Versions
  BY <1>1, PackageConstants DEF Installed, Versions
<1>4. \A p \in Packages :
        after[p] = IF p \notin done THEN installed[p]
                   ELSE IF p \in plan.remove THEN 0
                   ELSE IF p \in plan.upgrade \cup plan.install THEN txHandle.sync[p]
                   ELSE installed[p]
  BY DEF Installed
<1>5. plan.remove \subseteq Packages /\ plan.upgrade \cup plan.install \subseteq Packages
  BY <1>2 DEF Plans
<1> HIDE DEF after
<1> QED BY <1>2, <1>3, <1>4, <1>5 DEF plan, after

\* A new result is the last of the recent ones, however many are kept.
LEMMA RememberFacts ==
  ASSUME PackageTypeOK, NEW outcome \in Outcomes, Remember(outcome)
  PROVE  recent' \in Seq(Outcomes) /\ recent'[Len(recent')] = outcome
<1> DEFINE all == Append(recent, outcome)
<1>1. /\ all \in Seq(Outcomes) /\ Len(all) = Len(recent) + 1 /\ Len(recent) \in Nat
      /\ all[Len(all)] = outcome
  BY DEF PackageTypeOK
<1>2. recent' = IF Len(all) > MaxRecent THEN Tail(all) ELSE all
  BY DEF Remember
<1> HIDE DEF all
<1>3. CASE Len(all) > MaxRecent
  <2>1. Len(all) \in Nat /\ Len(all) > 1 BY <1>1, <1>3, PackageConstants
  <2>2. /\ Tail(all) \in Seq(Outcomes) /\ Len(Tail(all)) = Len(all) - 1
        /\ Tail(all)[Len(all) - 1] = all[Len(all)]
    BY <1>1, <2>1
  <2> QED BY <1>1, <1>2, <1>3, <2>2
<1>4. CASE ~(Len(all) > MaxRecent) BY <1>1, <1>2, <1>4
<1> QED BY <1>3, <1>4

\* What a commit does is what was shown, and its result what became of the packages.
LEMMA CommitIsConfirmed ==
  ASSUME PackageTypeOK, QuestionInv, Commits
  PROVE  PackageTypeOK' /\ QuestionInv' /\ ConfirmedChange
<1> DEFINE plan == Plan(txHandle)
           all == plan.upgrade \cup plan.install \cup plan.remove
<1>1. /\ dbLock = "own" /\ txHandle.open /\ preview = plan
      /\ question = "committing" /\ question' = "done" /\ dbLock' = "none"
      /\ UNCHANGED <<mirror, synced, preview, answered>>
  BY DEF Commits, CommitEnds, QuestionInv
<1>2. QuestionInv' BY <1>1 DEF QuestionInv, Asked
<1>3. plan \in Plans BY PlanType
<1>4. CASE txState' = "Failed" /\ UNCHANGED <<installed, txHandle, recent>>
  <2>1. PackageTypeOK' BY <1>1, <1>4 DEF PackageTypeOK
  <2> QED BY <1>2, <1>4, <2>1 DEF ConfirmedChange
<1>5. ASSUME NEW done \in SUBSET all,
             installed' = Installed(plan, txHandle, done),
             txHandle' = [txHandle EXCEPT !.local = Installed(plan, txHandle, done)],
             \/ /\ done = all /\ txState' = "Completed"
                /\ Remember([upgraded |-> preview.upgrade, installed |-> preview.install,
                             removed |-> preview.remove])
             \/ txState' = "Failed" /\ Remember("failed")
      PROVE  PackageTypeOK' /\ ConfirmedChange
  <2>1. /\ installed' \in Versions
        /\ \A p \in Packages : installed'[p] # installed[p] => p \in done
        /\ \A p \in plan.remove : p \in done => installed'[p] = 0
        /\ \A p \in plan.upgrade \cup plan.install : p \in done => installed'[p] > 0
    BY <1>1, <1>5, InstalledFacts
  <2>2. txHandle' \in Handles
    <3>1. txHandle \in [open : {TRUE}, local : Versions, sync : Versions]
      BY <1>1, OpenHandle DEF PackageTypeOK
    <3>2. txHandle' = [txHandle EXCEPT !.local = installed'] BY <1>5
    <3>3. txHandle' \in [open : {TRUE}, local : Versions, sync : Versions]
      BY <2>1, <3>1, <3>2
    <3> QED BY <3>3 DEF Handles
  <2>3. Touched \subseteq done BY <2>1 DEF Touched
  <2> DEFINE told == [upgraded |-> preview.upgrade, installed |-> preview.install,
                      removed |-> preview.remove]
  <2>4. told \in Outcomes /\ "failed" \in Outcomes BY <1>1, <1>3 DEF Plans, Outcomes
  <2>5. recent' \in Seq(Outcomes) BY <1>5, <2>4, RememberFacts
  <2>6. txState' = "Completed" =>
           /\ done = all /\ recent'[Len(recent')] = told
    <3>1. txState' = "Completed" => done = all /\ Remember(told) BY <1>5
    <3> QED BY <2>4, <3>1, RememberFacts
  <2>7. PackageTypeOK' BY <1>1, <2>1, <2>2, <2>5 DEF PackageTypeOK
  <2>8. /\ {"Continue?", "Proceed?"} \subseteq answered'
        /\ preview.remove # {} => "Continue anyway?" \in answered'
    BY <1>1 DEF QuestionInv
  <2>9. Touched \subseteq preview.upgrade \cup preview.install \cup preview.remove
    BY <1>1, <2>3
  <2>10. txState' = "Completed" =>
           /\ \A p \in told.removed : installed'[p] = 0
           /\ \A p \in told.upgraded \cup told.installed : installed'[p] > 0
           /\ Touched \subseteq told.upgraded \cup told.installed \cup told.removed
    BY <1>1, <2>1, <2>6, <2>9
  <2> QED BY <1>1, <2>6, <2>7, <2>8, <2>9, <2>10, Zenon DEF ConfirmedChange
<1>6. \/ txState' = "Failed" /\ UNCHANGED <<installed, txHandle, recent>>
      \/ \E done \in SUBSET all :
           /\ installed' = Installed(plan, txHandle, done)
           /\ txHandle' = [txHandle EXCEPT !.local = Installed(plan, txHandle, done)]
           /\ \/ /\ done = all /\ txState' = "Completed"
                 /\ Remember([upgraded |-> preview.upgrade, installed |-> preview.install,
                              removed |-> preview.remove])
              \/ txState' = "Failed" /\ Remember("failed")
  BY Zenon DEF Commits, CommitEnds
<1> HIDE DEF plan, all
<1> QED BY <1>2, <1>4, <1>5, <1>6, Zenon

\* A step that leaves the packages alone and completes nothing needs no confirmation.
LEMMA NothingChanged ==
  ASSUME installed' = installed, txState' # "Completed" \/ txState' = txState
  PROVE  ConfirmedChange
  BY DEF ConfirmedChange

LEMMA SyncFacts ==
  ASSUME PackageTypeOK, NEW ok \in BOOLEAN, SyncDatabases(ok)
  PROVE  /\ txHandle' \in Handles /\ synced' \in Versions
         /\ txState' # "Completed" \/ txState' = txState
<1>1. Loaded \in Handles BY DEF Loaded, Handles, PackageTypeOK
<1>2. CASE ok
  <2>1. /\ synced' = mirror /\ txState' = "Idle"
        /\ txHandle' = [open |-> TRUE,
                        local |-> IF txHandle.open THEN txHandle.local ELSE installed,
                        sync |-> mirror]
    BY <1>2 DEF SyncDatabases
  <2>2. (IF txHandle.open THEN txHandle.local ELSE installed) \in Versions
    BY OpenHandle DEF PackageTypeOK
  <2> QED BY <2>1, <2>2 DEF Handles, PackageTypeOK
<1>3. CASE ~ok BY <1>1, <1>3 DEF SyncDatabases, PackageTypeOK
<1> QED BY <1>2, <1>3

LEMMA PackagesStep ==
  ASSUME PackageTypeOK, QuestionInv, PackagesNext
  PROVE  PackageTypeOK' /\ QuestionInv' /\ ConfirmedChange
<1>1. CASE Upstream
  <2>1. mirror' \in Versions /\ UNCHANGED <<installed, synced, dbLock, txHandle, preview, recent, page, txState>>
    BY <1>1, PackageConstants DEF Upstream, PackageTypeOK, Versions
  <2> QED BY <2>1, NothingChanged DEF PackageTypeOK, QuestionInv, Asked, page, Plan
<1>2. CASE OtherStarts
  BY <1>2, NothingChanged DEF OtherStarts, PackageTypeOK, QuestionInv, Asked, page
<1>3. CASE OtherUpgrades
  <2>1. /\ installed' \in Versions /\ synced' \in Versions
        /\ dbLock = "other" /\ dbLock' = "none"
    BY <1>3, PackageConstants DEF OtherUpgrades, PackageTypeOK, Versions
  <2>2. UNCHANGED <<mirror, txHandle, page, txState, preview, recent>> BY <1>3 DEF OtherUpgrades
  <2>3. QuestionInv' BY <2>1, <2>2 DEF QuestionInv, Asked, page, Plan
  <2>4. ConfirmedChange BY <2>1, <2>2 DEF ConfirmedChange, OthersChange
  <2> QED BY <2>1, <2>2, <2>3, <2>4 DEF PackageTypeOK
<1>4. CASE PageRefresh
  BY <1>4, NothingChanged DEF PageRefresh, machine, page, PackageTypeOK, QuestionInv, Asked
<1>5. CASE UpgradeStarts
  <2>1. SyncDatabases(TRUE) /\ question = "none" /\ question' = "fetched"
        /\ UNCHANGED <<installed, mirror, dbLock, preview, recent>>
    BY <1>5 DEF UpgradeStarts
  <2>2. /\ txHandle' \in Handles /\ synced' \in Versions
        /\ txState' # "Completed" \/ txState' = txState
    BY <2>1, SyncFacts
  <2> QED BY <2>1, <2>2, NothingChanged DEF PackageTypeOK, QuestionInv, Asked
<1>6. CASE UpgradeCannotStart
  <2>1. /\ question = "none" /\ UNCHANGED <<installed, mirror, dbLock, preview, recent, page>>
        /\ UNCHANGED <<txHandle, txState, synced>> \/ SyncDatabases(FALSE)
    BY <1>6 DEF UpgradeCannotStart
  <2>2. /\ txHandle' \in Handles /\ synced' \in Versions
        /\ txState' # "Completed" \/ txState' = txState
    BY <2>1, SyncFacts DEF PackageTypeOK
  <2> QED BY <2>1, <2>2, NothingChanged DEF PackageTypeOK, QuestionInv, Asked, page
<1>7. CASE UpgradeIsShown
  <2>1. PICK ok \in BOOLEAN : /\ Resolve(ok)
                              /\ ~ok => question' = "none"
                              /\ ok => question' \in {"nothing", "Continue?"}
    BY <1>7 DEF UpgradeIsShown
  <2>2. /\ question = "fetched"
        /\ UNCHANGED <<installed, mirror, synced, dbLock, txHandle, recent, answered>>
    BY <1>7 DEF UpgradeIsShown, machine
  <2>3. txState' # "Completed" BY <2>1 DEF Resolve
  <2>4. preview' \in Plans
    BY <2>1, PlanType DEF Resolve, PackageTypeOK, Empty, Plans
  <2>5. QuestionInv'
    <3>1. CASE ok BY <2>1, <2>2, <3>1 DEF Resolve, QuestionInv, Asked
    <3>2. CASE ~ok BY <2>1, <2>2, <3>2 DEF QuestionInv, Asked
    <3> QED BY <3>1, <3>2
  <2> QED BY <2>2, <2>3, <2>4, <2>5, NothingChanged DEF PackageTypeOK
<1>8. CASE Declines
  <2>1. /\ question # "committing" /\ question' = "none"
        /\ UNCHANGED <<installed, mirror, synced, dbLock, txHandle, preview>>
        /\ Cancel
    BY <1>8 DEF Declines, machine
  <2>2. "cancelled" \in Outcomes BY DEF Outcomes
  <2>3. recent' \in Seq(Outcomes) /\ (txState' # "Completed" \/ txState' = txState)
    BY <2>1, <2>2, RememberFacts DEF Cancel, PackageTypeOK
  <2> QED BY <2>1, <2>3, NothingChanged DEF PackageTypeOK, QuestionInv, Asked
<1>9. CASE Agrees
  <2>1. UNCHANGED <<installed, mirror, synced, dbLock, txHandle, preview, recent, txState>>
    BY <1>9 DEF Agrees, machine
  <2>2. QuestionInv' BY <1>9, <2>1 DEF Agrees, NextQuestion, QuestionInv, Asked
  <2> QED BY <2>1, <2>2, NothingChanged DEF PackageTypeOK
<1>10. CASE Proceeds
  <2>1. /\ question = "Proceed?" /\ answered' = answered \cup {question}
        /\ UNCHANGED <<installed, mirror, synced, txHandle, preview, recent>>
        /\ dbLock # "own"
    BY <1>10 DEF Proceeds, QuestionInv
  <2>2. CASE CommitStarts /\ question' = "committing"
    <3>1. txHandle.open /\ dbLock' = "own" /\ txState' = "Installing"
      BY <2>2 DEF CommitStarts, Ready
    <3>2. QuestionInv' BY <2>1, <2>2, <3>1 DEF QuestionInv, Asked, Plan
    <3> QED BY <2>1, <3>1, <3>2, NothingChanged DEF PackageTypeOK
  <2>3. CASE CommitRefused /\ question' = "done"
    <3>1. QuestionInv' BY <2>1, <2>3 DEF QuestionInv, Asked, CommitRefused
    <3> QED BY <2>1, <2>3, <3>1, NothingChanged DEF PackageTypeOK, CommitRefused
  <2> QED BY <1>10, <2>2, <2>3 DEF Proceeds
<1>11. CASE RefreshAfterwards
  BY <1>11, NothingChanged DEF RefreshAfterwards, machine, PackageTypeOK, QuestionInv, Asked
<1>12. CASE Commits BY <1>12, CommitIsConfirmed
<1> QED
  BY <1>1, <1>2, <1>3, <1>4, <1>5, <1>6, <1>7, <1>8, <1>9, <1>10, <1>11, <1>12
  DEF PackagesNext

\* The program changes no package but those it showed and had confirmed, removals with a
\* question of their own and never beside another package manager, and the result of a
\* success is what has become of the packages.
THEOREM ChangesAreConfirmed == PackagesSpec => OnlyConfirmedChanges
<1>1. PackagesInit => PackageTypeOK /\ QuestionInv
  BY PackageConstants
  DEF PackagesInit, PackageTypeOK, QuestionInv, Asked, Handles, Empty, Plans, Versions
<1>2. PackageTypeOK /\ QuestionInv /\ [PackagesNext]_packageVars =>
        (PackageTypeOK /\ QuestionInv)'
  <2>1. PackageTypeOK /\ QuestionInv /\ UNCHANGED packageVars =>
          (PackageTypeOK /\ QuestionInv)'
    BY DEF packageVars, PackageTypeOK, QuestionInv, Asked, Plan
  <2> QED BY <2>1, PackagesStep
<1>3. PackageTypeOK /\ QuestionInv /\ [PackagesNext]_packageVars =>
        [ConfirmedChange]_packageVars
  BY PackagesStep
<1> QED BY <1>1, <1>2, <1>3, PTL DEF PackagesSpec, OnlyConfirmedChanges

-----------------------------------------------------------------------------
(* The settings and their file.                                            *)

SettingsFields == {"version", "autostart", "notify", "warning", "critical", "rules"}

LEMMA SettingsFacts ==
    ASSUME NEW s \in AppSettings
    PROVE  /\ DOMAIN s = SettingsFields
           /\ s.warning \in Int /\ s.critical \in Int /\ s.rules \in Seq(AlertRules)
           /\ s.autostart \in BOOLEAN
  BY DEF AppSettings, SettingsFields

LEMMA RuleFacts ==
    ASSUME NEW r \in AlertRules
    PROVE  r.target \in STRING /\ r.threshold \in Int /\ DOMAIN r = {"target", "threshold"}
  BY DEF AlertRules

\* Rules that clampAndFix leaves as they are.
Sound(rules) ==
    /\ rules \in Seq(AlertRules)
    /\ \A k \in 1 .. Len(rules) :
          rules[k].target # "" /\ rules[k].threshold \in 1 .. MaxThreshold
    /\ \A j, k \in 1 .. Len(rules) : j < k => rules[j].target # rules[k].target

\* SMT: for Zenon a number as large as MaxThreshold is too long.
LEMMA Limits ==
    /\ MaxThreshold \in Nat /\ MaxLevel \in Nat /\ NaN = MaxLevel + 1 /\ MaxThreshold > 1
    /\ MaxThreshold < MaxLevel /\ NaN \in Int
  BY SMT DEF MaxThreshold, NaN, MaxLevel, Percent

LEMMA RepairedFacts ==
    ASSUME NEW r \in AlertRules
    PROVE  /\ Repaired(r) \in AlertRules
           /\ Repaired(r).threshold \in 0 .. MaxThreshold
           /\ Repaired(r).target = r.target
           /\ r.threshold \in 0 .. MaxThreshold => Repaired(r) = r
  <1> DEFINE threshold == IF r.threshold = NaN THEN 0 ELSE Clamped(r.threshold, 0, MaxThreshold)
  <1>1. /\ threshold \in 0 .. MaxThreshold
        /\ r.threshold \in 0 .. MaxThreshold => threshold = r.threshold
    <2>1. r.threshold \in Int
      BY RuleFacts
    <2> QED
      BY <2>1, Limits DEF Clamped, Below
  <1>2. Repaired(r) = [r EXCEPT !.threshold = threshold]
    BY DEF Repaired
  <1> HIDE DEF threshold
  <1>3. threshold \in Int
    BY <1>1, Limits
  <1>4. /\ Repaired(r) \in AlertRules
        /\ Repaired(r).threshold = threshold /\ Repaired(r).target = r.target
        /\ threshold = r.threshold => Repaired(r) = r
    BY <1>2, <1>3 DEF AlertRules
  <1> QED
    BY <1>1, <1>4

LEMMA MappedRules ==
    ASSUME NEW rules \in Seq(AlertRules), NEW mapped,
           mapped = [k \in DOMAIN rules |-> mapped[k]],
           \A k \in 1 .. Len(rules) : mapped[k] \in AlertRules
    PROVE  mapped \in Seq(AlertRules) /\ Len(mapped) = Len(rules)
  <1> DEFINE n == Len(rules)
  <1>1. n \in Nat /\ DOMAIN rules = 1 .. n
    BY LenProperties
  <1>2. mapped \in [1 .. n -> AlertRules]
    BY <1>1
  <1> HIDE DEF n
  <1>3. mapped \in Seq(AlertRules) /\ DOMAIN mapped = 1 .. n
    BY <1>1, <1>2, SeqDef
  <1>4. Len(mapped) = n
    BY <1>1, <1>3, LenProperties
  <1> QED
    BY <1>3, <1>4 DEF n

\* What clampAndFix makes of any rules ...
LEMMA FixedRulesAreSound ==
    ASSUME NEW rules \in Seq(AlertRules)
    PROVE  Sound(FixedRules(rules))
  <1> DEFINE repaired == [k \in DOMAIN rules |-> Repaired(rules[k])]
             some == {k \in DOMAIN repaired : RuleValid(repaired[k])}
             valid == Picked(repaired, some)
             firsts == {k \in DOMAIN valid :
                           \A j \in DOMAIN valid : j < k => valid[j].target # valid[k].target}
             kept == Picked(valid, firsts)
  <1>1. DOMAIN rules = 1 .. Len(rules) /\ \A k \in 1 .. Len(rules) : rules[k] \in AlertRules
    BY LenProperties, ElementOfSeq
  <1>2. \A k \in 1 .. Len(rules) : /\ repaired[k] \in AlertRules
                                   /\ repaired[k].threshold \in 0 .. MaxThreshold
    BY <1>1, RepairedFacts
  <1>3. repaired \in Seq(AlertRules) /\ Len(repaired) = Len(rules)
    <2>1. repaired = [k \in DOMAIN rules |-> repaired[k]]
      OBVIOUS
    <2> HIDE DEF repaired
    <2> QED
      BY <1>2, <2>1, MappedRules
  <1> HIDE DEF repaired
  <1>4. DOMAIN repaired = 1 .. Len(repaired)
    BY <1>3, LenProperties
  <1>5. some \in SUBSET (1 .. Len(repaired))
    BY <1>4
  <1>6. ASSUME NEW k \in some
        PROVE  repaired[k].target # "" /\ repaired[k].threshold \in 1 .. MaxThreshold
    <2>1. repaired[k].target # "" /\ repaired[k].threshold > 0
      BY DEF RuleValid
    <2>2. repaired[k].threshold \in 0 .. MaxThreshold
      BY <1>2, <1>3, <1>5
    <2>3. \A t \in 0 .. MaxThreshold : t > 0 => t \in 1 .. MaxThreshold
      BY Limits
    <2> QED
      BY Zenon, <2>1, <2>2, <2>3
  <1> HIDE DEF some
  <1>7. /\ valid \in Seq(AlertRules) /\ DOMAIN valid = 1 .. Len(valid)
        /\ \A n \in 1 .. Len(valid) : \E k \in some : valid[n] = repaired[k]
    <2>1. /\ IsFiniteSet(some) /\ some \in SUBSET Nat
          /\ valid \in Seq(AlertRules) /\ Len(valid) = Cardinality(some)
      BY <1>3, <1>5, PickedIsSeq
    <2>2. \A n \in 1 .. Cardinality(some) :
             Nth(some, n) \in some /\ valid[n] = repaired[Nth(some, n)]
      BY <2>1, PickedEntries
    <2> HIDE DEF valid
    <2> QED
      BY <2>1, <2>2, LenProperties
  <1>8. \A n \in 1 .. Len(valid) : /\ valid[n].target # ""
                                   /\ valid[n].threshold \in 1 .. MaxThreshold
    BY Zenon, <1>6, <1>7
  <1> HIDE DEF valid
  <1>9. firsts \in SUBSET (1 .. Len(valid))
    BY <1>7
  <1>10. \A j, k \in firsts : j < k => valid[j].target # valid[k].target
    BY <1>7
  <1> HIDE DEF firsts
  <1>11. /\ kept \in Seq(AlertRules)
         /\ \A n \in 1 .. Len(kept) : Nth(firsts, n) \in firsts /\ kept[n] = valid[Nth(firsts, n)]
         /\ \A m, n \in 1 .. Len(kept) : m < n => Nth(firsts, m) < Nth(firsts, n)
    BY <1>7, <1>9, PickedIsSeq, PickedEntries
  <1>12. Sound(kept)
    <2>1. \A n \in 1 .. Len(kept) : kept[n].target # "" /\ kept[n].threshold \in 1 .. MaxThreshold
      BY <1>8, <1>9, <1>11
    <2>2. \A m, n \in 1 .. Len(kept) : m < n => kept[m].target # kept[n].target
      BY <1>10, <1>11
    <2> QED
      BY <1>11, <2>1, <2>2 DEF Sound
  <1> QED
    BY <1>12 DEF FixedRules, FirstOfTarget, RulesValid, kept, firsts, valid, some, repaired

\* ... it leaves as they are.
LEMMA SoundRulesStay ==
    ASSUME NEW rules, Sound(rules)
    PROVE  FixedRules(rules) = rules
  <1>1. /\ rules \in Seq(AlertRules) /\ DOMAIN rules = 1 .. Len(rules)
        /\ \A k \in 1 .. Len(rules) : rules[k] \in AlertRules
    BY LenProperties, ElementOfSeq DEF Sound
  <1>2. ASSUME NEW k \in 1 .. Len(rules)
        PROVE  Repaired(rules[k]) = rules[k] /\ RuleValid(rules[k])
    <2>1. rules[k].target # "" /\ rules[k].threshold \in 1 .. MaxThreshold
      BY DEF Sound
    <2>2. rules[k].threshold \in 0 .. MaxThreshold /\ rules[k].threshold > 0
      <3>1. \A t \in 1 .. MaxThreshold : t \in 0 .. MaxThreshold /\ t > 0
        BY Limits
      <3> QED
        BY Zenon, <2>1, <3>1
    <2>3. Repaired(rules[k]) = rules[k]
      BY <1>1, <2>2, RepairedFacts
    <2> QED
      BY <2>1, <2>2, <2>3 DEF RuleValid
  <1>3. [k \in DOMAIN rules |-> Repaired(rules[k])] = rules
    BY <1>1, <1>2
  <1>4. {k \in DOMAIN rules : RuleValid(rules[k])} = 1 .. Len(rules)
    BY <1>1, <1>2
  <1>5. {k \in DOMAIN rules :
            \A j \in DOMAIN rules : j < k => rules[j].target # rules[k].target} = 1 .. Len(rules)
    BY <1>1 DEF Sound
  <1>6. Picked(rules, 1 .. Len(rules)) = rules
    BY <1>1, AllPicked
  <1> QED
    <2>1. RulesValid(rules) = rules /\ FirstOfTarget(rules) = rules
      BY Zenon, <1>4, <1>5, <1>6 DEF FirstOfTarget, RulesValid
    <2> QED
      BY Zenon, <1>3, <2>1 DEF FixedRules

\* A number rounded to a unit of ten or a hundred is a multiple of it, at most half a unit
\* away.
LEMMA RoundedFacts ==
    ASSUME NEW mesh \in {10, 100}, NEW x \in Nat
    PROVE  \E n \in Nat : /\ RoundedTo(mesh, x) = mesh * n
                          /\ 2 * mesh * n <= 2 * x + mesh /\ 2 * x < 2 * mesh * n + mesh
                          /\ RoundedTo(mesh, mesh * n) = mesh * n
  <1>1. CASE mesh = 10
    <2> DEFINE n == (x + 5) \div 10
    <2>1. n \in Nat /\ 10 * n <= x + 5 /\ x + 5 < 10 * n + 10
      BY SMT
    <2>2. RoundedTo(10, x) = 10 * n
      BY SMT DEF RoundedTo
    <2> HIDE DEF n
    <2>3. (10 * n + 5) \div 10 = n
      BY SMT, <2>1
    <2>4. RoundedTo(10, 10 * n) = 10 * n
      BY SMT, <2>1, <2>3 DEF RoundedTo
    <2> QED
      BY SMT, <1>1, <2>1, <2>2, <2>4
  <1>2. CASE mesh = 100
    <2> DEFINE n == (x + 50) \div 100
    <2>1. n \in Nat /\ 100 * n <= x + 50 /\ x + 50 < 100 * n + 100
      BY SMT
    <2>2. RoundedTo(100, x) = 100 * n
      BY SMT DEF RoundedTo
    <2> HIDE DEF n
    <2>3. (100 * n + 50) \div 100 = n
      BY SMT, <2>1
    <2>4. RoundedTo(100, 100 * n) = 100 * n
      BY SMT, <2>1, <2>3 DEF RoundedTo
    <2> QED
      BY SMT, <1>2, <2>1, <2>2, <2>4
  <1> QED
    BY <1>1, <1>2

\* Six digits stay under the limits, and are six digits.
LEMMA SixDigitsFacts ==
    ASSUME NEW x \in Int, x = NaN \/ (0 <= x /\ x <= MaxLevel)
    PROVE  /\ SixDigits(x) \in Int /\ SixDigits(SixDigits(x)) = SixDigits(x)
           /\ x = NaN => SixDigits(x) = NaN
           /\ x # NaN => 0 <= SixDigits(x) /\ SixDigits(x) <= MaxLevel
           /\ 1 <= x /\ x <= MaxThreshold =>
                 1 <= SixDigits(x) /\ SixDigits(x) <= MaxThreshold
  <1>0. MaxLevel = 10000000 /\ MaxThreshold = 2000000 /\ NaN = 10000001
    BY SMT DEF MaxLevel, Percent, MaxThreshold, NaN
  <1>1. CASE x = NaN \/ x < 1000000
    BY SMT, <1>0, <1>1 DEF SixDigits
  <1>2. CASE x # NaN /\ 1000000 <= x /\ x < 10000000
    <2>1. 10 \in {10, 100} /\ x \in Nat
      BY SMT, <1>2
    <2>2. PICK n \in Nat : /\ RoundedTo(10, x) = 10 * n
                           /\ 2 * 10 * n <= 2 * x + 10 /\ 2 * x < 2 * 10 * n + 10
                           /\ RoundedTo(10, 10 * n) = 10 * n
      BY <2>1, RoundedFacts
    <2>3. SixDigits(x) = 10 * n
      BY SMT, <1>2, <2>2 DEF SixDigits
    <2>4. 100000 <= n /\ n <= 1000000 /\ (x <= 2000000 => n <= 200000)
      BY SMT, <1>2, <2>2
    <2>5. CASE n < 1000000
      <3>1. SixDigits(10 * n) = 10 * n
        BY SMT, <1>0, <2>2, <2>4, <2>5 DEF SixDigits
      <3> QED
        BY SMT, <1>0, <1>2, <2>3, <2>4, <3>1
    <2>6. CASE n = 1000000
      <3>1. SixDigits(10000000) = 10000000
        BY SMT, <1>0 DEF SixDigits, RoundedTo
      <3> QED
        BY SMT, <1>0, <1>2, <2>3, <2>4, <2>6, <3>1
    <2> QED
      BY SMT, <2>4, <2>5, <2>6
  <1>3. CASE x = 10000000
    <2>1. SixDigits(10000000) = 10000000
      BY SMT, <1>0 DEF SixDigits, RoundedTo
    <2> QED
      BY SMT, <1>0, <1>3, <2>1
  <1> QED
    BY SMT, <1>0, <1>1, <1>2, <1>3

LEMMA WrittenRules ==
    ASSUME NEW rules, Sound(rules)
    PROVE  Sound(Written(rules)) /\ Written(Written(rules)) = Written(rules)
  <1> DEFINE short(r) == [r EXCEPT !.threshold = SixDigits(@)]
             next == Written(rules)
  <1>1. /\ rules \in Seq(AlertRules) /\ DOMAIN rules = 1 .. Len(rules)
        /\ \A k \in 1 .. Len(rules) : rules[k] \in AlertRules
    BY LenProperties, ElementOfSeq DEF Sound
  <1>2. ASSUME NEW k \in 1 .. Len(rules)
        PROVE  /\ short(rules[k]) \in AlertRules /\ short(rules[k]).target = rules[k].target
               /\ short(rules[k]).threshold \in 1 .. MaxThreshold
               /\ short(short(rules[k])) = short(rules[k])
    <2> DEFINE t == SixDigits(rules[k].threshold)
    <2>1. t \in 1 .. MaxThreshold /\ SixDigits(t) = t
      <3>1. rules[k].threshold \in 1 .. MaxThreshold
        BY DEF Sound
      <3>2. \A x \in 1 .. MaxThreshold : /\ x \in Int /\ 1 <= x /\ x <= MaxThreshold
                                         /\ 0 <= x /\ x <= MaxLevel
        BY Limits
      <3>3. /\ SixDigits(t) = t /\ t \in Int /\ 1 <= t /\ t <= MaxThreshold
        BY Zenon, <3>1, <3>2, SixDigitsFacts
      <3> HIDE DEF t
      <3> QED
        BY <3>3, Limits
    <2>2. t \in Int
      BY <2>1, Limits
    <2>3. short(rules[k]) = [rules[k] EXCEPT !.threshold = t]
      OBVIOUS
    <2> HIDE DEF t
    <2>4. /\ short(rules[k]) \in AlertRules /\ short(rules[k]).target = rules[k].target
          /\ short(rules[k]).threshold = t
      BY <1>1, <2>2, <2>3 DEF AlertRules
    <2> DEFINE u == short(rules[k])
    <2>5. [u EXCEPT !.threshold = SixDigits(@)] = u
      <3> HIDE DEF u
      <3> QED
        BY <2>1, <2>4 DEF AlertRules, u
    <2> QED
      BY <2>1, <2>4, <2>5
  <1>3. next = [k \in DOMAIN rules |-> short(rules[k])]
    BY DEF Written
  <1>4. \A k \in 1 .. Len(rules) : next[k] = short(rules[k])
    BY <1>1, <1>3
  <1> HIDE DEF short, next
  <1>5. next \in Seq(AlertRules) /\ Len(next) = Len(rules) /\ DOMAIN next = DOMAIN rules
    <2>1. next = [k \in DOMAIN rules |-> next[k]] /\ DOMAIN next = DOMAIN rules
      BY <1>1, <1>3, <1>4
    <2>2. \A k \in 1 .. Len(rules) : next[k] \in AlertRules
      BY <1>2, <1>4
    <2>3. next \in Seq(AlertRules) /\ Len(next) = Len(rules)
      BY <1>1, <2>1, <2>2, MappedRules
    <2> QED
      BY <2>1, <2>3
  <1>6. Sound(next)
    <2>1. \A k \in 1 .. Len(next) : /\ next[k].target = rules[k].target
                                    /\ next[k].threshold \in 1 .. MaxThreshold
      BY <1>2, <1>4, <1>5
    <2>2. \A k \in 1 .. Len(rules) : rules[k].target # ""
      BY DEF Sound
    <2>3. \A j, k \in 1 .. Len(rules) : j < k => rules[j].target # rules[k].target
      BY DEF Sound
    <2> QED
      BY <1>5, <2>1, <2>2, <2>3 DEF Sound
  <1>7. Written(next) = next
    <2>1. Written(next) = [k \in DOMAIN next |-> short(next[k])]
      BY DEF Written, short
    <2>2. \A k \in DOMAIN next : short(next[k]) = short(rules[k])
      BY <1>1, <1>2, <1>4, <1>5
    <2>3. Written(next) = [k \in DOMAIN rules |-> short(rules[k])]
      BY <1>5, <2>1, <2>2
    <2> QED
      BY <1>3, <2>3
  <1> QED
    BY <1>6, <1>7 DEF next

\* Levels that clampAndFix leaves as they are.
LevelsSound(warning, critical) ==
    /\ warning \in Int /\ critical \in Int
    /\ Clamped(warning, 0, MaxLevel) = warning /\ Clamped(critical, 0, MaxLevel) = critical
    /\ ~ AtLeast(warning, critical)

LEMMA DefaultLevels ==
    /\ LevelsSound(Defaults.warning, Defaults.critical)
    /\ SixDigits(Defaults.warning) = Defaults.warning
    /\ SixDigits(Defaults.critical) = Defaults.critical
  <1>1. /\ Defaults.warning = 8000000 /\ Defaults.critical = 9500000
        /\ MaxLevel = 10000000 /\ NaN = 10000001
    BY SMT DEF Defaults, Percent, MaxLevel, NaN
  <1>2. LevelsSound(8000000, 9500000)
    BY SMT, <1>1 DEF LevelsSound, Clamped, Below, AtLeast
  <1>3. SixDigits(8000000) = 8000000 /\ SixDigits(9500000) = 9500000
    BY SMT, <1>1 DEF SixDigits, RoundedTo
  <1> HIDE DEF Defaults
  <1> QED
    BY SMT, <1>1, <1>2, <1>3

\* A sound level in six digits is one.
LEMMA LevelWritten ==
    ASSUME NEW x \in Int, Clamped(x, 0, MaxLevel) = x
    PROVE  /\ SixDigits(x) \in Int /\ SixDigits(SixDigits(x)) = SixDigits(x)
           /\ Clamped(SixDigits(x), 0, MaxLevel) = SixDigits(x)
  <1>1. x = NaN \/ (0 <= x /\ x <= MaxLevel)
    BY Limits DEF Clamped, Below
  <1>2. \A y \in Int : (y = NaN \/ (0 <= y /\ y <= MaxLevel)) => Clamped(y, 0, MaxLevel) = y
    BY Limits DEF Clamped, Below
  <1> QED
    BY <1>1, <1>2, SixDigitsFacts

LEMMA FixedFacts ==
    ASSUME NEW s \in AppSettings
    PROVE  /\ Fixed(s) \in AppSettings
           /\ LevelsSound(Fixed(s).warning, Fixed(s).critical) /\ Sound(Fixed(s).rules)
           /\ Fixed(s).autostart = s.autostart
  <1> DEFINE w0 == Clamped(s.warning, 0, MaxLevel)
             c0 == Clamped(s.critical, 0, MaxLevel)
             w == IF AtLeast(w0, c0) THEN Defaults.warning ELSE w0
             c == IF AtLeast(w0, c0) THEN Defaults.critical ELSE c0
             r == FixedRules(s.rules)
  <1>1. LevelsSound(w, c)
    <2>1. w0 \in Int /\ c0 \in Int
          /\ Clamped(w0, 0, MaxLevel) = w0 /\ Clamped(c0, 0, MaxLevel) = c0
      BY SettingsFacts, Limits DEF Clamped, Below
    <2> HIDE DEF w0, c0
    <2>2. CASE AtLeast(w0, c0)
      <3>1. w = Defaults.warning /\ c = Defaults.critical
        BY <2>2
      <3> QED
        BY <3>1, DefaultLevels
    <2>3. CASE ~ AtLeast(w0, c0)
      BY <2>1, <2>3 DEF LevelsSound
    <2> QED
      BY <2>2, <2>3
  <1>2. Sound(r)
    BY SettingsFacts, FixedRulesAreSound
  <1>3. Fixed(s) = [s EXCEPT !.warning = w, !.critical = c, !.rules = r]
    BY Zenon DEF Fixed
  <1>4. w \in Int /\ c \in Int /\ r \in Seq(AlertRules)
    BY <1>1, <1>2 DEF LevelsSound, Sound
  <1> HIDE DEF w, c, r, w0, c0
  <1>5. /\ Fixed(s) \in AppSettings /\ Fixed(s).warning = w /\ Fixed(s).critical = c
        /\ Fixed(s).rules = r /\ Fixed(s).autostart = s.autostart
    BY <1>3, <1>4 DEF AppSettings
  <1> QED
    BY Zenon, <1>1, <1>2, <1>5

\* Settings that come back from a file as they were written to it, but for levels that are
\* the same in six digits.
Reloads(s) ==
    s \in AppSettings /\ Serialized(s) \in AppSettings /\ KeptIn(Serialized(s), s)

LEMMA SoundSettingsReload ==
    ASSUME NEW s \in AppSettings, LevelsSound(s.warning, s.critical), Sound(s.rules)
    PROVE  Reloads(s)
  <1> DEFINE t == Serialized(s)
             w == SixDigits(s.warning)
             c == SixDigits(s.critical)
             r == Written(s.rules)
  <1>1. Sound(r) /\ Written(r) = r /\ FixedRules(r) = r
    BY WrittenRules, SoundRulesStay
  <1>2. t = [s EXCEPT !.warning = w, !.critical = c, !.rules = r]
    BY Zenon DEF Serialized
  <1>3. /\ w \in Int /\ Clamped(w, 0, MaxLevel) = w /\ SixDigits(w) = w
        /\ c \in Int /\ Clamped(c, 0, MaxLevel) = c /\ SixDigits(c) = c
    BY LevelWritten DEF LevelsSound
  <1>4. Collapsed(s) <=> AtLeast(w, c)
    BY DEF Collapsed
  <1> HIDE DEF t, r, w, c
  <1>5. r \in Seq(AlertRules)
    BY <1>1 DEF Sound
  <1>6. /\ t \in AppSettings /\ t.warning = w /\ t.critical = c /\ t.rules = r
    BY <1>2, <1>3, <1>5 DEF AppSettings
  <1>7. Parsed(t) = t
    <2>1. Parsed(t) = [t EXCEPT !.warning = t.warning, !.critical = t.critical]
      BY Zenon, <1>3, <1>6 DEF Parsed
    <2> QED
      BY <1>6, <2>1 DEF AppSettings
  <1>8. CASE ~AtLeast(w, c)
    <2>1. Fixed(t) = t
      <3>1. Fixed(t) = [t EXCEPT !.warning = t.warning, !.critical = t.critical, !.rules = t.rules]
        BY Zenon, <1>1, <1>3, <1>6, <1>8 DEF Fixed
      <3> QED
        BY <1>6, <3>1 DEF AppSettings
    <2>2. Serialized(t) = t
      <3>1. Serialized(t) = [t EXCEPT !.warning = t.warning, !.critical = t.critical, !.rules = t.rules]
        BY Zenon, <1>1, <1>3, <1>6 DEF Serialized
      <3> QED
        BY <1>6, <3>1 DEF AppSettings
    <2>3. Serialized(LoadedFrom(t)) = t
      BY Zenon, <1>7, <2>1, <2>2 DEF LoadedFrom
    <2> QED
      BY Zenon, <1>6, <2>3 DEF Reloads, KeptIn, t
  <1>9. CASE AtLeast(w, c)
    <2> DEFINE dw == Defaults.warning
               dc == Defaults.critical
               fixed == [t EXCEPT !.warning = dw, !.critical = dc]
    <2>1. dw \in Int /\ dc \in Int /\ SixDigits(dw) = dw /\ SixDigits(dc) = dc
      BY DefaultLevels DEF LevelsSound
    <2>2. Fixed(t) = [t EXCEPT !.warning = dw, !.critical = dc, !.rules = t.rules]
      BY Zenon, <1>1, <1>3, <1>6, <1>9 DEF Fixed
    <2> HIDE DEF dw, dc
    <2>3. Fixed(t) = fixed
      BY <1>6, <2>2 DEF AppSettings
    <2>4. fixed \in AppSettings /\ fixed.warning = dw /\ fixed.critical = dc /\ fixed.rules = r
      BY <1>6, <2>1 DEF AppSettings
    <2>5. Serialized(fixed) = fixed
      <3> HIDE DEF fixed
      <3>1. Serialized(fixed) = [fixed EXCEPT !.warning = fixed.warning,
                                              !.critical = fixed.critical, !.rules = fixed.rules]
        BY Zenon, <1>1, <2>1, <2>4 DEF Serialized
      <3> QED
        BY <2>4, <3>1 DEF AppSettings
    <2>6. Serialized(LoadedFrom(t)) = fixed
      BY Zenon, <1>7, <2>3, <2>5 DEF LoadedFrom
    <2> QED
      BY Zenon, <1>4, <1>6, <1>9, <2>6 DEF Reloads, KeptIn, t, fixed, dw, dc
  <1> QED
    BY <1>8, <1>9

LEMMA DefaultsFacts ==
    Defaults \in AppSettings /\ Reloads(Defaults) /\ Defaults.autostart = FALSE
  <1>1. << >> \in Seq(AlertRules) /\ Len(<< >>) = 0
    BY EmptySeq
  <1>2. LevelsSound(Defaults.warning, Defaults.critical)
    BY DefaultLevels
  <1>3. 80 * Percent \in Int /\ 95 * Percent \in Int
    BY SMT DEF Percent
  <1>4. /\ Defaults \in AppSettings /\ Defaults.rules = << >> /\ Defaults.autostart = FALSE
    BY <1>1, <1>3 DEF Defaults, AppSettings, CurrentVersion
  <1>5. Sound(<< >>)
    BY <1>1 DEF Sound
  <1> QED
    BY <1>2, <1>4, <1>5, SoundSettingsReload

LEMMA FixedReload ==
    ASSUME NEW s \in AppSettings
    PROVE  Fixed(s) \in AppSettings /\ Reloads(Fixed(s)) /\ Fixed(s).autostart = s.autostart
  BY FixedFacts, SoundSettingsReload

\* updateSettings
LEMMA UpdateFacts ==
    ASSUME NEW next \in AppSettings, Update(next)
    PROVE  /\ memory' \in AppSettings /\ Reloads(memory')
           /\ memory'.autostart = next.autostart /\ dirty' = TRUE
  <1> DEFINE s == [next EXCEPT !.version = CurrentVersion]
  <1>1. s \in AppSettings /\ s.autostart = next.autostart
    BY DEF AppSettings, CurrentVersion
  <1>2. memory' = Fixed(s) /\ dirty' = TRUE
    BY DEF Update, MarksDirty
  <1> HIDE DEF s
  <1> QED
    BY <1>1, <1>2, FixedReload

LEMMA LoadedFacts ==
    ASSUME NEW s \in AppSettings
    PROVE  LoadedFrom(s) \in AppSettings /\ Reloads(LoadedFrom(s))
  <1> DEFINE w == Clamped(s.warning, 0, MaxLevel)
             c == Clamped(s.critical, 0, MaxLevel)
  <1>1. w \in Int /\ c \in Int
    BY SettingsFacts, Limits DEF Clamped
  <1>2. Parsed(s) = [s EXCEPT !.warning = w, !.critical = c]
    BY DEF Parsed
  <1> HIDE DEF w, c
  <1>3. Parsed(s) \in AppSettings
    BY <1>1, <1>2 DEF AppSettings
  <1> QED
    BY <1>3, FixedReload DEF LoadedFrom

LEMMA EditFacts ==
    ASSUME NEW s \in AppSettings, NEW next \in Edits(s)
    PROVE  next \in AppSettings /\ next.autostart = s.autostart
  <1>1. CASE \E c \in ThresholdPairs : next = [s EXCEPT !.warning = c[1], !.critical = c[2]]
    BY <1>1, SettingsConstants DEF AppSettings
  <1>2. CASE \E r \in RuleLists : next = [s EXCEPT !.rules = r]
    BY <1>2, SettingsConstants DEF AppSettings
  <1> QED
    BY <1>1, <1>2 DEF Edits

\* What is clean is in the file; the temporary file, when it is renamed, holds what is in
\* memory.
StoreInv ==
    /\ memory \in AppSettings /\ Reloads(memory)
    /\ file.content \in AppSettings /\ file.kind \in {"none", "garbage", "config"}
    /\ pc = "rename" => tmp = File("config", Serialized(memory))
    /\ pc # "down" /\ ~ dirty =>
          file.kind = "config" /\ KeptIn(file.content, memory)

LEMMA StoreInit == SettingsInit => StoreInv
  <1> SUFFICES ASSUME SettingsInit PROVE StoreInv
    OBVIOUS
  <1>1. file.content \in AppSettings /\ file.kind \in {"none", "garbage", "config"}
    BY SettingsConstants DEF SettingsInit
  <1> QED
    BY Zenon, <1>1, DefaultsFacts DEF SettingsInit, StoreInv

LEMMA BootKeepsStore ==
    ASSUME StoreInv, Boot
    PROVE  StoreInv'
  <1>1. PICK readable \in BOOLEAN : Load(readable)
    BY Zenon DEF Boot
  <1> DEFINE fromFile == LoadedFrom(file.content)
             usable == file.kind = "config" /\ readable /\ Valid(fromFile)
  <1>2. fromFile \in AppSettings /\ Reloads(fromFile)
    BY LoadedFacts DEF StoreInv
  <1>3. memory' = (IF usable THEN fromFile ELSE Defaults) /\ dirty' = ~ usable
    BY Zenon, <1>1 DEF Load
  <1>4. file' = file /\ pc' \in {"write", "apply"}
    BY DEF Boot
  <1>5. pc' # "rename"
    BY <1>4
  <1>6. CASE usable
    <2>1. memory' = fromFile /\ file.kind = "config"
      BY Zenon, <1>3, <1>6
    <2>2. KeptIn(file.content, fromFile)
      BY Zenon DEF KeptIn
    <2> QED
      BY Zenon, <1>2, <1>4, <1>5, <2>1, <2>2 DEF StoreInv
  <1>7. CASE ~ usable
    <2>1. memory' = Defaults /\ dirty'
      BY Zenon, <1>3, <1>7
    <2> QED
      BY Zenon, <1>4, <1>5, <2>1, DefaultsFacts DEF StoreInv
  <1> QED
    BY Zenon, <1>6, <1>7

\* An update of the settings in memory.
LEMMA UpdateKeepsStore ==
    ASSUME StoreInv, NEW next \in AppSettings, Update(next), UNCHANGED <<file, pc>>,
           pc # "rename"
    PROVE  StoreInv'
  BY Zenon, UpdateFacts DEF StoreInv

LEMMA StepKeepsStore == StoreInv /\ [SettingsNext]_settingsVars => StoreInv'
  <1> SUFFICES ASSUME StoreInv, [SettingsNext]_settingsVars PROVE StoreInv'
    OBVIOUS
  <1>1. CASE Boot
    BY <1>1, BootKeepsStore
  <1>2. CASE Apply \/ Sync \/ OpenPage \/ LeavePage
    <2>1. UNCHANGED store /\ pc # "down" /\ pc' # "rename"
      BY <1>2 DEF Apply, Sync, OpenPage, LeavePage
    <2> QED
      BY Zenon, <2>1 DEF StoreInv, store
  <1>3. CASE ToggleNotifications
    <2>1. memory \in AppSettings /\ memory.notify \in BOOLEAN
      BY DEF StoreInv, AppSettings
    <2>2. [memory EXCEPT !.notify = ~@] \in AppSettings
      BY <2>1 DEF AppSettings
    <2>3. Update([memory EXCEPT !.notify = ~@]) /\ UNCHANGED <<file, pc>> /\ pc # "rename"
      BY <1>3 DEF ToggleNotifications
    <2> QED
      BY Zenon, <2>2, <2>3, UpdateKeepsStore
  <1>4. CASE Edit
    <2>1. PICK next \in Edits(memory) : Update(next)
      BY Zenon, <1>4 DEF Edit
    <2>2. next \in AppSettings
      BY EditFacts DEF StoreInv
    <2>3. UNCHANGED <<file, pc>> /\ pc # "rename"
      BY <1>4 DEF Edit
    <2> QED
      BY <2>1, <2>2, <2>3, UpdateKeepsStore
  <1>5. ASSUME NEW desired \in BOOLEAN, EditStartup(desired) PROVE StoreInv'
    <2>1. [memory EXCEPT !.autostart = desired] \in AppSettings
      BY DEF StoreInv, AppSettings
    <2>2. /\ Update([memory EXCEPT !.autostart = desired])
          /\ UNCHANGED <<file, pc>> /\ pc # "rename"
      BY <1>5 DEF EditStartup
    <2> QED
      BY Zenon, <2>1, <2>2, UpdateKeepsStore
  <1>6. CASE ResetAll
    <2>1. memory' = Defaults /\ dirty' = TRUE /\ file' = file /\ pc' = pc /\ pc # "rename"
      BY <1>6 DEF ResetAll, Reset
    <2> QED
      BY Zenon, <2>1, DefaultsFacts DEF StoreInv
  <1>7. CASE OpenTmp
    <2>1. UNCHANGED <<file, memory, dirty>> /\ pc # "down" /\ pc' # "rename"
      BY <1>7 DEF OpenTmp, Truncates, AfterWrite
    <2> QED
      BY Zenon, <2>1 DEF StoreInv
  <1>8. CASE FlushTmp
    <2>1. /\ UNCHANGED <<file, memory, dirty>> /\ pc # "down"
          /\ pc' = "rename" => tmp' = File("config", Serialized(memory))
      BY <1>8 DEF FlushTmp, Flushes, AfterWrite
    <2> QED
      BY Zenon, <2>1 DEF StoreInv
  <1>9. CASE RenameTmp
    <2>1. memory' = memory /\ pc = "rename" /\ pc' = "apply" /\ pc # "down"
      BY <1>9 DEF RenameTmp, AfterWrite
    <2>2. CASE Renames
      <3>1. file' = File("config", Serialized(memory))
        BY Zenon, <2>1, <2>2 DEF Renames, StoreInv
      <3>2. file'.kind = "config" /\ file'.content = Serialized(memory)
        BY <3>1 DEF File
      <3>3. pc' # "rename"
        BY <2>1
      <3> QED
        BY Zenon, <2>1, <3>2, <3>3 DEF StoreInv, Reloads
    <2>3. CASE RenameFails
      <3>1. UNCHANGED <<file, dirty>> /\ pc' # "rename"
        BY <2>1, <2>3 DEF RenameFails
      <3> QED
        BY Zenon, <2>1, <3>1 DEF StoreInv
    <2> QED
      BY <1>9, <2>2, <2>3 DEF RenameTmp
  <1>10. CASE Stop
    <2>1. memory' = Defaults /\ file' = file /\ pc' = "down"
      BY <1>10 DEF Stop
    <2>2. pc' # "rename"
      BY <2>1
    <2> QED
      BY Zenon, <2>1, <2>2, DefaultsFacts DEF StoreInv
  <1>11. CASE EditFile
    <2>1. memory' = memory /\ file' \in Contents /\ pc' = "down" /\ pc' # "rename"
      BY <1>11 DEF EditFile
    <2>2. file'.content \in AppSettings /\ file'.kind \in {"none", "garbage", "config"}
      BY <2>1, SettingsConstants
    <2> QED
      BY Zenon, <2>1, <2>2 DEF StoreInv
  <1>12. CASE EditEntry
    BY Zenon, <1>12 DEF EditEntry, StoreInv, store
  <1>13. CASE UNCHANGED settingsVars
    BY Zenon, <1>13 DEF settingsVars, StoreInv, store
  <1> QED
    BY Zenon, <1>1, <1>2, <1>3, <1>4, <1>5, <1>6, <1>7, <1>8, <1>9, <1>10, <1>11, <1>12, <1>13
       DEF SettingsNext

\* For any files, rules and levels: config.toml is never half-written, and settings that are
\* not marked as changed are those a restart would load (load, save, clampAndFix).
THEOREM CleanSettingsReload == SettingsSpec => []CleanReloads
  <1>1. StoreInv => CleanReloads
    <2> SUFFICES ASSUME StoreInv PROVE CleanReloads
      OBVIOUS
    <2>1. file.kind # "half"
      BY DEF StoreInv
    <2> QED
      BY Zenon, <2>1 DEF StoreInv, CleanReloads
  <1> QED
    BY <1>1, StoreInit, StepKeepsStore, PTL DEF SettingsSpec

-----------------------------------------------------------------------------
\* The entry agrees with the preference from the reconciliation at start-up on.
EntryInv ==
    /\ memory \in AppSettings
    /\ pc \in {"live", "page", "sync"} => ~ starting
    /\ pc = "down" => starting
    /\ agreed /\ ~ starting /\ pc # "sync" => (IsManaged <=> memory.autostart)

LEMMA StepKeepsEntry == StoreInv /\ EntryInv /\ [SettingsNext]_settingsVars => EntryInv'
  <1> SUFFICES ASSUME StoreInv, EntryInv, [SettingsNext]_settingsVars PROVE EntryInv'
    OBVIOUS
  <1>0. memory' \in AppSettings
    BY Zenon, StepKeepsStore DEF StoreInv
  <1>1. CASE Boot
    <2>1. starting' /\ pc' # "down" /\ pc' \notin {"live", "page", "sync"}
      BY <1>1 DEF Boot, EntryInv
    <2> QED
      BY Zenon, <1>0, <2>1 DEF EntryInv
  <1>2. CASE Apply
    <2>1. /\ UNCHANGED <<entry, agreed, memory>> /\ starting' = FALSE /\ pc' # "down"
          /\ pc = "apply" /\ pc # "sync"
          /\ starting => pc' = "sync"
      BY <1>2 DEF Apply, autostart, store
    <2> QED
      BY Zenon, <1>0, <2>1 DEF EntryInv, IsManaged
  <1>3. CASE Sync
    <2>1. /\ memory' = memory /\ starting' = starting /\ pc = "sync"
          /\ pc' # "down" /\ Synchronize(memory.autostart)
      BY <1>3 DEF Sync, store
    <2>2. agreed' => (IsManaged' <=> memory.autostart)
      BY <2>1 DEF Synchronize, Enable, Disable, Succeeds, Fails, IsManaged
    <2>3. ~ starting
      BY <2>1 DEF EntryInv
    <2> QED
      BY Zenon, <1>0, <2>1, <2>2, <2>3 DEF EntryInv
  <1>4. CASE ToggleNotifications
    <2>1. [memory EXCEPT !.notify = ~@] \in AppSettings
          /\ [memory EXCEPT !.notify = ~@].autostart = memory.autostart
      BY DEF EntryInv, AppSettings
    <2>2. Update([memory EXCEPT !.notify = ~@]) /\ UNCHANGED <<entry, agreed, pc, starting>>
      BY <1>4 DEF ToggleNotifications, autostart
    <2>3. memory'.autostart = memory.autostart
      BY Zenon, <2>1, <2>2, UpdateFacts
    <2> QED
      BY Zenon, <1>0, <2>2, <2>3 DEF EntryInv, IsManaged
  <1>5. CASE Edit
    <2>1. PICK next \in Edits(memory) : Update(next)
      BY Zenon, <1>5 DEF Edit
    <2>2. next \in AppSettings /\ next.autostart = memory.autostart
      BY EditFacts DEF EntryInv
    <2>3. UNCHANGED <<entry, agreed, pc, starting>>
      BY <1>5 DEF Edit, autostart
    <2>4. memory'.autostart = memory.autostart
      BY Zenon, <2>1, <2>2, UpdateFacts
    <2> QED
      BY Zenon, <1>0, <2>3, <2>4 DEF EntryInv, IsManaged
  <1>6. ASSUME NEW desired \in BOOLEAN, EditStartup(desired) PROVE EntryInv'
    <2>1. [memory EXCEPT !.autostart = desired] \in AppSettings
          /\ [memory EXCEPT !.autostart = desired].autostart = desired
      BY DEF EntryInv, AppSettings
    <2>2. /\ Update([memory EXCEPT !.autostart = desired]) /\ UNCHANGED <<pc, starting>>
          /\ IF desired THEN Enable ELSE Disable
      BY <1>6 DEF EditStartup
    <2>3. memory'.autostart = desired
      BY Zenon, <2>1, <2>2, UpdateFacts
    <2>4. agreed' => (IsManaged' <=> desired)
      BY <2>2 DEF Enable, Disable, Succeeds, Fails, IsManaged
    <2> QED
      BY Zenon, <1>0, <2>2, <2>3, <2>4 DEF EntryInv
  <1>7. CASE ResetAll
    <2>1. memory' = Defaults /\ UNCHANGED <<pc, starting>> /\ DisablesEntry
      BY <1>7 DEF ResetAll, Reset
    <2>2. agreed' => ~ IsManaged'
      BY <2>1 DEF DisablesEntry, Disable, Succeeds, Fails, IsManaged
    <2>3. memory'.autostart = FALSE
      BY <2>1, DefaultsFacts
    <2> QED
      BY Zenon, <1>0, <2>1, <2>2, <2>3 DEF EntryInv
  <1>8. CASE OpenPage \/ LeavePage \/ OpenTmp \/ FlushTmp \/ RenameTmp
    <2>1. /\ UNCHANGED <<entry, agreed, memory, starting>>
          /\ pc # "down" /\ pc' # "down" /\ pc # "sync" /\ pc' # "sync"
          /\ pc' \in {"live", "page"} => pc = "live"
      BY <1>8 DEF OpenPage, LeavePage, OpenTmp, FlushTmp, RenameTmp, AfterWrite, autostart, store
    <2>2. pc' \in {"live", "page", "sync"} => pc \in {"live", "page", "sync"}
      BY <2>1
    <2> QED
      BY Zenon, <1>0, <2>1, <2>2 DEF EntryInv, IsManaged
  <1>9. CASE Stop
    <2>1. starting' = TRUE /\ pc' = "down"
      BY <1>9 DEF Stop
    <2>2. pc' \notin {"live", "page", "sync"}
      BY <2>1
    <2> QED
      BY Zenon, <1>0, <2>1, <2>2 DEF EntryInv
  <1>10. CASE EditFile
    BY Zenon, <1>0, <1>10 DEF EditFile, EntryInv, IsManaged, autostart
  <1>11. CASE EditEntry
    BY Zenon, <1>0, <1>11 DEF EditEntry, EntryInv, store
  <1>12. CASE UNCHANGED settingsVars
    BY Zenon, <1>0, <1>12 DEF settingsVars, EntryInv, store, autostart, IsManaged
  <1> QED
    BY Zenon, <1>1, <1>2, <1>3, <1>4, <1>5, <1>6, <1>7, <1>8, <1>9, <1>10, <1>11, <1>12
       DEF SettingsNext

\* In the live view and on the settings page the program's autostart entry agrees with the
\* preference in memory, unless the last operation on it failed or somebody else changed it
\* (synchronizeWithSettings, the startup editor, the reset).
THEOREM EntryAgrees == SettingsSpec => []EntryFollowsPreference
  <1>1. SettingsInit => EntryInv
    <2> SUFFICES ASSUME SettingsInit PROVE EntryInv
      OBVIOUS
    <2>1. pc = "down" /\ starting = TRUE /\ memory \in AppSettings
      BY DefaultsFacts DEF SettingsInit
    <2> QED
      BY <2>1 DEF EntryInv
  <1>2. EntryInv => EntryFollowsPreference
    <2> SUFFICES ASSUME EntryInv, pc \in {"live", "page"}, agreed
                 PROVE  IsManaged <=> memory.autostart
      BY Zenon DEF EntryFollowsPreference
    <2>1. pc # "sync" /\ ~ starting
      BY DEF EntryInv
    <2> QED
      BY Zenon, <2>1 DEF EntryInv
  <1> QED
    BY <1>1, <1>2, StoreInit, StepKeepsStore, StepKeepsEntry, PTL DEF SettingsSpec

-----------------------------------------------------------------------------
(* Services.                                                               *)

\* Sequences of units, each once.
Once(units) ==
    /\ units \in Seq(Units)
    /\ \A j, k \in 1 .. Len(units) : j # k => units[j] # units[k]

LEMMA PickedOnce ==
    ASSUME NEW units, Once(units), NEW places \in SUBSET (1 .. Len(units))
    PROVE  /\ Once(Picked(units, places))
           /\ \A n \in 1 .. Len(Picked(units, places)) :
                 \E k \in places : Picked(units, places)[n] = units[k]
  <1> DEFINE result == Picked(units, places)
  <1>1. /\ IsFiniteSet(places) /\ places \in SUBSET Nat
        /\ result \in Seq(Units) /\ Len(result) = Cardinality(places)
    BY PickedIsSeq DEF Once
  <1>2. /\ \A n \in 1 .. Cardinality(places) :
              Nth(places, n) \in places /\ result[n] = units[Nth(places, n)]
        /\ \A m, n \in 1 .. Cardinality(places) : m < n => Nth(places, m) < Nth(places, n)
        /\ Cardinality(places) \in Nat
    BY <1>1, PickedEntries
  <1> HIDE DEF result
  <1>3. ASSUME NEW m \in 1 .. Len(result), NEW n \in 1 .. Len(result), m # n
        PROVE  result[m] # result[n]
    <2>1. Nth(places, m) # Nth(places, n)
      <3>1. m < n \/ n < m
        BY <1>1, <1>2, <1>3
      <3>2. Nth(places, m) \in Nat /\ Nth(places, n) \in Nat
        BY <1>1, <1>2
      <3> QED
        BY <1>1, <1>2, <3>1, <3>2
    <2> QED
      BY <1>1, <1>2, <2>1 DEF Once
  <1>4. \A n \in 1 .. Len(result) : \E k \in places : result[n] = units[k]
    BY Zenon, <1>1, <1>2
  <1> QED
    BY <1>1, <1>3, <1>4 DEF Once, result


LEMMA OnceAll ==
    ASSUME NEW units, Once(units)
    PROVE  /\ Len(units) \in Nat /\ DOMAIN units = 1 .. Len(units)
           /\ \A k \in 1 .. Len(units) : units[k] \in Units
  BY LenProperties, ElementOfSeq DEF Once

\* Units that are listed anew, unloaded, or loaded.
LEMMA OthersOnce ==
    ASSUME NEW units, Once(units), NEW name \in Units
    PROVE  LET others == Picked(units, {k \in DOMAIN units : units[k] # name})
           IN Once(others) /\ Once(<<name>> \o others)
  <1> DEFINE places == {k \in DOMAIN units : units[k] # name}
             others == Picked(units, places)
             more == <<name>> \o others
  <1>1. places \in SUBSET (1 .. Len(units)) /\ \A k \in places : units[k] # name
    BY OnceAll
  <1> HIDE DEF places
  <1>2. Once(others) /\ \A n \in 1 .. Len(others) : others[n] # name
    BY <1>1, PickedOnce
  <1> HIDE DEF others
  <1>3. <<name>> \in Seq(Units) /\ Len(<<name>>) = 1 /\ <<name>>[1] = name
    OBVIOUS
  <1>4. others \in Seq(Units) /\ Len(others) \in Nat
    BY <1>2, OnceAll DEF Once
  <1>5. /\ more \in Seq(Units) /\ Len(more) = Len(others) + 1
        /\ \A i \in 1 .. Len(others) + 1 :
              more[i] = IF i <= 1 THEN name ELSE others[i - 1]
    <2>1. /\ <<name>> \o others \in Seq(Units)
          /\ Len(<<name>> \o others) = Len(<<name>>) + Len(others)
          /\ \A i \in 1 .. Len(<<name>>) + Len(others) :
                (<<name>> \o others)[i] =
                   IF i <= Len(<<name>>) THEN <<name>>[i] ELSE others[i - Len(<<name>>)]
      BY <1>3, <1>4, ConcatProperties
    <2> HIDE DEF more
    <2>2. \A i \in 1 .. Len(others) + 1 : i <= 1 => <<name>>[i] = name
      BY <1>3, <1>4
    <2> QED
      BY <1>3, <1>4, <2>1, <2>2 DEF more
  <1> HIDE DEF more
  <1>6. ASSUME NEW j \in 1 .. Len(more), NEW k \in 1 .. Len(more), j # k
        PROVE  more[j] # more[k]
    <2>1. CASE j = 1
      BY <1>2, <1>4, <1>5, <1>6, <2>1
    <2>2. CASE k = 1
      BY <1>2, <1>4, <1>5, <1>6, <2>2
    <2>3. CASE j # 1 /\ k # 1
      <3>1. /\ j - 1 \in 1 .. Len(others) /\ k - 1 \in 1 .. Len(others) /\ j - 1 # k - 1
            /\ more[j] = others[j - 1] /\ more[k] = others[k - 1]
        BY <1>4, <1>5, <1>6, <2>3
      <3> QED
        BY <1>2, <3>1 DEF Once
    <2> QED
      BY <2>1, <2>2, <2>3
  <1>7. Once(more)
    BY <1>5, <1>6 DEF Once
  <1> QED
    BY <1>2, <1>7 DEF more, others, places

RowFields == {"name", "active", "file"}
FileStates == {"enabled", "disabled"}
Rows == [name : Services, active : BOOLEAN, file : FileStates \cup {"unknown"}]

\* The two arrays hold the same services; a row says what its service's file has said.
RowsInv ==
    /\ unit \in [Units -> [active : BOOLEAN, enabled : BOOLEAN]]
    /\ Once(loaded)
    /\ Once(unitPaths) /\ services \in Seq(Rows) /\ Len(services) = Len(unitPaths)
    /\ enriching \in 0 .. Len(services)
    /\ enriching # 0 => \A name \in Units : Now(name) \in enabledOnce[name]
    /\ \A k \in 1 .. Len(services) :
          /\ services[k].name = unitPaths[k]
          /\ services[k].file # "unknown" => services[k].file \in enabledOnce[unitPaths[k]]

LEMMA RowsInit == SystemdInit => RowsInv
  <1> SUFFICES ASSUME SystemdInit PROVE RowsInv
    OBVIOUS
  <1>1. unit \in [Units -> [active : BOOLEAN, enabled : BOOLEAN]]
    <2> DEFINE running(name) == name \in ToSet(loaded)
    <2>1. unit = [name \in Units |-> [active |-> running(name), enabled |-> FALSE]]
      BY Zenon DEF SystemdInit
    <2>2. ASSUME NEW name \in Units PROVE running(name) \in BOOLEAN
      <3>1. CASE running(name)
        BY <3>1
      <3>2. CASE ~ running(name)
        BY <3>2
      <3> QED
        BY <3>1, <3>2
    <2> HIDE DEF running
    <2>3. \A name \in Units :
             [active |-> running(name), enabled |-> FALSE] \in
                [active : BOOLEAN, enabled : BOOLEAN]
      BY Zenon, <2>2
    <2> QED
      BY Zenon, <2>1, <2>3
  <1>2. Once(loaded)
    <2>1. PICK some \in SUBSET Units : loaded \in SetToSeqs(some)
      BY Zenon DEF SystemdInit
    <2> DEFINE n == Cardinality(some)
    <2>2. /\ loaded \in [1 .. n -> some]
          /\ \A i, j \in 1 .. n : i # j => loaded[i] # loaded[j]
      BY <2>1 DEF SetToSeqs
    <2>3. n \in Nat
      BY SystemdConstants, FS_Subset, FS_CardinalityType DEF Units
    <2> HIDE DEF n
    <2>4. loaded \in [1 .. n -> Units]
      BY <2>2
    <2>5. loaded \in Seq(Units)
      BY <2>3, <2>4, SeqDef
    <2>6. Len(loaded) = n
      BY <2>3, <2>4, <2>5, LenProperties
    <2> QED
      BY <2>2, <2>5, <2>6 DEF Once
  <1>3. /\ unitPaths = << >> /\ services = << >> /\ enriching = 0
        /\ << >> \in Seq(Units) /\ << >> \in Seq(Rows) /\ Len(<< >>) = 0
    BY EmptySeq DEF SystemdInit
  <1> QED
    BY <1>1, <1>2, <1>3 DEF RowsInv, Once

\* The list and its rows stay, and files say only more.
LEMMA RowsStay ==
    ASSUME RowsInv, UNCHANGED <<unitPaths, services, enriching>>, Once(loaded'),
           unit' \in [Units -> [active : BOOLEAN, enabled : BOOLEAN]],
           \/ UNCHANGED <<unit, enabledOnce>>
           \/ enabledOnce' = [name \in Units |-> enabledOnce[name] \cup {Now(name)'}]
    PROVE  RowsInv'
  <1>1. /\ \A name \in Units : enabledOnce[name] \subseteq enabledOnce'[name]
        /\ \A name \in Units : Now(name) \in enabledOnce[name] => Now(name)' \in enabledOnce'[name]
    BY Zenon DEF Now
  <1>2. enriching' # 0 => \A name \in Units : Now(name)' \in enabledOnce'[name]
    BY Zenon, <1>1 DEF RowsInv
  <1>3. \A k \in 1 .. Len(services) : unitPaths[k] \in Units
    BY OnceAll DEF RowsInv
  <1>4. \A k \in 1 .. Len(services) :
           services[k].file # "unknown" => services[k].file \in enabledOnce'[unitPaths[k]]
    BY Zenon, <1>1, <1>3 DEF RowsInv
  <1> QED
    BY Zenon, <1>2, <1>4 DEF RowsInv

LEMMA ListKeepsRows ==
    ASSUME RowsInv, ListUnits
    PROVE  RowsInv'
  <1>1. PICK read \in 0 .. Len(loaded) :
          LET units == SubSeq(loaded, 1, read)
              names == ServicesOf(units)
          IN /\ services' = [k \in 1 .. Len(names) |-> Listed(names[k])]
             /\ unitPaths' = PathsOf(units)
             /\ enriching' = IF names = <<>> THEN 0 ELSE 1
    BY Zenon DEF ListUnits
  <1> DEFINE units == SubSeq(loaded, 1, read)
             names == ServicesOf(units)
             n == Len(names)
             places == {k \in DOMAIN units : units[k] \in Services}
  <1>2. /\ enabledOnce' = [name \in Units |-> {Now(name)}]
        /\ UNCHANGED <<loaded, unit>>
    BY DEF ListUnits
  <1>3. Once(units)
    <2>1. /\ Len(loaded) \in Nat /\ \A k \in 1 .. Len(loaded) : loaded[k] \in Units
          /\ \A j, k \in 1 .. Len(loaded) : j # k => loaded[j] # loaded[k]
      BY OnceAll DEF RowsInv, Once
    <2>2. \A k \in 1 .. read : k \in 1 .. Len(loaded)
      BY <2>1
    <2>3. /\ units \in Seq(Units) /\ Len(units) = read
          /\ \A i \in 1 .. read : units[i] = loaded[i]
      <3>1. \A i \in 1 .. read : loaded[i] \in Units
        BY <2>1, <2>2
      <3>2. read \in Nat /\ read \in Int /\ 1 \in Int
        BY <2>1
      <3>3. /\ SubSeq(loaded, 1, read) \in Seq(Units)
            /\ Len(SubSeq(loaded, 1, read)) = IF 1 <= read THEN read - 1 + 1 ELSE 0
            /\ \A i \in 1 .. read - 1 + 1 : SubSeq(loaded, 1, read)[i] = loaded[1 + i - 1]
        BY <3>1, <3>2, SubSeqProperties
      <3> HIDE DEF units
      <3> QED
        BY <3>2, <3>3 DEF units
    <2> HIDE DEF units
    <2> QED
      BY <2>1, <2>2, <2>3 DEF Once
  <1> HIDE DEF units
  <1>4. places \in SUBSET (1 .. Len(units)) /\ \A k \in places : units[k] \in Services
    BY <1>3, OnceAll
  <1>5. names = Picked(units, places)
    BY DEF ServicesOf
  <1> HIDE DEF places, names
  <1>6. Once(names) /\ \A k \in 1 .. Len(names) : names[k] \in Services
    BY <1>3, <1>4, <1>5, PickedOnce
  <1>7. n \in Nat /\ \A k \in 1 .. n : names[k] \in Units
    BY <1>6, OnceAll
  <1>8. \A k \in 1 .. n : /\ Listed(names[k]) \in Rows
                          /\ Listed(names[k]).name = names[k] /\ Listed(names[k]).file = "unknown"
    BY <1>6, <1>7 DEF Listed, Rows, RowsInv
  <1> HIDE DEF n
  <1>9. services' = [k \in 1 .. n |-> Listed(names[k])] /\ unitPaths' = names
    BY <1>1 DEF n, names, units, PathsOf
  <1>10. services' \in Seq(Rows) /\ Len(services') = n
    <2>1. services' \in [1 .. n -> Rows]
      BY <1>8, <1>9
    <2>2. services' \in Seq(Rows) /\ DOMAIN services' = 1 .. n
      BY <1>7, <2>1, SeqDef
    <2> QED
      BY <1>7, <2>2, LenProperties
  <1>11. enriching' \in 0 .. n
    <2>1. enriching' = IF names = << >> THEN 0 ELSE 1
      BY <1>1 DEF names, units
    <2>2. names # << >> => n # 0
      BY <1>6, EmptySeq DEF Once, n
    <2> QED
      BY <1>7, <2>1, <2>2
  <1>12. \A name \in Units : Now(name)' \in enabledOnce'[name]
    BY <1>2 DEF Now
  <1>13. \A k \in 1 .. n : services'[k].name = names[k] /\ services'[k].file = "unknown"
    BY <1>8, <1>9
  <1>14. Len(names) = n
    BY DEF n
  <1>15. unit' \in [Units -> [active : BOOLEAN, enabled : BOOLEAN]] /\ Once(loaded')
    BY <1>2 DEF RowsInv
  <1> QED
    BY Zenon, <1>6, <1>9, <1>10, <1>11, <1>12, <1>13, <1>14, <1>15 DEF RowsInv

LEMMA EnrichKeepsRows ==
    ASSUME RowsInv, EnrichServices
    PROVE  RowsInv'
  <1> DEFINE n == Len(services)
             now == Now(unitPaths[enriching])
  <1>1. /\ enriching \in 1 .. n /\ n \in Nat
        /\ UNCHANGED <<unit, loaded, enabledOnce, unitPaths>>
        /\ enriching' = IF enriching = n THEN 0 ELSE enriching + 1
    BY LenProperties DEF RowsInv, EnrichServices
  <1>2. enriching' \in 0 .. n
    BY <1>1
  <1>3. /\ now \in FileStates /\ now \in enabledOnce[unitPaths[enriching]]
        /\ services[enriching] \in Rows
    <2>1. unitPaths[enriching] \in Units
      BY <1>1, OnceAll DEF RowsInv
    <2>2. now \in FileStates
      BY DEF Now, FileStates
    <2> HIDE DEF now
    <2>3. services[enriching] \in Rows
      BY <1>1, ElementOfSeq DEF RowsInv
    <2>4. now \in enabledOnce[unitPaths[enriching]]
      BY Zenon, <1>1, <2>1 DEF RowsInv, now, EnrichServices
    <2> QED
      BY <2>2, <2>3, <2>4
  <1> HIDE DEF now
  <1>4. CASE services' = services
    <2>1. \A name \in Units : Now(name)' = Now(name)
      BY Zenon, <1>1 DEF Now
    <2>2. \A name \in Units : Now(name)' \in enabledOnce'[name]
      BY Zenon, <1>1, <2>1 DEF RowsInv, EnrichServices
    <2> QED
      BY Zenon, <1>1, <1>2, <1>4, <2>2 DEF RowsInv
  <1>5. CASE services' = [services EXCEPT ![enriching].file = now]
    <2> DEFINE row == [services[enriching] EXCEPT !.file = now]
    <2>1. row \in Rows /\ row.name = services[enriching].name /\ row.file = now
      BY <1>3 DEF Rows, FileStates
    <2>2. services' = [services EXCEPT ![enriching] = row]
      BY <1>5
    <2> HIDE DEF row
    <2>3. /\ services' \in Seq(Rows) /\ Len(services') = n
          /\ services'[enriching] = row
          /\ \A k \in 1 .. n : k # enriching => services'[k] = services[k]
      BY <1>1, <2>1, <2>2, ExceptSeq DEF RowsInv
    <2>4. ASSUME NEW k \in 1 .. n
          PROVE  /\ services'[k].name = unitPaths[k]
                 /\ services'[k].file # "unknown" => services'[k].file \in enabledOnce[unitPaths[k]]
      BY Zenon, <1>3, <2>1, <2>3 DEF RowsInv
    <2>5. \A name \in Units : Now(name)' = Now(name)
      BY Zenon, <1>1 DEF Now
    <2>6. \A name \in Units : Now(name)' \in enabledOnce'[name]
      BY Zenon, <1>1, <2>5 DEF RowsInv, EnrichServices
    <2> QED
      BY Zenon, <1>1, <1>2, <2>3, <2>4, <2>6 DEF RowsInv
  <1> QED
    BY Zenon, <1>4, <1>5 DEF EnrichServices, now

LEMMA StepKeepsRows == RowsInv /\ [SystemdNext]_systemdVars => RowsInv'
  <1> SUFFICES ASSUME RowsInv, [SystemdNext]_systemdVars PROVE RowsInv'
    OBVIOUS
  <1>0. unit \in [Units -> [active : BOOLEAN, enabled : BOOLEAN]] /\ Once(loaded)
    BY DEF RowsInv
  <1>1. CASE UnitTurns
    <2>1. PICK name \in Units, field \in {"active", "enabled"} :
            LET others == Picked(loaded, {k \in DOMAIN loaded : loaded[k] # name})
            IN /\ unit' = [unit EXCEPT ![name][field] = ~ @]
               /\ loaded' \in {loaded, others, <<name>> \o others}
      BY Zenon, <1>1 DEF UnitTurns
    <2>2. Once(loaded')
      BY <1>0, <2>1, OthersOnce
    <2>3. unit' \in [Units -> [active : BOOLEAN, enabled : BOOLEAN]]
      BY <1>0, <2>1
    <2>4. /\ enabledOnce' = [other \in Units |-> enabledOnce[other] \cup {Now(other)'}]
          /\ UNCHANGED <<unitPaths, services, enriching>>
      BY Zenon, <1>1 DEF UnitTurns
    <2> QED
      BY <2>2, <2>3, <2>4, RowsStay
  <1>2. CASE BusBreaks \/ Connect \/ (\E name \in Services : AsksForService(name)) \/ Declined
    <2>1. UNCHANGED <<unit, loaded, enabledOnce, unitPaths, services, enriching>>
      BY <1>2 DEF BusBreaks, Connect, AsksForService, Declined
    <2> QED
      BY <1>0, <2>1, RowsStay
  <1>3. CASE ListUnits
    BY <1>3, ListKeepsRows
  <1>4. CASE EnrichServices
    BY <1>4, EnrichKeepsRows
  <1>5. CASE Operates
    <2>1. UNCHANGED <<loaded, unitPaths, services, enriching>>
      BY <1>5 DEF Operates
    <2>2. CASE UNCHANGED <<unit, enabledOnce>>
      BY <1>0, <2>1, <2>2, RowsStay
    <2>3. CASE /\ \E field \in {"active", "enabled"}, wish \in BOOLEAN :
                     unit' = [unit EXCEPT ![requested][field] = wish]
               /\ enabledOnce' = [name \in Units |-> enabledOnce[name] \cup {Now(name)'}]
      <3>1. unit' \in [Units -> [active : BOOLEAN, enabled : BOOLEAN]]
        BY <1>0, <2>3
      <3> QED
        BY <1>0, <2>1, <2>3, <3>1, RowsStay
    <2> QED
      BY Zenon, <1>5, <2>2, <2>3 DEF Operates
  <1>6. CASE UNCHANGED systemdVars
    <2>1. UNCHANGED <<unit, loaded, enabledOnce, unitPaths, services, enriching>>
      BY <1>6 DEF systemdVars
    <2> QED
      BY <1>0, <2>1, RowsStay
  <1> QED
    BY Zenon, <1>1, <1>2, <1>3, <1>4, <1>5, <1>6 DEF SystemdNext

\* For any units, turns of systemd and failures of the calls between listing and completion:
\* every row of the services page is about one service, and no service has two (listUnits,
\* enrichServices).
THEOREM RowsAreRight == SystemdSpec => []RowsAreOfTheirService
  <1>1. RowsInv => RowsAreOfTheirService
    <2> SUFFICES ASSUME RowsInv PROVE RowsAreOfTheirService
      OBVIOUS
    <2> DEFINE names == [k \in 1 .. Len(services) |-> services[k].name]
    <2>1. \A k \in 1 .. Len(services) : services[k] \in Rows /\ services[k].name = unitPaths[k]
      BY ElementOfSeq DEF RowsInv
    <2>2. \A k \in 1 .. Len(services) : services[k].name \in Services
      BY <2>1 DEF Rows
    <2>3. IsInjective(names)
      BY <2>1 DEF IsInjective, RowsInv, Once
    <2> QED
      BY Zenon, <2>1, <2>2, <2>3 DEF RowsAreOfTheirService, RowsInv
  <1> QED
    BY <1>1, RowsInit, StepKeepsRows, PTL DEF SystemdSpec
=============================================================================
