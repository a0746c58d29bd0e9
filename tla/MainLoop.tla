------------------------------ MODULE MainLoop ------------------------------
(***************************************************************************)
(* The main thread (main.cpp): one loop that sleeps, handles the command   *)
(* that was typed, reads every monitor, feeds what depends on the readings *)
(* and draws the frame.  A page is a command that blocks the loop and      *)
(* shows what the loop has kept.  Here a reading is the number of the      *)
(* refresh it was taken in.  The refresh is written three times: at        *)
(* start-up, after the process page, and at the end of the loop.  Only the *)
(* start-up applications are not read by it: their manager reads them when *)
(* it is made and when its page says so, and hands out what it has.        *)
(***************************************************************************)
EXTENDS Naturals

CONSTANTS
    Sizes,            \* history.max_samples as it may be set
    MaxRefreshes      \* bound: refreshes

ASSUME LoopConstants == Sizes # {} /\ MaxRefreshes \in Nat

\* What main() keeps in variables between two turns of the loop, and what the monitors
\* keep that pages and frames take from them.
Locals == {"memory", "processes", "network", "gpu", "sensors", "pressure", "load", "systemd",
           "startup"}
Kept == {"interfaces", "filesystems"}

\* What every snapshot of the interfaces is given to, in this order, and what takes the
\* metrics of a refresh.
Fed == {"traffic", "link state", "link metrics", "hardware", "wireless", "link statistics",
        "packets", "traffic rules", "process statistics", "history", "pressure history",
        "load history", "alerts"}

\* Those with a history of their own.
Histories == {"resources", "filesystems", "interfaces", "traffic", "wireless",
              "link statistics", "packets"}

VARIABLES
    turn,      \* "sleeping", "reading" or, after the return from main, "returned"
    view,      \* list or tree
    refresh,   \* refreshes so far
    listed,    \* the refreshes there were when apps_ of StartupManager was last read
    held,      \* the refresh each local and each kept snapshot is from
    fed,       \* the refreshes each of Fed was given
    screen,    \* what is shown, and the refresh each part of it is from
    wanted,    \* history.max_samples in the settings
    sizes      \* the size each history was given

loopVars == <<turn, view, refresh, listed, held, fed, screen, wanted, sizes>>

Given(consumers) ==
    [c \in Fed |-> IF c \in consumers THEN fed[c] \cup {refresh + 1} ELSE fed[c]]

\* Every part is a new reading, but read() of StartupManager copies the list it has.
Taken(parts) ==
    [p \in Locals \cup Kept |->
        IF p \notin parts THEN held[p] ELSE IF p = "startup" THEN listed ELSE refresh + 1]

Frame(parts, network) ==
    [of |-> "frame", parts |-> [p \in Locals \cup Kept |->
                                  IF p = "network" THEN network ELSE parts[p]]]

\* main() up to the first frame.  The filesystems and the start-up applications were read
\* once, before the sleep.
LoopInit ==
    /\ turn = "sleeping" /\ view \in {"list", "tree"} /\ refresh = 1 /\ listed = 0
    /\ held = [p \in Locals \cup Kept |-> IF p \in {"filesystems", "startup"} THEN 0 ELSE 1]
    /\ fed = [c \in Fed |-> {1}]
    /\ screen = [of |-> "frame", parts |-> held]
    /\ wanted \in Sizes /\ sizes = [h \in Histories |-> wanted]

-----------------------------------------------------------------------------
(* The commands.                                                           *)

Command == turn = "sleeping" /\ refresh < MaxRefreshes

\* A sort key, an unknown key, nothing at all.
NoCommand ==
    /\ Command /\ turn' = "reading"
    /\ UNCHANGED <<view, refresh, listed, held, fed, screen, wanted, sizes>>

SetView(to) ==
    /\ Command /\ turn' = "reading"
    /\ view' = to
    /\ UNCHANGED <<refresh, listed, held, fed, screen, wanted, sizes>>

AssignedButGpu == (Locals \cup Kept) \ {"network", "pressure", "load", "gpu"}

\* The parts the refresh after the process page assigns: network is declared again in its
\* block, and pressure and load are not read; nor are their histories fed.
Assigned == (Locals \cup Kept) \ {"network", "pressure", "load"}
FedAtOnce == Fed \ {"pressure history", "load history"}

\* The process page in either view, a refresh at once, a frame, and back to sleep.  The CPU
\* and the memory are read first; if one of them cannot be read there is neither refresh nor
\* frame, but the memory reading, new or empty, is kept.
Manage(cpu, memory) ==
    /\ Command
    /\ IF cpu /\ memory
       THEN /\ held' = Taken(Assigned) /\ fed' = Given(FedAtOnce)
            /\ screen' = Frame(held', refresh + 1)
            /\ refresh' = refresh + 1
       ELSE /\ held' = [held EXCEPT !["memory"] = IF memory THEN refresh + 1 ELSE 0]
            /\ UNCHANGED <<fed, screen, refresh>>
    /\ UNCHANGED <<turn, view, listed, wanted, sizes>>

\* What each page is given.
PageParts(page) ==
    CASE page = "process" -> {"processes", "memory"}
      [] page = "network" -> {"network", "interfaces"}
      [] page = "filesystems" -> {"filesystems"}
      [] page = "gpu" -> {"gpu"}
      [] page = "sensors" -> {"sensors", "gpu"}
      [] page = "systemd" -> {"systemd"}
      [] page = "startup" -> {"startup"}
      [] page = "information" -> {"gpu"}
      [] page = "export" -> {"interfaces"}
      [] OTHER -> {}
Pages == {"process", "network", "filesystems", "gpu", "sensors", "systemd", "startup",
          "information", "export", "disk health", "packages"}

\* Pages open from the list only.  On that of the start-up applications the list may be read
\* again: by its action 6, or with an application that is enabled or disabled.
Opens(page) ==
    /\ Command /\ turn' = "reading"
    /\ IF view = "list"
       THEN /\ screen' = [of |-> page, parts |-> [p \in PageParts(page) |-> held[p]]]
            /\ listed' \in IF page = "startup" THEN {listed, refresh} ELSE {listed}
       ELSE UNCHANGED <<screen, listed>>
    /\ UNCHANGED <<view, refresh, held, fed, wanted, sizes>>

\* applySettingsToRuntime and the setHistoryMaxSamples calls after it.
Resized == [h \in Histories |-> wanted']

VisitSettings(size) ==
    /\ Command /\ view = "list" /\ turn' = "reading"
    /\ wanted' = size
    /\ sizes' = Resized
    /\ UNCHANGED <<view, refresh, listed, held, fed, screen>>

PressNotifications ==
    /\ Command /\ turn' = "reading"
    /\ wanted' = wanted
    /\ sizes' = Resized
    /\ UNCHANGED <<view, refresh, listed, held, fed, screen>>

-----------------------------------------------------------------------------
\* The rest of the turn: everything is read; without CPU or memory main() returns.
Tick ==
    /\ turn = "reading"
    /\ \/ /\ turn' = "sleeping" /\ refresh' = refresh + 1
          /\ held' = Taken(Locals \cup Kept) /\ fed' = Given(Fed)
          /\ screen' = Frame(held', held'["network"])
       \/ /\ turn' = "returned"
          /\ UNCHANGED <<refresh, held, fed, screen>>
    /\ UNCHANGED <<view, listed, wanted, sizes>>

LoopNext ==
    \/ NoCommand \/ \E to \in {"list", "tree"} : SetView(to)
    \/ \E cpu, memory \in BOOLEAN : Manage(cpu, memory)
    \/ \E page \in Pages : Opens(page)
    \/ (\E size \in Sizes : VisitSettings(size)) \/ PressNotifications
    \/ Tick

LoopSpec == LoopInit /\ [][LoopNext]_loopVars
-----------------------------------------------------------------------------
Late(part) ==
    \/ part \in {"pressure", "load"}              \* not read after the process page
    \/ part = "filesystems" /\ refresh = 1
    \/ part = "memory" /\ held["memory"] \in {0, refresh + 1}   \* a refresh failed
    \/ part = "network" /\ screen.of = "network"

\* The list of start-up applications is the last that was read, but on its own page, where
\* it may just have been read again.
Shown(part) ==
    IF part = "startup" THEN screen.parts[part] = listed \/ screen.of = "startup"
    ELSE screen.parts[part] = refresh \/ Late(part)

HistoryOf(part) == IF part = "pressure" THEN "pressure history" ELSE "load history"

\* Whatever sequence of keys led there, a frame and a page show the parts of one refresh,
\* the last, what is fed by the refreshes has seen every one of them, and the histories
\* have the configured size: the three copies of the refresh agree in all but what Late
\* lists, and so do the two of what a change of the settings does.  The refresh after the
\* process page leaves a gap in the histories of pressure and load, but no more than that:
\* what is shown of the two is what their histories end with.
ScreenAgrees ==
    /\ \A part \in DOMAIN screen.parts : Shown(part)
    /\ \A c \in FedAtOnce : fed[c] = 1 .. refresh
    /\ \A part \in {"pressure", "load"} :
          held[part] \in fed[HistoryOf(part)] /\ \A r \in fed[HistoryOf(part)] : r <= held[part]
    /\ \A h \in Histories : sizes[h] = wanted
=============================================================================
