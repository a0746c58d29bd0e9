--------------------------- MODULE ProcessControl ---------------------------
(***************************************************************************)
(* Acting on a process from the console (main.cpp, process_actions.cpp,    *)
(* process_scheduling.cpp, process_report.cpp): a process is chosen from a *)
(* frozen list, an action from a menu, and after a confirmation a signal   *)
(* is sent or a scheduling setting is changed, or a report is exported.    *)
(* Prompts block for as long as the user likes, while processes exit and   *)
(* their pids are reused.  Nice value and CPU affinity are handled alike:  *)
(* one setting stands for either.                                          *)
(***************************************************************************)
EXTENDS Naturals

CONSTANTS
    Pids,
    Init1,     \* pid 1
    Self,      \* the task manager's own pid
    Settings,  \* nice values, or CPU lists
    MaxBirths  \* bound: processes that ever had the same pid

Protected == {Init1, Self}   \* isProtectedPid

Signals == {"terminate", "kill", "pause", "resume"}
Gone == 0         \* no process has the pid
NoPid == "none"

ASSUME ProcessConstants ==
    /\ Protected \subseteq Pids /\ NoPid \notin Pids
    /\ MaxBirths \in Nat \ {0} /\ Settings # {}

NoHit == [action |-> "none", pid |-> NoPid, gen |-> Gone, meant |-> Gone, raced |-> FALSE]
NoReport == [start |-> Gone, data |-> Gone, complete |-> TRUE]

VARIABLES
    born,     \* external: how many processes have had each pid
    gen,      \* external: which of them runs now (its start time), or Gone
    setting,  \* external: its nice value or affinity
    listed,   \* the process list: the processes of the last refresh
    page,     \* "control" (runProcessControl) or "details" (interactProcessDetail)
    pc,       \* where the console is
    chosen,   \* the selected pid
    action,   \* the action being carried out
    identity, \* ProcessIdentity captured for it
    current, value,   \* the setting shown to the user, and the one asked for
    info,     \* the details read: start time, and where the rest came from
    raced,    \* ghost: the pid changed hands since the identity was checked
    hit,      \* the last effect: what was done, to which process, meant for which
    report    \* the last report written

env == <<born, gen, setting>>
console == <<page, chosen, action, identity, current, value, info>>
effects == <<hit, report>>
vars == <<env, listed, console, pc, raced, effects>>

Init ==
    /\ gen \in [Pids -> {Gone, 1}] /\ \A p \in Protected : gen[p] = 1
    /\ born = gen /\ setting \in [Pids -> Settings]
    /\ listed = gen
    /\ page = "control" /\ pc = "live" /\ chosen = NoPid /\ action = "none"
    /\ identity = Gone /\ current \in Settings /\ value = current
    /\ info = NoReport /\ raced = FALSE /\ hit = NoHit /\ report = NoReport

-----------------------------------------------------------------------------
(* The kernel.  Pid 1 and the task manager itself keep running.            *)

Disturbs(p) == raced' = (raced \/ (p = chosen /\ pc \in {"existing", "apply"}))

Exits(p) ==
    /\ gen[p] # Gone /\ p \notin Protected
    /\ gen' = [gen EXCEPT ![p] = Gone]
    /\ Disturbs(p)
    /\ UNCHANGED <<born, setting, listed, console, pc, effects>>

Starts(p) ==
    /\ gen[p] = Gone /\ born[p] < MaxBirths
    /\ born' = [born EXCEPT ![p] = @ + 1]
    /\ gen' = [gen EXCEPT ![p] = born[p] + 1]
    /\ \E s \in Settings : setting' = [setting EXCEPT ![p] = s]
    /\ Disturbs(p)
    /\ UNCHANGED <<listed, console, pc, effects>>

-----------------------------------------------------------------------------
(* The main loop and the choice of a process.                              *)

Refresh ==
    /\ pc = "live"
    /\ listed' = gen
    /\ UNCHANGED <<env, console, pc, raced, effects>>

Open(which) ==
    /\ pc = "live"
    /\ page' = which /\ pc' = "list"
    /\ UNCHANGED <<env, listed, chosen, action, identity, current, value, info,
                   raced, effects>>

\* selectPid, selectPidForDetails
SelectableAnyway(p) == TRUE
Selectable(p) == page = "control" => p \notin Protected

Chooses(p) == chosen' = p

Select(p) ==
    /\ pc = "list" /\ listed[p] # Gone /\ Selectable(p)
    /\ Chooses(p)
    /\ pc' = IF page = "details" THEN "stat" ELSE "menu"
    /\ UNCHANGED <<env, listed, page, action, identity, current, value, info, raced,
                   effects>>

\* Any other answer, and the end of input: back to the live view.
GivesUp ==
    /\ pc \in {"list", "menu"}
    /\ pc' = "live"
    /\ UNCHANGED <<env, listed, console, raced, effects>>

\* The action is over, or is refused: the details are drawn again.
Returns == pc' = IF page = "details" THEN "stat" ELSE "live"

\* getProcessDetails reads stat, with the start time, before everything else.
ReadsStat ==
    /\ pc = "stat"
    /\ IF gen[chosen] = Gone THEN pc' = "live" /\ UNCHANGED info
       ELSE pc' = "rest" /\ info' = [info EXCEPT !.start = gen[chosen]]
    /\ UNCHANGED <<env, listed, page, chosen, action, identity, current, value, raced,
                   effects>>

ReadsRest ==
    /\ pc = "rest"
    /\ info' = [info EXCEPT !.data = gen[chosen]] /\ pc' = "menu"
    /\ UNCHANGED <<env, listed, page, chosen, action, identity, current, value, raced,
                   effects>>

-----------------------------------------------------------------------------
(* The actions: runActionMenu, runProcessDetailAction, runChangeNice and   *)
(* runChangeCpuAffinity.                                                   *)

\* The gate of the details page; runActionMenu relies on selectPid.
Unprotected == page = "details" => chosen \notin Protected

ChooseSignal(signal) ==
    /\ pc = "menu"
    /\ IF Unprotected THEN action' = signal /\ pc' = "confirm" ELSE Returns /\ UNCHANGED action
    /\ UNCHANGED <<env, listed, page, chosen, identity, current, value, info, raced,
                   effects>>

\* The identity is captured here, not when the process was selected.
Captures == identity' = gen[chosen]

ChooseChange ==
    /\ pc = "menu"
    /\ IF Unprotected /\ gen[chosen] # Gone
       THEN Captures /\ action' = "change" /\ pc' = "current"
       ELSE Returns /\ UNCHANGED <<identity, action>>
    /\ UNCHANGED <<env, listed, page, chosen, current, value, info, raced, effects>>

ReadsCurrent ==
    /\ pc = "current"
    /\ IF gen[chosen] = Gone THEN Returns /\ UNCHANGED current
       ELSE current' = setting[chosen] /\ pc' = "value"
    /\ UNCHANGED <<env, listed, page, chosen, action, identity, value, info, raced,
                   effects>>

\* A cancelled, invalid or equal value ends the action.
EntersValue(v) ==
    /\ pc = "value" /\ v # current
    /\ value' = v /\ pc' = "confirm"
    /\ UNCHANGED <<env, listed, page, chosen, action, identity, current, info, raced,
                   effects>>

Confirms ==
    /\ pc = "confirm"
    /\ pc' = IF action = "change" THEN "check" ELSE "signal"
    /\ UNCHANGED <<env, listed, console, raced, effects>>

Declines ==
    /\ pc \in {"value", "confirm"}
    /\ Returns
    /\ UNCHANGED <<env, listed, console, raced, effects>>

Effect(what) ==
    [action |-> what, pid |-> chosen, gen |-> gen[chosen],
     meant |-> IF what = "change" THEN identity ELSE listed[chosen], raced |-> raced]

\* kill(2) goes to whatever process has the pid now, or fails (ESRCH, EPERM).
Signal ==
    /\ pc = "signal"
    /\ \/ gen[chosen] # Gone /\ hit' = [Effect(action) EXCEPT !.raced = FALSE]
       \/ UNCHANGED hit
    /\ Returns
    /\ UNCHANGED <<env, listed, console, raced, report>>

\* setNice, setCpuAffinity: IdentityUnknown and ProcessReused refuse.
StillThere == gen[chosen] # Gone
SameProcess == gen[chosen] = identity

ChecksIdentity ==
    /\ pc = "check"
    /\ IF SameProcess THEN pc' = "existing" /\ raced' = FALSE ELSE Returns /\ UNCHANGED raced
    /\ UNCHANGED <<env, listed, console, effects>>

ReadsExisting ==
    /\ pc = "existing"
    /\ IF gen[chosen] # Gone /\ setting[chosen] = value THEN Returns ELSE pc' = "apply"
    /\ UNCHANGED <<env, listed, console, raced, effects>>

\* setpriority(2), sched_setaffinity(2), by pid again; may fail as well.
Applies ==
    /\ pc = "apply"
    /\ \/ /\ gen[chosen] # Gone
          /\ setting' = [setting EXCEPT ![chosen] = value]
          /\ hit' = Effect("change")
       \/ UNCHANGED <<setting, hit>>
    /\ Returns
    /\ UNCHANGED <<born, gen, listed, console, raced, report>>

-----------------------------------------------------------------------------
\* exportProcessReport: the start time read with the details is verified when the
\* text is ready; a process that is gone by then is reported with a note.
VerifiesNothing == "same"
Verified ==
    IF gen[chosen] = Gone THEN "gone"
    ELSE IF gen[chosen] = info.start THEN "same" ELSE "reused"

Exports ==
    /\ pc = "menu" /\ page = "details"
    /\ \/ /\ Verified # "reused"
          /\ report' = [info EXCEPT !.complete = (Verified = "same")]
       \/ UNCHANGED report   \* refused, cancelled, or the file can not be written
    /\ Returns
    /\ UNCHANGED <<env, listed, console, raced, hit>>

Kernel == \E p \in Pids : Exits(p) \/ Starts(p)

Choosing ==
    \/ Refresh \/ Open("control") \/ Open("details") \/ GivesUp
    \/ \E p \in Pids : Select(p)
    \/ ReadsStat \/ ReadsRest

Acting ==
    \/ \E signal \in Signals : ChooseSignal(signal)
    \/ ChooseChange \/ ReadsCurrent \/ (\E v \in Settings : EntersValue(v))
    \/ Confirms \/ Declines
    \/ Signal \/ ChecksIdentity \/ ReadsExisting \/ Applies
    \/ Exports

Next == Kernel \/ Choosing \/ Acting

Spec == Init /\ [][Next]_vars

-----------------------------------------------------------------------------
Generations == 0..MaxBirths
Reports == [start : Generations, data : Generations, complete : BOOLEAN]

\* Types; the start time of a running process is the newest of its pid.
TypeOK ==
    /\ born \in [Pids -> Generations] /\ gen \in [Pids -> Generations]
    /\ \A p \in Pids : gen[p] \in {Gone, born[p]}
    /\ setting \in [Pids -> Settings] /\ listed \in [Pids -> Generations]
    /\ page \in {"control", "details"}
    /\ pc \in {"live", "list", "stat", "rest", "menu", "current", "value", "confirm",
               "signal", "check", "existing", "apply"}
    /\ chosen \in Pids \cup {NoPid}
    /\ pc \notin {"live", "list"} => chosen \in Pids
    /\ action \in Signals \cup {"none", "change"}
    /\ identity \in Generations /\ current \in Settings /\ value \in Settings
    /\ info \in Reports /\ raced \in BOOLEAN
    /\ hit.action \in Signals \cup {"none", "change"} /\ hit.pid \in Pids \cup {NoPid}
    /\ report \in Reports

\* Pid 1 and the task manager are never signalled or changed, on either page:
\* one page refuses to select them, the other selects them and refuses to act.
ProtectedUntouched == hit.pid \notin Protected

\* A scheduling change reaches the process whose identity was captured before the
\* prompts, however long they took, unless the pid changes hands between the
\* check and the system call, which nothing can prevent.
ChangeHitsCaptured ==
    hit.action = "change" /\ ~hit.raced => hit.gen = hit.meant

\* A report written as complete holds the data of one process: a pid reused while
\* its files were being read is noticed at the end.
CompleteReportOfOne == report.complete => report.data = report.start
=============================================================================
