---------------------------- MODULE AlertManager ----------------------------
(***************************************************************************)
(* AlertManager (alert_manager.cpp): one severity state per subject (a     *)
(* type and a source), moved by the values the monitors feed it and by the *)
(* verdicts of external rule monitors, and a bounded history of the        *)
(* transitions.  Thresholds can be changed from the settings page at any   *)
(* time.  It runs on the main loop; an operation is one step.              *)
(***************************************************************************)
EXTENDS Integers, Sequences

CONSTANTS
    Subjects,      \* fed with values by updateAlerts
    RuleSubjects,  \* fed with verdicts by the rule, link and wireless monitors
    TypeOf,        \* the alert type of each fed subject
    HwCritical,    \* critical limit of the sensor hardware, 0 for none
    Values,        \* values fed (NaN changes nothing and is left out)
    Configs,       \* [warning, critical, recovery, enabled] a type may be given
    MaxHistory     \* bound: max_history_ (100 in the program)

Severities == {"Normal", "Warning", "Critical"}
AllSubjects == Subjects \cup RuleSubjects
Types == {TypeOf[s] : s \in Subjects}

ASSUME AlertConstants ==
    /\ TypeOf \in [Subjects -> Types]
    /\ HwCritical \in [Subjects -> Nat]
    /\ Subjects \cap RuleSubjects = {}
    /\ Values \subseteq Int
    /\ Configs \subseteq [warning : Int, critical : Int, recovery : Int,
                          enabled : BOOLEAN]
    /\ \A c \in Configs : c.warning < c.critical /\ c.recovery <= c.warning
    /\ MaxHistory \in Nat \ {0}

VARIABLES
    severity,     \* subjects_: the severity of each subject, Normal when absent
    thresholds,   \* thresholds_
    history       \* history_, oldest first

alertVars == <<severity, thresholds, history>>

\* AlertEvent; the caller of recordRuleEvent gives its own value and threshold.
Event(s, sev, value, threshold) ==
    [subject |-> s, severity |-> sev, value |-> value, threshold |-> threshold]

AlertInit ==
    /\ severity = [s \in AllSubjects |-> "Normal"]
    /\ thresholds \in [Types -> Configs]
    /\ history = << >>

PushedNewestFirst(event) ==
    IF Len(history) = MaxHistory
    THEN Append(SubSeq(history, 1, MaxHistory - 1), Head(history))
    ELSE Append(history, event)

\* pushEvent
Pushed(event) ==
    IF Len(history) = MaxHistory THEN Append(Tail(history), event)
    ELSE Append(history, event)

Critical(s) ==
    LET limit == thresholds[TypeOf[s]].critical
    IN  IF HwCritical[s] > 0 /\ HwCritical[s] < limit THEN HwCritical[s] ELSE limit

\* A negative recovery threshold stands for the warning threshold.
Recovery(s) ==
    LET t == thresholds[TypeOf[s]] IN IF t.recovery < 0 THEN t.warning ELSE t.recovery

NextSeverityNoBand(s, value) ==
    IF value >= Critical(s) THEN "Critical"
    ELSE IF value >= thresholds[TypeOf[s]].warning THEN "Warning" ELSE "Normal"

NextSeverity(s, value) ==
    CASE value >= Critical(s) -> "Critical"
      [] value < Critical(s) /\ value >= thresholds[TypeOf[s]].warning -> "Warning"
      [] value < Critical(s) /\ value < thresholds[TypeOf[s]].warning ->
           IF value < Recovery(s) THEN "Normal" ELSE severity[s]

\* The threshold an event names: the one its transition crossed.
Crossed(s, next) ==
    CASE next = "Critical" -> Critical(s)
      [] next = "Warning" -> thresholds[TypeOf[s]].warning
      [] next = "Normal" -> Recovery(s)

Changes(s, next) == next # severity[s]

\* A transition is stored, pushed and, for a fed subject, handed to the sink.
Transition(s, next, value, threshold) ==
    /\ severity' = [severity EXCEPT ![s] = next]
    /\ history' = Pushed(Event(s, next, value, threshold))
    /\ UNCHANGED thresholds

\* evaluate, called by updateCpu, updateMemory, ..., updateTemperature.
Evaluate(s, value) ==
    /\ thresholds[TypeOf[s]].enabled
    /\ LET next == NextSeverity(s, value)
       IN  Changes(s, next) /\ Transition(s, next, value, Crossed(s, next))

\* recordRuleEvent: the caller has decided the severity.
RecordRuleEvent(s, next) ==
    /\ Changes(s, next)
    /\ Transition(s, next, 0, 0)

\* clearSubject: silent, nothing is pushed.
ClearSubject(s) ==
    /\ severity[s] # "Normal"
    /\ severity' = [severity EXCEPT ![s] = "Normal"]
    /\ UNCHANGED <<thresholds, history>>

\* applySettingsToRuntime
ApplyThresholds(type, config) ==
    /\ thresholds' = [thresholds EXCEPT ![type] = config]
    /\ UNCHANGED <<severity, history>>

-----------------------------------------------------------------------------
Events == [subject : AllSubjects, severity : Severities, value : Values \cup {0},
           threshold : Int]

\* Types; the history never outgrows its bound.
AlertTypeOK ==
    /\ severity \in [AllSubjects -> Severities]
    /\ thresholds \in [Types -> Configs]
    /\ history \in Seq(Events)
    /\ Len(history) <= MaxHistory

\* i is the last event of its subject before position j.
Precedes(i, j) ==
    /\ i < j
    /\ history[i].subject = history[j].subject
    /\ \A k \in i + 1 .. j - 1 : history[k].subject # history[j].subject

IsLast(i) == \A k \in i + 1 .. Len(history) : history[k].subject # history[i].subject

\* The newest event kept of an active subject carries its severity: whatever
\* pushed others out of the history, and whichever path moved the subject, the
\* recent list never contradicts the active list.
ActiveMatchesHistory ==
    \A i \in DOMAIN history :
        IsLast(i) => severity[history[i].subject] \in {"Normal", history[i].severity}

\* A recovery event follows an alert event of its subject, and is
\* not pushed twice: one event per transition.
RecoveryFollowsAlert ==
    \A i, j \in DOMAIN history :
        Precedes(i, j) /\ history[j].severity = "Normal" => history[i].severity # "Normal"

\* An alert and the recovery after it are separated by more than the hysteresis
\* band of their thresholds, whatever thresholds were set and undone in between:
\* a value hovering around one boundary raises and clears nothing
\* (alert_manager.hpp:83-84).
HysteresisSeparates ==
    \A i, j \in DOMAIN history : \A c \in Configs :
        /\ Precedes(i, j) /\ history[i].subject \in Subjects
        /\ history[i].severity # "Normal" /\ history[j].severity = "Normal"
        /\ history[i].threshold \in {c.warning, c.critical}
        /\ history[j].threshold = c.recovery
        => history[i].value - history[j].value > c.warning - c.recovery
=============================================================================
