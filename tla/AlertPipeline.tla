--------------------------- MODULE AlertPipeline ---------------------------
(***************************************************************************)
(* The alert path of main.cpp: updateAlerts feeds AlertManager, whose sink *)
(* onAlertEvent calls NotificationManager::notify in the same call; the    *)
(* external monitors record their transitions with recordRuleEvent, which  *)
(* has no sink, and push what their own policy allows to onNetwork...Event.*)
(***************************************************************************)
EXTENDS AlertManager, NotificationManager

CONSTANT KindSets   \* kinds of event the user may choose to be notified of

ASSUME SourcesAssumption == Sources = AllSubjects /\ KindSets \subseteq SUBSET Kinds

pipelineVars == <<alertVars, notifyVars>>

PipelineInit == AlertInit /\ NotifyInit

\* evaluate with the sink: the event carries the severity just stored.
Feed(s, value) ==
    /\ Evaluate(s, value)
    /\ LET next == NextSeverity(s, value) IN Notify(s, next)

\* The rule monitor records, and may or may not push (its notify flag).
RuleTransition(s, sev) ==
    /\ RecordRuleEvent(s, sev)
    /\ \/ Notify(s, sev)
       \/ UNCHANGED notifyVars

\* A repeat interval pushes the same severity again without a new record.
RuleRepeats(s) ==
    /\ severity[s] # "Normal"
    /\ Notify(s, severity[s])
    /\ UNCHANGED alertVars

ClearsRule(s) == ClearSubject(s) /\ UNCHANGED notifyVars

SettingsChange ==
    \/ \E type \in Types, c \in Configs :
          ApplyThresholds(type, c) /\ UNCHANGED notifyVars
    \/ \E kinds \in KindSets :
          ApplyNotificationSettings(kinds) /\ UNCHANGED alertVars

DesktopChanges == DesktopNext /\ UNCHANGED alertVars

PipelineNext ==
    \/ \E s \in Subjects, v \in Values : Feed(s, v)
    \/ \E s \in RuleSubjects : \/ \E sev \in Severities : RuleTransition(s, sev)
                               \/ RuleRepeats(s) \/ ClearsRule(s)
    \/ SettingsChange
    \/ DesktopChanges

PipelineSpec == PipelineInit /\ [][PipelineNext]_pipelineVars

-----------------------------------------------------------------------------
\* A source has at most one popup on screen, however often it transitions and
\* however the user and the daemon close popups: the id is remembered and reused.
OnePopupPerSource == \A s \in AllSubjects : popups[s] <= 1

\* The daemon hears of a source at most once per cooldown, whether the event
\* came through the alert sink or from a rule monitor's own sink, and although a
\* call that timed out is not recorded as sent: nothing is sent after it.
OncePerCooldown == \A s \in AllSubjects : heard[s] <= 1

\* Violated.  "Drop the (possibly dead) handle so a later notify() can reconnect"
\* (notification_manager.cpp:147): after one call that failed or timed out no later
\* notify reaches a daemon that answers, for deliver() returns at once without a handle.
ReachesLiveDaemon ==
    [][\A s \in Subjects :
          /\ severity'[s] # severity[s]
          /\ severity'[s] \in wanted
          /\ ~InCooldown(s)
          /\ daemon
          => heard'[s] > 0]_pipelineVars
=============================================================================
