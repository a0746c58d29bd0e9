------------------------ MODULE AlertPipelineProofs ------------------------
(***************************************************************************)
(* Theorems about the alert path for any subjects, values, thresholds and  *)
(* bound of the history.                                                   *)
(***************************************************************************)
EXTENDS AlertPipeline, TLAPS

\* What a subject may be: its configuration has integer thresholds.
LEMMA ThresholdFacts ==
  ASSUME AlertTypeOK, NEW s \in Subjects
  PROVE  /\ thresholds[TypeOf[s]] \in Configs
         /\ thresholds[TypeOf[s]].warning \in Int
         /\ thresholds[TypeOf[s]].critical \in Int
         /\ thresholds[TypeOf[s]].recovery \in Int
         /\ Critical(s) \in Int /\ Recovery(s) \in Int
<1>1. TypeOf[s] \in Types BY DEF Types
<1>2. thresholds[TypeOf[s]] \in Configs BY <1>1 DEF AlertTypeOK
<1>3. /\ thresholds[TypeOf[s]].warning \in Int /\ thresholds[TypeOf[s]].critical \in Int
      /\ thresholds[TypeOf[s]].recovery \in Int
  BY <1>2, AlertConstants
<1>4. HwCritical[s] \in Int BY AlertConstants
<1> QED BY <1>2, <1>3, <1>4 DEF Critical, Recovery

\* The history after a push: what was kept moved by at most one place, and the
\* event is last.
LEMMA PushedShape ==
  ASSUME AlertTypeOK, NEW event
  PROVE  \E d \in {0, 1} :
            /\ Len(Pushed(event)) = Len(history) + 1 - d
            /\ Len(Pushed(event)) <= MaxHistory
            /\ \A i \in 1 .. Len(history) - d : Pushed(event)[i] = history[i + d]
            /\ Pushed(event)[Len(Pushed(event))] = event
            /\ DOMAIN Pushed(event) = 1 .. Len(Pushed(event))
            /\ event \in Events => Pushed(event) \in Seq(Events)
<1>1. history \in Seq(Events) /\ Len(history) \in Nat /\ Len(history) <= MaxHistory
      /\ MaxHistory \in Nat \ {0}
  BY AlertConstants DEF AlertTypeOK
<1>2. CASE Len(history) = MaxHistory
  <2>1. Pushed(event) = Append(Tail(history), event) BY <1>2 DEF Pushed
  <2>2. /\ Tail(history) \in Seq(Events) /\ Len(Tail(history)) = Len(history) - 1
        /\ \A i \in 1 .. Len(history) - 1 : Tail(history)[i] = history[i + 1]
    BY <1>1, <1>2
  <2> QED BY <1>1, <1>2, <2>1, <2>2
<1>3. CASE Len(history) # MaxHistory
  <2>1. Pushed(event) = Append(history, event) BY <1>3 DEF Pushed
  <2> QED BY <1>1, <1>3, <2>1
<1> QED BY <1>2, <1>3

-----------------------------------------------------------------------------
\* The ways AlertManager moves: a transition of one subject, a silent return of a
\* subject to Normal, new thresholds, or a reset.
Moves(s, next, value, threshold) ==
    Changes(s, next) /\ Transition(s, next, value, threshold)
FedMove ==
    \E s \in Subjects, value \in Values :
        Moves(s, NextSeverity(s, value), value, Crossed(s, NextSeverity(s, value)))
RuleMove == \E s \in RuleSubjects, sev \in Severities : Moves(s, sev, 0, 0)
SilentMove == \E s \in RuleSubjects : ClearSubject(s)
ThresholdMove == \E type \in Types, c \in Configs : ApplyThresholds(type, c)
AlertStep ==
    FedMove \/ RuleMove \/ SilentMove \/ ThresholdMove \/ UNCHANGED alertVars

LEMMA StepIsAlertStep == ASSUME [PipelineNext]_pipelineVars PROVE AlertStep
<1> USE DEF AlertStep
<1>1. ASSUME NEW s \in Subjects, NEW v \in Values, Feed(s, v) PROVE FedMove
  BY <1>1 DEF Feed, Evaluate, FedMove, Moves
<1>2. ASSUME NEW s \in RuleSubjects, NEW sev \in Severities, RuleTransition(s, sev)
      PROVE  RuleMove
  BY <1>2 DEF RuleTransition, RecordRuleEvent, RuleMove, Moves
<1>3. ASSUME NEW s \in RuleSubjects, RuleRepeats(s) \/ ClearsRule(s)
      PROVE  SilentMove \/ UNCHANGED alertVars
  BY <1>3 DEF RuleRepeats, ClearsRule, SilentMove
<1>4. CASE SettingsChange
  BY <1>4 DEF SettingsChange, ThresholdMove
<1>5. CASE DesktopChanges \/ UNCHANGED pipelineVars
  BY <1>5 DEF DesktopChanges, pipelineVars
<1> QED BY <1>1, <1>2, <1>3, <1>4, <1>5 DEF PipelineNext

LEMMA NextSeverityType ==
  ASSUME AlertTypeOK, NEW s \in Subjects, NEW value \in Values
  PROVE  /\ NextSeverity(s, value) \in Severities
         /\ Crossed(s, NextSeverity(s, value)) \in Int
<1>1. value \in Int BY AlertConstants
<1>2. severity[s] \in Severities BY DEF AlertTypeOK, AllSubjects
<1>3. NextSeverity(s, value) \in Severities
  BY <1>1, <1>2, ThresholdFacts DEF NextSeverity, Severities
<1> QED BY <1>3, ThresholdFacts DEF Crossed, Severities

\* Every variable of the manager keeps its type and the history its bound.
THEOREM AlertTypes == PipelineSpec => []AlertTypeOK
<1>1. PipelineInit => AlertTypeOK
  BY AlertConstants DEF PipelineInit, AlertInit, AlertTypeOK, Severities
<1>2. AlertTypeOK /\ [PipelineNext]_pipelineVars => AlertTypeOK'
  <2> SUFFICES ASSUME AlertTypeOK, [PipelineNext]_pipelineVars PROVE AlertTypeOK'
    OBVIOUS
  <2>1. ASSUME NEW s \in AllSubjects, NEW next \in Severities, NEW value \in Values \cup {0},
               NEW threshold \in Int, Moves(s, next, value, threshold)
        PROVE  AlertTypeOK'
    <3>1. Event(s, next, value, threshold) \in Events BY DEF Event, Events
    <3>2. history' \in Seq(Events) /\ Len(history') <= MaxHistory
      BY <2>1, <3>1, PushedShape DEF Moves, Transition
    <3>3. severity' \in [AllSubjects -> Severities] /\ UNCHANGED thresholds
      BY <2>1 DEF Moves, Transition, AlertTypeOK
    <3> QED BY <3>2, <3>3 DEF AlertTypeOK
  <2>2. CASE FedMove
    <3>1. PICK s \in Subjects, value \in Values :
             Moves(s, NextSeverity(s, value), value, Crossed(s, NextSeverity(s, value)))
      BY <2>2 DEF FedMove
    <3> QED BY <2>1, <3>1, NextSeverityType DEF AllSubjects
  <2>3. CASE RuleMove BY <2>1, <2>3 DEF RuleMove, AllSubjects
  <2>4. CASE SilentMove
    BY <2>4 DEF SilentMove, ClearSubject, AlertTypeOK, Severities
  <2>5. CASE ThresholdMove BY <2>5 DEF ThresholdMove, ApplyThresholds, AlertTypeOK
  <2>6. CASE UNCHANGED alertVars BY <2>6 DEF alertVars, AlertTypeOK
  <2> QED BY <2>2, <2>3, <2>4, <2>5, <2>6, StepIsAlertStep DEF AlertStep
<1> QED BY <1>1, <1>2, PTL DEF PipelineSpec

-----------------------------------------------------------------------------
\* How a move changes the history, in the words the proofs below use: d events
\* were pushed out, the rest moved down, and the new event is last.
Shifted(d, event) ==
    /\ d \in {0, 1} /\ Len(history) \in Nat /\ Len(history') \in Nat
    /\ Len(history') = Len(history) + 1 - d
    /\ DOMAIN history = 1 .. Len(history) /\ DOMAIN history' = 1 .. Len(history')
    /\ \A i \in 1 .. Len(history') - 1 : history'[i] = history[i + d]
    /\ history'[Len(history')] = event

LEMMA MoveShifts ==
  ASSUME AlertTypeOK, NEW s, NEW next, NEW value, NEW threshold,
         Moves(s, next, value, threshold)
  PROVE  \E d \in {0, 1} : Shifted(d, Event(s, next, value, threshold))
<1>1. history' = Pushed(Event(s, next, value, threshold)) BY DEF Moves, Transition
<1>2. history \in Seq(Events) BY DEF AlertTypeOK
<1>3. Len(history) \in Nat /\ DOMAIN history = 1 .. Len(history) BY <1>2
<1>4. PICK d \in {0, 1} :
            /\ Len(history') = Len(history) + 1 - d
            /\ \A i \in 1 .. Len(history) - d : history'[i] = history[i + d]
            /\ history'[Len(history')] = Event(s, next, value, threshold)
            /\ DOMAIN history' = 1 .. Len(history')
  BY <1>1, PushedShape
<1>5. Len(history') \in Nat
  <2>1. Len(history) + 1 - d \in Nat BY <1>3
  <2> QED BY <1>4, <2>1
<1>6. Len(history') - 1 = Len(history) - d BY <1>3, <1>4
<1> QED BY <1>3, <1>4, <1>5, <1>6 DEF Shifted

\* Where the other events stand after the move.
LEMMA ShiftedBefore ==
  ASSUME NEW d, NEW event, Shifted(d, event),
         NEW i \in DOMAIN history', i # Len(history')
  PROVE  /\ i \in 1 .. Len(history') - 1 /\ i + d \in DOMAIN history
         /\ history'[i] = history[i + d]
         /\ IsLast(i)' => IsLast(i + d) /\ history'[i].subject # event.subject
         /\ \A j \in DOMAIN history' : j # Len(history') /\ Precedes(i, j)'
               => Precedes(i + d, j + d)
         /\ \A j \in DOMAIN history' : j = Len(history') /\ Precedes(i, j)'
               => IsLast(i + d) /\ history[i + d].subject = event.subject
<1> DEFINE n == Len(history)  np == Len(history')
<1>1. /\ n \in Nat /\ np \in Nat /\ d \in {0, 1} /\ np = n + 1 - d
      /\ \A k \in 1 .. np - 1 : history'[k] = history[k + d]
      /\ history'[np] = event
      /\ DOMAIN history = 1 .. n /\ DOMAIN history' = 1 .. np
  BY DEF Shifted
<1> HIDE DEF n, np
<1>2. i \in 1 .. np - 1 /\ i + d \in 1 .. n BY <1>1 DEF np
<1>3. history'[i] = history[i + d] BY <1>1, <1>2
<1>4. ASSUME IsLast(i)' PROVE IsLast(i + d) /\ history'[i].subject # event.subject
  <2>1. \A k \in i + 1 .. np : history'[k].subject # history'[i].subject
    BY <1>4 DEF IsLast, np
  <2>2. history'[i].subject # event.subject BY <1>1, <1>2, <2>1
  <2>3. ASSUME NEW k \in i + d + 1 .. n PROVE history[k].subject # history[i + d].subject
    <3>1. k - d \in i + 1 .. np - 1 /\ (k - d) + d = k BY <1>1, <1>2
    <3>2. history'[k - d] = history[k] BY <1>1, <1>2, <3>1
    <3>3. k - d \in i + 1 .. np BY <1>1, <1>2, <3>1
    <3> QED BY <1>3, <2>1, <3>2, <3>3
  <2> QED BY <2>2, <2>3 DEF IsLast, n
<1>5. ASSUME NEW j \in DOMAIN history', j # np, Precedes(i, j)' PROVE Precedes(i + d, j + d)
  <2>1. /\ i < j /\ history'[i].subject = history'[j].subject
        /\ \A k \in i + 1 .. j - 1 : history'[k].subject # history'[j].subject
    BY <1>5 DEF Precedes
  <2>2. j \in 1 .. np - 1 BY <1>1, <1>5
  <2>3. history'[j] = history[j + d] BY <1>1, <2>2
  <2>4. ASSUME NEW k \in (i + d) + 1 .. (j + d) - 1
        PROVE  history[k].subject # history[j + d].subject
    <3>0. /\ k \in Int /\ d \in Int /\ i \in Int /\ j \in Int /\ np \in Int
          /\ i + d + 1 <= k /\ k <= (j + d) - 1
      BY <1>1, <1>2, <2>2
    <3>1. k - d \in i + 1 .. j - 1 /\ k - d \in 1 .. np - 1 /\ (k - d) + d = k
      BY <1>2, <2>2, <3>0
    <3>2. history'[k - d] = history[k] BY <1>1, <3>1
    <3> QED BY <2>1, <2>3, <3>1, <3>2
  <2>5. i + d < j + d BY <1>1, <1>2, <2>1, <2>2
  <2>6. history[i + d].subject = history[j + d].subject BY <1>3, <2>1, <2>3
  <2> QED BY <2>4, <2>5, <2>6 DEF Precedes
<1>6. ASSUME NEW j \in DOMAIN history', j = np, Precedes(i, j)'
      PROVE  IsLast(i + d) /\ history[i + d].subject = event.subject
  <2>1. /\ history'[i].subject = event.subject
        /\ \A k \in i + 1 .. np - 1 : history'[k].subject # event.subject
    BY <1>1, <1>6 DEF Precedes
  <2>2. ASSUME NEW k \in i + d + 1 .. n PROVE history[k].subject # history[i + d].subject
    <3>1. k - d \in i + 1 .. np - 1 /\ k - d \in 1 .. np - 1 /\ (k - d) + d = k
      BY <1>1, <1>2
    <3>2. history'[k - d] = history[k] BY <1>1, <3>1
    <3> QED BY <1>3, <2>1, <3>1, <3>2
  <2> QED BY <1>3, <2>1, <2>2 DEF IsLast, n
<1> QED BY <1>1, <1>2, <1>3, <1>4, <1>5, <1>6 DEF n, np

\* The history part of the invariant: the list agrees with the active alerts, and
\* each event of a fed subject is on its side of the threshold it names.
Crossing(event) ==
    event.subject \in Subjects =>
        /\ event.value \in Int /\ event.threshold \in Int
        /\ event.severity # "Normal" => event.value >= event.threshold
        /\ event.severity = "Normal" => event.value < event.threshold
HistoryInv ==
    /\ ActiveMatchesHistory
    /\ RecoveryFollowsAlert
    /\ \A i \in DOMAIN history : Crossing(history[i])

\* One move preserves it: the new event carries the severity just stored, and
\* a recovery is only pushed when the stored severity was an alert.
LEMMA MoveKeepsHistory ==
  ASSUME AlertTypeOK, HistoryInv, NEW s \in AllSubjects, NEW next, NEW value, NEW threshold,
         Moves(s, next, value, threshold), Crossing(Event(s, next, value, threshold))
  PROVE  HistoryInv'
<1> DEFINE event == Event(s, next, value, threshold)
<1>1. PICK d \in {0, 1} : Shifted(d, event) BY MoveShifts
<1>2. /\ severity' = [severity EXCEPT ![s] = next] /\ severity[s] # next
      /\ severity \in [AllSubjects -> Severities]
  BY DEF Moves, Transition, Changes, AlertTypeOK
<1>3. event.subject = s /\ event.severity = next BY DEF Event
<1>4. /\ DOMAIN history' = 1 .. Len(history') /\ history'[Len(history')] = event
  BY <1>1 DEF Shifted
<1> HIDE DEF event
<1>5. \A k \in DOMAIN history : history[k].subject \in AllSubjects
  <2>1. \A k \in DOMAIN history : history[k] \in Events BY DEF AlertTypeOK
  <2> QED BY <2>1 DEF Events
<1>6. ASSUME NEW i \in DOMAIN history', IsLast(i)'
      PROVE  severity'[history'[i].subject] \in {"Normal", history'[i].severity}
  <2>1. CASE i = Len(history') BY <1>2, <1>3, <1>4, <2>1
  <2>2. CASE i # Len(history')
    <3>1. /\ i + d \in DOMAIN history /\ history'[i] = history[i + d]
          /\ IsLast(i + d) /\ history'[i].subject # s
      BY <1>1, <1>3, <1>6, <2>2, ShiftedBefore
    <3>2. severity[history[i + d].subject] \in {"Normal", history[i + d].severity}
      BY <3>1 DEF HistoryInv, ActiveMatchesHistory
    <3> QED BY <1>2, <1>5, <3>1, <3>2
  <2> QED BY <2>1, <2>2
<1>7. ASSUME NEW i \in DOMAIN history', NEW j \in DOMAIN history', Precedes(i, j)',
             history'[j].severity = "Normal"
      PROVE  history'[i].severity # "Normal"
  <2>1. i < j /\ i # Len(history')
    <3>1. i < j BY <1>7 DEF Precedes
    <3> QED BY <1>1, <1>4, <3>1 DEF Shifted
  <2>2. i + d \in DOMAIN history /\ history'[i] = history[i + d]
    BY <1>1, <2>1, ShiftedBefore
  <2>3. CASE j = Len(history')
    <3>1. IsLast(i + d) /\ history[i + d].subject = s
      BY <1>1, <1>3, <1>7, <2>1, <2>3, ShiftedBefore
    <3>2. severity[s] \in {"Normal", history[i + d].severity}
      BY <2>2, <3>1 DEF HistoryInv, ActiveMatchesHistory
    <3>3. severity[s] # "Normal" BY <1>2, <1>3, <1>4, <1>7, <2>3
    <3> QED BY <2>2, <3>2, <3>3
  <2>4. CASE j # Len(history')
    <3>1. /\ j + d \in DOMAIN history /\ history'[j] = history[j + d]
          /\ Precedes(i + d, j + d)
      BY <1>1, <1>7, <2>1, <2>4, ShiftedBefore
    <3> QED BY <1>7, <2>2, <3>1 DEF HistoryInv, RecoveryFollowsAlert
  <2> QED BY <2>3, <2>4
<1>8. ASSUME NEW i \in DOMAIN history' PROVE Crossing(history'[i])
  <2>1. CASE i = Len(history') BY <1>4, <2>1 DEF event
  <2>2. CASE i # Len(history')
    <3>1. i + d \in DOMAIN history /\ history'[i] = history[i + d]
      BY <1>1, <2>2, ShiftedBefore
    <3> QED BY <3>1 DEF HistoryInv
  <2> QED BY <2>1, <2>2
<1> QED BY <1>6, <1>7, <1>8 DEF HistoryInv, ActiveMatchesHistory, RecoveryFollowsAlert, Crossing

LEMMA HistoryInvariant == PipelineSpec => []HistoryInv
<1>1. PipelineInit => HistoryInv
  <2> SUFFICES ASSUME PipelineInit PROVE HistoryInv
    OBVIOUS
  <2>1. DOMAIN history = {} BY DEF PipelineInit, AlertInit
  <2> QED BY <2>1 DEF HistoryInv, ActiveMatchesHistory, RecoveryFollowsAlert
<1>2. AlertTypeOK /\ HistoryInv /\ [PipelineNext]_pipelineVars => HistoryInv'
  <2> SUFFICES ASSUME AlertTypeOK, HistoryInv, [PipelineNext]_pipelineVars PROVE HistoryInv'
    OBVIOUS
  <2>1. CASE FedMove
    <3>1. PICK s \in Subjects, value \in Values :
             Moves(s, NextSeverity(s, value), value, Crossed(s, NextSeverity(s, value)))
      BY <2>1 DEF FedMove
    <3> DEFINE next == NextSeverity(s, value)
    <3>2. next # severity[s] BY <3>1 DEF Moves, Changes
    <3>3. value \in Int BY AlertConstants
    <3>4. /\ Critical(s) \in Int /\ Recovery(s) \in Int
          /\ thresholds[TypeOf[s]].warning \in Int
      BY ThresholdFacts
    <3>5. \/ next = "Critical" /\ value >= Critical(s)
          \/ next = "Warning" /\ value >= thresholds[TypeOf[s]].warning
          \/ next = "Normal" /\ value < Recovery(s)
      BY <3>2, <3>3, <3>4 DEF NextSeverity
    <3>6. Crossing(Event(s, next, value, Crossed(s, next)))
      <4> HIDE DEF next
      <4>1. CASE next = "Critical" BY <3>3, <3>4, <3>5, <4>1 DEF Crossing, Event, Crossed
      <4>2. CASE next = "Warning" BY <3>3, <3>4, <3>5, <4>2 DEF Crossing, Event, Crossed
      <4>3. CASE next = "Normal" BY <3>3, <3>4, <3>5, <4>3 DEF Crossing, Event, Crossed
      <4> QED BY <3>5, <4>1, <4>2, <4>3
    <3>7. s \in AllSubjects BY DEF AllSubjects
    <3> QED BY <3>1, <3>6, <3>7, MoveKeepsHistory
  <2>2. CASE RuleMove
    <3>1. PICK s \in RuleSubjects, sev \in Severities : Moves(s, sev, 0, 0)
      BY <2>2 DEF RuleMove
    <3>2. s \in AllSubjects /\ s \notin Subjects BY AlertConstants DEF AllSubjects
    <3>3. Crossing(Event(s, sev, 0, 0)) BY <3>2 DEF Crossing, Event
    <3> QED BY <3>1, <3>2, <3>3, MoveKeepsHistory
  <2>3. CASE SilentMove
    <3>1. PICK s \in RuleSubjects : ClearSubject(s) BY <2>3 DEF SilentMove
    <3>2. history' = history /\ severity' = [severity EXCEPT ![s] = "Normal"]
      BY <3>1 DEF ClearSubject
    <3>3. severity \in [AllSubjects -> Severities] BY DEF AlertTypeOK
    <3>4. \A x \in AllSubjects : severity'[x] \in {"Normal", severity[x]} BY <3>2, <3>3
    <3>5. \A k \in DOMAIN history : history[k].subject \in AllSubjects
      <4>1. \A k \in DOMAIN history : history[k] \in Events BY DEF AlertTypeOK
      <4> QED BY <4>1 DEF Events
    <3>6. ActiveMatchesHistory'
      <4> SUFFICES ASSUME NEW i \in DOMAIN history, IsLast(i)
                   PROVE  severity'[history[i].subject] \in {"Normal", history[i].severity}
        BY <3>2 DEF ActiveMatchesHistory, IsLast
      <4>1. severity[history[i].subject] \in {"Normal", history[i].severity}
        BY DEF HistoryInv, ActiveMatchesHistory
      <4> QED BY <3>4, <3>5, <4>1
    <3>7. RecoveryFollowsAlert'
      BY <3>2 DEF HistoryInv, RecoveryFollowsAlert, Precedes
    <3> QED BY <3>2, <3>6, <3>7 DEF HistoryInv, Crossing
  <2>4. CASE ThresholdMove \/ UNCHANGED alertVars
    <3>1. UNCHANGED <<severity, history>>
      BY <2>4 DEF ThresholdMove, ApplyThresholds, alertVars
    <3> QED BY <3>1 DEF HistoryInv, ActiveMatchesHistory, IsLast, RecoveryFollowsAlert,
                        Precedes, Crossing
  <2> QED BY <2>1, <2>2, <2>3, <2>4, StepIsAlertStep DEF AlertStep
<1> QED BY <1>1, <1>2, AlertTypes, PTL DEF PipelineSpec

\* The recent list never contradicts the active list.
THEOREM ListsAgree == PipelineSpec => []ActiveMatchesHistory
BY HistoryInvariant, PTL DEF HistoryInv

\* A recovery follows an alert of its subject, once.
THEOREM RecoveryAfterAlert == PipelineSpec => []RecoveryFollowsAlert
BY HistoryInvariant, PTL DEF HistoryInv

\* An alert and its recovery are more than the hysteresis band apart.
THEOREM HysteresisHolds == PipelineSpec => []HysteresisSeparates
<1>1. AlertTypeOK /\ HistoryInv => HysteresisSeparates
  <2> SUFFICES ASSUME AlertTypeOK, HistoryInv,
                      NEW i \in DOMAIN history, NEW j \in DOMAIN history, NEW c \in Configs,
                      Precedes(i, j), history[i].subject \in Subjects,
                      history[i].severity # "Normal", history[j].severity = "Normal",
                      history[i].threshold \in {c.warning, c.critical},
                      history[j].threshold = c.recovery
               PROVE  history[i].value - history[j].value > c.warning - c.recovery
    BY DEF HysteresisSeparates
  <2>1. history[j].subject \in Subjects BY DEF Precedes
  <2>2. /\ history[i].value \in Int /\ history[i].threshold \in Int
        /\ history[j].value \in Int /\ history[j].threshold \in Int
        /\ history[i].value >= history[i].threshold
        /\ history[j].value < history[j].threshold
    BY <2>1 DEF HistoryInv, Crossing
  <2>3. /\ c.warning \in Int /\ c.critical \in Int /\ c.recovery \in Int
        /\ c.warning < c.critical
    BY AlertConstants
  <2> QED BY <2>2, <2>3
<1> QED BY <1>1, AlertTypes, HistoryInvariant, PTL

-----------------------------------------------------------------------------
\* What the manager knows of the desktop while its handle is good: the id of every
\* popup on screen, and the time of every popup sent within the cooldown.
DesktopInv ==
    /\ popups \in [Sources -> {0, 1}] /\ heard \in [Sources -> {0, 1}]
    /\ bus \in BOOLEAN
    /\ \A k \in Sources : popups[k] = 1 => k \in live
    /\ bus => \A k \in Sources : k \in live => k \in ids
    /\ bus => \A k \in Sources : heard[k] = 1 => k \in last_sent

LEMMA NotifyKeepsDesktop ==
  ASSUME DesktopInv, NEW k \in Sources, NEW kind, Notify(k, kind)
  PROVE  DesktopInv'
<1>1. CASE ~Sends(k, kind) /\ UNCHANGED notifyVars
  BY <1>1 DEF DesktopInv, notifyVars
<1>2. CASE Sends(k, kind) /\ daemon /\ (Delivered(k) \/ CallTimesOut(k))
  <2>1. bus /\ k \notin last_sent BY <1>2 DEF Sends, InCooldown
  <2>2. Displayed(k) BY <1>2 DEF Delivered, CallTimesOut
  <2>3. popups' \in [Sources -> {0, 1}] /\ \A j \in Sources : popups'[j] = 1 => j \in live'
    BY <2>1, <2>2 DEF Displayed, Replaces, DesktopInv
  <2>4. heard[k] = 0 BY <2>1 DEF DesktopInv
  <2>5. heard' \in [Sources -> {0, 1}] /\ \A j \in Sources \ {k} : heard'[j] = heard[j]
    BY <2>2, <2>4 DEF Displayed, DesktopInv
  <2>6. CASE Delivered(k)
    BY <2>1, <2>2, <2>3, <2>5, <2>6 DEF Delivered, KeepsId, Sent, Displayed, DesktopInv
  <2>7. CASE CallTimesOut(k)
    BY <2>3, <2>5, <2>7 DEF CallTimesOut, DropsHandle, DesktopInv
  <2> QED BY <1>2, <2>6, <2>7
<1>3. CASE Sends(k, kind) /\ ~daemon /\ CallFails
  BY <1>3 DEF CallFails, DropsHandle, DesktopInv
<1> QED BY <1>1, <1>2, <1>3 DEF Notify

LEMMA DesktopInvariant == PipelineSpec => []DesktopInv
<1>1. PipelineInit => DesktopInv BY DEF PipelineInit, NotifyInit, DesktopInv
<1>2. DesktopInv /\ [PipelineNext]_pipelineVars => DesktopInv'
  <2> SUFFICES ASSUME DesktopInv, [PipelineNext]_pipelineVars PROVE DesktopInv'
    OBVIOUS
  <2>1. CASE UNCHANGED notifyVars BY <2>1 DEF DesktopInv, notifyVars
  <2>2. ASSUME NEW s \in Sources, \E kind : Notify(s, kind) PROVE DesktopInv'
    BY <2>2, NotifyKeepsDesktop
  <2>3. ASSUME NEW s \in Subjects, NEW v \in Values, Feed(s, v) PROVE DesktopInv'
    BY <2>2, <2>3, SourcesAssumption DEF Feed, AllSubjects
  <2>4. ASSUME NEW s \in RuleSubjects, NEW sev \in Severities, RuleTransition(s, sev)
        PROVE  DesktopInv'
    BY <2>1, <2>2, <2>4, SourcesAssumption DEF RuleTransition, AllSubjects
  <2>5. ASSUME NEW s \in RuleSubjects, RuleRepeats(s) \/ ClearsRule(s) PROVE DesktopInv'
    BY <2>1, <2>2, <2>5, SourcesAssumption DEF RuleRepeats, ClearsRule, AllSubjects
  <2>6. CASE UNCHANGED pipelineVars BY <2>1, <2>6 DEF pipelineVars
  <2>7. CASE SettingsChange
    BY <2>1, <2>7 DEF SettingsChange, ApplyNotificationSettings, DesktopInv
  <2>8. CASE DesktopChanges
    <3>1. CASE DaemonStopsOrStarts BY <3>1 DEF DaemonStopsOrStarts, DesktopInv
    <3>2. ASSUME NEW k \in Sources, PopupsCloseFor(k) PROVE DesktopInv'
      BY <3>2 DEF PopupsCloseFor, DesktopInv
    <3>3. ASSUME NEW k \in Sources, CooldownElapses(k) PROVE DesktopInv'
      BY <3>3 DEF CooldownElapses, DesktopInv
    <3> QED BY <2>8, <3>1, <3>2, <3>3 DEF DesktopChanges, DesktopNext
  <2> QED BY <2>3, <2>4, <2>5, <2>6, <2>7, <2>8 DEF PipelineNext
<1> QED BY <1>1, <1>2, PTL DEF PipelineSpec

\* However popups are closed and events repeat, a source has one popup at most.
THEOREM OnePopup == PipelineSpec => []OnePopupPerSource
<1>1. DesktopInv => OnePopupPerSource
  BY SourcesAssumption DEF DesktopInv, OnePopupPerSource
<1> QED BY <1>1, DesktopInvariant, PTL

\* The daemon hears of a source at most once per cooldown.
THEOREM CooldownRespected == PipelineSpec => []OncePerCooldown
<1>1. DesktopInv => OncePerCooldown
  BY SourcesAssumption DEF DesktopInv, OncePerCooldown
<1> QED BY <1>1, DesktopInvariant, PTL
=============================================================================
