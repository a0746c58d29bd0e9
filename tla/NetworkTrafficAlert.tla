------------------------ MODULE NetworkTrafficAlert ------------------------
(***************************************************************************)
(* NetworkTrafficAlertMonitor (network_traffic_alert.cpp): one state       *)
(* machine per rule, run over the last tick of NetworkTrafficHistory once  *)
(* per refresh.  A breach confirmed by samples or by its duration is       *)
(* recorded in the AlertManager under the interface's name and announced   *)
(* under the rule's own policy.  Rules monitor one metric here: rules on   *)
(* other metrics share neither states nor subjects.                        *)
(***************************************************************************)
EXTENDS Integers, Sequences, FiniteSets, TLC, SequencesExt

CONSTANTS
    Targets,    \* stable identities of interfaces
    Names,      \* interface names; every identity starts with FirstName
    FirstName,
    Rates,      \* rates a refresh may measure
    RuleSets,   \* rule lists the settings page may set
    Elapsed,    \* time units between two refreshes
    MaxAge,     \* bound on remembered times, above every duration and cooldown
    MaxEdits,   \* bound: calls of setRules
    CanVanish, CanRename

Rule == [target : Targets, threshold : Rates, mode : {"Samples", "Duration"},
         hold : Nat, notify : BOOLEAN, cooldown : Nat, repeat : BOOLEAN,
         severity : {"Warning", "Critical"}, enabled : BOOLEAN]

ASSUME TrafficAlertConstants ==
    /\ Rates \subseteq Nat /\ FirstName \in [Targets -> Names]
    /\ \A R \in RuleSets :
          /\ R \in Seq(Rule)
          \* clampAndFix drops a second rule of a target and type
          /\ \A j, k \in DOMAIN R : R[j].target = R[k].target => j = k
    /\ Elapsed \subseteq Nat /\ MaxAge \in Nat /\ MaxEdits \in Nat
    /\ CanVanish \in BOOLEAN /\ CanRename \in BOOLEAN

Severities == {"Normal", "Warning", "Critical"}
NoRate == -1   \* std::nullopt
Never == -1    \* std::nullopt
NoName == "none"

VARIABLES
    present,  \* interfaces of the last snapshot
    name,     \* external: their present names
    tick,     \* last_tick_: [rate, name] of each identity ever recorded
    rules,    \* rules_
    states,   \* states_: identity -> RuleRuntime
    statuses, \* statuses_
    active,   \* AlertManager: severity of the subject of each name
    pushed,   \* <<identity, severity>> handed to the sink by the last evaluate()
    above,    \* ghost: consecutive measured samples at or over the threshold
    edits,    \* calls of setRules so far
    beat      \* parity of the refreshes: a refresh that changes nothing else
              \* is still a step

vars == <<present, name, tick, rules, states, statuses, active, pushed, above, edits,
          beat>>

Nothing == [k \in {} |-> 0]

Init ==
    /\ present \in SUBSET Targets /\ name = FirstName /\ tick = Nothing
    /\ rules \in RuleSets /\ states = Nothing /\ statuses = << >>
    /\ active = [n \in Names |-> "Normal"] /\ pushed = {}
    /\ above = [i \in Targets |-> 0] /\ edits = 0 /\ beat = 0

-----------------------------------------------------------------------------
Fresh == [confirmed |-> FALSE, count |-> 0, streak |-> Never,
          emission |-> Never, source |-> NoName]

Older(time, dt) == IF time = Never \/ time + dt > MaxAge THEN time ELSE time + dt
Aged(run, dt) ==
    [k \in DOMAIN run |-> [run[k] EXCEPT !.streak = Older(@, dt), !.emission = Older(@, dt)]]

\* clearSubject for a confirmed episode, under the name it was recorded with.
Cleared(subjects, rt) ==
    IF rt.confirmed THEN [subjects EXCEPT ![rt.source] = "Normal"] ELSE subjects

\* st is what evaluate() has done so far: run, active, pushed and statuses.
Runtime(st, k) == IF k \in DOMAIN st.run THEN st.run[k] ELSE Fresh

With(run, k, rt) == [j \in DOMAIN run \cup {k} |-> IF j = k THEN rt ELSE run[j]]
Without(run, k) == [j \in DOMAIN run \ {k} |-> run[j]]

Report(st, k, rt, status) ==
    [st EXCEPT !.run = With(@, k, rt), !.statuses = Append(@, status)]

Forget(st, k, status) ==
    [st EXCEPT !.run = Without(@, k),
               !.active = Cleared(@, Runtime(st, k)),
               !.statuses = Append(@, status)]

\* emitToCentral and emitNotification
Emit(st, rule, severity, source) ==
    [st EXCEPT !.active[source] = severity,
               !.pushed = IF rule.notify THEN @ \cup {<<rule.target, severity>>} ELSE @]

Violated(rt, rule) ==
    IF rule.mode = "Samples"
    THEN [rt EXCEPT !.count = @ + 1, !.streak = Never]
    ELSE [rt EXCEPT !.count = 0, !.streak = IF @ = Never THEN 0 ELSE @]

Ripe(rt, rule) ==
    IF rule.mode = "Samples" THEN rt.count >= rule.hold ELSE rt.streak >= rule.hold

Unconfirmed(st, rule, rt, rate, source) ==
    LET next == Violated(rt, rule)
        k == rule.target
    IN  IF rate < rule.threshold
        THEN Report(st, k, [rt EXCEPT !.count = 0, !.streak = Never], "Below")
        ELSE IF ~Ripe(next, rule) THEN Report(st, k, next, "Pending")
        ELSE Report(Emit(st, rule, rule.severity, source), k,
                    [next EXCEPT !.confirmed = TRUE, !.source = source,
                                 !.emission = IF rule.notify THEN 0 ELSE @],
                    "Exceeded")

\* Recovery below 0.9 of the threshold.
BelowNothing(rate, rule) == 10 * rate < 0
BelowThreshold(rate, rule) == rate < rule.threshold
BelowFloor(rate, rule) == 10 * rate < 9 * rule.threshold

Cooling(rt, rule) ==
    rule.notify /\ rule.cooldown > 0 /\ rt.emission # Never /\ rt.emission < rule.cooldown

Confirmed(st, rule, rt, rate, source) ==
    LET k == rule.target
    IN  IF BelowFloor(rate, rule)
        THEN Report(Emit(st, rule, "Normal", source), k,
                    [Fresh EXCEPT !.source = rt.source], "Recovered")
        ELSE IF rate < rule.threshold \/ ~rule.repeat \/ ~rule.notify
        THEN Report(st, k, rt, "Exceeded")
        ELSE IF Cooling(rt, rule) THEN Report(st, k, rt, "Cooldown")
        ELSE Report([st EXCEPT !.pushed = @ \cup {<<k, rule.severity>>}], k,
                    [rt EXCEPT !.emission = 0], "Exceeded")

Evaluated(st, rule, now) ==
    LET k == rule.target
        rt == Runtime(st, k)
    IN  IF ~rule.enabled THEN Forget(st, k, "Disabled")
        ELSE IF k \notin DOMAIN now THEN Forget(st, k, "InterfaceUnavailable")
        ELSE IF now[k].rate = NoRate
        THEN Report(st, k, rt, IF rt.confirmed THEN "Exceeded" ELSE "WaitingForBaseline")
        ELSE IF rt.confirmed THEN Confirmed(st, rule, rt, now[k].rate, now[k].name)
        ELSE Unconfirmed(st, rule, rt, now[k].rate, now[k].name)

\* The rules, one after the other.
Evaluation(begin, now) ==
    LET st[k \in 0 .. Len(rules)] ==
            IF k = 0 THEN begin ELSE Evaluated(st[k - 1], rules[k], now)
    IN  st[Len(rules)]

\* record(): every identity of the snapshot is overwritten, none is dropped.
Recorded(measured, called) ==
    [i \in DOMAIN measured \cup DOMAIN tick |->
        IF i \in DOMAIN measured THEN [rate |-> measured[i], name |-> called[i]] ELSE tick[i]]

RuleOn(i) == {rules[j] : j \in {k \in DOMAIN rules : rules[k].target = i}}

\* main loop: record() and evaluate() of one refresh.
Refresh ==
    \E seen \in IF CanVanish THEN SUBSET Targets ELSE {present},
       called \in IF CanRename THEN [Targets -> Names] ELSE {name},
       dt \in Elapsed :
    \E measured \in [seen -> Rates \cup {NoRate}] :
        LET now == Recorded(measured, called)
            end == Evaluation([run |-> Aged(states, dt), active |-> active,
                               pushed |-> {}, statuses |-> << >>], now)
        IN  /\ \A i, j \in seen : called[i] = called[j] => i = j
            /\ present' = seen /\ name' = called /\ tick' = now
            /\ states' = end.run /\ active' = end.active
            /\ pushed' = end.pushed /\ statuses' = end.statuses
            /\ above' = [i \in Targets |->
                  IF i \notin seen \/ RuleOn(i) = {} THEN 0
                  ELSE IF measured[i] = NoRate THEN above[i]
                  ELSE IF \E rule \in RuleOn(i) : measured[i] >= rule.threshold
                  THEN IF above[i] > MaxAge THEN above[i] ELSE above[i] + 1 ELSE 0]
            /\ beat' = 1 - beat
            /\ UNCHANGED <<rules, edits>>

\* setRules, each time the settings page is left: the subjects of confirmed
\* episodes are cleared, under the name they were recorded with.
NoEpisode(n) == FALSE
HasEpisode(n) ==
    \E rule \in ToSet(rules) :
        /\ rule.target \in DOMAIN states
        /\ states[rule.target].confirmed /\ states[rule.target].source = n

SetRules(next) ==
    /\ edits < MaxEdits /\ edits' = edits + 1
    /\ active' = [n \in Names |-> IF HasEpisode(n) THEN "Normal" ELSE active[n]]
    /\ rules' = next /\ states' = Nothing /\ statuses' = << >>
    /\ above' = [i \in Targets |-> 0]
    /\ UNCHANGED <<present, name, tick, pushed, beat>>

Next ==
    \/ Refresh
    \/ \E next \in RuleSets : SetRules(next)

Spec == Init /\ [][Next]_vars

\* The main loop refreshes for ever.
FairSpec == Spec /\ WF_vars(Refresh)

-----------------------------------------------------------------------------
InEpisode(i) == i \in DOMAIN states /\ states[i].confirmed

\* The active alerts are the confirmed episodes, under the names they were
\* recorded with: rule edits, disabled rules, gaps in the measurement and
\* recoveries leave no phantom alert and lose none.  Names do not change here.
DashboardShowsEpisodes ==
    \A n \in Names :
        active[n] # "Normal" <=> \E i \in Targets : InEpisode(i) /\ states[i].source = n

Raises(i) == ~InEpisode(i) /\ InEpisode(i)'

Alerted(i) == \E sev \in {"Warning", "Critical"} : <<i, sev>> \in pushed

\* What a step may do to the episode of one interface.
EpisodeStep(i) ==
    /\ Raises(i) => \A rule \in RuleOn(i) : rule.mode = "Samples" => above'[i] >= rule.hold
    /\ InEpisode(i) /\ edits' = edits =>
          \A rule \in RuleOn(i) :
             /\ ~InEpisode(i)' =>
                   tick'[i].rate # NoRate /\ 10 * tick'[i].rate < 9 * rule.threshold
             /\ Alerted(i) /\ Alerted(i)' => rule.cooldown <= 1

\* Episodes are what was measured, and steady.  Under a Samples rule one starts only after
\* as many measured violations in a row as the rule asks for, where a window without a rate
\* neither counts nor breaks the run.  Unless the user edits the rules, it ends only by a
\* measured rate under the recovery floor, and its announcements are never less than the
\* rule's cooldown apart (no two in consecutive refreshes when that is longer than one).
EpisodesAreMeasured == [][\A i \in Targets : EpisodeStep(i)]_vars

Measures(i, test(_)) ==
    /\ i \in present /\ i \in DOMAIN tick /\ tick[i].rate # NoRate
    /\ \E rule \in RuleOn(i) : rule.enabled /\ test(rule)

\* A breach that is measured in every refresh is raised, in both modes, and a
\* rate that stays under the floor ends its episode.
EpisodesFollowRates ==
    \A i \in Targets :
        /\ <>[](Measures(i, LAMBDA rule : tick[i].rate >= rule.threshold))
           => <>[](InEpisode(i))
        /\ <>[](Measures(i, LAMBDA rule : 10 * tick[i].rate < 9 * rule.threshold))
           => <>[](~InEpisode(i) /\ active[FirstName[i]] = "Normal")

\* Violated.  "A missing interface or an unmeasurable metric never trips an
\* alert" (network_traffic_alert.hpp:218): the last rate of an interface that is
\* gone stays in the tick and is counted again in every refresh.
MissingNeverTrips == [][\A i \in Targets : Raises(i) => i \in present']_vars

\* Violated.  "so the dashboard never shows an active alert for a rule that no
\* longer exists" (network_traffic_alert.cpp:666): an interface renamed in an
\* episode recovers under its new name; the alert of the old name stays.
NoAlertWithoutRule == rules = << >> => \A n \in Names : active[n] = "Normal"
=============================================================================
